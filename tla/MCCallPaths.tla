---------------------------- MODULE MCCallPaths ----------------------------
EXTENDS CallDiscipline, TextCalls, ItemCalls, CertificateCalls, NameCalls, Pk11Calls, ExtensionCalls, InitCalls, ModuleCalls, SslCalls, ErrorCalls
MCBody == TextBody @@ ItemBody @@ CertificateBody @@ NameBody @@ Pk11Body @@ ExtensionBody @@ InitBody @@ ModuleBody @@ IoBody @@ SslBody @@ ErrorBody
Type(new, calls, dealloc, held) ==
  [new |-> new, calls |-> calls, dealloc |-> dealloc, fields |-> held]
MCObjects ==
  [ SecItem |-> Type("SecItem_new", {"SecItem_init", "SecItem_init_from_data"}, "SecItem_dealloc", {"data"}),
    KEYPQGParams |-> Type("KEYPQGParams_new", {"KEYPQGParams_init", "KEYPQGParams_init_from_SECKEYPQGParams"},
       "KEYPQGParams_dealloc", {"arena", "prime", "subPrime", "base"}),
    SignedData |-> Type("SignedData_new", {}, "SignedData_dealloc", {"arena", "py_der", "py_data", "py_algorithm", "py_signature"}),
    Certificate |-> Type("Certificate_new", {"Certificate_init"}, "Certificate_dealloc", {"cert"}),
    AVA |-> Type("AVA_new", {"AVA_init"}, "AVA_dealloc", {"arena"}),
    RDN |-> Type("RDN_new", {"RDN_init"}, "RDN_dealloc", {"arena"}),
    DN |-> Type("DN_new", {"DN_init"}, "DN_dealloc", {"arena"}),
    GeneralName |-> Type("GeneralName_new", {"GeneralName_init"}, "GeneralName_dealloc", {"arena"}),
    CRLDistributionPt |-> Type("CRLDistributionPt_new", {}, "CRLDistributionPt_dealloc", {"arena"}),
    AuthorityInfoAccess |-> Type("AuthorityInfoAccess_new", {}, "AuthorityInfoAccess_dealloc", {"arena"}),
    AuthKeyID |-> Type("AuthKeyID_new", {"AuthKeyID_init"}, "AuthKeyID_dealloc", {"arena"}),
    CertAttribute |-> Type("CertAttribute_new", {}, "CertAttribute_dealloc", {"arena"}),
    CertificateRequest |-> Type("CertificateRequest_new", {"CertificateRequest_init"}, "CertificateRequest_dealloc", {"arena"}),
    CRLDistributionPts |-> Type("CRLDistributionPts_new", {"CRLDistributionPts_init", "CRLDistributionPts_init_from_SECItem"}, "CRLDistributionPts_dealloc", {"parts"}),
    AuthorityInfoAccesses |-> Type("AuthorityInfoAccesses_new", {"AuthorityInfoAccesses_init", "AuthorityInfoAccesses_init_from_SECItem"}, "AuthorityInfoAccesses_dealloc", {"parts"}),
    InitParameters |-> Type("InitParameters_new", {"InitParameters_init", "InitParameters_set_manufacturer_id",
      "InitParameters_set_library_description", "InitParameters_set_crypto_token_description", "InitParameters_set_db_token_description",
      "InitParameters_set_fips_token_description", "InitParameters_set_crypto_slot_description", "InitParameters_set_db_slot_description",
      "InitParameters_set_fips_slot_description"}, "InitParameters_dealloc", Texts),
    CertVerifyLogNode |-> Type("CertVerifyLogNode_new", {}, "CertVerifyLogNode_dealloc", {"cert"}),
    CertVerifyLog |-> Type("CertVerifyLog_new", {}, "CertVerifyLog_dealloc", {"arena"}),
    PKCS12DecodeItem |-> Type("PKCS12DecodeItem_new", {"PKCS12DecodeItem_init"}, "PKCS12DecodeItem_dealloc",
       {"py_signed_cert_der", "py_cert", "py_friendly_name", "py_shroud_algorithm_id"}),
    PKCS12Decoder |-> Type("PKCS12Decoder_new", {"PKCS12Decoder_init"}, "PKCS12Decoder_dealloc",
       {"ucs2_password_item", "decoder_ctx", "py_decode_items"}),
    NetworkAddress |-> Type("NetworkAddress_new", {"NetworkAddress_init", "NetworkAddress_set_from_string",
      "NetworkAddress_init_from_address_string"}, "NetworkAddress_dealloc", {"py_hostname", "py_hostentry"}),
    AddrInfo |-> Type("AddrInfo_new", {"AddrInfo_init"}, "AddrInfo_dealloc",
       {"pr_addrinfo", "py_hostname", "py_canonical_name", "py_netaddrs"}),
    HostEntry |-> Type("HostEntry_new", {"HostEntry_init"}, "HostEntry_dealloc", {"py_aliases", "py_netaddrs"}),
    Socket |-> Type("Socket_new", {"Socket_init", "Socket_connect", "Socket_bind", "Socket_send_to", "Socket_recv_from",
      "Socket_close", "Socket_read"}, "Socket_dealloc", {"pr_socket", "py_netaddr", "readahead"}),
    SSLSocket |-> Type("SSLSocket_new", {"SSLSocket_init", "SSLSocket_set_auth_certificate_callback",
      "SSLSocket_set_client_auth_data_callback", "SSLSocket_set_handshake_callback", "SSLSocket_set_pkcs11_pin_arg"},
      "SSLSocket_dealloc", Hooks \cup {"py_pk11_pin_args", "pr_socket"}),
    NSPRError |-> Type("BaseException_new", {"NSPRError_init"}, "NSPRError_dealloc", {"str", "desc"}),
    CertVerifyError |-> Type("BaseException_new", {"CertVerifyError_init"}, "CertVerifyError_dealloc", {"str", "desc", "log"})
   ]
(* What the functions are known to do wrong.  The FMT macros append a line *)
(* and keep their own reference to it, in every function that uses them;   *)
(* so does APPEND_LINES with the items of a sequence.                      *)
LinesKept ==
  { "AlgorithmID_format_lines", "AuthKeyID_format_lines",
    "AuthorityInfoAccess_format_lines", "AuthorityInfoAccesses_format_lines",
    "BasicConstraints_format_lines", "CRLDistributionPt_format_lines",
    "CRLDistributionPts_format_lines", "CertAttribute_format_lines",
    "CertVerifyLogNodeError_format_lines", "CertVerifyLogNode_format_lines",
    "CertVerifyLog_format_lines", "CertificateExtension_format_lines",
    "CertificateRequest_format_lines", "Certificate_format_lines",
    "Certificate_summary_format_lines", "DSAPublicKey_format_lines",
    "InitParameters_format_lines", "KDF2Params_format_lines",
    "KEYPQGParams_format_lines", "PBEParams_format_lines",
    "PK11Slot_format_lines", "PK11SymKey_format_lines",
    "PKCS12DecodeItem_format_lines", "PKCS12Decoder_format_lines",
    "PKCS5V2Params_format_lines", "PublicKey_format_lines",
    "RSAPSSParams_format_lines", "RSAPublicKey_format_lines",
    "SSLChannelInformation_format_lines",
    "SSLCipherSuiteInformation_format_lines",
    "SSLSocket_connection_info_format_lines", "SecItem_format_lines",
    "SignedData_format_lines", "SubjectPublicKeyInfo_format_lines",
    "cert_der_universal_secitem_fmt_lines", "fingerprint_format_lines",
    "secitem_integer_format_lines" }
ItemsKept ==
  { "AlgorithmID_format_lines", "AuthKeyID_format_lines",
    "CRLDistributionPt_format_lines", "CertificateExtension_format_lines",
    "Certificate_format_lines", "PK11SymKey_format_lines",
    "SSLChannelInformation_format_lines", "SecItem_format_lines",
    "SignedData_format_lines", "cert_der_universal_secitem_fmt_lines",
    "fingerprint_format_lines", "secitem_integer_format_lines" }
MoreKept ==
  [ AVA_new_from_CERTAVA |-> {"type", "value"},
    AddrInfo_init |-> {"hostname", "pr_addrinfo", "py_canonical_name", "py_hostname", "py_netaddrs"},
    AlgorithmID_format_lines |-> {"hex_lines"},
    AlgorithmID_get_pbe_crypto_mechanism |-> {"py_params"},
    AuthKeyID_format_lines |-> {"hex_lines"},
    CERTName_get_matching_tag_list |-> {"py_rdn"},
    CERTRDN_get_matching_tag_list |-> {"py_ava"},
    CERTRDN_to_pystr |-> {"result"},
    CertAttribute_new_from_CERTAttribute |-> {"self"},
    CertDB_find_crl_by_cert |-> {"signed_crl"},
    CertDB_find_crl_by_name |-> {"signed_crl"},
    CertVerifyError_init |-> {"code", "error_message", "super_kwds"},
    CertificateExtension_format_lines |-> {"obj"},
    Certificate_init |-> {"cert", "data_param"},
    Certificate_new_from_CERTCertificate |-> {"self"},
    Certificate_set_trust_attributes |-> {"slot"},
    Certificate_verify_with_log |-> {"py_log"}, DN_init |-> {"name_utf8"},
    HostEntry_init |-> {"py_aliases", "py_netaddrs"},
    KDF2Params_format_lines |-> {"arena"},
    KEYPQGParams_init |-> {"prime_param", "subprime_param"},
    NSPRError_init |-> {"error_desc", "error_message", "str_value"},
    NetworkAddress_set_from_string |-> {"addr"},
    PBEParams_format_lines |-> {"arena"},
    PK11Context_clone_context |-> {"pk11_context"},
    PK11Slot_generate_key_pair |-> {"priv_key", "pub_key", "py_priv_key", "py_pub_key"},
    PK11Slot_key_gen |-> {"sym_key"}, PK11Slot_pbe_key_gen |-> {"sym_key"},
    PK11SymKey_derive |-> {"derived_key"},
    PK11SymKey_format_lines |-> {"error_traceback", "error_type", "error_value", "hex_lines"},
    PK11SymKey_unwrap_sym_key |-> {"sym_key"},
    PKCS12Decoder_format_lines |-> {"msg"},
    PKCS12Decoder_init |-> {"decoder_ctx", "py_decode_items", "slot", "ucs2_password_item"},
    PKCS12_nickname_collision_callback |-> {"gstate", "py_cert", "py_old_nickname"},
    PKCS5V2Params_format_lines |-> {"arena"},
    PyInit_error |-> {"capsule", "m", "py_error_doc"},
    PyInit_io |-> {"capsule", "m"}, PyInit_nss |-> {"capsule", "m"},
    PyInit_ssl |-> {"capsule", "m"}, RSAPSSParams_format_lines |-> {"arena"},
    SSLSocket_accept |-> {"accepted"},
    SSLSocket_connection_info_format_lines |-> {"lines"},
    SSLSocket_dealloc |-> {"pr_socket"},
    SSLSocket_get_certificate |-> {"cert"},
    SSLSocket_get_peer_certificate |-> {"cert"},
    SSLVersionRange_to_tuple |-> {"py_min"},
    SecItem_format_lines |-> {"hex_lines"}, SecItem_init |-> {"data"},
    SecItem_init_from_data |-> {"data"},
    SignedData_format_lines |-> {"hex_lines"}, Socket_accept |-> {"accepted"},
    Socket_accept_read |-> {"accepted"}, Socket_dealloc |-> {"pr_socket"},
    Socket_read |-> {"readahead"},
    SubjectPublicKeyInfo_format_lines |-> {"obj"},
    cert_decode_der_crl |-> {"signed_crl"},
    cert_der_universal_secitem_fmt_lines |-> {"bits", "obj"},
    cert_get_cert_nicknames |-> {"py_nicknames"},
    cert_set_ocsp_default_responder |-> {"py_nickname_utf8", "py_url_utf8"},
    der_set_or_str_secitem_to_pylist_of_pystr |-> {"py_item"},
    der_universal_secitem_to_pystr |-> {"bits"},
    fingerprint_format_lines |-> {"hex_lines"},
    get_client_auth_data |-> {"py_cert", "py_priv_key"},
    integer_secitem_to_pylong |-> {"l"},
    line_fmt_tuple |-> {"py_label", "py_value_str"},
    nss_fingerprint_format_lines |-> {"data_param"},
    pk11_create_context_by_sym_key |-> {"pk11_context"},
    pk11_create_digest_context |-> {"pk11_context"},
    pk11_find_key_by_any_cert |-> {"private_key"},
    pk11_find_slot_by_name |-> {"slot"},
    pk11_generate_new_param |-> {"param"}, pk11_get_best_slot |-> {"slot"},
    pk11_get_internal_key_slot |-> {"slot"},
    pk11_get_internal_slot |-> {"slot"}, pk11_hash_buf |-> {"py_out_buf"},
    pk11_import_crl |-> {"signed_crl"}, pk11_import_sym_key |-> {"sym_key"},
    pk11_md5_digest |-> {"py_out_buf"}, pk11_param_from_algid |-> {"param"},
    pk11_param_from_iv |-> {"sec_param"}, pk11_sha1_digest |-> {"py_out_buf"},
    pk11_sha256_digest |-> {"py_out_buf"},
    pk11_sha512_digest |-> {"py_out_buf"},
    py_indented_format |-> {"line_info"}, read_data_from_file |-> {"closed"},
    set_cert_verify_error |-> {"error_message", "exception_obj", "kwds", "usages"},
    set_nspr_error |-> {"error_message", "exception_obj", "kwds"},
    set_thread_local |-> {"thread_local_dict"} ]
Listed(table, f) == IF f \in DOMAIN table THEN table[f] ELSE {}
MCKnownLeaks ==
  [f \in DOMAIN MCBody |->
     Listed(MoreKept, f) \cup {"fmt_tuple" : g \in {f} \cap LinesKept}
       \cup {"src_obj" : g \in {f} \cap ItemsKept}]
Released ==
  [ AVA_init |-> {"py_value_utf8"}, AddrInfo_str |-> {"addr_str"},
    CertVerifyLog_format_lines |-> {"py_node"},
    CertificateRequest_format_lines |-> {"obj"},
    Certificate_format_lines |-> {"obj"},
    Certificate_get_extension |-> {"py_oid_name"},
    DN_subscript |-> {"name_utf8"},
    HostEntry_get_network_address |-> {"netaddr"},
    KEYPQGParams_init |-> {"base", "prime", "subPrime"},
    KEYPQGParams_init_from_SECKEYPQGParams |-> {"base", "prime", "subPrime"},
    PKCS12_nickname_collision_callback |-> {"py_old_nickname"},
    RDN_subscript |-> {"name_utf8"},
    SSLSocket_accept |-> {"py_netaddr", "py_ssl_socket"},
    Socket_accept |-> {"py_netaddr", "py_socket"},
    Socket_accept_read |-> {"py_buf", "py_netaddr", "py_socket"},
    Socket_new_tcp_pair |-> {"py_sock0", "py_sock1"},
    SubjectPublicKeyInfo_new_from_CERTSubjectPublicKeyInfo |-> {"pk"},
    cipher_suite_from_name |-> {"py_name_utf8"},
    get_client_auth_data |-> {"py_cert"},
    get_oid_tag_from_object |-> {"py_obj_string_utf8"},
    io_get_proto_by_number |-> {"alias_tuple"},
    make_line_fmt_tuples |-> {"lines"},
    pk11_find_slot_by_name |-> {"slot_name"},
    pkcs12_enable_cipher |-> {"py_name"},
    raw_data_to_hex |-> {"line", "lines", "unicode_line"},
    ssl_library_version_from_name |-> {"py_name_utf8"} ]
MCKnownFaults == [f \in DOMAIN MCBody |-> Listed(Released, f)]
MCMutes ==
  { "AlgorithmID_format_lines", "AlgorithmID_get_pbe_crypto_mechanism",
    "AuthorityInfoAccesses_init", "AuthorityInfoAccesses_init_from_SECItem",
    "CERTGeneralName_list_to_tuple", "CERTGeneralName_to_pystr_with_label",
    "CERTGeneralName_type_string_to_pystr", "CRLDistributionPt_repr",
    "CRLDistributionPts_init", "CRLDistributionPts_init_from_SECItem",
    "CertAttribute_new_from_CERTAttribute", "CertVerifyError_init",
    "CertVerifyLog_format_lines", "CertificateRequest_get_attributes",
    "Certificate_has_signer_in_ca_names", "Certificate_set_trust_attributes",
    "DN_subscript", "DSAPublicKey_new_from_SECKEYDSAPublicKey",
    "InitParameters_init",
    "InitParameters_set_crypto_slot_description",
    "InitParameters_set_crypto_token_description",
    "InitParameters_set_db_slot_description",
    "InitParameters_set_db_token_description",
    "InitParameters_set_fips_slot_description",
    "InitParameters_set_fips_token_description",
    "InitParameters_set_library_description",
    "InitParameters_set_manufacturer_id",
    "InitParameters_set_min_password_len", "KDF2Params_format_lines",
    "KEYPQGParams_init", "KEYPQGParams_init_from_SECKEYPQGParams",
    "KEYPQGParams_new_from_SECKEYPQGParams", "NSPRError_init",
    "NSPRError_str", "PBEParams_format_lines", "PK11Slot_format_lines",
    "PK11SymKey_format_lines", "PK11_password_callback",
    "PKCS12DecodeItem_format_lines", "PKCS12Decoder_database_import",
    "PKCS12Decoder_item", "PKCS12_default_nickname_collision_callback",
    "PKCS12_nickname_collision_callback", "PKCS5V2Params_format_lines",
    "RDN_subscript", "RSAGenParams_set_key_size",
    "RSAGenParams_set_public_exponent", "RSAPSSParams_format_lines",
    "SSLChannelInformation_format_lines",
    "SSLCipherSuiteInformation_format_lines",
    "SSLSocket_connection_info_format_lines",
    "SSLSocket_set_auth_certificate_callback",
    "SSLSocket_set_client_auth_data_callback",
    "SSLSocket_set_handshake_callback", "SecItem_new_from_SECItem",
    "SignedData_format_lines", "Socket_iternext",
    "cert_der_universal_secitem_fmt_lines", "cert_distnames_as_CERTDistNames",
    "der_context_specific_secitem_to_pystr",
    "der_set_or_str_secitem_to_pylist_of_pystr",
    "der_universal_secitem_to_pystr", "fingerprint_format_lines",
    "get_client_auth_data", "make_line_fmt_tuples", "raw_data_to_hex",
    "read_data_from_file", "ssl_auth_certificate", "ssl_handshake_callback",
    "time_choice_secitem_to_pystr" }

(* The facts: what x may hold where a call starts, and whatever follows    *)
(* from that.  A fact is <<function, step, value, exception>> here.        *)
(* That no step leads out of the text is for CodeOK to say.                *)
Later(T, code, x, fact) ==
  LET f == fact[1]  n == fact[2]  v == fact[3]  e == fact[4]
      step == code[f][n]
      rest(result, held) ==
        IF x \notin FieldsOf(T) \/ EndsObject(T, f, result) THEN {}
        ELSE {<<g, 1, held, FALSE>> : g \in Methods(T)}
  IN  {<<f, m, Becomes(step, x, v), Raised(step, e)>> :
           m \in Goes(code[f], n) \cap DOMAIN code[f]}
        \cup IF step.kind \in Failing
             THEN rest("NULL", LeftBehind(step, x, v)) ELSE {}
        \cup IF step.kind = "return" THEN rest("value", v) ELSE {}

RECURSIVE Consequences(_, _, _, _, _)
Consequences(T, code, x, known, new) ==
  IF new = {} THEN known
  ELSE LET all == known \cup new
       IN  Consequences(T, code, x, all,
                        UNION {Later(T, code, x, fact) : fact \in new} \ all)

FactsFrom(T, code, f, x) ==
  Consequences(T, code, x, {}, {<<f, 1, "null", FALSE>>})
FactsOf(f, facts) ==
  {<<fact[2], fact[3], fact[4]>> : fact \in {q \in facts : q[1] = f}}

FactsAbout(code) ==
  [T \in DOMAIN Types \cup {"none"} |->
     LET held == [x \in FieldsOf(T) |-> FactsFrom(T, code, Types[T].new, x)]
     IN  [f \in Serving(T) |->
            [x \in NamesIn(T, code[f]) |->
               IF x \in FieldsOf(T) THEN FactsOf(f, held[x])
               ELSE FactsOf(f, FactsFrom(T, code, f, x))]]]
MCFacts == FactsAbout(Code)
=============================================================================
