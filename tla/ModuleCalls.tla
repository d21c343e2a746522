---------------------------- MODULE ModuleCalls ----------------------------
(***************************************************************************)
(* py_nss.c: the password callback and the functions of the module.        *)
(* Notation: CallSteps.                                                    *)
(***************************************************************************)
EXTENDS CallSteps

(* NSS runs it without the GIL; gstate is what PyGILState_Release is owed. *)
PK11_password_callback ==
  LET exit == {"new_args", "result", "gstate"}
      copied == Take("py_password") \o Take("password") \o Drop({"py_password"})
  IN Take("gstate") \o Opt(Opt(Raise \o Forget) \o Mute({"gstate"}))
       \o Get("new_args", exit)
       \o Either(Take("py_slot"), Mute(exit)) \o Give("py_slot")
       \o Either(Take("result"), Mute(exit))
       \o Either(Either(copied, Fail(exit)), Either(Null("password"), Mute(exit)))
       \o Drop(exit) \o Return("password")

pk11_set_password_callback == Try({}) \o Try({}) \o Try({}) \o ReturnNone

-----------------------------------------------------------------------------
(* Finding things, with arguments for the password callback.               *)

Found(list) == Make("tuple") \o Drop({list}) \o Return("tuple")

(* An NSS object is given to a new Python object; when that cannot be made *)
(* nobody destroys it.                                                     *)
Owner(x) == Opt(Fail({})) \o Give(x) \o Take("self") \o Return("self")

FindCerts ==
  ParseAndPin \o Get("cert_list", {"pin_args"}) \o Drop({"pin_args"})
    \o Found("cert_list")

pk11_list_certs == FindCerts
pk11_find_certs_from_email_addr == FindCerts
pk11_find_certs_from_nickname == FindCerts

pk11_find_cert_from_nickname ==
  ParseAndPin \o Get("cert", {"pin_args"}) \o Drop({"pin_args"})
    \o Opt(Fail({"cert"})) \o Give("cert") \o Take("py_cert") \o Return("py_cert")

pk11_find_key_by_any_cert ==
  ParseAndPin \o Get("private_key", {"pin_args"}) \o Drop({"pin_args"})
    \o Owner("private_key")

pk11_get_best_slot ==
  ParseAndPin \o Get("slot", {"pin_args"}) \o Drop({"pin_args"}) \o Owner("slot")

pk11_get_internal_slot     == Get("slot", {}) \o Owner("slot")
pk11_get_internal_key_slot == Get("slot", {}) \o Owner("slot")
pk11_get_all_tokens        == Try({}) \o Get("list", {}) \o Found("list")

(* The message names the slot after its name was released.                 *)
pk11_find_slot_by_name ==
  Get("slot_name", {})
    \o Either(Take("slot"), Drop({"slot_name"}) \o Use("slot_name") \o Fail({}))
    \o Drop({"slot_name"}) \o Owner("slot")

pk11_import_sym_key ==
  ParseAndPin \o Get("sym_key", {"pin_args"}) \o Drop({"pin_args"})
    \o Owner("sym_key")

pk11_import_crl ==
  ParseAndPin \o Get("signed_crl", {"pin_args"}) \o Drop({"pin_args"})
    \o Owner("signed_crl")

cert_decode_der_crl == Try({}) \o Get("signed_crl", {}) \o Owner("signed_crl")

-----------------------------------------------------------------------------
(* Random data, contexts, keys and parameters.                             *)

pk11_generate_random ==
  Try({}) \o Try({}) \o Get("buf", {}) \o NoGilCall({"buf"}) \o Make("res")
    \o Drop({"buf"}) \o Return("res")

pk11_create_context_by_sym_key ==
  Try({}) \o Get("pk11_context", {}) \o Owner("pk11_context")
pk11_create_digest_context ==
  Try({}) \o Get("pk11_context", {}) \o Owner("pk11_context")

pk11_pub_wrap_sym_key ==
  Try({}) \o Get("py_wrapped_key", {}) \o NoGilCall({"py_wrapped_key"})
    \o Return("py_wrapped_key")

(* The SecItem copies the parameter; the original is not freed.            *)
CopyOf(param) == Try({}) \o Get(param, {}) \o Make("item") \o Return("item")

pk11_param_from_iv      == CopyOf("sec_param")
pk11_param_from_algid   == CopyOf("param")
pk11_generate_new_param == CopyOf("param")

pk11_create_pbev2_algorithm_id ==
  LET salt == {"salt_param"}
  IN Either(Get("salt_param", {}), Try({})) \o Try(salt) \o Try(salt) \o Try(salt)
       \o Get("algid", salt) \o Get("py_algorithm_id", salt \cup {"algid"})
       \o Clear(salt) \o Drop({"algid"}) \o Return("py_algorithm_id")

-----------------------------------------------------------------------------
(* Conversions and names.                                                  *)

nss_read_der_from_file ==
  LET fail == {"py_file_contents"}
  IN Try({}) \o Get("py_file_contents", {}) \o Try(fail)
       \o Get("py_sec_item", fail) \o Drop(fail) \o Return("py_sec_item")

nss_base64_to_binary == Try({}) \o Make("result") \o Return("result")

Flagged == Try({}) \o Try({}) \o Make("result") \o Return("result")

cert_x509_key_usage     == Flagged
cert_x509_cert_type     == Flagged
cert_x509_ext_key_usage == Try({}) \o Make("result") \o Return("result")

cert_x509_alt_name ==
  Try({}) \o Get("arena", {}) \o Try({"arena"}) \o Make("result")
    \o Drop({"arena"}) \o Return("result")

nss_fingerprint_format_lines ==
  Get("data_param", {}) \o Try({}) \o Make("result") \o Drop({"data_param"})
    \o Return("result")

cert_oid_str      == Try({}) \o Try({}) \o Try({}) \o Make("result") \o Return("result")
cert_oid_tag_name == Flagged
cert_oid_tag      == Flagged
cert_oid_dotted_decimal ==
  Try({}) \o Opt(Try({}) \o Try({})) \o Make("result") \o Return("result")

pk11_algtag_to_mechanism == Flagged
pk11_mechanism_to_algtag == Flagged
pk11_get_block_size      == Try({}) \o Make("result") \o Return("result")
pk11_get_iv_length       == Try({}) \o Make("result") \o Return("result")
pk11_get_pad_mechanism   == Try({}) \o Make("result") \o Return("result")
pkcs12_map_cipher        == Flagged

nss_nss_get_version   == NoGilCall({}) \o Make("version") \o Return("version")
nss_nss_version_check == Try({}) \o NoGil \o ReturnNone

(* From a value to its name, in one of the dictionaries of the module.     *)
NameOfValue ==
  Get("py_value", {}) \o Try({"py_value"}) \o Drop({"py_value"})
    \o Take("py_name") \o Return("py_name")

key_mechanism_type_to_pystr  == NameOfValue
pk11_attribute_type_to_pystr == NameOfValue
crl_reason_to_pystr          == NameOfValue
pkcs12_cipher_to_pystr       == NameOfValue
general_name_type_to_pystr   == NameOfValue

(* From a name to its value: the format "S" takes bytes only, which        *)
(* PyUnicode_Lower then rejects.  What follows is never reached.           *)
ValueOfName == Try({}) \o Fail({})

pk11_key_mechanism_type_from_name       == ValueOfName
pk11_pk11_attribute_type_from_name      == ValueOfName
cert_crl_reason_from_name               == ValueOfName
pkcs12_cipher_from_name                 == ValueOfName
cert_general_name_type_from_name        == ValueOfName

-----------------------------------------------------------------------------
(* Settings of NSS.  A cipher that NSS does not know has no name either,   *)
(* and the failure to find one is not looked at.                           *)

pkcs12_enable_cipher ==
  LET refused == Make("py_name") \o Take("py_name_utf8") \o Take("py_err_msg")
                   \o Raise \o Drop({"py_name"}) \o Clear({"py_name_utf8"})
                   \o Drop({"py_err_msg"}) \o Reraise
  IN Try({}) \o Opt(refused) \o ReturnNone

(* The ciphers of the table, which all have names.                         *)
pkcs12_enable_all_ciphers ==
  LET refused == Take("py_name") \o Take("py_name_utf8") \o Take("py_err_msg")
                   \o Raise \o Drop({"py_name"}) \o Clear({"py_name_utf8"})
                   \o Drop({"py_err_msg"}) \o Reraise
  IN Loop(Opt(refused)) \o ReturnNone

Setting == Try({}) \o Try({}) \o ReturnNone

pkcs12_set_preferred_cipher         == Setting
cert_set_use_pkix_for_validation    == Setting
cert_enable_ocsp_checking           == Setting
cert_disable_ocsp_checking          == Setting
cert_set_ocsp_cache_settings        == Setting
cert_set_ocsp_failure_mode          == Setting
cert_set_ocsp_timeout               == Setting
cert_clear_ocsp_cache               == Try({}) \o ReturnNone
cert_enable_ocsp_default_responder  == Setting
cert_disable_ocsp_default_responder == Setting

(* The converted URL and nickname are released on success only.            *)
cert_set_ocsp_default_responder ==
  Get("py_url_utf8", {}) \o Get("py_nickname_utf8", {}) \o Try({})
    \o Clear({"py_url_utf8", "py_nickname_utf8"}) \o ReturnNone

(* The initialisation of the module; the module object is not released     *)
(* when a step fails.                                                      *)
PyInit_nss ==
  Try({}) \o Get("m", {}) \o Part("empty_tuple", {}) \o Part("py_empty_string", {})
    \o Loop(Try({})) \o Get("capsule", {}) \o Either(Give("capsule"), Fail({}))
    \o Loop(Try({})) \o Loop(Part("names", {}) \o Loop(Try({}))) \o Return("m")

(* The functions of this module, by name.                                  *)
ModuleBody ==
  [ PK11_password_callback |-> PK11_password_callback,
    pk11_set_password_callback |-> pk11_set_password_callback,
    pk11_list_certs |-> pk11_list_certs,
    pk11_find_certs_from_email_addr |-> pk11_find_certs_from_email_addr,
    pk11_find_certs_from_nickname |-> pk11_find_certs_from_nickname,
    pk11_find_cert_from_nickname |-> pk11_find_cert_from_nickname,
    pk11_find_key_by_any_cert |-> pk11_find_key_by_any_cert,
    pk11_get_best_slot |-> pk11_get_best_slot,
    pk11_get_internal_slot |-> pk11_get_internal_slot,
    pk11_get_internal_key_slot |-> pk11_get_internal_key_slot,
    pk11_get_all_tokens |-> pk11_get_all_tokens,
    pk11_find_slot_by_name |-> pk11_find_slot_by_name,
    pk11_import_sym_key |-> pk11_import_sym_key,
    pk11_import_crl |-> pk11_import_crl,
    cert_decode_der_crl |-> cert_decode_der_crl,
    pk11_generate_random |-> pk11_generate_random,
    pk11_create_context_by_sym_key |-> pk11_create_context_by_sym_key,
    pk11_create_digest_context |-> pk11_create_digest_context,
    pk11_pub_wrap_sym_key |-> pk11_pub_wrap_sym_key,
    pk11_param_from_iv |-> pk11_param_from_iv,
    pk11_param_from_algid |-> pk11_param_from_algid,
    pk11_generate_new_param |-> pk11_generate_new_param,
    pk11_create_pbev2_algorithm_id |-> pk11_create_pbev2_algorithm_id,
    nss_read_der_from_file |-> nss_read_der_from_file,
    nss_base64_to_binary |-> nss_base64_to_binary,
    cert_x509_key_usage |-> cert_x509_key_usage,
    cert_x509_cert_type |-> cert_x509_cert_type,
    cert_x509_ext_key_usage |-> cert_x509_ext_key_usage,
    cert_x509_alt_name |-> cert_x509_alt_name,
    nss_fingerprint_format_lines |-> nss_fingerprint_format_lines,
    cert_oid_str |-> cert_oid_str, cert_oid_tag_name |-> cert_oid_tag_name,
    cert_oid_tag |-> cert_oid_tag,
    cert_oid_dotted_decimal |-> cert_oid_dotted_decimal,
    pk11_algtag_to_mechanism |-> pk11_algtag_to_mechanism,
    pk11_mechanism_to_algtag |-> pk11_mechanism_to_algtag,
    pk11_get_block_size |-> pk11_get_block_size,
    pk11_get_iv_length |-> pk11_get_iv_length,
    pk11_get_pad_mechanism |-> pk11_get_pad_mechanism,
    pkcs12_map_cipher |-> pkcs12_map_cipher,
    nss_nss_get_version |-> nss_nss_get_version,
    nss_nss_version_check |-> nss_nss_version_check,
    key_mechanism_type_to_pystr |-> key_mechanism_type_to_pystr,
    pk11_attribute_type_to_pystr |-> pk11_attribute_type_to_pystr,
    crl_reason_to_pystr |-> crl_reason_to_pystr,
    pkcs12_cipher_to_pystr |-> pkcs12_cipher_to_pystr,
    general_name_type_to_pystr |-> general_name_type_to_pystr,
    pk11_key_mechanism_type_from_name |-> pk11_key_mechanism_type_from_name,
    pk11_pk11_attribute_type_from_name |-> pk11_pk11_attribute_type_from_name,
    cert_crl_reason_from_name |-> cert_crl_reason_from_name,
    pkcs12_cipher_from_name |-> pkcs12_cipher_from_name,
    cert_general_name_type_from_name |-> cert_general_name_type_from_name,
    pkcs12_enable_cipher |-> pkcs12_enable_cipher,
    pkcs12_enable_all_ciphers |-> pkcs12_enable_all_ciphers,
    pkcs12_set_preferred_cipher |-> pkcs12_set_preferred_cipher,
    cert_set_use_pkix_for_validation |-> cert_set_use_pkix_for_validation,
    cert_enable_ocsp_checking |-> cert_enable_ocsp_checking,
    cert_disable_ocsp_checking |-> cert_disable_ocsp_checking,
    cert_set_ocsp_cache_settings |-> cert_set_ocsp_cache_settings,
    cert_set_ocsp_failure_mode |-> cert_set_ocsp_failure_mode,
    cert_set_ocsp_timeout |-> cert_set_ocsp_timeout,
    cert_clear_ocsp_cache |-> cert_clear_ocsp_cache,
    cert_enable_ocsp_default_responder |-> cert_enable_ocsp_default_responder,
    cert_disable_ocsp_default_responder |-> cert_disable_ocsp_default_responder,
    cert_set_ocsp_default_responder |-> cert_set_ocsp_default_responder,
    PyInit_nss |-> PyInit_nss ]
=============================================================================
