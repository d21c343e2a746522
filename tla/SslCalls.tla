------------------------------ MODULE SslCalls ------------------------------
(***************************************************************************)
(* py_ssl.c: SSL sockets and the settings of libssl.  When NSS calls the   *)
(* hooks that are set here, and with what, is SslHooks.                     *)
(* Notation: CallSteps.                                                    *)
(***************************************************************************)
EXTENDS IoCalls

(* Names of cipher suites and protocol versions.                           *)
NameOf ==
  Get("py_value", {}) \o Try({"py_value"}) \o Drop({"py_value"})
    \o Take("py_name") \o Return("py_name")

cipher_suite_to_name                == NameOf
ssl_library_version_to_py_enum_name == NameOf
ssl_library_version_to_py_string    == NameOf

(* The message about an unknown name uses its UTF-8 form, made or not.     *)
ValueOf ==
  LET lower == {"py_lower_name"}
      unknown == Make("py_name_utf8") \o Use("py_name_utf8") \o Raise \o Drop(lower)
                   \o Clear({"py_name_utf8"}) \o Reraise
  IN Try({}) \o Get("py_lower_name", {}) \o Opt(unknown) \o Drop(lower) \o ReturnNone

cipher_suite_from_name        == ValueOf
ssl_library_version_from_name == ValueOf

ssl_library_version_from_pyobject == Opt(ReturnNone) \o Try({}) \o ReturnNone
tuple_to_SSLVersionRange          == Try({}) \o Try({}) \o Try({}) \o Try({}) \o ReturnNone

ssl_version_to_repr_kind         == Try({}) \o Try({}) \o Make("value") \o Return("value")
ssl_library_version_to_repr_kind == Try({}) \o Make("value") \o Return("value")

(* The lower bound is not released when the upper one cannot be made.      *)
SSLVersionRange_to_tuple ==
  Get("tuple", {}) \o Get("py_min", {"tuple"}) \o Get("py_max", {"tuple"})
    \o GiveAll({"py_min", "py_max"}) \o Return("tuple")

-----------------------------------------------------------------------------
(* SSL sockets: a Socket with three hooks and the data of the PIN callback.*)

Hooks == { "py_auth_certificate_callback", "py_auth_certificate_callback_data",
           "py_handshake_callback", "py_handshake_callback_data",
           "py_client_auth_data_callback", "py_client_auth_data_callback_data" }

SSLSocket_new == Allocate
SSLSocket_dealloc ==
  Clear(Hooks \cup {"py_pk11_pin_args"}) \o Clear({"py_netaddr", "readahead"})
    \o ReturnNone
SSLSocket_init == OpenSocket \o Try({}) \o ReturnNone
SSLSocket_new_from_PRFileDesc == Allocate

(* The data are the arguments after the callback; that the tuple of them   *)
(* could not be made is not looked at.                                     *)
SetHook(callback, data) ==
  LET replace == Remember(callback) \o Clear({data})
  IN Try({}) \o Try({})
       \o Either(Take("callback_args") \o replace \o Keep(data, "callback_args"),
                 Raise \o replace)
       \o Try({}) \o ReturnNone

SSLSocket_set_auth_certificate_callback ==
  SetHook("py_auth_certificate_callback", "py_auth_certificate_callback_data")
SSLSocket_set_client_auth_data_callback ==
  SetHook("py_client_auth_data_callback", "py_client_auth_data_callback_data")
SSLSocket_set_handshake_callback ==
  SetHook("py_handshake_callback", "py_handshake_callback_data")

SSLSocket_set_pkcs11_pin_arg ==
  Remember("py_pk11_pin_args") \o Opt(Clear({"py_pk11_pin_args"}) \o Fail({}))
    \o ReturnNone
SSLSocket_get_pkcs11_pin_arg ==
  Opt(ReturnNone) \o Take("pk11_pin_args") \o Return("pk11_pin_args")

(* An accepted connection is not closed when an object cannot be made.     *)
SSLSocket_accept ==
  LET error == {"py_ssl_socket", "py_netaddr"}
  IN Try({}) \o NoGilCall({}) \o Take("accepted") \o Get("py_netaddr", error)
       \o Either(Give("accepted") \o Take("py_ssl_socket"), Fail(error))
       \o Built("return_value", error, error) \o Return("return_value")

SSLSocket_import_tcp_socket ==
  Try({}) \o Get("sock0", {}) \o Try({"sock0"}) \o Give("sock0") \o Take("sock")
    \o NoGilCall({"sock"})
    \o Either(Give("sock") \o Take("return_value"), Fail({"sock"}))
    \o Return("return_value")

(* The hooks, called by NSS without the GIL.  An exception of the callback *)
(* is printed; running out of memory before it, and an answer whose truth  *)
(* value cannot be had, leave one set.                                     *)
ssl_auth_certificate ==
  LET out == Clear({"args", "result"}) \o Drop({"gstate"})
      fail == Raise \o out \o ReturnNone
  IN Take("gstate") \o Either(Take("args"), fail)
       \o Either(Take("py_ssl_socket") \o Give("py_ssl_socket"), fail)
       \o Either(Take("result") \o Opt(Raise), Raise \o Forget)
       \o out \o ReturnNone

ssl_handshake_callback ==
  LET call == Either(Take("result") \o Drop({"args"}) \o Drop({"result"}),
                     Raise \o Forget \o Drop({"args"}))
  IN Take("gstate") \o Either(Take("args") \o call, Raise)
       \o Drop({"gstate"}) \o ReturnNone

(* The certificate and the key that were chosen keep an extra reference;   *)
(* an empty tuple has no certificate to look at.                           *)
get_client_auth_data ==
  LET out == Clear({"args", "return_args"}) \o Drop({"gstate"})
      fail == out \o ReturnNone
      accepted == Drop({"args"}) \o Take("py_cert") \o Take("py_priv_key")
                    \o Drop({"return_args"}) \o Drop({"gstate"})
  IN Take("gstate") \o Either(Take("args"), Raise \o fail)
       \o Either(Take("py_cert_dist_names") \o Give("py_cert_dist_names"), Raise \o fail)
       \o Either(Take("return_args"), Raise \o Forget \o fail) \o Opt(fail)
       \o Either(Lend("py_cert"), Null("py_cert") \o Raise) \o Use("py_cert") \o Opt(fail) \o accepted \o ReturnNone

-----------------------------------------------------------------------------
(* Operations of a socket that keep nothing.                               *)

(* Arguments, one call of libssl; the GIL is given up for a handshake.     *)
SslSetting(call) == Try({}) \o call \o ReturnNone
SslGetting       == Try({}) \o Try({}) \o Make("value") \o Return("value")

SSLSocket_set_ssl_option       == SslSetting(Try({}))
SSLSocket_get_ssl_option       == SslGetting
SSLSocket_config_secure_server == SslSetting(Try({}))
SSLSocket_invalidate_session   == Try({}) \o ReturnNone
SSLSocket_data_pending         == Try({}) \o Make("count") \o Return("count")
SSLSocket_set_cipher_pref      == SslSetting(Try({}))
SSLSocket_get_cipher_pref      == SslSetting(Try({}))
SSLSocket_set_certificate_db   == SslSetting(Try({}))

SSLSocket_force_handshake         == NoGilCall({}) \o ReturnNone
SSLSocket_reset_handshake         == SslSetting(NoGilCall({}))
SSLSocket_force_handshake_timeout == SslSetting(NoGilCall({}))
SSLSocket_rehandshake             == SslSetting(NoGilCall({}))
SSLSocket_rehandshake_timeout     == SslSetting(NoGilCall({}))

SSLSocket_set_ssl_version_range == Try({}) \o Try({}) \o Try({}) \o Try({}) \o ReturnNone
SSLSocket_get_ssl_version_range == SslGetting
SSLSocket_get_ssl_channel_info  == Try({}) \o Make("info") \o Return("info")

(* A certificate of the session, which the Certificate object takes over.  *)
SessionCertificate ==
  Opt(ReturnNone) \o Take("cert")
    \o Either(Give("cert") \o Take("py_cert"), Fail({})) \o Return("py_cert")

SSLSocket_get_peer_certificate == SessionCertificate
SSLSocket_get_certificate      == SessionCertificate

SSLSocket_get_security_status ==
  LET buffers == {"cipher", "issuer", "subject"}
  IN Either(Take("cipher") \o Take("issuer") \o Take("subject") \o Make("return_value"),
            Raise)
       \o Clear(buffers) \o Return("return_value")

SSLSocket_get_session_id ==
  Get("sec_item", {}) \o Make("return_value") \o Drop({"sec_item"})
    \o Return("return_value")

SSLSocket_set_hostname ==
  Get("url", {}) \o Opt(Drop({"url"}) \o Fail({})) \o Drop({"url"}) \o ReturnNone

SSLSocket_get_hostname ==
  Get("url", {}) \o Make("py_hostname") \o Drop({"url"}) \o Return("py_hostname")

SSLSocket_get_negotiated_host ==
  Opt(ReturnNone) \o Take("host") \o Get("py_host", {"host"}) \o Drop({"host"})
    \o Return("py_host")

-----------------------------------------------------------------------------
(* What a connection has negotiated, as text.  The list is lost when there *)
(* is no connection.                                                       *)

Named(U) ==
  Get("obj2", U) \o Get("obj3", U) \o Get("obj1", U) \o FmtObj(U)
    \o Clear({"obj1", "obj2", "obj3"})

SSLSocket_connection_info_format_lines ==
  LET fail == {"obj1", "obj2", "obj3", "lines"}
  IN Try({}) \o Get("lines", {}) \o Try({}) \o Try({}) \o Named(fail)
       \o Loop(GetFmtClear("obj1", fail)) \o MakeFmtClear("obj1", fail)
       \o Return("lines")

SSLCipherSuiteInformation_new  == Allocate
SSLCipherSuiteInformation_init == Try({}) \o ReturnNone
SSLCipherSuiteInformation_new_from_SSLCipherSuiteInfo == Allocate

SSLCipherSuiteInformation_format_lines ==
  LET fail == {"obj1", "lines"}
  IN FormatLines(Loop(Either(GetFmtClear("obj1", fail), MakeFmtClear("obj1", fail))))

SSLChannelInformation_new  == Allocate
SSLChannelInformation_init == Try({}) \o ReturnNone
SSLChannelInformation_new_from_SSLChannelInfo == Allocate

SSLChannelInformation_format_lines ==
  LET fail == {"obj1", "obj2", "obj3", "lines"}
  IN FormatLines(Named(fail) \o Named(fail) \o Loop(MakeFmtClear("obj1", fail))
       \o Loop(GetFmtClear("obj1", fail)) \o Get("obj1", fail) \o FmtLabel(fail)
       \o AppendLines("obj1", fail))

-----------------------------------------------------------------------------
(* Settings of the library.                                                *)

SSL_set_ssl_default_option  == SslSetting(Try({}))
SSL_get_ssl_default_option  == SslGetting
SSL_set_default_cipher_pref == SslSetting(Try({}))
SSL_get_default_cipher_pref == SslSetting(Try({}))
SSL_set_cipher_policy       == SslSetting(Try({}))
SSL_get_cipher_policy       == SslSetting(Try({}))
SSL_set_max_server_cache_locks == SslSetting(Try({}))
NSS_set_domestic_policy     == Try({}) \o ReturnNone
NSS_set_export_policy       == Try({}) \o ReturnNone
NSS_set_france_policy       == Try({}) \o ReturnNone

(* The directory that was given is converted, and not used.                *)
ServerCache ==
  LET directory == {"py_directory_fs_encoded"}
  IN Try({}) \o Opt(Get("py_directory_fs_encoded", {})) \o Try(directory)
       \o Clear(directory) \o ReturnNone

SSL_config_server_session_id_cache          == ServerCache
SSL_config_server_session_id_cache_with_opt == ServerCache
SSL_config_mp_server_sid_cache              == ServerCache

SSL_get_ssl_version_from_major_minor == Try({}) \o Make("value") \o Return("value")
SSL_ssl_library_version_name         == Try({}) \o Make("value") \o Return("value")
SSL_ssl_library_version_from_name    == SslGetting
SSL_get_supported_ssl_version_range  == SslGetting
SSL_get_default_ssl_version_range    == SslGetting
SSL_set_default_ssl_version_range    == Try({}) \o Try({}) \o Try({}) \o Try({}) \o ReturnNone
SSL_get_cipher_suite_info            == SslGetting
SSL_ssl_cipher_suite_name            == Try({}) \o Make("name") \o Return("name")
SSL_ssl_cipher_suite_from_name       == SslGetting

PyInit_ssl ==
  Try({}) \o Try({}) \o Try({})
    \o InitModule(Part("empty_tuple", {}),
         Part("py_ssl_implemented_ciphers", {}) \o Loop(Part("names", {}) \o Loop(Try({}))))

(* The functions of this module, by name.                                  *)
SslBody ==
  [ cipher_suite_to_name |-> cipher_suite_to_name,
    ssl_library_version_to_py_enum_name |-> ssl_library_version_to_py_enum_name,
    ssl_library_version_to_py_string |-> ssl_library_version_to_py_string,
    cipher_suite_from_name |-> cipher_suite_from_name,
    ssl_library_version_from_name |-> ssl_library_version_from_name,
    ssl_library_version_from_pyobject |-> ssl_library_version_from_pyobject,
    tuple_to_SSLVersionRange |-> tuple_to_SSLVersionRange,
    ssl_version_to_repr_kind |-> ssl_version_to_repr_kind,
    ssl_library_version_to_repr_kind |-> ssl_library_version_to_repr_kind,
    SSLVersionRange_to_tuple |-> SSLVersionRange_to_tuple,
    SSLSocket_new |-> SSLSocket_new, SSLSocket_dealloc |-> SSLSocket_dealloc,
    SSLSocket_init |-> SSLSocket_init,
    SSLSocket_new_from_PRFileDesc |-> SSLSocket_new_from_PRFileDesc,
    SSLSocket_set_auth_certificate_callback |-> SSLSocket_set_auth_certificate_callback,
    SSLSocket_set_client_auth_data_callback |-> SSLSocket_set_client_auth_data_callback,
    SSLSocket_set_handshake_callback |-> SSLSocket_set_handshake_callback,
    SSLSocket_set_pkcs11_pin_arg |-> SSLSocket_set_pkcs11_pin_arg,
    SSLSocket_get_pkcs11_pin_arg |-> SSLSocket_get_pkcs11_pin_arg,
    SSLSocket_accept |-> SSLSocket_accept,
    SSLSocket_import_tcp_socket |-> SSLSocket_import_tcp_socket,
    ssl_auth_certificate |-> ssl_auth_certificate,
    ssl_handshake_callback |-> ssl_handshake_callback,
    get_client_auth_data |-> get_client_auth_data,
    SSLSocket_set_ssl_option |-> SSLSocket_set_ssl_option,
    SSLSocket_get_ssl_option |-> SSLSocket_get_ssl_option,
    SSLSocket_config_secure_server |-> SSLSocket_config_secure_server,
    SSLSocket_invalidate_session |-> SSLSocket_invalidate_session,
    SSLSocket_data_pending |-> SSLSocket_data_pending,
    SSLSocket_set_cipher_pref |-> SSLSocket_set_cipher_pref,
    SSLSocket_get_cipher_pref |-> SSLSocket_get_cipher_pref,
    SSLSocket_set_certificate_db |-> SSLSocket_set_certificate_db,
    SSLSocket_force_handshake |-> SSLSocket_force_handshake,
    SSLSocket_reset_handshake |-> SSLSocket_reset_handshake,
    SSLSocket_force_handshake_timeout |-> SSLSocket_force_handshake_timeout,
    SSLSocket_rehandshake |-> SSLSocket_rehandshake,
    SSLSocket_rehandshake_timeout |-> SSLSocket_rehandshake_timeout,
    SSLSocket_set_ssl_version_range |-> SSLSocket_set_ssl_version_range,
    SSLSocket_get_ssl_version_range |-> SSLSocket_get_ssl_version_range,
    SSLSocket_get_ssl_channel_info |-> SSLSocket_get_ssl_channel_info,
    SSLSocket_get_peer_certificate |-> SSLSocket_get_peer_certificate,
    SSLSocket_get_certificate |-> SSLSocket_get_certificate,
    SSLSocket_get_security_status |-> SSLSocket_get_security_status,
    SSLSocket_get_session_id |-> SSLSocket_get_session_id,
    SSLSocket_set_hostname |-> SSLSocket_set_hostname,
    SSLSocket_get_hostname |-> SSLSocket_get_hostname,
    SSLSocket_get_negotiated_host |-> SSLSocket_get_negotiated_host,
    SSLSocket_connection_info_format_lines |-> SSLSocket_connection_info_format_lines,
    SSLCipherSuiteInformation_new |-> SSLCipherSuiteInformation_new,
    SSLCipherSuiteInformation_init |-> SSLCipherSuiteInformation_init,
    SSLCipherSuiteInformation_new_from_SSLCipherSuiteInfo |-> SSLCipherSuiteInformation_new_from_SSLCipherSuiteInfo,
    SSLCipherSuiteInformation_format_lines |-> SSLCipherSuiteInformation_format_lines,
    SSLChannelInformation_new |-> SSLChannelInformation_new,
    SSLChannelInformation_init |-> SSLChannelInformation_init,
    SSLChannelInformation_new_from_SSLChannelInfo |-> SSLChannelInformation_new_from_SSLChannelInfo,
    SSLChannelInformation_format_lines |-> SSLChannelInformation_format_lines,
    SSL_set_ssl_default_option |-> SSL_set_ssl_default_option,
    SSL_get_ssl_default_option |-> SSL_get_ssl_default_option,
    SSL_set_default_cipher_pref |-> SSL_set_default_cipher_pref,
    SSL_get_default_cipher_pref |-> SSL_get_default_cipher_pref,
    SSL_set_cipher_policy |-> SSL_set_cipher_policy,
    SSL_get_cipher_policy |-> SSL_get_cipher_policy,
    SSL_set_max_server_cache_locks |-> SSL_set_max_server_cache_locks,
    NSS_set_domestic_policy |-> NSS_set_domestic_policy,
    NSS_set_export_policy |-> NSS_set_export_policy,
    NSS_set_france_policy |-> NSS_set_france_policy,
    SSL_config_server_session_id_cache |-> SSL_config_server_session_id_cache,
    SSL_config_server_session_id_cache_with_opt |-> SSL_config_server_session_id_cache_with_opt,
    SSL_config_mp_server_sid_cache |-> SSL_config_mp_server_sid_cache,
    SSL_get_ssl_version_from_major_minor |-> SSL_get_ssl_version_from_major_minor,
    SSL_ssl_library_version_name |-> SSL_ssl_library_version_name,
    SSL_ssl_library_version_from_name |-> SSL_ssl_library_version_from_name,
    SSL_get_supported_ssl_version_range |-> SSL_get_supported_ssl_version_range,
    SSL_get_default_ssl_version_range |-> SSL_get_default_ssl_version_range,
    SSL_set_default_ssl_version_range |-> SSL_set_default_ssl_version_range,
    SSL_get_cipher_suite_info |-> SSL_get_cipher_suite_info,
    SSL_ssl_cipher_suite_name |-> SSL_ssl_cipher_suite_name,
    SSL_ssl_cipher_suite_from_name |-> SSL_ssl_cipher_suite_from_name,
    PyInit_ssl |-> PyInit_ssl ]
=============================================================================
