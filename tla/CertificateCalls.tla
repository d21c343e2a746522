-------------------------- MODULE CertificateCalls --------------------------
(***************************************************************************)
(* py_nss.c: certificate databases, certificates and their extensions.     *)
(* Notation: CallSteps.                                                    *)
(***************************************************************************)
EXTENDS CallSteps

(* An NSS object is given to a new Python object; when that cannot be made *)
(* nobody destroys it.                                                     *)
Wrapped(x) == Opt(Fail({})) \o Give(x) \o Take("self") \o Return("self")

CertDB_find_crl_by_name ==
  Try({}) \o Get("cert_name", {}) \o Get("der_name", {"cert_name"})
    \o Drop({"cert_name"}) \o Get("signed_crl", {"der_name"})
    \o Drop({"der_name"}) \o Wrapped("signed_crl")

CertDB_find_crl_by_cert ==
  Try({}) \o Get("signed_crl", {}) \o Wrapped("signed_crl")

cert_distnames_new_from_CERTDistNames ==
  Get("py_distnames", {}) \o Loop(Part("py_sec_item", {"py_distnames"}))
    \o Return("py_distnames")

-----------------------------------------------------------------------------
(* Extensions.  The list of usages or names stays in obj to the end.       *)

CertificateExtension_format_lines ==
  LET fail == {"lines", "obj", "obj_lines", "tmp_args"}
      usages == FmtLabel(fail) \o Get("tmp_args", fail) \o Get("obj", fail)
                  \o Clear({"tmp_args"}) \o Get("obj_lines", fail)
                  \o AppendTuples("obj_lines")
      data == FmtLabel(fail) \o Get("obj_lines", fail)
                \o AppendLines("obj_lines", fail)
      value == Get("obj", fail) \o CallFormatLines(fail) \o Clear({"obj"})
  IN FormatLines(GetFmtClear("obj", fail) \o GetFmtClear("obj", fail)
                   \o Opt(Either(usages, Either(data, value))))

(* Mutant: the oid that went into the new object is released beside it.    *)
OidReleasedBesideSelf ==
  Get("self", {}) \o Part("py_oid", {"self"})
    \o Part("py_value", {"self", "py_oid"}) \o Return("self")

CertificateExtension_new_from_CERTCertExtension ==
  Get("self", {}) \o Part("py_oid", {"self"}) \o Part("py_value", {"self"})
    \o Return("self")

Certificate_get_extension ==
  Try({}) \o Try({})
    \o Opt(Make("py_oid_name") \o Make("py_oid_name_utf8") \o Raise
             \o Drop({"py_oid_name"}) \o Clear({"py_oid_name_utf8"}) \o Reraise)
    \o Make("py_ext") \o Return("py_ext")

-----------------------------------------------------------------------------
(* Certificates.  A second __init__ overwrites the reference.              *)

Certificate_new == Allocate
Certificate_dealloc == Clear({"cert"}) \o ReturnNone

Certificate_init ==
  LET exit == {"data_param", "py_nickname", "certs"}
  IN Get("data_param", {}) \o Try({}) \o Opt(Get("py_nickname", {}))
       \o NoGilCall({"data_param", "py_nickname"}) \o Take("certs")
       \o Get("cert", exit) \o Clear(exit) \o ReturnNone

Certificate_new_from_CERTCertificate ==
  Get("self", {}) \o Opt(Get("cert", {}) \o Give("cert")) \o Return("self")

Certificate_new_from_signed_der_secitem ==
  Get("py_der", {}) \o Get("py_cert", {"py_der"}) \o Clear({"py_der"})
    \o Return("py_cert")

(* The internal slot is never given back, and an error other than a token  *)
(* that is not logged in leaves without an exception.                      *)
Certificate_set_trust_attributes ==
  LET exit == {"pin_args", "trust"}
  IN Take("parse_args") \o Try({"parse_args"}) \o Drop({"parse_args"})
       \o Opt(Take("slot")) \o Take("pin_args") \o Get("trust", exit) \o Try(exit)
       \o Opt(Either(Mute(exit), Try(exit) \o Try(exit)))
       \o Drop(exit) \o ReturnNone

Certificate_has_signer_in_ca_names ==
  Try({}) \o Either(Take("ca_names"), Either(Fail({}), Mute({})))
    \o Drop({"ca_names"}) \o ReturnNone

Certificate_check_valid_times == Try({}) \o Make("result") \o Return("result")
Certificate_is_ca_cert == Try({}) \o Make("result") \o Return("result")

Certificate_verify_now ==
  ParseAndPin \o Try({"pin_args"}) \o Drop({"pin_args"})
    \o Make("result") \o Return("result")
Certificate_verify == Certificate_verify_now

(* The error object takes a reference of its own of the log.               *)
Certificate_verify_with_log ==
  ParseAndPin \o Get("py_log", {"pin_args"}) \o Try({"pin_args"})
    \o Drop({"pin_args"}) \o Give("py_log") \o Make("result") \o Return("result")

Certificate_check_ocsp_status ==
  ParseAndPin \o Try({"pin_args"}) \o Drop({"pin_args"}) \o ReturnNone

cert_get_cert_nicknames ==
  ParseAndPin \o Get("cert_nicknames", {"pin_args"}) \o Drop({"pin_args"})
    \o Get("py_nicknames", {"cert_nicknames"})
    \o Loop(Part("py_nickname", {"cert_nicknames"})) \o Drop({"cert_nicknames"})
    \o Return("py_nicknames")

Certificate_get_cert_chain ==
  Try({}) \o Get("cert_list", {}) \o Make("tuple") \o Drop({"cert_list"})
    \o Return("tuple")

Certificate_summary_format_lines ==
  LET fail == {"obj", "obj1", "obj2"}
  IN GetFmtClear("obj", fail) \o GetFmtClear("obj", fail)
       \o Get("obj1", fail) \o Get("obj2", fail) \o Get("obj", fail)
       \o Clear({"obj1", "obj2"}) \o FmtObj(fail) \o Clear({"obj"}) \o ReturnNone

(* obj is borrowed from the tuple of extensions in their loop.             *)
Certificate_format_lines ==
  LET fail == {"obj", "obj1", "obj2", "obj3", "lines", "ssl_trust_lines",
               "email_trust_lines", "signing_trust_lines", "extensions"}
      value == GetFmtClear("obj", fail)
      part == GetCallClear("obj", fail)
      flags(x) == Opt(FmtLabel(fail) \o AppendLines(x, fail))
  IN FormatLines(FmtLabel(fail) \o Get("obj", fail) \o Get("obj1", fail)
       \o Get("obj2", fail) \o Get("obj3", fail) \o FmtObj(fail)
       \o Clear({"obj", "obj1", "obj2", "obj3"})
       \o Get("obj", fail) \o Get("obj1", fail) \o FmtObj(fail)
       \o Clear({"obj", "obj1"})
       \o part \o value \o FmtLabel(fail) \o value \o value \o value
       \o FmtLabel(fail) \o Get("obj", fail) \o CallFormatLines(fail)
       \o Clear({"obj"})
       \o Get("extensions", fail) \o value
       \o Loop(Lend("obj") \o CallFormatLines(fail) \o FmtLabel(fail))
       \o Clear({"extensions"})
       \o Get("ssl_trust_lines", fail) \o Get("email_trust_lines", fail)
       \o Get("signing_trust_lines", fail)
       \o Opt(FmtLabel(fail) \o flags("ssl_trust_lines")
                \o flags("email_trust_lines") \o flags("signing_trust_lines"))
       \o Clear({"ssl_trust_lines", "email_trust_lines", "signing_trust_lines"})
       \o FmtLabel(fail) \o Get("obj", fail) \o CallFormatLines(fail)
       \o Clear({"obj"}))

(* The functions of this module, by name.                                  *)
CertificateBody ==
  [ CertDB_find_crl_by_name |-> CertDB_find_crl_by_name,
    CertDB_find_crl_by_cert |-> CertDB_find_crl_by_cert,
    cert_distnames_new_from_CERTDistNames |-> cert_distnames_new_from_CERTDistNames,
    CertificateExtension_format_lines |-> CertificateExtension_format_lines,
    CertificateExtension_new_from_CERTCertExtension |-> CertificateExtension_new_from_CERTCertExtension,
    Certificate_get_extension |-> Certificate_get_extension,
    Certificate_new |-> Certificate_new,
    Certificate_dealloc |-> Certificate_dealloc,
    Certificate_init |-> Certificate_init,
    Certificate_new_from_CERTCertificate |-> Certificate_new_from_CERTCertificate,
    Certificate_new_from_signed_der_secitem |-> Certificate_new_from_signed_der_secitem,
    Certificate_set_trust_attributes |-> Certificate_set_trust_attributes,
    Certificate_has_signer_in_ca_names |-> Certificate_has_signer_in_ca_names,
    Certificate_check_valid_times |-> Certificate_check_valid_times,
    Certificate_is_ca_cert |-> Certificate_is_ca_cert,
    Certificate_verify_now |-> Certificate_verify_now,
    Certificate_verify |-> Certificate_verify,
    Certificate_verify_with_log |-> Certificate_verify_with_log,
    Certificate_check_ocsp_status |-> Certificate_check_ocsp_status,
    cert_get_cert_nicknames |-> cert_get_cert_nicknames,
    Certificate_get_cert_chain |-> Certificate_get_cert_chain,
    Certificate_summary_format_lines |-> Certificate_summary_format_lines,
    Certificate_format_lines |-> Certificate_format_lines ]
=============================================================================
