--------------------------- MODULE ExtensionCalls ---------------------------
(***************************************************************************)
(* py_nss.c: distribution points, authority information and key ids, basic *)
(* constraints, attributes and certificate requests.  Notation: CallSteps. *)
(***************************************************************************)
EXTENDS CallSteps

(* Objects that own an arena from tp_new to tp_dealloc, and objects that   *)
(* own a tuple of parts.                                                   *)
OpenArena  == Get("arena", {}) \o ReturnNone
CloseArena == Clear({"arena"}) \o ReturnNone
DropParts  == Clear({"parts"}) \o ReturnNone

CRLDistributionPt_new       == OpenArena
CRLDistributionPt_dealloc   == CloseArena
AuthorityInfoAccess_new     == OpenArena
AuthorityInfoAccess_dealloc == CloseArena
AuthKeyID_new               == OpenArena
AuthKeyID_dealloc           == CloseArena
CertAttribute_new           == OpenArena
CertAttribute_dealloc       == CloseArena
CertificateRequest_new      == OpenArena
CertificateRequest_dealloc  == CloseArena

CRLDistributionPts_new        == Allocate
CRLDistributionPts_dealloc    == DropParts
AuthorityInfoAccesses_new     == Allocate
AuthorityInfoAccesses_dealloc == DropParts

(* A copy made in the arena of a new object.                               *)
Copy == Get("self", {}) \o Try({"self"}) \o Return("self")

CRLDistributionPt_new_from_CRLDistributionPoint == Copy
AuthorityInfoAccess_new_from_CERTAuthInfoAccess == Copy
AuthKeyID_new_from_CERTAuthKeyID == Copy
AuthKeyID_new_from_SECItem == Copy
BasicConstraints_new_from_SECItem == Copy

-----------------------------------------------------------------------------
(* The parts are decoded in a temporary arena and replace the old ones     *)
(* when all of them exist; the old ones are given up first of all.         *)
DecodeParts(U) ==
  Clear({"parts"}) \o Opt(Mute(U)) \o Take("temp") \o Try(U \cup {"temp"})
    \o Get("py_parts", U \cup {"temp"})
    \o Loop(Part("py_part", U \cup {"temp", "py_parts"}))
    \o Keep("parts", "py_parts") \o Drop({"temp"})

CRLDistributionPts_init_from_SECItem == DecodeParts({}) \o ReturnNone
CRLDistributionPts_init == Try({}) \o DecodeParts({}) \o ReturnNone
AuthorityInfoAccesses_init_from_SECItem == DecodeParts({}) \o ReturnNone
AuthorityInfoAccesses_init ==
  Get("data_param", {}) \o DecodeParts({"data_param"}) \o Drop({"data_param"})
    \o ReturnNone

AuthKeyID_init == Try({}) \o Try({}) \o ReturnNone
BasicConstraints_init == Try({}) \o Try({}) \o ReturnNone

-----------------------------------------------------------------------------
(* Formatting.                                                             *)

CRLDistributionPt_format_lines ==
  LET fail == {"lines", "obj", "obj1"}
      names == Get("obj", fail) \o GetFmtClear("obj1", fail)
                 \o AppendLines("obj", fail)
  IN FormatLines(Opt(Return("lines"))
       \o Either(Either(names, GetFmtClear("obj", fail)), Fail(fail))
       \o GetFmtClear("obj", fail) \o GetFmtClear("obj", fail))

CRLDistributionPt_repr ==
  LET exit == {"rdn", "names", "name_str", "name_desc", "crl_issuer",
               "crl_issuer_str", "reasons", "reasons_str", "sep"}
  IN Opt(Make("result") \o Return("result")) \o Get("sep", exit)
       \o Either(Get("names", exit), Either(Get("rdn", exit), Fail(exit)))
       \o Get("name_str", exit) \o Make("name_desc")
       \o Get("crl_issuer", exit) \o Get("crl_issuer_str", exit)
       \o Get("reasons", exit) \o Get("reasons_str", exit) \o Make("result")
       \o Clear(exit) \o Return("result")

(* A numbered list of parts: each gets a line and then its own lines.      *)
PartLines ==
  LET fail == {"obj", "lines"}
  IN FormatLines(GetFmtClear("obj", fail)
       \o Loop(GetFmtClear("obj", fail) \o Get("obj", fail)
                 \o CallFormatLines(fail) \o Clear({"obj"})))

CRLDistributionPts_format_lines == PartLines
AuthorityInfoAccesses_format_lines == PartLines

AuthorityInfoAccess_format_lines ==
  LET fail == {"obj", "lines"}
  IN FormatLines(Opt(Return("lines"))
       \o GetFmtClear("obj", fail) \o GetFmtClear("obj", fail))

AuthKeyID_format_lines ==
  LET fail == {"obj", "obj1", "lines"}
  IN FormatLines(Opt(Return("lines")) \o FmtLabel(fail) \o Get("obj", fail)
       \o HexLines("obj", fail)
       \o Get("obj", fail) \o Get("obj1", fail) \o Clear({"obj"})
       \o FmtObj(fail) \o Clear({"obj1"})
       \o Get("obj", fail) \o GetFmtClear("obj1", fail) \o AppendLines("obj", fail))

AuthKeyID_repr ==
  LET exit == {"sep", "names", "name_str", "key_id", "key_id_str",
               "serial_number", "serial_number_str"}
  IN Opt(Make("result") \o Return("result"))
       \o Get("sep", exit) \o Get("names", exit) \o Get("name_str", exit)
       \o Get("key_id", exit) \o Get("key_id_str", exit)
       \o Get("serial_number", exit) \o Get("serial_number_str", exit)
       \o Make("result") \o Clear(exit) \o Return("result")

BasicConstraints_format_lines ==
  LET fail == {"obj", "lines"}
  IN FormatLines(Take("obj") \o FmtObj(fail) \o Clear({"obj"})
                   \o GetFmtClear("obj", fail))

-----------------------------------------------------------------------------
(* Attributes and requests.                                                *)

CertAttribute_get_values ==
  LET fail == {"tuple", "obj"}
  IN Get("tuple", fail) \o Loop(Part("obj", {"tuple"})) \o Return("tuple")

CertAttribute_format_lines ==
  LET fail == {"obj", "lines"}
      extension == Get("obj", fail) \o CallFormatLines(fail)
      value == Get("obj", fail) \o FmtObj(fail)
  IN FormatLines(GetFmtClear("obj", fail) \o GetFmtClear("obj", fail)
       \o Loop(GetFmtClear("obj", fail) \o Either(extension, value)
                 \o Clear({"obj"})))

(* No failure in it sets an exception or releases the new object.          *)
CertAttribute_new_from_CERTAttribute ==
  Get("self", {}) \o Opt(Mute({})) \o Opt(Mute({})) \o Loop(Opt(Mute({})))
    \o Return("self")

My_CERT_GetCertificateRequestExtensions ==
  Try({}) \o Opt(ReturnNone) \o Try({}) \o ReturnNone

CertificateRequest_init_from_SECItem ==
  Try({}) \o Try({}) \o Try({}) \o Try({}) \o Try({}) \o ReturnNone

CertificateRequest_init ==
  Opt(Get("der_item", {})) \o Opt(Try({"der_item"})) \o Clear({"der_item"})
    \o ReturnNone

CertificateRequest_get_attributes ==
  LET all == {"attributes_tuple"}
  IN Opt(ReturnNone) \o Get("attributes_tuple", {})
       \o Loop(Either(Part("py_cert_attribute", all), Mute(all)))
       \o Return("attributes_tuple")

(* obj is borrowed from the tuple of attributes in their loop.             *)
CertificateRequest_format_lines ==
  LET fail == {"obj", "obj1", "obj2", "lines", "attributes"}
  IN FormatLines(FmtLabel(fail) \o Get("obj", fail) \o Get("obj2", fail)
       \o FmtObj(fail) \o Clear({"obj", "obj2"})
       \o GetFmtClear("obj", fail) \o FmtLabel(fail) \o Get("obj", fail)
       \o CallFormatLines(fail) \o Clear({"obj"})
       \o Get("attributes", fail) \o GetFmtClear("obj", fail)
       \o Loop(GetFmtClear("obj", fail) \o Lend("obj") \o CallFormatLines(fail)
                 \o FmtLabel(fail))
       \o Clear({"attributes"}))

(* The functions of this module, by name.                                  *)
ExtensionBody ==
  [ CRLDistributionPt_new |-> CRLDistributionPt_new,
    CRLDistributionPt_dealloc |-> CRLDistributionPt_dealloc,
    AuthorityInfoAccess_new |-> AuthorityInfoAccess_new,
    AuthorityInfoAccess_dealloc |-> AuthorityInfoAccess_dealloc,
    AuthKeyID_new |-> AuthKeyID_new, AuthKeyID_dealloc |-> AuthKeyID_dealloc,
    CertAttribute_new |-> CertAttribute_new,
    CertAttribute_dealloc |-> CertAttribute_dealloc,
    CertificateRequest_new |-> CertificateRequest_new,
    CertificateRequest_dealloc |-> CertificateRequest_dealloc,
    CRLDistributionPts_new |-> CRLDistributionPts_new,
    CRLDistributionPts_dealloc |-> CRLDistributionPts_dealloc,
    AuthorityInfoAccesses_new |-> AuthorityInfoAccesses_new,
    AuthorityInfoAccesses_dealloc |-> AuthorityInfoAccesses_dealloc,
    CRLDistributionPt_new_from_CRLDistributionPoint |-> CRLDistributionPt_new_from_CRLDistributionPoint,
    AuthorityInfoAccess_new_from_CERTAuthInfoAccess |-> AuthorityInfoAccess_new_from_CERTAuthInfoAccess,
    AuthKeyID_new_from_CERTAuthKeyID |-> AuthKeyID_new_from_CERTAuthKeyID,
    AuthKeyID_new_from_SECItem |-> AuthKeyID_new_from_SECItem,
    BasicConstraints_new_from_SECItem |-> BasicConstraints_new_from_SECItem,
    CRLDistributionPts_init_from_SECItem |-> CRLDistributionPts_init_from_SECItem,
    CRLDistributionPts_init |-> CRLDistributionPts_init,
    AuthorityInfoAccesses_init_from_SECItem |-> AuthorityInfoAccesses_init_from_SECItem,
    AuthorityInfoAccesses_init |-> AuthorityInfoAccesses_init,
    AuthKeyID_init |-> AuthKeyID_init,
    BasicConstraints_init |-> BasicConstraints_init,
    CRLDistributionPt_format_lines |-> CRLDistributionPt_format_lines,
    CRLDistributionPt_repr |-> CRLDistributionPt_repr,
    CRLDistributionPts_format_lines |-> CRLDistributionPts_format_lines,
    AuthorityInfoAccesses_format_lines |-> AuthorityInfoAccesses_format_lines,
    AuthorityInfoAccess_format_lines |-> AuthorityInfoAccess_format_lines,
    AuthKeyID_format_lines |-> AuthKeyID_format_lines,
    AuthKeyID_repr |-> AuthKeyID_repr,
    BasicConstraints_format_lines |-> BasicConstraints_format_lines,
    CertAttribute_get_values |-> CertAttribute_get_values,
    CertAttribute_format_lines |-> CertAttribute_format_lines,
    CertAttribute_new_from_CERTAttribute |-> CertAttribute_new_from_CERTAttribute,
    My_CERT_GetCertificateRequestExtensions |-> My_CERT_GetCertificateRequestExtensions,
    CertificateRequest_init_from_SECItem |-> CertificateRequest_init_from_SECItem,
    CertificateRequest_init |-> CertificateRequest_init,
    CertificateRequest_get_attributes |-> CertificateRequest_get_attributes,
    CertificateRequest_format_lines |-> CertificateRequest_format_lines ]
=============================================================================
