----------------------------- MODULE InitCalls -----------------------------
(***************************************************************************)
(* py_nss.c: InitParameters, the certificate verification log, and the     *)
(* PKCS #12 decoder, encoder and nickname callbacks.  Notation: CallSteps. *)
(***************************************************************************)
EXTENDS CallSteps

(* A string attribute of InitParameters.  PyArg_ParseTuple never returns   *)
(* -1, so a value of the wrong type clears the attribute, and the setter   *)
(* reports success with the exception set.                                 *)
SetString(field) ==
  Opt(Clear({field}) \o ReturnNone) \o Get("args", {})
    \o Either(Take("new_value") \o Clear({field}) \o Keep(field, "new_value"),
              Raise \o Clear({field}))
    \o Drop({"args"}) \o ReturnNone

InitParameters_set_password_required        == Try({}) \o Try({}) \o ReturnNone
InitParameters_set_min_password_len         == SetInteger
InitParameters_set_manufacturer_id          == SetString("manufactureID")
InitParameters_set_library_description      == SetString("libraryDescription")
InitParameters_set_crypto_token_description == SetString("cryptoTokenDescription")
InitParameters_set_db_token_description     == SetString("dbTokenDescription")
InitParameters_set_fips_token_description   == SetString("FIPSTokenDescription")
InitParameters_set_crypto_slot_description  == SetString("cryptoSlotDescription")
InitParameters_set_db_slot_description      == SetString("dbSlotDescription")
InitParameters_set_fips_slot_description    == SetString("FIPSSlotDescription")

Texts == {"manufactureID", "libraryDescription", "cryptoTokenDescription",
          "dbTokenDescription", "FIPSTokenDescription", "cryptoSlotDescription",
          "dbSlotDescription", "FIPSSlotDescription"}

InitParameters_new     == Allocate
InitParameters_dealloc == Clear(Texts) \o ReturnNone

(* The setters in turn, for the arguments that were given.                 *)
InitParameters_init ==
  LET store(field) == Either(Take("new_value") \o Clear({field})
                               \o Keep(field, "new_value"),
                             Raise \o Clear({field}))
      set(field) == Opt(Get("args", {}) \o store(field) \o Drop({"args"}))
  IN Try({}) \o Opt(Try({})) \o Opt(Try({}))
       \o set("manufactureID") \o set("libraryDescription")
       \o set("cryptoTokenDescription") \o set("dbTokenDescription")
       \o set("FIPSTokenDescription") \o set("cryptoSlotDescription")
       \o set("dbSlotDescription") \o set("FIPSSlotDescription") \o ReturnNone

InitParameters_format_lines ==
  LET attribute == GetFmtClear("obj", {"obj", "lines"})
  IN FormatLines(attribute \o attribute \o attribute \o attribute \o attribute
       \o attribute \o attribute \o attribute \o attribute \o attribute)

InitParameters_str ==
  LET values == {"py_password_required", "py_min_password_len"} \cup Texts
      exit == values \cup {"fmt", "args"}
  IN Get("py_password_required", exit) \o Get("py_min_password_len", exit)
       \o Get("manufactureID", exit) \o Get("libraryDescription", exit)
       \o Get("cryptoTokenDescription", exit) \o Get("dbTokenDescription", exit)
       \o Get("FIPSTokenDescription", exit) \o Get("cryptoSlotDescription", exit)
       \o Get("dbSlotDescription", exit) \o Get("FIPSSlotDescription", exit)
       \o Get("fmt", exit) \o Get("args", exit) \o Get("result", exit)
       \o Clear(exit) \o Return("result")

-----------------------------------------------------------------------------
(* The log of a verification.                                              *)

CertVerifyLogNodeError_format_lines ==
  LET fail == {"py_cert", "obj"}
      issuer == Get("py_cert", fail) \o Get("obj", fail) \o Clear({"py_cert"})
                  \o FmtObj(fail) \o Clear({"obj"})
  IN GetFmtClear("obj", fail)
       \o Opt(Either(GetFmtClear("obj", fail), issuer)) \o ReturnNone

CertVerifyLogNode_format_lines ==
  LET fail == {"py_cert", "obj", "lines"}
  IN FormatLines(FmtLabel(fail) \o Get("py_cert", fail) \o Try(fail)
       \o Clear({"py_cert"}) \o GetFmtClear("obj", fail) \o Try(fail))

CertVerifyLogNode_new     == Allocate
CertVerifyLogNode_dealloc == Clear({"cert"}) \o ReturnNone
CertVerifyLogNode_new_from_CERTVerifyLogNode ==
  Get("self", {}) \o Take("cert") \o Give("cert") \o Return("self")

CertVerifyLog_item == Make("py_node") \o Return("py_node")

CertVerifyLog_format_lines ==
  LET fail == {"py_node", "py_cert", "obj", "lines"}
      title == Get("obj", fail) \o FmtLabel(fail) \o Clear({"obj"})
      certificate == title \o Get("py_cert", fail) \o Try(fail)
                       \o Clear({"py_cert"}) \o FmtLabel(fail)
  IN FormatLines(GetFmtClear("obj", fail)
       \o Loop(Make("py_node") \o Use("py_node") \o Opt(certificate) \o title
                 \o Try(fail) \o Clear({"py_node"})))

CertVerifyLog_new     == Get("arena", {}) \o ReturnNone
CertVerifyLog_dealloc == Clear({"arena"}) \o ReturnNone

-----------------------------------------------------------------------------
(* PKCS #12 items: four references each.                                   *)

PKCS12DecodeItem_new  == Allocate
PKCS12DecodeItem_init == Try({}) \o ReturnNone
PKCS12DecodeItem_dealloc ==
  Clear({"py_signed_cert_der", "py_cert", "py_friendly_name",
         "py_shroud_algorithm_id"}) \o ReturnNone

PKCS12DecodeItem_format_lines ==
  LET fail == {"obj", "lines"}
      names == FmtObj(fail) \o FmtObj(fail)
      certificate == FmtLabel(fail) \o FmtObj(fail) \o MakeFmtClear("obj", fail)
                       \o names
  IN FormatLines(MakeFmtClear("obj", fail)
       \o Either(certificate, Either(FmtLabel(fail) \o names, FmtLabel(fail))))

PKCS12DecodeItem_new_from_SEC_PKCS12DecoderItem ==
  Get("self", {}) \o Part("py_signed_cert_der", {"self"})
    \o Part("py_friendly_name", {"self"})
    \o Part("py_shroud_algorithm_id", {"self"}) \o Part("py_cert", {"self"})
    \o Return("self")

-----------------------------------------------------------------------------
(* Decoding.  The internal slot is asked for and not given back; a second  *)
(* __init__ overwrites what the first one left in the fields.              *)

PKCS12Decoder_new == Allocate
PKCS12Decoder_dealloc ==
  Clear({"ucs2_password_item", "decoder_ctx", "py_decode_items"}) \o ReturnNone

PKCS12Decoder_init ==
  LET exit == {"utf8_password", "py_file_contents"}
  IN Get("utf8_password", {}) \o Get("py_file_contents", exit) \o Try(exit)
       \o Get("ucs2_password_item", exit) \o Try(exit) \o Opt(Take("slot"))
       \o Get("decoder_ctx", exit) \o Try(exit) \o Try(exit) \o Try(exit)
       \o Get("py_decode_items", exit) \o Try(exit)
       \o Loop(Part("py_decode_item", exit)) \o Drop(exit) \o ReturnNone

(* The tuple of a decoder whose __init__ failed half way has NULL items.   *)
PKCS12Decoder_item ==
  Either(Fail({}), Either(Mute({}), Make("py_decode_item")))
    \o Return("py_decode_item")

PKCS12Decoder_format_lines ==
  LET fail == {"obj", "lines"}
      message == Take("msg") \o FmtLabel(fail) \o Drop({"msg"})
      item == Either(Take("obj") \o CallFormatLines(fail) \o Clear({"obj"}),
                     Fail(fail))
  IN FormatLines(message \o Loop(message \o item \o Opt(FmtLabel(fail))))

PKCS12Decoder_database_import ==
  Opt(Raise) \o Try({}) \o Try({}) \o ReturnNone

-----------------------------------------------------------------------------
(* The nickname callbacks.  NSS calls them, so there is nobody to report   *)
(* an exception to; gstate is the state that PyGILState_Release is owed.   *)

PKCS12_default_nickname_collision_callback ==
  Opt(Mute({})) \o Either(Take("nickname"), Mute({})) \o Opt(Mute({"nickname"}))
    \o Either(Take("returned_nickname"), Mute({"nickname"})) \o Give("nickname")
    \o Return("returned_nickname")

PKCS12_nickname_collision_callback ==
  LET exit == {"new_args", "result", "py_new_nickname_utf8", "gstate"}
  IN Take("gstate") \o Opt(Opt(Raise \o Forget) \o Mute({"gstate"}))
       \o Make("py_old_nickname")
       \o Either(Take("py_cert"), Raise \o Drop({"py_old_nickname"}) \o Reraise)
       \o Get("new_args", exit) \o Pass("py_old_nickname") \o Give("py_cert")
       \o Either(Take("result"), Mute(exit)) \o Opt(Mute(exit))
       \o Opt(Take("py_new_nickname_utf8") \o Get("returned_nickname", exit))
       \o Clear(exit) \o Return("returned_nickname")

PKCS12_pkcs12_set_nickname_collision_callback ==
  Try({}) \o Try({}) \o Try({}) \o ReturnNone

(* Encoding.  The buffer is lost to a failed encoder, or to a part that    *)
(* the feed function could not append.                                     *)
pkcs12_export ==
  LET exit == {"utf8_nickname", "utf8_pkcs12_password", "cert_list", "export_ctx"}
  IN Get("utf8_nickname", exit) \o Get("utf8_pkcs12_password", exit)
       \o Get("cert_list", exit) \o Try(exit) \o Try(exit)
       \o Get("export_ctx", exit) \o Try(exit)
       \o Loop(Try(exit) \o Try(exit) \o Try(exit))
       \o Get("py_encoded_buf", exit) \o Try(exit \cup {"py_encoded_buf"})
       \o Opt(Raise \o Clear({"py_encoded_buf"}))
       \o Drop(exit) \o Return("py_encoded_buf")

(* The functions of this module, by name.                                  *)
InitBody ==
  [ InitParameters_set_password_required |-> InitParameters_set_password_required,
    InitParameters_set_min_password_len |-> InitParameters_set_min_password_len,
    InitParameters_set_manufacturer_id |-> InitParameters_set_manufacturer_id,
    InitParameters_set_library_description |-> InitParameters_set_library_description,
    InitParameters_set_crypto_token_description |-> InitParameters_set_crypto_token_description,
    InitParameters_set_db_token_description |-> InitParameters_set_db_token_description,
    InitParameters_set_fips_token_description |-> InitParameters_set_fips_token_description,
    InitParameters_set_crypto_slot_description |-> InitParameters_set_crypto_slot_description,
    InitParameters_set_db_slot_description |-> InitParameters_set_db_slot_description,
    InitParameters_set_fips_slot_description |-> InitParameters_set_fips_slot_description,
    InitParameters_new |-> InitParameters_new,
    InitParameters_dealloc |-> InitParameters_dealloc,
    InitParameters_init |-> InitParameters_init,
    InitParameters_format_lines |-> InitParameters_format_lines,
    InitParameters_str |-> InitParameters_str,
    CertVerifyLogNodeError_format_lines |-> CertVerifyLogNodeError_format_lines,
    CertVerifyLogNode_format_lines |-> CertVerifyLogNode_format_lines,
    CertVerifyLogNode_new |-> CertVerifyLogNode_new,
    CertVerifyLogNode_dealloc |-> CertVerifyLogNode_dealloc,
    CertVerifyLogNode_new_from_CERTVerifyLogNode |-> CertVerifyLogNode_new_from_CERTVerifyLogNode,
    CertVerifyLog_item |-> CertVerifyLog_item,
    CertVerifyLog_format_lines |-> CertVerifyLog_format_lines,
    CertVerifyLog_new |-> CertVerifyLog_new,
    CertVerifyLog_dealloc |-> CertVerifyLog_dealloc,
    PKCS12DecodeItem_new |-> PKCS12DecodeItem_new,
    PKCS12DecodeItem_init |-> PKCS12DecodeItem_init,
    PKCS12DecodeItem_dealloc |-> PKCS12DecodeItem_dealloc,
    PKCS12DecodeItem_format_lines |-> PKCS12DecodeItem_format_lines,
    PKCS12DecodeItem_new_from_SEC_PKCS12DecoderItem |-> PKCS12DecodeItem_new_from_SEC_PKCS12DecoderItem,
    PKCS12Decoder_new |-> PKCS12Decoder_new,
    PKCS12Decoder_dealloc |-> PKCS12Decoder_dealloc,
    PKCS12Decoder_init |-> PKCS12Decoder_init,
    PKCS12Decoder_item |-> PKCS12Decoder_item,
    PKCS12Decoder_format_lines |-> PKCS12Decoder_format_lines,
    PKCS12Decoder_database_import |-> PKCS12Decoder_database_import,
    PKCS12_default_nickname_collision_callback |-> PKCS12_default_nickname_collision_callback,
    PKCS12_nickname_collision_callback |-> PKCS12_nickname_collision_callback,
    PKCS12_pkcs12_set_nickname_collision_callback |-> PKCS12_pkcs12_set_nickname_collision_callback,
    pkcs12_export |-> pkcs12_export ]
=============================================================================
