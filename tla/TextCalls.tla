----------------------------- MODULE TextCalls -----------------------------
(***************************************************************************)
(* py_nss.c: formatted lines, hex and base64 text, DER values as text, the *)
(* name tables, thread local storage.  Notation: CallSteps.                *)
(***************************************************************************)
EXTENDS CallSteps

line_fmt_tuple ==
  Opt(Get("py_label", {})) \o Opt(Get("py_value_str", {}))
    \o Get("fmt_tuple", {}) \o Pass("py_label") \o Pass("py_value_str")
    \o Return("fmt_tuple")

(* A failing line drops the list, and the function returns it all the same. *)
make_line_fmt_tuples ==
  LET wreck == Raise \o Drop({"lines"}) \o Clear({"obj", "seq"})
                 \o Return("lines")
      line == Either(Take("fmt_tuple"), wreck) \o Give("fmt_tuple")
      start(x) == Take(x) \o Get("lines", {"obj", "seq"})
  IN Either(start("seq") \o Loop(Either(Take("obj"), wreck) \o line
                                   \o Clear({"obj"})),
            start("obj") \o line)
       \o Clear({"obj", "seq"}) \o Return("lines")

format_from_lines ==
  LET fail == {"tmp_args", "py_lines"}
  IN Try({}) \o Get("tmp_args", fail) \o Get("py_lines", fail)
       \o Clear({"tmp_args"}) \o Get("tmp_args", fail) \o Get("result", fail)
       \o Drop({"tmp_args", "py_lines"}) \o Return("result")

py_indented_format ==
  LET fail == {"py_string_utf8", "line_info", "py_formatted_str"}
      measure == Opt(Get("py_string_utf8", fail) \o Try(fail))
                   \o Clear({"py_string_utf8"})
      copy == Opt(Take("py_string_utf8") \o Clear({"py_string_utf8"}))
  IN Try({}) \o Get("line_info", {})
       \o Loop(Try(fail) \o measure \o measure)
       \o Get("py_formatted_str", fail) \o Loop(copy \o copy)
       \o Make("result") \o Drop({"py_formatted_str"}) \o Return("result")

base64_to_SECItem == Opt(Try({})) \o Get("der", {}) \o Give("der") \o ReturnNone

SECItem_to_base64 ==
  LET fail == {"base64", "lines", "py_base64"}
      line == Get("line", fail) \o Give("line")
  IN Get("base64", {})
       \o Opt(Get("lines", fail) \o Opt(line) \o Loop(line) \o Opt(line)
                \o Drop({"base64"}) \o Return("lines"))
       \o Make("py_base64") \o Drop({"base64"}) \o Return("py_base64")

read_data_from_file ==
  LET read(close) == Either(Take("contents"), Raise \o close
                              \o Drop({"py_file"}) \o Reraise)
                       \o close \o Drop({"py_file"}) \o Return("contents")
  IN Opt(Get("py_file", {}) \o read(Make("closed")))
       \o Either(Take("py_file"), Fail({})) \o read(<<>>)

SECItemConvert ==
  Either(Get("ip", {}), Get("ip", {}) \o Try({"ip"}) \o Take("ip.py_buffer")
                          \o Give("ip.py_buffer"))
    \o Return("ip")

SECItemOrNoneConvert ==
  Opt(ReturnNone)
    \o Either(Get("ip", {}), Get("ip", {}) \o Try({"ip"}) \o Take("ip.py_buffer")
                               \o Give("ip.py_buffer"))
    \o Return("ip")

bitstr_table_to_tuple ==
  Get("tuple", {}) \o Loop(Try({"tuple"})) \o Return("tuple")

decode_oid_sequence_to_tuple ==
  LET fail == {"tuple", "os"}
  IN Try({}) \o Get("os", {}) \o Get("tuple", {"os"})
       \o Loop(Get("py_oid", fail) \o Give("py_oid"))
       \o Drop({"os"}) \o Return("tuple")

CERTCertExtension_tuple ==
  LET fail == {"tuple", "py_ext"}
  IN Either(Take("tuple"), Get("tuple", {})
              \o Loop(Get("py_ext", fail) \o Get("py_obj", fail) \o Give("py_obj")
                        \o Clear({"py_ext"})))
       \o Return("tuple")

PK11SlotList_to_tuple ==
  Get("tuple", {}) \o Loop(Get("py_slotinfo", {"tuple"}) \o Give("py_slotinfo"))
    \o Return("tuple")

CERTCertList_to_tuple ==
  Get("tuple", {}) \o Loop(Get("py_cert", {"tuple"}) \o Give("py_cert"))
    \o Return("tuple")

(* A name that cannot be made becomes a NULL item of the tuple.            *)
CERTGeneralName_list_to_tuple ==
  Get("names", {})
    \o Loop(Either(Make("name"), Fail({"names"})) \o Pass("name"))
    \o Return("names")

(* The copies live in the caller's arena; mark is where a failed one is    *)
(* unwound to.                                                             *)
Copied(copies) == Take("mark") \o copies \o Drop({"mark"}) \o ReturnNone

CERT_CopyGeneralName ==
  Try({}) \o Copied(Try({"mark"}) \o Try({"mark"}) \o Opt(Try({"mark"})))
CERT_CopyGeneralNameList == Try({}) \o Copied(Loop(Try({"mark"})))
CERT_CopyCRLDistributionPoint ==
  Copied(Try({"mark"}) \o Opt(Try({"mark"})) \o Try({"mark"}) \o Try({"mark"})
           \o Try({"mark"}) \o Opt(Try({"mark"})))
CERT_CopyAuthKeyID ==
  Copied(Try({"mark"}) \o Try({"mark"}) \o Try({"mark"}) \o Try({"mark"}))
CERT_CopyAuthInfoAccess ==
  Copied(Try({"mark"}) \o Try({"mark"}) \o Try({"mark"}) \o Try({"mark"}))

oid_tag_from_name ==
  LET names == {"py_name", "py_lower_name"}
  IN Get("py_name", {}) \o Get("py_lower_name", {"py_name"}) \o Try(names)
       \o Drop(names) \o ReturnNone

oid_tag_to_pystr_name ==
  Get("py_value", {}) \o Try({"py_value"}) \o Drop({"py_value"})
    \o Take("py_name") \o Return("py_name")

(* PyBytes_AsString fails on the NULL of a failed conversion, and the NULL *)
(* is then released with Py_DECREF.                                        *)
get_oid_tag_from_object ==
  LET utf8 == {"py_obj_string_utf8"}
  IN Either(Either(Take("py_obj_string_utf8"), Raise \o Drop(utf8) \o Reraise)
              \o Opt(Try(utf8) \o Opt(Take("item") \o Drop({"item"})))
              \o Drop(utf8),
            Try({}))
       \o ReturnNone

_AddIntConstantWithLookup ==
  LET exit == {"py_name", "py_name_sans_prefix", "py_lower_name", "py_value",
               "py_prefix", "py_lower_prefix"}
  IN Try(exit) \o Get("py_name", exit) \o Get("py_lower_name", exit)
       \o Get("py_value", exit) \o Try(exit) \o Try(exit) \o Try(exit) \o Try(exit)
       \o Opt(Get("py_prefix", exit) \o Get("py_lower_prefix", exit)
                \o Get("py_name_sans_prefix", exit) \o Try(exit))
       \o Clear(exit) \o ReturnNone

_AddIntConstantAlias ==
  LET exit == {"py_name", "py_lower_name", "py_value"}
  IN Get("py_name", exit) \o Get("py_lower_name", exit) \o Get("py_value", exit)
       \o Try(exit) \o Try(exit) \o Clear(exit) \o ReturnNone

(* PyDict_SetItemString takes a reference of its own.                      *)
set_thread_local ==
  Try({}) \o Opt(Get("thread_local_dict", {}) \o Try({"thread_local_dict"}))
    \o Try({}) \o ReturnNone

get_thread_local == Try({}) \o Opt(ReturnNone) \o Lend("obj") \o ReturnNone
del_thread_local == Try({}) \o Opt(ReturnNone) \o Try({}) \o ReturnNone

UTF8OrNoneConvert == Opt(ReturnNone) \o Get("py_utf8", {}) \o Return("py_utf8")

obj_sprintf ==
  Get("args", {}) \o Loop(Take("obj") \o Give("obj")) \o Get("py_fmt", {"args"})
    \o Make("result") \o Drop({"py_fmt", "args"}) \o Return("result")

obj_to_hex ==
  Try({}) \o Get("view", {}) \o Make("result") \o Drop({"view"})
    \o Return("result")

(* The last failure releases line and lines and goes on.                   *)
raw_data_to_hex ==
  Opt(Get("line", {}) \o Make("unicode_line") \o Drop({"line"})
        \o Return("unicode_line"))
    \o Get("lines", {})
    \o Loop(Get("line", {"lines"})
              \o Either(Take("unicode_line"), Raise \o Drop({"line", "lines"}))
              \o Drop({"line"}) \o Pass("unicode_line"))
    \o Return("lines")

read_hex ==
  Try({}) \o Get("data", {}) \o Loop(Try({"data"}) \o Try({"data"}))
    \o Get("py_out_buf", {"data"}) \o Drop({"data"}) \o Return("py_out_buf")

der_context_specific_secitem_to_pystr ==
  LET hex == {"hex_str"}
  IN Opt(Either(Take("hex_str")
                  \o Either(Take("py_str") \o Drop(hex) \o Return("py_str"),
                            Raise \o Drop(hex)),
                Raise))
       \o Make("py_str") \o Return("py_str")

der_set_or_str_secitem_to_pylist_of_pystr ==
  Opt(Make("result") \o Return("result")) \o Opt(ReturnNone)
    \o Get("py_items", {}) \o Loop(Make("py_item")) \o Return("py_items")

integer_secitem_to_pylong ==
  LET error == {"l", "eight", "new_bits", "tmp"}
  IN Opt(Make("l") \o Return("l"))
       \o Get("l", error) \o Get("eight", {})
       \o Loop(Get("new_bits", error) \o Get("tmp", error) \o Clear({"l"})
                 \o Get("l", error) \o Clear({"tmp", "new_bits"}))
       \o Clear({"eight", "new_bits", "tmp"}) \o Return("l")

(* A bit string is converted and the result forgotten.                     *)
der_universal_secitem_to_pystr ==
  Opt(Make("result") \o Return("result")) \o Make("bits") \o ReturnNone

der_bit_string_secitem_to_pystr ==
  Opt(ReturnNone)
    \o Make("str") \o Opt(Take("note") \o Give("note") \o Opt(Raise \o Clear({"str"})))
    \o Return("str")

ascii_string_secitem_to_escaped_ascii_pystr ==
  Get("py_str", {}) \o Make("result") \o Drop({"py_str"}) \o Return("result")

CERTName_to_pystr ==
  Opt(Make("py_name") \o Return("py_name"))
    \o Take("name") \o Make("py_name") \o Drop({"name"}) \o Return("py_name")

oid_secitem_to_pystr_desc ==
  Either(Take("oid_string") \o Make("result") \o Drop({"oid_string"}),
         Make("result"))
    \o Return("result")

oid_secitem_to_pystr_dotted_decimal ==
  Opt(Make("result") \o Return("result"))
    \o Take("oid_string") \o Get("result", {"oid_string"})
    \o Drop({"oid_string"}) \o Return("result")

integer_secitem_to_pystr ==
  Get("py_int", {}) \o Make("py_str") \o Drop({"py_int"}) \o Return("py_str")

(* An unknown time type raises, and the text is made all the same.         *)
time_choice_secitem_to_pystr ==
  Opt(Raise) \o Make("result") \o Return("result")

cert_der_universal_secitem_fmt_lines ==
  LET fail == {"lines"}
  IN Try({}) \o Get("lines", {}) \o Either(Make("obj"), Make("bits"))
       \o Either(AppendLines("obj", fail), Opt(FmtObj(fail))) \o Return("lines")

secitem_integer_format_lines ==
  LET fail == {"obj_lines", "obj", "obj1", "lines"}
  IN Get("lines", {})
       \o Either(Get("obj_lines", fail) \o AppendLines("obj_lines", fail),
                 Get("obj", fail) \o Get("obj1", fail) \o Clear({"obj"})
                   \o FmtObj(fail) \o Clear({"obj1"}))
       \o Return("lines")

(* A failed hash raises, and the bytes are formatted all the same.         *)
fingerprint_format_lines ==
  LET fail == {"obj", "lines"}
      digest == FmtLabel(fail) \o Get("obj", fail) \o Opt(Raise)
                  \o HexLines("obj", fail)
  IN Get("lines", {}) \o digest \o digest \o Return("lines")

CERTGeneralName_type_string_to_pystr ==
  Opt(Either(Take("py_oid") \o Make("result") \o Drop({"py_oid"})
               \o Return("result"), Raise))
    \o Make("result") \o Return("result")

CERTGeneralName_to_pystr_with_label ==
  Opt(Mute({}))
    \o Either(Take("py_label") \o Take("py_value") \o Make("result"),
              Either(Raise \o Take("py_value") \o Take("result"),
                     Make("py_label") \o Raise))
    \o Clear({"py_label", "py_value"}) \o Return("result")

(* One attribute and value of a name, the text of which step makes.        *)
AvaText(step) ==
  Opt(Get("oid_name", {})) \o Get("value_item", {"oid_name"})
    \o Try({"oid_name", "value_item"}) \o Drop({"value_item"})
    \o step \o Clear({"oid_name"})

CERTAVA_value_to_pystr ==
  Opt(Make("result") \o Return("result"))
    \o AvaText(Get("result", {"oid_name"})) \o Return("result")

CERTRDN_to_pystr ==
  Opt(Make("result") \o Return("result"))
    \o AvaText(Get("result", {"oid_name"}))
    \o Loop(AvaText(Get("temp", {"oid_name"}) \o Give("temp")
                      \o Opt(Clear({"result"}) \o Fail({"oid_name"}))))
    \o Return("result")

(* BIT_FLAGS_TO_LIST: the names of the bits that are set.                  *)
BitFlags ==
  LET flag == Get("py_flag", {"py_flags"}) \o Drop({"py_flag"})
  IN Try({}) \o Get("py_flags", {}) \o Loop(flag) \o Opt(flag)
       \o Try({"py_flags"}) \o Return("py_flags")

key_usage_flags == BitFlags
cert_type_flags == BitFlags
cert_trust_flags == BitFlags

(* The functions of this module, by name.                                  *)
TextBody ==
  [ line_fmt_tuple |-> line_fmt_tuple,
    make_line_fmt_tuples |-> make_line_fmt_tuples,
    format_from_lines |-> format_from_lines,
    py_indented_format |-> py_indented_format,
    base64_to_SECItem |-> base64_to_SECItem,
    SECItem_to_base64 |-> SECItem_to_base64,
    read_data_from_file |-> read_data_from_file,
    SECItemConvert |-> SECItemConvert,
    SECItemOrNoneConvert |-> SECItemOrNoneConvert,
    bitstr_table_to_tuple |-> bitstr_table_to_tuple,
    decode_oid_sequence_to_tuple |-> decode_oid_sequence_to_tuple,
    CERTCertExtension_tuple |-> CERTCertExtension_tuple,
    PK11SlotList_to_tuple |-> PK11SlotList_to_tuple,
    CERTCertList_to_tuple |-> CERTCertList_to_tuple,
    CERTGeneralName_list_to_tuple |-> CERTGeneralName_list_to_tuple,
    CERT_CopyGeneralName |-> CERT_CopyGeneralName,
    CERT_CopyGeneralNameList |-> CERT_CopyGeneralNameList,
    CERT_CopyCRLDistributionPoint |-> CERT_CopyCRLDistributionPoint,
    CERT_CopyAuthKeyID |-> CERT_CopyAuthKeyID,
    CERT_CopyAuthInfoAccess |-> CERT_CopyAuthInfoAccess,
    oid_tag_from_name |-> oid_tag_from_name,
    oid_tag_to_pystr_name |-> oid_tag_to_pystr_name,
    get_oid_tag_from_object |-> get_oid_tag_from_object,
    _AddIntConstantWithLookup |-> _AddIntConstantWithLookup,
    _AddIntConstantAlias |-> _AddIntConstantAlias,
    set_thread_local |-> set_thread_local,
    get_thread_local |-> get_thread_local,
    del_thread_local |-> del_thread_local,
    UTF8OrNoneConvert |-> UTF8OrNoneConvert, obj_sprintf |-> obj_sprintf,
    obj_to_hex |-> obj_to_hex, raw_data_to_hex |-> raw_data_to_hex,
    read_hex |-> read_hex,
    der_context_specific_secitem_to_pystr |-> der_context_specific_secitem_to_pystr,
    der_set_or_str_secitem_to_pylist_of_pystr |-> der_set_or_str_secitem_to_pylist_of_pystr,
    integer_secitem_to_pylong |-> integer_secitem_to_pylong,
    der_universal_secitem_to_pystr |-> der_universal_secitem_to_pystr,
    der_bit_string_secitem_to_pystr |-> der_bit_string_secitem_to_pystr,
    ascii_string_secitem_to_escaped_ascii_pystr |-> ascii_string_secitem_to_escaped_ascii_pystr,
    CERTName_to_pystr |-> CERTName_to_pystr,
    oid_secitem_to_pystr_desc |-> oid_secitem_to_pystr_desc,
    oid_secitem_to_pystr_dotted_decimal |-> oid_secitem_to_pystr_dotted_decimal,
    integer_secitem_to_pystr |-> integer_secitem_to_pystr,
    time_choice_secitem_to_pystr |-> time_choice_secitem_to_pystr,
    cert_der_universal_secitem_fmt_lines |-> cert_der_universal_secitem_fmt_lines,
    secitem_integer_format_lines |-> secitem_integer_format_lines,
    fingerprint_format_lines |-> fingerprint_format_lines,
    CERTGeneralName_type_string_to_pystr |-> CERTGeneralName_type_string_to_pystr,
    CERTGeneralName_to_pystr_with_label |-> CERTGeneralName_to_pystr_with_label,
    CERTAVA_value_to_pystr |-> CERTAVA_value_to_pystr,
    CERTRDN_to_pystr |-> CERTRDN_to_pystr, key_usage_flags |-> key_usage_flags,
    cert_type_flags |-> cert_type_flags, cert_trust_flags |-> cert_trust_flags ]
=============================================================================
