----------------------------- MODULE NameCalls -----------------------------
(***************************************************************************)
(* py_nss.c: AVA, RDN, DN and GeneralName, the parts of names.             *)
(* Notation: CallSteps.                                                    *)
(***************************************************************************)
EXTENDS CallSteps

(* Each of the four owns an arena from tp_new to tp_dealloc.               *)
NewArena == Get("arena", {}) \o ReturnNone
FreeArena == Clear({"arena"}) \o ReturnNone

AVA_new == NewArena
AVA_dealloc == FreeArena
RDN_new == NewArena
RDN_dealloc == FreeArena
DN_new == NewArena
DN_dealloc == FreeArena
GeneralName_new == NewArena
GeneralName_dealloc == FreeArena

-----------------------------------------------------------------------------

(* A failed conversion raises over what the conversion raised.             *)
CERTAVA_compare ==
  LET text == {"a_val_str", "b_val_str"}
      lower == {"a_val_str_lower", "b_val_str_lower"}
      pair(a, b, U) == Either(Take(a) \o Take(b),
                         Make(a) \o Make(b) \o Clear(U) \o Fail({}))
  IN Opt(ReturnNone) \o Opt(ReturnNone)
       \o pair("a_val_str", "b_val_str", text)
       \o pair("a_val_str_lower", "b_val_str_lower", text \cup lower)
       \o Drop(text \cup lower) \o ReturnNone

CERTRDN_compare == Opt(ReturnNone) \o Loop(Try({})) \o ReturnNone

AVA_init ==
  LET utf8 == {"py_value_utf8"}
  IN Try({}) \o Try({}) \o Try({}) \o Try({})
       \o Either(Take("py_value_utf8"), Raise \o Drop(utf8) \o Reraise)
       \o Try(utf8) \o Clear(utf8) \o ReturnNone

(* The copies of type and value are not made in the arena.                 *)
AVA_new_from_CERTAVA ==
  Get("self", {}) \o Try({"self"}) \o Get("type", {"self"})
    \o Get("value", {"self"}) \o Return("self")

RDN_item == Try({}) \o Try({}) \o Make("py_ava") \o Return("py_ava")
DN_item  == Try({}) \o Try({}) \o Make("py_rdn") \o Return("py_rdn")

(* The list takes a reference of its own of each match.                    *)
Matching(x) == Get("list", {}) \o Loop(Get(x, {"list"})) \o Return("list")

CERTRDN_get_matching_tag_list == Matching("py_ava")
CERTName_get_matching_tag_list == Matching("py_rdn")

(* By index, slice, or name.  An item of the slice that cannot be made is  *)
(* put into the list as NULL.                                              *)
RDN_subscript ==
  LET missing == Opt(Make("name_utf8") \o Raise \o Drop({"name_utf8"}) \o Reraise)
                   \o Fail({})
  IN Either(Try({}) \o Make("result"),
       Either(Try({}) \o Get("result", {}) \o Loop(Make("py_ava") \o Pass("py_ava")),
              Try({}) \o Opt(missing) \o Get("result", {})
                \o Opt(Drop({"result"}) \o missing)))
       \o Return("result")

DN_subscript == RDN_subscript

RDN_init ==
  Opt(Try({}) \o Loop(Take("item") \o Try({"item"}) \o Try({"item"})
                        \o Drop({"item"}))
        \o Try({}))
    \o ReturnNone

RDN_new_from_CERTRDN ==
  Get("self", {}) \o Loop(Try({"self"})) \o Try({"self"}) \o Return("self")

(* name is what self->name owns besides the arena of the object.           *)
DN_init ==
  LET utf8 == Get("name_utf8", {})
  IN Either(utf8 \o Opt(Try({"name_utf8"}) \o Drop({"name_utf8"}) \o ReturnNone),
       Opt(Try({}) \o Try({})
             \o Loop(Take("item") \o Try({"item"}) \o Try({"item"})
                       \o Try({"item"}) \o Drop({"item"}))))
       \o Try({}) \o ReturnNone

DN_new_from_CERTName ==
  Get("self", {}) \o Part("arena", {"self"}) \o Try({"self"}) \o Return("self")

-----------------------------------------------------------------------------
(* General names.                                                          *)

GeneralName_init == Try({}) \o Try({}) \o ReturnNone
GeneralName_new_from_CERTGeneralName ==
  Get("self", {}) \o Try({"self"}) \o Return("self")
GeneralName_item == Try({}) \o Opt(Make("name") \o Return("name")) \o Fail({})
GeneralName_get_name == Try({}) \o Try({}) \o Try({}) \o Make("name") \o Return("name")

(* The functions of this module, by name.                                  *)
NameBody ==
  [ AVA_new |-> AVA_new, AVA_dealloc |-> AVA_dealloc, RDN_new |-> RDN_new,
    RDN_dealloc |-> RDN_dealloc, DN_new |-> DN_new, DN_dealloc |-> DN_dealloc,
    GeneralName_new |-> GeneralName_new,
    GeneralName_dealloc |-> GeneralName_dealloc,
    CERTAVA_compare |-> CERTAVA_compare, CERTRDN_compare |-> CERTRDN_compare,
    AVA_init |-> AVA_init, AVA_new_from_CERTAVA |-> AVA_new_from_CERTAVA,
    RDN_item |-> RDN_item, DN_item |-> DN_item,
    CERTRDN_get_matching_tag_list |-> CERTRDN_get_matching_tag_list,
    CERTName_get_matching_tag_list |-> CERTName_get_matching_tag_list,
    RDN_subscript |-> RDN_subscript, DN_subscript |-> DN_subscript,
    RDN_init |-> RDN_init, RDN_new_from_CERTRDN |-> RDN_new_from_CERTRDN,
    DN_init |-> DN_init, DN_new_from_CERTName |-> DN_new_from_CERTName,
    GeneralName_init |-> GeneralName_init,
    GeneralName_new_from_CERTGeneralName |-> GeneralName_new_from_CERTGeneralName,
    GeneralName_item |-> GeneralName_item,
    GeneralName_get_name |-> GeneralName_get_name ]
=============================================================================
