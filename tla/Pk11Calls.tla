----------------------------- MODULE Pk11Calls -----------------------------
(***************************************************************************)
(* py_nss.c: digests, PK11 slots, symmetric keys and contexts.             *)
(* Notation: CallSteps.                                                    *)
(***************************************************************************)
EXTENDS CallSteps

(* An NSS object is given to a new Python object; when that cannot be made *)
(* nobody destroys it.                                                     *)
Enclosed(x) == Opt(Fail({})) \o Give(x) \o Take("self") \o Return("self")

(* The buffer is not released when hashing fails.                          *)
Digest == Get("py_out_buf", {}) \o Try({}) \o Try({}) \o Return("py_out_buf")

pk11_hash_buf      == Try({}) \o Try({}) \o Digest
pk11_md5_digest    == Try({}) \o Digest
pk11_sha1_digest   == Try({}) \o Digest
pk11_sha256_digest == Try({}) \o Digest
pk11_sha512_digest == Try({}) \o Digest

-----------------------------------------------------------------------------
(* Slots.                                                                  *)

PK11Slot_authenticate ==
  ParseAndPin \o Try({"pin_args"}) \o Drop({"pin_args"}) \o ReturnNone

PK11Slot_check_security_officer_passwd ==
  LET passwd == {"security_officer_passwd"}
  IN Get("security_officer_passwd", {}) \o Try(passwd) \o Drop(passwd) \o ReturnNone

PK11Slot_check_user_passwd ==
  Get("user_passwd", {}) \o Try({"user_passwd"}) \o Drop({"user_passwd"})
    \o ReturnNone

PK11Slot_key_gen ==
  ParseAndPin \o Get("sym_key", {"pin_args"}) \o Drop({"pin_args"})
    \o Enclosed("sym_key")

(* After the key pair was made, what exists of it is dropped on failure.   *)
PK11Slot_generate_key_pair ==
  LET fail == {"parse_args", "pin_args", "result_tuple"}
      named == Opt(Take("mechanism_name") \o Opt(Take("mechanism_name_utf8")))
      wrong == Opt(named \o Raise \o Clear({"mechanism_name", "mechanism_name_utf8"})
                     \o Fail(fail))
      wrap(py, key) == Either(Give(key) \o Take(py), Fail(fail))
  IN Take("parse_args") \o Try(fail) \o Clear({"parse_args"}) \o Take("pin_args")
       \o wrong \o Get("priv_key", fail) \o Take("pub_key") \o Clear({"pin_args"})
       \o wrap("py_pub_key", "pub_key") \o wrap("py_priv_key", "priv_key")
       \o Get("result_tuple", fail) \o Give("py_pub_key") \o Give("py_priv_key")
       \o Return("result_tuple")

PK11Slot_pbe_key_gen ==
  ParseAndPin \o Get("sym_key", {"pin_args"}) \o Drop({"pin_args"})
    \o Part("py_pwitem", {"sym_key"}) \o Enclosed("sym_key")

PK11Slot_format_lines ==
  LET fail == {"obj1", "obj2", "obj3", "obj4", "obj5", "lines"}
      attribute == GetFmtClear("obj1", fail)
  IN FormatLines(MakeFmtClear("obj1", fail) \o MakeFmtClear("obj1", fail)
       \o attribute \o attribute \o attribute \o attribute \o attribute
       \o attribute \o attribute \o attribute \o attribute
       \o Get("obj1", fail) \o Get("obj2", fail) \o Get("obj3", fail)
       \o Get("obj4", fail) \o Get("obj5", fail) \o FmtObj(fail)
       \o Clear({"obj1", "obj2", "obj3", "obj4", "obj5"})
       \o attribute \o Get("obj1", fail) \o Make("obj2") \o Get("obj3", fail)
       \o FmtObj(fail) \o Clear({"obj1", "obj2", "obj3"}))

-----------------------------------------------------------------------------
(* Keys.  A key whose data cannot be read shows the error instead.         *)

PK11SymKey_format_lines ==
  LET fail == {"obj1", "obj2", "obj3", "lines"}
      error == {"error_type", "error_value", "error_traceback"}
      nodata == Raise \o Take("error_type") \o Opt(Take("error_value"))
                  \o Opt(Take("error_traceback")) \o Forget
                  \o MakeFmtClear("obj1", fail) \o Clear(error)
  IN FormatLines(Make("obj1") \o Make("obj2") \o Get("obj3", fail) \o FmtObj(fail)
       \o Clear({"obj1", "obj2", "obj3"}) \o MakeFmtClear("obj1", fail)
       \o Either(Take("obj1") \o FmtLabel(fail) \o HexLines("obj1", fail), nodata)
       \o MakeCallClear("obj1", fail))

PK11SymKey_derive == Try({}) \o Get("derived_key", {}) \o Enclosed("derived_key")
PK11SymKey_wrap_sym_key == Try({}) \o Try({}) \o Make("item") \o Return("item")
PK11SymKey_unwrap_sym_key == Try({}) \o Get("sym_key", {}) \o Enclosed("sym_key")

-----------------------------------------------------------------------------
(* Contexts.  _PyBytes_Resize releases the buffer it cannot resize.        *)

PK11Context_clone_context ==
  Try({}) \o Get("pk11_context", {}) \o Enclosed("pk11_context")

Output == Get("py_out_bytes", {}) \o Try({"py_out_bytes"})
            \o Opt(Try({"py_out_bytes"})) \o Return("py_out_bytes")

PK11Context_cipher_op    == Try({}) \o Try({}) \o Output
PK11Context_digest_final == Try({}) \o Output

(* The functions of this module, by name.                                  *)
Pk11Body ==
  [ pk11_hash_buf |-> pk11_hash_buf, pk11_md5_digest |-> pk11_md5_digest,
    pk11_sha1_digest |-> pk11_sha1_digest,
    pk11_sha256_digest |-> pk11_sha256_digest,
    pk11_sha512_digest |-> pk11_sha512_digest,
    PK11Slot_authenticate |-> PK11Slot_authenticate,
    PK11Slot_check_security_officer_passwd |-> PK11Slot_check_security_officer_passwd,
    PK11Slot_check_user_passwd |-> PK11Slot_check_user_passwd,
    PK11Slot_key_gen |-> PK11Slot_key_gen,
    PK11Slot_generate_key_pair |-> PK11Slot_generate_key_pair,
    PK11Slot_pbe_key_gen |-> PK11Slot_pbe_key_gen,
    PK11Slot_format_lines |-> PK11Slot_format_lines,
    PK11SymKey_format_lines |-> PK11SymKey_format_lines,
    PK11SymKey_derive |-> PK11SymKey_derive,
    PK11SymKey_wrap_sym_key |-> PK11SymKey_wrap_sym_key,
    PK11SymKey_unwrap_sym_key |-> PK11SymKey_unwrap_sym_key,
    PK11Context_clone_context |-> PK11Context_clone_context,
    PK11Context_cipher_op |-> PK11Context_cipher_op,
    PK11Context_digest_final |-> PK11Context_digest_final ]
=============================================================================
