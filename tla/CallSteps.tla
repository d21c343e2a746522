----------------------------- MODULE CallSteps -----------------------------
(***************************************************************************)
(* What a C function of the bindings does with the things it must give     *)
(* back: references to Python objects, arenas, NSS references, buffers,    *)
(* the GIL.  A function is the sequence of its steps in source order; the  *)
(* values it computes are left out, every call that can fail and every     *)
(* release is there.  CallPaths runs these sequences.                      *)
(*                                                                         *)
(* U is always the set of variables the function releases on the way out   *)
(* when that step fails (its "goto fail" label or the lines before its     *)
(* "return NULL").  Releasing there a variable that is still NULL does     *)
(* nothing (Py_XDECREF, or a test).                                        *)
(***************************************************************************)
EXTENDS Integers, Sequences

LOCAL Step(kind, vars, U) == <<[kind |-> kind, vars |-> vars, undo |-> U]>>
LOCAL Hop(kind, n) == <<[kind |-> kind, vars |-> n, undo |-> {}]>>

(* A call whose result the caller owns, or NULL with an exception set; a   *)
(* result whose failure the code does not test for (taken to succeed); a   *)
(* pointer somebody else owns; NULL.                                       *)
Get(x, U) == Step("get", {x}, U)
Take(x)   == Step("take", {x}, {})
Lend(x)   == Step("lend", {x}, {})
Null(x)   == Step("null", {x}, {})

(* A test or call that may fail with an exception set; the same where it   *)
(* always fails; returning NULL although nothing set an exception; setting *)
(* an exception and going on; dropping the exception that is set.          *)
Try(U)  == Step("try", {}, U)
Fail(U) == Step("fail", {}, U)
Mute(U) == Step("mute", {}, U)
Raise   == Step("raise", {}, {})
Forget  == Step("forget", {}, {})

(* Giving references up: Drop leaves the pointer as it is, Clear sets it   *)
(* to NULL if it was not.  Give hands one to a container, Pass does so if  *)
(* there is one, Keep puts it into a field of self.                        *)
Drop(X)    == Step("drop", X, {})
Clear(X)   == Step("clear", X, {})
Give(x)    == Step("give", {x}, {})
GiveAll(X) == Step("give", X, {})
Pass(x)    == Step("pass", {x}, {})
Keep(f, x) == Step("give", {x}, {}) \o Step("take", {f}, {})

(* Reading what x points to, where the code may have given it up before.   *)
Use(x) == Step("use", {x}, {})

(* Leaving: with what x holds, which may be NULL; with something that      *)
(* carries no reference of the function (None, True, 0); with NULL.        *)
Return(x)  == Step("return", {x}, {})
ReturnNone == Step("return", {}, {})

Reraise    == Step("leave", {}, {})

(* Control: a part that may be skipped, one of two parts, a part repeated. *)
Opt(b)       == Hop("branch", Len(b) + 1) \o b
Either(a, b) == Hop("branch", Len(a) + 2) \o a \o Hop("jump", Len(b) + 1) \o b
Loop(b)      == Hop("branch", Len(b) + 2) \o b \o Hop("jump", 0 - (Len(b) + 1))

(* A result that is passed on, NULL or not, without being looked at.       *)
Make(x) == Either(Take(x), Null(x) \o Raise)

(* Py_BEGIN_ALLOW_THREADS ... Py_END_ALLOW_THREADS around an NSS call; on  *)
(* failure the code takes the GIL back before it touches Python.           *)
Allow == Hop("allow", 0)
Block == Hop("block", 0)
NoGil == Allow \o Block
NoGilCall(U) == Allow \o Opt(Block \o Fail(U)) \o Block

(* PyArg_ParseTuple on the fixed arguments of a function that passes the   *)
(* others on to the password callback.                                     *)
ParseAndPin ==
  Take("parse_args") \o Try({"parse_args"}) \o Drop({"parse_args"})
    \o Take("pin_args")

(* The macros the format_lines functions are written with.                 *)
FmtLabel(U) == Get("fmt_tuple", U) \o Try(U \cup {"fmt_tuple"})
FmtObj(U)   == FmtLabel(U)

AppendTuples(x) == Clear({x})

AppendLines(x, U) ==
  Loop(Take("src_obj") \o FmtObj(U) \o Drop({"src_obj"})) \o Clear({x})

CallFormatLines(U) == Get("line_tuples", U) \o AppendTuples("line_tuples")

HexLines(x, U) ==
  Get("hex_lines", U) \o Clear({x}) \o AppendLines("hex_lines", U)

SecIntLines(x, U) ==
  FmtLabel(U) \o Get("int_lines", U) \o Clear({x}) \o AppendTuples("int_lines")

(* A new object kept in x for the duration of one macro.  The last two are *)
(* the same where the code does not test for NULL: a line takes it for an  *)
(* absent value, a method call on it fails.                                *)
GetFmtClear(x, U)   == Get(x, U) \o FmtObj(U) \o Clear({x})
GetCallClear(x, U)  ==
  Get(x, U) \o FmtLabel(U) \o CallFormatLines(U) \o Clear({x})
MakeFmtClear(x, U)  == Make(x) \o FmtObj(U) \o Clear({x})
MakeCallClear(x, U) ==
  Either(Take(x) \o FmtLabel(U) \o CallFormatLines(U) \o Clear({x}),
         Null(x) \o Raise \o FmtLabel(U) \o Fail(U))

(* The frame of a format_lines method, and of tp_new without resources.    *)
FormatLines(body) == Try({}) \o Get("lines", {}) \o body \o Return("lines")
Allocate == Get("self", {}) \o Return("self")

(* A part of the object or tuple that is being built.                      *)
Part(x, U) == Get(x, U) \o Give(x)

(* An attribute setter: type tests, then an unchecked conversion.          *)
SetInteger == Try({}) \o Try({}) \o Opt(Raise) \o ReturnNone
=============================================================================
