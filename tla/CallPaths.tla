----------------------------- MODULE CallPaths -----------------------------
(***************************************************************************)
(* Runs the C functions of the bindings, one call at a time, through every *)
(* way each step can go.  A call works with local variables, each of which *)
(* is NULL, owns a reference, points to something somebody else owns, or   *)
(* dangles (its reference was given up).  The functions of a type share    *)
(* the fields of one object from tp_new to tp_dealloc, and __init__ may    *)
(* run again on an object that is in use.                                  *)
(***************************************************************************)
EXTENDS CallSteps, FiniteSets, TLC

CONSTANTS
  Body,        \* function name -> its steps
  Objects,     \* type name -> [new, calls, dealloc : functions, fields]
  KnownLeaks,  \* function name -> variables it is known to leak
  KnownFaults, \* function name -> variables it is known to release twice
  Mutes        \* functions known to return NULL without an exception, or a
               \* value with one

VARIABLES
  object,   \* the type of the object in use, or "none"
  fields,   \* what its fields hold
  fn,       \* the function running, "none" between calls
  steps, at,\* its steps, and the number of the next one
  locals,   \* what the local variables touched so far hold
  lost,     \* variables whose reference nobody can give back any more
  faults,   \* variables released, given away or returned without owning
  exc,      \* a Python exception is set
  gil,      \* the GIL is held
  outcome   \* idle, running, value, NULL

callVars == <<fn, steps, at, locals, lost, faults, exc, gil, outcome>>
vars == <<object, fields, callVars>>

(* TLC computes a definition once, a constant's value at every use.        *)
Code   == Body
Types  == Objects
Leaks  == KnownLeaks
Faults == KnownFaults
Silent == Mutes

Functions == DOMAIN Code
Methods(T) == Types[T].calls \cup {Types[T].dealloc}
Free == Functions \ UNION {Methods(T) \cup {Types[T].new} : T \in DOMAIN Types}
States == {"null", "own", "lent", "gone"}

Local(x)   == x \in DOMAIN locals
Value(x)   == IF x \in DOMAIN fields THEN fields[x]
              ELSE IF Local(x) THEN locals[x] ELSE "null"
Owned(X)   == {x \in X : Value(x) = "own"}
Misused(X) == {x \in X : Value(x) \in {"lent", "gone"}}
Now(kind)  == outcome = "running" /\ at <= Len(steps)
              /\ steps[at].kind = kind
Returned   == outcome \in {"value", "NULL"}
Vars       == steps[at].vars
Undo       == steps[at].undo

TypeOK ==
  /\ object \in DOMAIN Types \cup {"none"}
  /\ \A x \in DOMAIN fields : fields[x] \in States
  /\ fn \in Functions \cup {"none"}
  /\ fn # "none" => at \in DOMAIN steps
  /\ \A x \in DOMAIN locals : locals[x] \in States
  /\ exc \in BOOLEAN /\ gil \in BOOLEAN
  /\ outcome \in {"idle", "running", "value", "NULL"}

Idle ==
  /\ fn' = "none" /\ steps' = <<>> /\ at' = 0
  /\ locals' = <<>> /\ lost' = {} /\ faults' = {}
  /\ exc' = FALSE /\ gil' = TRUE /\ outcome' = "idle"

Init ==
  /\ object = "none" /\ fields = <<>>
  /\ fn = "none" /\ steps = <<>> /\ at = 0
  /\ locals = <<>> /\ lost = {} /\ faults = {}
  /\ exc = FALSE /\ gil = TRUE /\ outcome = "idle"

-----------------------------------------------------------------------------
(* Between calls.                                                          *)

Start(f) ==
  /\ fn = "none"
  /\ fn' = f
  /\ steps' = Code[f]
  /\ at' = 1
  /\ outcome' = "running"
  /\ UNCHANGED <<locals, lost, faults, exc, gil>>

New(T) ==
  /\ object = "none"
  /\ object' = T
  /\ fields' = [x \in Types[T].fields |-> "null"]
  /\ Start(Types[T].new)

Begin(f) ==
  /\ f \in IF object = "none" THEN Free ELSE Methods(object)
  /\ Start(f)
  /\ UNCHANGED <<object, fields>>

(* The object is gone after tp_dealloc, and after a tp_new that failed.    *)
LastCall(result) ==
  /\ object # "none"
  /\ \/ fn = Types[object].dealloc
     \/ fn = Types[object].new /\ result = "NULL"

Leave ==
  /\ Returned
  /\ Idle
  /\ IF LastCall(outcome)
     THEN object' = "none" /\ fields' = <<>>
     ELSE UNCHANGED <<object, fields>>

-----------------------------------------------------------------------------
(* One step of the running function.                                       *)

Assign(X, v) ==
  /\ fields' = [x \in DOMAIN fields |-> IF x \in X THEN v ELSE fields[x]]
  /\ locals' = [x \in (X \ DOMAIN fields) \cup DOMAIN locals |->
                  IF x \in X \ DOMAIN fields THEN v ELSE locals[x]]

Go(n) == at' = at + n
Same == UNCHANGED <<object, fn, steps>>

(* Overwriting the only pointer to a reference loses it.                   *)
Store(kind, v) ==
  /\ Now(kind)
  /\ Assign(Vars, v)
  /\ lost' = lost \cup Owned(Vars)
  /\ Go(1) /\ Same
  /\ UNCHANGED <<faults, exc, gil, outcome>>

Acquire == Store("get", "own")
Obtain  == Store("take", "own")
Borrow  == Store("lend", "lent")
SetNull == Store("null", "null")

(* The way out of a failed step: the variables in Undo are released; what  *)
(* the step was to set is NULL.                                            *)
Abort(set, raises) ==
  /\ lost' = lost \cup Owned(set)
           \cup {x \in DOMAIN locals \ (Undo \cup set) : locals[x] = "own"}
           \cup IF LastCall("NULL") THEN Owned(DOMAIN fields \ Undo) ELSE {}
  /\ faults' = faults \cup Misused(Undo \ set)
  /\ LET out == Owned(Undo \ set)
     IN  /\ fields' = [x \in DOMAIN fields |->
                         IF x \in set THEN "null"
                         ELSE IF x \in out THEN "gone" ELSE fields[x]]
         /\ locals' = <<>>
  /\ exc' = (exc \/ raises)
  /\ outcome' = "NULL"
  /\ Same
  /\ UNCHANGED <<at, gil>>

AcquireFails == Now("get") /\ Abort(Vars, TRUE)
CheckFails == (Now("try") \/ Now("fail")) /\ Abort({}, TRUE)
FailsMutely == (Now("mute") \/ Now("leave")) /\ Abort({}, FALSE)

CheckPasses ==
  /\ Now("try")
  /\ Go(1) /\ Same
  /\ UNCHANGED <<fields, locals, lost, faults, exc, gil, outcome>>

SetException ==
  /\ Now("raise") \/ Now("forget")
  /\ exc' = Now("raise")
  /\ Go(1) /\ Same
  /\ UNCHANGED <<fields, locals, lost, faults, gil, outcome>>

(* Drop releases unconditionally, so it must own; Clear skips NULL.        *)
Release(kind, leaves, wrong) ==
  /\ Now(kind)
  /\ Assign(Vars, leaves)
  /\ faults' = faults \cup wrong
  /\ Go(1) /\ Same
  /\ UNCHANGED <<lost, exc, gil, outcome>>

DropReferences  == Release("drop", "gone", Vars \ Owned(Vars))
ClearReferences == Release("clear", "null", Misused(Vars))
GiveReference   == Release("give", "lent", Vars \ Owned(Vars))
PassReference   == Release("pass", "lent", Misused(Vars))

UseReference ==
  /\ Now("use")
  /\ faults' = faults \cup {x \in Vars : Value(x) \in {"null", "gone"}}
  /\ Go(1) /\ Same
  /\ UNCHANGED <<fields, locals, lost, exc, gil, outcome>>

TakeBranch == (Now("branch") \/ Now("jump")) /\ Go(Vars)
NextBranch == Now("branch") /\ Go(1)
Branch ==
  /\ TakeBranch \/ NextBranch
  /\ Same
  /\ UNCHANGED <<fields, locals, lost, faults, exc, gil, outcome>>

SwitchGil ==
  /\ Now("allow") \/ Now("block")
  /\ gil' = Now("block")
  /\ Go(1) /\ Same
  /\ UNCHANGED <<fields, locals, lost, faults, exc, outcome>>

(* Returning x passes its reference on; everything else the call still     *)
(* owns is lost, and with the object its fields.                           *)
ReturnStep ==
  /\ Now("return")
  /\ outcome' = IF \E x \in Vars : Value(x) = "null" THEN "NULL" ELSE "value"
  /\ faults' = faults \cup Misused(Vars)
  /\ lost' = lost \cup {x \in DOMAIN locals \ Vars : locals[x] = "own"}
           \cup IF LastCall(outcome')
                THEN Owned(DOMAIN fields) ELSE {}
  /\ locals' = <<>>
  /\ Same
  /\ UNCHANGED <<fields, at, exc, gil>>

CallStep ==
  \/ Acquire \/ Obtain \/ Borrow \/ SetNull
  \/ AcquireFails \/ CheckFails \/ FailsMutely \/ CheckPasses \/ SetException
  \/ DropReferences \/ ClearReferences \/ GiveReference
  \/ PassReference \/ UseReference \/ Branch \/ SwitchGil \/ ReturnStep

Next ==
  \/ \E T \in DOMAIN Types : New(T)
  \/ \E f \in Functions : Begin(f)
  \/ CallStep
  \/ Leave

Spec == Init /\ [][Next]_vars

-----------------------------------------------------------------------------
(* Properties.                                                             *)


(* However a function leaves, at whatever failure point, everything it     *)
(* acquired has been released, passed on or returned; the exceptions are   *)
(* the variables listed for that function.                                 *)
NothingLost == fn # "none" => lost \subseteq Leaks[fn]

(* No failure path releases a reference the function does not own: one it  *)
(* only borrowed, gave away, or released before.                           *)
NothingReleasedTwice == fn # "none" => faults \subseteq Faults[fn]

(* A function returns NULL exactly when it set an exception.               *)
ErrorReported ==
  Returned /\ fn \notin Silent => (outcome = "NULL" <=> exc)

(* The GIL is held wherever Python objects are touched and when the        *)
(* function returns.                                                       *)
GilHeld ==
  ~ gil => /\ outcome = "running"
           /\ Now("branch") \/ Now("block") \/ Now("jump")

-----------------------------------------------------------------------------
(* The inductive invariant.                                                *)

Hops  == {"branch", "jump"}
Exits == {"return", "fail", "mute", "leave"}

(* A function has no way past its last step: a hop leads to one of its     *)
(* steps, and a step that does not end the call has one after it.          *)
Closed(s) ==
  /\ DOMAIN s = 1 .. Len(s) /\ 1 \in DOMAIN s
  /\ \A n \in DOMAIN s :
       /\ s[n].kind \in Hops => n + s[n].vars \in DOMAIN s
       /\ s[n].kind \notin Exits \cup {"jump"} => n + 1 \in DOMAIN s

(* The steps a function may reach without the GIL: those between           *)
(* Py_BEGIN_ALLOW_THREADS and the Py_END_ALLOW_THREADS that follows in the *)
(* source, and every Py_END_ALLOW_THREADS.                                 *)
WithoutGil(s) ==
  {n \in DOMAIN s :
     \/ s[n].kind = "block"
     \/ \E m \in 1 .. n - 1 :
          /\ s[m].kind = "allow"
          /\ \A k \in m + 1 .. n - 1 : s[k].kind # "block"}

(* Only control is there, and it leads to nothing else.                    *)
Bracketed(s) ==
  \A n \in WithoutGil(s) :
    /\ s[n].kind \in Hops \cup {"block"}
    /\ s[n].kind \in Hops => n + s[n].vars \in WithoutGil(s)

CodeOK ==
  /\ \A f \in Functions : f # "none" /\ Closed(Code[f]) /\ Bracketed(Code[f])
  /\ \A T \in DOMAIN Types :
       T # "none" /\ Methods(T) \cup {Types[T].new} \subseteq Functions

IInv ==
  /\ CodeOK
  /\ TypeOK
  /\ fn = "none" => outcome = "idle"
  /\ fn # "none" => steps = Code[fn] /\ outcome # "idle"
  /\ ~gil => outcome = "running" /\ at \in WithoutGil(steps)
=============================================================================
