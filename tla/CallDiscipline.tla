--------------------------- MODULE CallDiscipline ---------------------------
(***************************************************************************)
(* What can be read off the text of a function.  In CallPaths no step      *)
(* looks at two variables at a time: what happens to a variable depends on *)
(* its own value, on the step, and, where the call ends, on whether an     *)
(* exception is set.  So it is enough to know, for each variable alone,    *)
(* what it may hold before each step.  Facts says so; Disciplined compares *)
(* it with the text, step by step, and asks of each step what the          *)
(* properties of CallPaths ask of whole runs.  The variables of a function *)
(* are looked at one after the other, not in all their combinations.       *)
(***************************************************************************)
EXTENDS CallPaths

CONSTANT
  Facts  \* type or "none" -> function -> variable -> what it may hold: a set
         \* of <<number of the next step, value, an exception is set>>

(* TLC computes a definition once, a constant's value at every use.        *)
Known == Facts

-----------------------------------------------------------------------------
(* The functions and variables there is something to know about.           *)

Serving(T) ==
  IF T = "none" THEN Free ELSE Methods(T) \cup {Types[T].new}

FieldsOf(T) == IF T = "none" THEN {} ELSE Types[T].fields

(* A step of these kinds works with no variable.                           *)
Controls == Hops \cup {"allow", "block"}
Touches(step) == IF step.kind \in Controls THEN {} ELSE step.vars

(* NULL is a variable no function uses, so that one without variables has  *)
(* a fact about exceptions.                                                *)
Mentioned(s) == UNION {Touches(s[n]) \cup s[n].undo : n \in DOMAIN s}
NamesIn(T, s) == {"NULL"} \cup FieldsOf(T) \cup Mentioned(s)
Names(T, f) == NamesIn(T, Code[f])

-----------------------------------------------------------------------------
(* One step and one variable x that holds v; e says whether an exception   *)
(* is set, known is what is known of the functions of the type T.          *)

Becomes(step, x, v) ==
  IF x \notin Touches(step) THEN v
  ELSE CASE step.kind \in {"get", "take"}          -> "own"
         [] step.kind \in {"lend", "give", "pass"} -> "lent"
         [] step.kind \in {"null", "clear"}        -> "null"
         [] step.kind = "drop"                     -> "gone"
         [] OTHER                                  -> v

Raised(step, e) == step.kind = "raise" \/ (e /\ step.kind # "forget")

Goes(s, n) ==
  IF s[n].kind \in Exits THEN {}
  ELSE IF s[n].kind = "jump" THEN {n + s[n].vars}
  ELSE IF s[n].kind = "branch" THEN {n + 1, n + s[n].vars}
  ELSE {n + 1}

Loses(step, x, v) ==
  /\ v = "own"
  /\ step.kind \in {"get", "take", "lend", "null"} /\ x \in Touches(step)

Misuses(step, x, v) ==
  /\ x \in Touches(step)
  /\ \/ step.kind \in {"drop", "give"} /\ v # "own"
     \/ step.kind \in {"clear", "pass", "return"} /\ v \in {"lent", "gone"}
     \/ step.kind = "use" /\ v \in {"null", "gone"}

(* What the next call may find in a field.                                 *)
MayRest(T, known, x, v) == \A g \in Methods(T) : <<1, v, FALSE>> \in known[g][x]

(* The object does not outlive the call.                                   *)
EndsObject(T, f, result) ==
  /\ T # "none"
  /\ \/ f = Types[T].dealloc
     \/ f = Types[T].new /\ result = "NULL"

(* The step fails: what it releases, what it leaves, what it reports.      *)
Failing == {"get", "try", "fail", "mute", "leave"}
Unset(step) == IF step.kind = "get" THEN step.vars ELSE {}
LetGo(step) == step.undo \ Unset(step)

LeftBehind(step, x, v) ==
  IF x \in Unset(step) THEN "null"
  ELSE IF x \in LetGo(step) /\ v = "own" THEN "gone" ELSE v

FailsWell(T, f, known, step, x, v, e) ==
  LET last == EndsObject(T, f, "NULL")
  IN  /\ \/ v # "own" \/ x \in Leaks[f] \/ x \in LetGo(step)
         \/ x \in FieldsOf(T) /\ ~last /\ x \notin Unset(step)
      /\ x \in LetGo(step) /\ v \in {"lent", "gone"} => x \in Faults[f]
      /\ step.kind \in {"mute", "leave"} => e \/ f \in Silent
      /\ x \in FieldsOf(T) /\ ~last
           => MayRest(T, known, x, LeftBehind(step, x, v))

(* Step n returns out; NULL only if something in out may be NULL there.    *)
Results(f, known, n, out) ==
  {"value"} \cup
  {r \in {"NULL"} : \E y \in out :
                      \E fact \in known[f][y] : fact[1] = n /\ fact[2] = "null"}

ReturnsWell(T, f, known, n, out, x, v, e) ==
  /\ v = "own" /\ x \notin FieldsOf(T) => x \in out \cup Leaks[f]
  /\ \A r \in Results(f, known, n, out) :
       x \in FieldsOf(T) =>
         IF EndsObject(T, f, r) THEN v = "own" => x \in Leaks[f]
         ELSE MayRest(T, known, x, v)
  /\ f \notin Silent =>
       /\ out = {} => ~e
       /\ x \in out => (v = "null" <=> e)

-----------------------------------------------------------------------------
(* The discipline.                                                         *)

(* What is known of x at a step holds after it, and the step does nothing  *)
(* that f is not known for.                                                *)
Follows(T, f, s, known, x) ==
  \A fact \in known[f][x] :
    LET n == fact[1]  v == fact[2]  e == fact[3]  step == s[n]
    IN  /\ \A m \in Goes(s, n) :
             <<m, Becomes(step, x, v), Raised(step, e)>> \in known[f][x]
        /\ Loses(step, x, v) => x \in Leaks[f]
        /\ Misuses(step, x, v) => x \in Faults[f]
        /\ step.kind \in Failing => FailsWell(T, f, known, step, x, v, e)
        /\ step.kind = "return"
             => ReturnsWell(T, f, known, n, step.vars, x, v, e)

(* What is known of each variable of f holds where f starts.               *)
Begins(T, f, s, known) ==
  /\ DOMAIN known[f] = NamesIn(T, s)
  /\ \A x \in DOMAIN known[f] :
       x \notin FieldsOf(T) \/ (T # "none" /\ f = Types[T].new)
         => <<1, "null", FALSE>> \in known[f][x]

Orderly(T, f, s, known) ==
  /\ Begins(T, f, s, known)
  /\ \A x \in DOMAIN known[f] : Follows(T, f, s, known, x)

Disciplined ==
  \A T \in DOMAIN Types \cup {"none"} :
    \A f \in Serving(T) : Orderly(T, f, Code[f], Known[T])

-----------------------------------------------------------------------------
(* The inductive invariant of a disciplined table.                         *)

InCall == fn # "none"
Resting(T) == \A x \in FieldsOf(T) : MayRest(T, Known[T], x, fields[x])

(* The running function is one of the object's, and every variable holds   *)
(* what Facts says it may.                                                 *)
Foreseen ==
  outcome = "running" =>
    \A x \in DOMAIN Known[object][fn] :
      <<at, Value(x), exc>> \in Known[object][fn][x]

Scoped ==
  /\ DOMAIN fields = FieldsOf(object)
  /\ InCall => fn \in Serving(object) /\ DOMAIN locals \subseteq Names(object, fn)
  /\ DOMAIN locals \cap DOMAIN fields = {}

(* Outside of the running call nothing is left but the fields.             *)
Settled ==
  /\ ~InCall => lost = {} /\ faults = {} /\ ~exc
  /\ outcome # "running" => locals = <<>>
  /\ outcome # "running" /\ object # "none" /\ ~LastCall(outcome)
       => Resting(object)

(* Every function keeps its own books, whatever the other variables do:    *)
(* what the properties of CallPaths promise follows from facts about one   *)
(* variable at a time, fields from call to call included.                  *)
DInv ==
  /\ IInv
  /\ Disciplined
  /\ Foreseen
  /\ Scoped
  /\ Settled
  /\ NothingLost
  /\ NothingReleasedTwice
  /\ ErrorReported
=============================================================================
