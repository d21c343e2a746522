------------------------ MODULE CallDisciplineProofs ------------------------
(***************************************************************************)
(* Proofs about CallDiscipline: a table of functions whose text passes     *)
(* Disciplined, with any facts, keeps what CallPaths promises on every     *)
(* path, over any number of calls.                                         *)
(***************************************************************************)
EXTENDS CallDiscipline, CallPathsProofs

USE DEF Code, Types, Leaks, Faults, Silent, Known

-----------------------------------------------------------------------------
(* The step that is next.                                                  *)

(* The rules are about the text alone.                                     *)
LEMMA SameRules ==
  Disciplined => Disciplined'
BY DEF Disciplined, Orderly, Begins, Follows, Serving, FieldsOf, Names,
       NamesIn, Mentioned, Touches, Becomes, Raised, Goes, Loses, Misuses,
       MayRest, EndsObject, Failing, Unset, LetGo,
       LeftBehind, FailsWell, Results, ReturnsWell, Methods, Free, Functions,
       Controls, Hops, Exits

(* What Facts says of a running call.                                      *)
LEMMA InText ==
  ASSUME DInv, outcome = "running"
  PROVE  /\ fn # "none" /\ steps = Code[fn] /\ fn \in Functions
         /\ at \in DOMAIN steps
         /\ object \in DOMAIN Types \cup {"none"} /\ fn \in Serving(object)
         /\ DOMAIN Known[object][fn] = Names(object, fn)
<1>1. IInv /\ fn # "none"
  BY DEF DInv, IInv
<1>2. object \in DOMAIN Types \cup {"none"} /\ fn \in Serving(object)
  BY <1>1 DEF DInv, IInv, TypeOK, Scoped, InCall
<1>3. DOMAIN Known[object][fn] = Names(object, fn)
  BY <1>2 DEF DInv, Disciplined, Orderly, Begins, Names
<1> QED BY <1>1, <1>2, <1>3, Running

(* A variable the step works with has a name, and so has a variable that   *)
(* was touched before and a field.                                         *)
LEMMA Named ==
  ASSUME DInv, outcome = "running"
  PROVE  /\ Touches(steps[at]) \subseteq Names(object, fn)
         /\ Undo \subseteq Names(object, fn)
         /\ DOMAIN locals \subseteq Names(object, fn)
         /\ DOMAIN fields \subseteq Names(object, fn)
         /\ DOMAIN fields = FieldsOf(object)
         /\ "NULL" \in Names(object, fn)
<1>1. /\ Touches(steps[at]) \subseteq Names(object, fn)
      /\ steps[at].undo \subseteq Names(object, fn)
  BY InText DEF Names, NamesIn, Mentioned
<1>2. DOMAIN locals \subseteq Names(object, fn) /\ DOMAIN fields = FieldsOf(object)
  BY InText DEF DInv, Scoped, InCall
<1>3. FieldsOf(object) \subseteq Names(object, fn) /\ "NULL" \in Names(object, fn)
  BY DEF Names, NamesIn
<1> QED BY <1>1, <1>2, <1>3 DEF Undo

(* What the rules ask of the next step, for one variable.                  *)
LEMMA ByTheRules ==
  ASSUME DInv, outcome = "running", NEW x \in Names(object, fn)
  PROVE  /\ \A m \in Goes(steps, at) :
              <<m, Becomes(steps[at], x, Value(x)), Raised(steps[at], exc)>>
                \in Known[object][fn][x]
         /\ Loses(steps[at], x, Value(x)) => x \in Leaks[fn]
         /\ Misuses(steps[at], x, Value(x)) => x \in Faults[fn]
         /\ steps[at].kind \in Failing
              => FailsWell(object, fn, Known[object], steps[at],
                           x, Value(x), exc)
         /\ steps[at].kind = "return"
              => ReturnsWell(object, fn, Known[object], at, steps[at].vars,
                             x, Value(x), exc)
<1> DEFINE fact == <<at, Value(x), exc>>
<1>1. fact \in Known[object][fn][x]
  BY InText DEF DInv, Foreseen
<1>2. Follows(object, fn, Code[fn], Known[object], x)
  BY InText DEF DInv, Disciplined, Orderly
<1>3. fact[1] = at /\ fact[2] = Value(x) /\ fact[3] = exc
  OBVIOUS
<1> HIDE DEF fact
<1>4. /\ \A m \in Goes(Code[fn], fact[1]) :
           <<m, Becomes(Code[fn][fact[1]], x, fact[2]),
                Raised(Code[fn][fact[1]], fact[3])>>
             \in Known[object][fn][x]
      /\ Loses(Code[fn][fact[1]], x, fact[2]) => x \in Leaks[fn]
      /\ Misuses(Code[fn][fact[1]], x, fact[2]) => x \in Faults[fn]
      /\ Code[fn][fact[1]].kind \in Failing
           => FailsWell(object, fn, Known[object], Code[fn][fact[1]],
                        x, fact[2], fact[3])
      /\ Code[fn][fact[1]].kind = "return"
           => ReturnsWell(object, fn, Known[object], fact[1],
                          Code[fn][fact[1]].vars, x, fact[2], fact[3])
  BY <1>1, <1>2 DEF Follows
<1> QED BY <1>3, <1>4, InText

-----------------------------------------------------------------------------
(* A step that goes on.                                                    *)

(* It changes every variable as the rules say, and spoils only what they   *)
(* say it spoils.                                                          *)
LEMMA Continues ==
  ASSUME DInv, IInv', outcome = "running", Same, outcome' = outcome,
         at' \in Goes(steps, at), exc' = Raised(steps[at], exc),
         DOMAIN fields' = DOMAIN fields,
         DOMAIN locals' \subseteq Names(object, fn),
         DOMAIN locals' \cap DOMAIN fields = {},
         \A x \in Names(object, fn) :
           Value(x)' = Becomes(steps[at], x, Value(x)),
         \A x \in lost' \ lost :
           x \in Names(object, fn) /\ Loses(steps[at], x, Value(x)),
         \A x \in faults' \ faults :
           x \in Names(object, fn) /\ Misuses(steps[at], x, Value(x))
  PROVE  DInv'
<1>1. object' = object /\ fn' = fn /\ steps' = steps /\ fn # "none"
  BY InText DEF Same
<1>2. Disciplined'
  BY SameRules DEF DInv
<1>3. Foreseen'
  <2>1. \A x \in DOMAIN Known[object][fn] :
          <<at', Value(x)', exc'>> \in Known[object][fn][x]
    BY ByTheRules, InText
  <2> QED BY <1>1, <2>1 DEF Foreseen
<1>4. Scoped'
  <2>1. /\ DOMAIN fields = FieldsOf(object)
        /\ fn \in Serving(object)
    BY InText, Named
  <2> QED BY <1>1, <2>1 DEF Scoped, InCall, FieldsOf, Serving, Names, NamesIn,
                            Mentioned, Touches, Controls, Hops, Free, Functions, Methods
<1>5. Settled'
  BY <1>1 DEF Settled, InCall
<1>6. NothingLost'
  <2>1. lost' \subseteq lost \cup Leaks[fn]
    BY ByTheRules
  <2> QED BY <1>1, <2>1 DEF DInv, NothingLost
<1>7. NothingReleasedTwice'
  <2>1. faults' \subseteq faults \cup Faults[fn]
    BY ByTheRules
  <2> QED BY <1>1, <2>1 DEF DInv, NothingReleasedTwice
<1>8. ErrorReported'
  BY DEF ErrorReported, Returned
<1> QED BY <1>2, <1>3, <1>4, <1>5, <1>6, <1>7, <1>8 DEF DInv

(* Assign sets the variables X and no other.                               *)
LEMMA Assigned ==
  ASSUME NEW X, NEW v, Assign(X, v)
  PROVE  /\ DOMAIN fields' = DOMAIN fields
         /\ DOMAIN locals' = (X \ DOMAIN fields) \cup DOMAIN locals
         /\ \A x : Value(x)' = IF x \in X THEN v ELSE Value(x)
<1>1. DOMAIN fields' = DOMAIN fields
  BY DEF Assign
<1>2. DOMAIN locals' = (X \ DOMAIN fields) \cup DOMAIN locals
  BY DEF Assign
<1>3. ASSUME NEW x
      PROVE  Value(x)' = IF x \in X THEN v ELSE Value(x)
  <2>1. CASE x \in DOMAIN fields
    BY <1>1, <2>1 DEF Value, Assign
  <2>2. CASE x \notin DOMAIN fields
    BY <1>1, <1>2, <2>2 DEF Value, Local, Assign
  <2> QED BY <2>1, <2>2
<1> QED BY <1>1, <1>2, <1>3

(* The variables that are left alone keep what they hold.                  *)
LEMMA Untouched ==
  ASSUME UNCHANGED <<fields, locals>>, NEW x
  PROVE  Value(x)' = Value(x)
BY DEF Value, Local

(* The step is where Now says it is, and goes to the next one.             *)
LEMMA NowRuns ==
  ASSUME NEW kind, Now(kind)
  PROVE  outcome = "running" /\ steps[at].kind = kind
BY DEF Now

LEMMA ToNext ==
  ASSUME NEW kind, Now(kind), kind \notin Exits \cup Hops, Go(1)
  PROVE  /\ at' \in Goes(steps, at)
         /\ kind \notin {"allow", "block"} => Touches(steps[at]) = Vars
BY NowRuns DEF Goes, Go, Hops, Touches, Controls, Vars

LEMMA ExcStays ==
  ASSUME DInv, NEW kind, Now(kind), kind \notin {"raise", "forget"}
  PROVE  Raised(steps[at], exc) = exc
BY NowRuns DEF Raised, DInv, IInv, TypeOK

LEMMA StoreDisciplined ==
  ASSUME DInv, IInv', NEW kind, NEW v, Store(kind, v),
         <<kind, v>> \in {<<"get", "own">>, <<"take", "own">>,
                          <<"lend", "lent">>, <<"null", "null">>}
  PROVE  DInv'
<1>1. /\ Now(kind) /\ Assign(Vars, v) /\ Go(1) /\ Same
      /\ lost' = lost \cup Owned(Vars)
      /\ UNCHANGED <<faults, exc, gil, outcome>>
  BY DEF Store
<1>2. /\ kind \in {"get", "take", "lend", "null"}
      /\ kind \notin Exits \cup Hops \cup {"raise", "forget", "allow", "block"}
  BY DEF Exits, Hops
<1>3. /\ outcome = "running" /\ steps[at].kind = kind
      /\ at' \in Goes(steps, at) /\ Touches(steps[at]) = Vars
      /\ Raised(steps[at], exc) = exc
  BY <1>1, <1>2, NowRuns, ToNext, ExcStays
<1>4. \A x : Becomes(steps[at], x, Value(x)) = IF x \in Vars THEN v ELSE Value(x)
  BY <1>3 DEF Becomes
<1>5. /\ DOMAIN fields' = DOMAIN fields
      /\ DOMAIN locals' = (Vars \ DOMAIN fields) \cup DOMAIN locals
      /\ \A x : Value(x)' = IF x \in Vars THEN v ELSE Value(x)
  BY <1>1, Assigned
<1>6. /\ DOMAIN locals' \subseteq Names(object, fn)
      /\ DOMAIN locals' \cap DOMAIN fields = {}
  BY <1>3, <1>5, Named DEF DInv, Scoped
<1>7. \A x \in lost' \ lost :
        x \in Names(object, fn) /\ Loses(steps[at], x, Value(x))
  BY <1>1, <1>2, <1>3, Named DEF Owned, Loses
<1> QED BY <1>1, <1>3, <1>4, <1>5, <1>6, <1>7, Continues

LEMMA ReleaseDisciplined ==
  ASSUME DInv, IInv', NEW kind, NEW leaves, NEW wrong,
         Release(kind, leaves, wrong),
         \/ <<kind, leaves>> \in {<<"drop", "gone">>, <<"give", "lent">>}
            /\ wrong = Vars \ Owned(Vars)
         \/ <<kind, leaves>> \in {<<"clear", "null">>, <<"pass", "lent">>}
            /\ wrong = Misused(Vars)
  PROVE  DInv'
<1>1. /\ Now(kind) /\ Assign(Vars, leaves) /\ Go(1) /\ Same
      /\ faults' = faults \cup wrong
      /\ UNCHANGED <<lost, exc, gil, outcome>>
  BY DEF Release
<1>2. /\ kind \in {"drop", "give", "clear", "pass"}
      /\ kind \notin Exits \cup Hops \cup {"raise", "forget", "allow", "block"}
  BY DEF Exits, Hops
<1>3. /\ outcome = "running" /\ steps[at].kind = kind
      /\ at' \in Goes(steps, at) /\ Touches(steps[at]) = Vars
      /\ Raised(steps[at], exc) = exc
  BY <1>1, <1>2, NowRuns, ToNext, ExcStays
<1>4. \A x : Becomes(steps[at], x, Value(x))
              = IF x \in Vars THEN leaves ELSE Value(x)
  BY <1>3 DEF Becomes
<1>5. /\ DOMAIN fields' = DOMAIN fields
      /\ DOMAIN locals' = (Vars \ DOMAIN fields) \cup DOMAIN locals
      /\ \A x : Value(x)' = IF x \in Vars THEN leaves ELSE Value(x)
  BY <1>1, Assigned
<1>6. /\ DOMAIN locals' \subseteq Names(object, fn)
      /\ DOMAIN locals' \cap DOMAIN fields = {}
  BY <1>3, <1>5, Named DEF DInv, Scoped
<1>7. \A x \in faults' \ faults :
        x \in Names(object, fn) /\ Misuses(steps[at], x, Value(x))
  BY <1>1, <1>2, <1>3, Named DEF Owned, Misused, Misuses
<1> QED BY <1>1, <1>3, <1>4, <1>5, <1>6, <1>7, Continues

(* Steps that leave the variables alone.                                   *)
LEMMA OthersDisciplined ==
  ASSUME DInv, IInv', CheckPasses \/ SetException \/ UseReference \/ SwitchGil
  PROVE  DInv'
<1>1. PICK kind \in {"try", "raise", "forget", "use", "allow", "block"} :
        /\ Now(kind)
        /\ exc' = IF kind = "raise" THEN TRUE
                  ELSE IF kind = "forget" THEN FALSE ELSE exc
        /\ faults' = IF kind = "use"
                     THEN faults \cup {x \in Vars : Value(x) \in {"null", "gone"}}
                     ELSE faults
  BY DEF CheckPasses, SetException, UseReference, SwitchGil, Now
<1>2. kind \notin Exits \cup Hops
  BY DEF Exits, Hops
<1>3. Go(1) /\ Same /\ UNCHANGED <<fields, locals, lost, outcome>>
  BY DEF CheckPasses, SetException, UseReference, SwitchGil
<1>4. /\ outcome = "running" /\ steps[at].kind = kind
      /\ at' \in Goes(steps, at)
      /\ kind = "use" => Touches(steps[at]) = Vars
  BY <1>1, <1>2, <1>3, NowRuns, ToNext
<1>5. exc' = Raised(steps[at], exc)
  BY <1>1, <1>4 DEF Raised, DInv, IInv, TypeOK
<1>6. \A x : Value(x)' = Becomes(steps[at], x, Value(x))
  BY <1>3, <1>4, Untouched DEF Becomes
<1>7. /\ DOMAIN locals \subseteq Names(object, fn)
      /\ DOMAIN locals \cap DOMAIN fields = {}
  BY <1>4, Named DEF DInv, Scoped
<1>8. \A x \in faults' \ faults :
        x \in Names(object, fn) /\ Misuses(steps[at], x, Value(x))
  BY <1>1, <1>4, Named DEF Misuses
<1> QED BY <1>3, <1>4, <1>5, <1>6, <1>7, <1>8, Continues

LEMMA BranchDisciplined ==
  ASSUME DInv, IInv', Branch
  PROVE  DInv'
<1>1. PICK kind \in Hops : Now(kind) /\ at' \in Goes(steps, at)
  BY NowRuns DEF Branch, TakeBranch, NextBranch, Hops, Go, Goes, Exits, Vars
<1>2. Same /\ UNCHANGED <<fields, locals, lost, faults, exc, outcome>>
  BY DEF Branch
<1>3. /\ outcome = "running" /\ steps[at].kind = kind
      /\ exc' = Raised(steps[at], exc)
  BY <1>1, <1>2, NowRuns, ExcStays DEF Hops
<1>4. \A x : Value(x)' = Becomes(steps[at], x, Value(x))
  BY <1>2, <1>3, Untouched DEF Becomes, Touches, Controls
<1>5. /\ DOMAIN locals \subseteq Names(object, fn)
      /\ DOMAIN locals \cap DOMAIN fields = {}
  BY <1>3, Named DEF DInv, Scoped
<1> QED BY <1>1, <1>2, <1>3, <1>4, <1>5, Continues

-----------------------------------------------------------------------------
(* A step that ends the call, and the steps between calls.                 *)

LEMMA Concludes ==
  ASSUME DInv, IInv', outcome = "running", Same,
         outcome' \in {"value", "NULL"}, locals' = <<>>,
         DOMAIN fields' = DOMAIN fields,
         lost' \subseteq lost \cup Leaks[fn],
         faults' \subseteq faults \cup Faults[fn],
         fn \notin Silent => (outcome' = "NULL" <=> exc'),
         \A x \in FieldsOf(object) :
           \/ EndsObject(object, fn, outcome')
           \/ MayRest(object, Known[object], x, fields'[x])
  PROVE  DInv'
<1>1. object' = object /\ fn' = fn /\ fn # "none"
  BY InText DEF Same
<1>2. Disciplined'
  BY SameRules DEF DInv
<1>3. Foreseen'
  BY DEF Foreseen
<1>4. Scoped'
  <2>1. DOMAIN fields = FieldsOf(object) /\ fn \in Serving(object)
    BY InText, Named
  <2>2. DOMAIN locals' = {}
    BY Nothing
  <2> QED BY <1>1, <2>1, <2>2 DEF Scoped, InCall, FieldsOf, Serving, Free,
                                  Functions, Methods
<1>5. Settled'
  <2>1. LastCall(outcome)' => EndsObject(object, fn, outcome')
    BY <1>1 DEF LastCall, EndsObject
  <2>2. ~LastCall(outcome)' /\ object # "none" => Resting(object)'
    BY <1>1 DEF LastCall, EndsObject, Resting, MayRest, FieldsOf, Methods
  <2> QED BY <1>1, <2>2 DEF Settled, InCall
<1>6. NothingLost'
  BY <1>1 DEF DInv, NothingLost
<1>7. NothingReleasedTwice'
  BY <1>1 DEF DInv, NothingReleasedTwice
<1>8. ErrorReported'
  BY <1>1 DEF ErrorReported
<1> QED BY <1>2, <1>3, <1>4, <1>5, <1>6, <1>7, <1>8 DEF DInv

LEMMA AbortDisciplined ==
  ASSUME DInv, IInv', NEW kind \in Failing, Now(kind), NEW set, NEW raises \in BOOLEAN,
         Abort(set, raises), set = Unset(steps[at]),
         raises <=> kind \notin {"mute", "leave"}
  PROVE  DInv'
<1> DEFINE step == steps[at]
           last == EndsObject(object, fn, "NULL")
<1>1. outcome = "running" /\ step.kind = kind
  BY NowRuns
<1>2. \A x \in Names(object, fn) :
        FailsWell(object, fn, Known[object], step, x, Value(x), exc)
  BY <1>1, ByTheRules
<1>3. Undo \ set = LetGo(step) /\ set = Unset(step) /\ Undo = step.undo
  BY DEF LetGo, Undo
<1>4. /\ Unset(step) \subseteq Names(object, fn)
      /\ Undo \subseteq Names(object, fn)
      /\ DOMAIN locals \subseteq Names(object, fn)
      /\ DOMAIN fields \subseteq Names(object, fn)
      /\ DOMAIN fields = FieldsOf(object)
      /\ DOMAIN locals \cap DOMAIN fields = {}
      /\ "NULL" \in Names(object, fn)
  <2>1. Unset(step) \subseteq Touches(step)
    BY DEF Unset, Touches, Controls, Hops
  <2> QED BY <1>1, <2>1, Named DEF DInv, Scoped
<1>5. lost' \subseteq lost \cup Leaks[fn]
  <2> SUFFICES ASSUME NEW x \in lost', x \notin lost
               PROVE  x \in Leaks[fn]
    OBVIOUS
  <2>1. \/ x \in set /\ Value(x) = "own"
        \/ x \in DOMAIN locals \ (Undo \cup set) /\ locals[x] = "own"
        \/ LastCall("NULL") /\ x \in DOMAIN fields \ Undo /\ Value(x) = "own"
    BY DEF Abort, Owned
  <2>2. x \in Names(object, fn) /\ Value(x) = "own"
    BY <1>3, <1>4, <2>1 DEF Value, Local
  <2>3. x \notin LetGo(step)
    BY <1>3, <2>1
  <2>4. x \notin FieldsOf(object) \/ last \/ x \in Unset(step)
    BY <1>3, <1>4, <2>1 DEF LastCall, EndsObject
  <2> QED BY <1>2, <2>2, <2>3, <2>4 DEF FailsWell
<1>6. faults' \subseteq faults \cup Faults[fn]
  <2>1. faults' = faults \cup Misused(LetGo(step))
    BY <1>3 DEF Abort
  <2>2. \A x \in Misused(LetGo(step)) : x \in Names(object, fn)
    BY <1>3, <1>4 DEF Misused
  <2> QED BY <1>2, <2>1, <2>2 DEF FailsWell, Misused
<1>7. fn \notin Silent => (outcome' = "NULL" <=> exc')
  <2>1. outcome' = "NULL" /\ (exc' <=> exc \/ raises)
    BY DEF Abort
  <2>2. ~raises /\ fn \notin Silent => exc
    BY <1>1, <1>2, <1>4 DEF FailsWell
  <2> QED BY <2>1, <2>2
<1>8. /\ DOMAIN fields' = DOMAIN fields
      /\ \A x \in DOMAIN fields : fields'[x] = LeftBehind(step, x, fields[x])
  BY <1>3 DEF Abort, LeftBehind, Owned, Value
<1>9. \A x \in FieldsOf(object) :
        \/ EndsObject(object, fn, outcome')
        \/ MayRest(object, Known[object], x, fields'[x])
  <2> SUFFICES ASSUME NEW x \in FieldsOf(object), ~last
               PROVE  MayRest(object, Known[object], x, fields'[x])
    BY DEF Abort
  <2>1. Value(x) = fields[x] /\ x \in Names(object, fn)
    BY <1>4 DEF Value
  <2> QED BY <1>2, <1>4, <1>8, <2>1 DEF FailsWell
<1>10. Same /\ outcome' = "NULL" /\ locals' = <<>>
  BY DEF Abort
<1> QED BY <1>1, <1>5, <1>6, <1>7, <1>8, <1>9, <1>10, Concludes

LEMMA ReturnDisciplined ==
  ASSUME DInv, IInv', ReturnStep
  PROVE  DInv'
<1> DEFINE step == steps[at]
<1>1. /\ outcome = "running" /\ step.kind = "return" /\ step = Code[fn][at]
      /\ Touches(step) = Vars /\ steps[at].vars = Vars
  BY NowRuns, InText DEF ReturnStep, Touches, Controls, Hops, Vars
<1>2. \A x \in Names(object, fn) :
        /\ ReturnsWell(object, fn, Known[object], at, Vars, x, Value(x), exc)
        /\ Misuses(step, x, Value(x)) => x \in Faults[fn]
  BY <1>1, ByTheRules
<1>3. /\ Vars \subseteq Names(object, fn)
      /\ DOMAIN locals \subseteq Names(object, fn)
      /\ DOMAIN fields \subseteq Names(object, fn)
      /\ DOMAIN fields = FieldsOf(object)
      /\ DOMAIN locals \cap DOMAIN fields = {}
      /\ "NULL" \in Names(object, fn)
  BY <1>1, Named DEF DInv, Scoped
<1>4. /\ Same /\ UNCHANGED <<fields, exc>> /\ locals' = <<>>
      /\ outcome' = IF \E x \in Vars : Value(x) = "null" THEN "NULL" ELSE "value"
  BY DEF ReturnStep
<1>5. outcome' \in Results(fn, Known[object], at, Vars)
  <2>1. ASSUME NEW y \in Vars, Value(y) = "null"
        PROVE  "NULL" \in Results(fn, Known[object], at, Vars)
    <3>1. <<at, Value(y), exc>> \in Known[object][fn][y]
      BY <1>1, <1>3, InText DEF DInv, Foreseen
    <3>2. <<at, Value(y), exc>>[1] = at /\ <<at, Value(y), exc>>[2] = "null"
      BY <2>1
    <3>3. \E y_1 \in Vars :
            \E fact \in Known[object][fn][y_1] : fact[1] = at /\ fact[2] = "null"
      BY <1>1, <3>1, <3>2
    <3> QED BY <3>3 DEF Results
  <2>2. "value" \in Results(fn, Known[object], at, Vars)
    BY DEF Results
  <2> QED BY <1>4, <2>1, <2>2
<1>6. lost' \subseteq lost \cup Leaks[fn]
  <2> SUFFICES ASSUME NEW x \in lost', x \notin lost
               PROVE  x \in Leaks[fn]
    OBVIOUS
  <2>1. \/ x \in DOMAIN locals \ Vars /\ locals[x] = "own"
        \/ LastCall(outcome') /\ x \in DOMAIN fields /\ Value(x) = "own"
    BY DEF ReturnStep, Owned
  <2>2. x \in Names(object, fn) /\ Value(x) = "own"
    BY <1>3, <2>1 DEF Value, Local
  <2>3. CASE x \in DOMAIN locals \ Vars
    BY <1>1, <1>2, <1>3, <2>2, <2>3 DEF ReturnsWell
  <2>4. CASE LastCall(outcome') /\ x \in DOMAIN fields
    <3>1. EndsObject(object, fn, outcome')
      BY <2>4 DEF LastCall, EndsObject
    <3> QED BY <1>2, <1>3, <1>5, <2>2, <2>4, <3>1 DEF ReturnsWell
  <2> QED BY <2>1, <2>3, <2>4
<1>7. faults' \subseteq faults \cup Faults[fn]
  <2>1. faults' = faults \cup Misused(Vars)
    BY DEF ReturnStep
  <2>2. \A x \in Misused(Vars) : x \in Vars /\ Misuses(step, x, Value(x))
    BY <1>1 DEF Misused, Misuses
  <2> QED BY <1>2, <1>3, <2>1, <2>2
<1>8. fn \notin Silent => (outcome' = "NULL" <=> exc')
  <2> SUFFICES ASSUME fn \notin Silent
               PROVE  (\E x \in Vars : Value(x) = "null") <=> exc
    BY <1>4
  <2>1. Vars = {} => ~exc
    BY <1>1, <1>2, <1>3 DEF ReturnsWell
  <2>2. \A x \in Vars : Value(x) = "null" <=> exc
    BY <1>1, <1>2, <1>3 DEF ReturnsWell
  <2> QED BY <2>1, <2>2
<1>9. \A x \in FieldsOf(object) :
        \/ EndsObject(object, fn, outcome')
        \/ MayRest(object, Known[object], x, fields'[x])
  <2> SUFFICES ASSUME NEW x \in FieldsOf(object)
               PROVE  \/ EndsObject(object, fn, outcome')
                      \/ MayRest(object, Known[object], x, fields[x])
    BY <1>4
  <2>1. Value(x) = fields[x] /\ x \in Names(object, fn)
    BY <1>3 DEF Value
  <2> QED BY <1>2, <1>5, <2>1 DEF ReturnsWell
<1>10. outcome' \in {"value", "NULL"}
  BY <1>4
<1> HIDE DEF step
<1> QED BY <1>1, <1>4, <1>6, <1>7, <1>8, <1>9, <1>10, Concludes

(* A call starts with its local variables NULL and the fields as the last  *)
(* call left them.                                                         *)
LEMMA StartDisciplined ==
  ASSUME DInv, IInv', NEW T \in DOMAIN Types \cup {"none"}, object' = T,
         NEW f \in Serving(T), Start(f), f # "none",
         DOMAIN fields' = FieldsOf(T),
         \A x \in FieldsOf(T) : <<1, fields'[x], FALSE>> \in Known[T][f][x]
  PROVE  DInv'
<1>1. /\ fn = "none" /\ fn' = f /\ steps' = Code[f] /\ at' = 1
      /\ outcome' = "running"
      /\ UNCHANGED <<locals, lost, faults, exc, gil>>
  BY DEF Start
<1>2. locals = <<>> /\ lost = {} /\ faults = {} /\ exc = FALSE
  BY <1>1 DEF DInv, IInv, TypeOK, Settled, InCall
<1>3. DOMAIN locals = {}
  BY <1>2, Nothing
<1>4. Disciplined /\ Disciplined'
  BY SameRules DEF DInv
<1>5. DOMAIN Known[T][f] = Names(T, f)
  BY <1>4 DEF Disciplined, Orderly, Begins, Names
<1>6. Foreseen'
  <2>1. ASSUME NEW x \in Names(T, f)
        PROVE  <<1, Value(x)', FALSE>> \in Known[T][f][x]
    <3>1. CASE x \in FieldsOf(T)
      BY <3>1 DEF Value
    <3>2. CASE x \notin FieldsOf(T)
      <4>1. Value(x)' = "null"
        BY <1>1, <1>3, <3>2 DEF Value, Local
      <4> QED BY <1>4, <1>5, <3>2, <4>1 DEF Disciplined, Orderly, Begins, Names
    <3> QED BY <3>1, <3>2
  <2> QED BY <1>1, <1>2, <1>5, <2>1 DEF Foreseen
<1>7. Scoped'
  BY <1>1, <1>3 DEF Scoped, InCall, FieldsOf, Serving, Free, Functions, Methods
<1>8. Settled'
  BY <1>1 DEF Settled, InCall
<1>9. NothingLost' /\ NothingReleasedTwice' /\ ErrorReported'
  BY <1>1, <1>2 DEF NothingLost, NothingReleasedTwice, ErrorReported, Returned
<1> QED BY <1>4, <1>6, <1>7, <1>8, <1>9 DEF DInv

LEMMA NewDisciplined ==
  ASSUME DInv, IInv', NEW T \in DOMAIN Types, New(T)
  PROVE  DInv'
<1> DEFINE f == Types[T].new
<1>1. T # "none" /\ f # "none" /\ f \in Serving(T)
  BY DEF DInv, IInv, CodeOK, Serving
<1>2. object' = T /\ Start(f) /\ fields' = [x \in FieldsOf(T) |-> "null"]
  BY <1>1 DEF New, FieldsOf
<1>3. \A x \in FieldsOf(T) : <<1, fields'[x], FALSE>> \in Known[T][f][x]
  BY <1>1, <1>2 DEF DInv, Disciplined, Orderly, Begins, Names, NamesIn
<1> HIDE DEF f
<1> QED BY <1>1, <1>2, <1>3, StartDisciplined

LEMMA BeginDisciplined ==
  ASSUME DInv, IInv', NEW f \in Functions, Begin(f)
  PROVE  DInv'
<1>1. /\ f \in IF object = "none" THEN Free ELSE Methods(object)
      /\ Start(f) /\ UNCHANGED <<object, fields>>
  BY DEF Begin
<1>2. object \in DOMAIN Types \cup {"none"} /\ f \in Serving(object)
  BY <1>1 DEF DInv, IInv, TypeOK, Serving
<1>3. f # "none" /\ fn = "none" /\ outcome = "idle"
  BY <1>1 DEF DInv, IInv, CodeOK, Start
<1>4. DOMAIN fields' = FieldsOf(object)
  BY <1>1 DEF DInv, Scoped
<1>5. ASSUME NEW x \in FieldsOf(object)
      PROVE  <<1, fields'[x], FALSE>> \in Known[object][f][x]
  <2>1. object # "none" /\ f \in Methods(object)
    BY <1>1, <1>5 DEF FieldsOf
  <2>2. ~LastCall(outcome)
    BY <1>2, <1>3, <2>1 DEF LastCall, DInv, IInv, CodeOK, Methods
  <2>3. MayRest(object, Known[object], x, fields[x])
    BY <1>3, <1>5, <2>1, <2>2 DEF DInv, Settled, Resting
  <2> QED BY <1>1, <2>1, <2>3 DEF MayRest
<1> QED BY <1>1, <1>2, <1>3, <1>4, <1>5, StartDisciplined

LEMMA LeaveDisciplined ==
  ASSUME DInv, IInv', Leave
  PROVE  DInv'
<1>1. /\ Returned /\ fn' = "none" /\ outcome' = "idle"
      /\ locals' = <<>> /\ lost' = {} /\ faults' = {} /\ exc' = FALSE
  BY DEF Leave, Idle
<1>2. DOMAIN locals' = {}
  BY <1>1, Nothing
<1>3. Disciplined'
  BY SameRules DEF DInv
<1>4. Foreseen' /\ NothingLost' /\ NothingReleasedTwice' /\ ErrorReported'
  BY <1>1 DEF Foreseen, NothingLost, NothingReleasedTwice, ErrorReported, Returned
<1>5. Scoped' /\ Settled'
  <2>1. CASE LastCall(outcome)
    <3>1. object' = "none" /\ DOMAIN fields' = {}
      BY <2>1, Nothing DEF Leave
    <3> QED BY <1>1, <1>2, <3>1 DEF Scoped, Settled, InCall, FieldsOf
  <2>2. CASE ~LastCall(outcome)
    <3>1. UNCHANGED <<object, fields>>
      BY <2>2 DEF Leave
    <3>2. outcome # "running"
      BY <1>1 DEF Returned
    <3>3. object # "none" => Resting(object)
      BY <2>2, <3>2 DEF DInv, Settled
    <3>4. DOMAIN fields = FieldsOf(object)
      BY DEF DInv, Scoped
    <3>5. Scoped'
      BY <1>1, <1>2, <3>1, <3>4 DEF Scoped, InCall, FieldsOf
    <3>6. Settled'
      BY <1>1, <3>1, <3>3 DEF Settled, InCall, Resting, MayRest, FieldsOf, Methods
    <3> QED BY <3>5, <3>6
  <2> QED BY <2>1, <2>2
<1> QED BY <1>3, <1>4, <1>5 DEF DInv

-----------------------------------------------------------------------------
(* The theorems.                                                           *)

LEMMA CallStepDisciplined ==
  ASSUME DInv, IInv', CallStep
  PROVE  DInv'
<1>1. CASE Acquire \/ Obtain \/ Borrow \/ SetNull
  BY <1>1, StoreDisciplined DEF Acquire, Obtain, Borrow, SetNull
<1>2. CASE AcquireFails \/ CheckFails \/ FailsMutely
  <2>1. CASE AcquireFails
    <3>1. Now("get") /\ Abort(Vars, TRUE) /\ "get" \in Failing
      BY <2>1 DEF AcquireFails, Failing
    <3>2. Vars = Unset(steps[at])
      BY <3>1, NowRuns DEF Unset, Vars
    <3> QED BY <3>1, <3>2, AbortDisciplined
  <2>2. CASE CheckFails
    <3>1. PICK kind \in {"try", "fail"} : Now(kind) /\ Abort({}, TRUE)
      BY <2>2 DEF CheckFails
    <3>2. {} = Unset(steps[at]) /\ kind \in Failing
      BY <3>1, NowRuns DEF Unset, Failing
    <3> QED BY <3>1, <3>2, AbortDisciplined
  <2>3. CASE FailsMutely
    <3>1. PICK kind \in {"mute", "leave"} : Now(kind) /\ Abort({}, FALSE)
      BY <2>3 DEF FailsMutely
    <3>2. {} = Unset(steps[at]) /\ kind \in Failing
      BY <3>1, NowRuns DEF Unset, Failing
    <3> QED BY <3>1, <3>2, AbortDisciplined
  <2> QED BY <1>2, <2>1, <2>2, <2>3
<1>3. CASE DropReferences \/ ClearReferences \/ GiveReference \/ PassReference
  BY <1>3, ReleaseDisciplined
     DEF DropReferences, ClearReferences, GiveReference, PassReference
<1>4. CASE CheckPasses \/ SetException \/ UseReference \/ SwitchGil
  BY <1>4, OthersDisciplined
<1>5. CASE Branch
  BY <1>5, BranchDisciplined
<1>6. CASE ReturnStep
  BY <1>6, ReturnDisciplined
<1> QED BY <1>1, <1>2, <1>3, <1>4, <1>5, <1>6 DEF CallStep

(* If the text of every function passes the rules, with whatever facts,    *)
(* then on every path, through any number of calls on one object, the      *)
(* functions keep DInv: looking at one variable at a time is enough.       *)
THEOREM DisciplineKept ==
  ASSUME CodeOK, Disciplined
  PROVE  Spec => []DInv
<1>1. Init => DInv
  <2>1. SUFFICES ASSUME Init PROVE DInv
    OBVIOUS
  <2>2. DOMAIN fields = {} /\ DOMAIN locals = {}
    BY <2>1, Nothing DEF Init
  <2>3. IInv
    BY <2>1, Nothing DEF Init, IInv, TypeOK
  <2> QED BY <2>1, <2>2, <2>3 DEF Init, DInv, Foreseen, Scoped, Settled, InCall,
             FieldsOf, NothingLost, NothingReleasedTwice, ErrorReported, Returned
<1>2. DInv /\ IInv' /\ [Next]_vars => DInv'
  <2> SUFFICES ASSUME DInv, IInv', [Next]_vars PROVE DInv'
    OBVIOUS
  <2>1. CASE Next
    BY <2>1, NewDisciplined, BeginDisciplined, CallStepDisciplined,
       LeaveDisciplined DEF Next
  <2>2. CASE UNCHANGED vars
    <3>1. Disciplined'
      BY SameRules DEF DInv
    <3>2. UNCHANGED <<object, fields, fn, at, locals, lost, faults, exc, outcome>>
      BY <2>2 DEF vars, callVars
    <3>3. Foreseen'
      BY <3>2 DEF DInv, Foreseen, Value, Local
    <3>4. Scoped'
      BY <3>2 DEF DInv, Scoped, InCall, FieldsOf, Serving, Names, NamesIn,
                  Mentioned, Touches, Controls, Hops, Free, Functions, Methods
    <3>5. Settled'
      BY <3>2 DEF DInv, Settled, InCall, Resting, MayRest, FieldsOf, Methods,
                  LastCall
    <3>6. NothingLost' /\ NothingReleasedTwice' /\ ErrorReported'
      BY <3>2 DEF DInv, NothingLost, NothingReleasedTwice, ErrorReported, Returned
    <3> QED BY <3>1, <3>3, <3>4, <3>5, <3>6 DEF DInv
  <2> QED BY <2>1, <2>2
<1> QED BY <1>1, <1>2, Invariance, PTL DEF Spec

(* However a function leaves, at whatever failure point, it gives back     *)
(* everything it acquired, except what it is known to keep.                *)
THEOREM NothingIsLost ==
  ASSUME CodeOK, Disciplined
  PROVE  Spec => []NothingLost
<1>1. DInv => NothingLost
  BY DEF DInv
<1> QED BY <1>1, DisciplineKept, PTL

(* No failure path, and no second __init__ of the same object, releases    *)
(* what the function does not own, except what it is known to.             *)
THEOREM NothingIsReleasedTwice ==
  ASSUME CodeOK, Disciplined
  PROVE  Spec => []NothingReleasedTwice
<1>1. DInv => NothingReleasedTwice
  BY DEF DInv
<1> QED BY <1>1, DisciplineKept, PTL

(* A function that is not known to be silent returns NULL exactly when it  *)
(* has set an exception, also where it returns what another call gave it.  *)
THEOREM ErrorsAreReported ==
  ASSUME CodeOK, Disciplined
  PROVE  Spec => []ErrorReported
<1>1. DInv => ErrorReported
  BY DEF DInv
<1> QED BY <1>1, DisciplineKept, PTL

=============================================================================
