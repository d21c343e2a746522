-------------------------- MODULE CallPathsProofs --------------------------
(***************************************************************************)
(* Proofs about CallPaths for any code: what the runs of the functions     *)
(* always keep, given what CodeOK says of the text of each function.  TLC  *)
(* finds CodeOK true of the functions of the bindings (IInv of CallPaths). *)
(***************************************************************************)
EXTENDS CallPaths, TLAPS

USE DEF Code, Types

-----------------------------------------------------------------------------
(* The function that is running.                                           *)

(* What IInv says of its text.                                             *)
LEMMA Running ==
  ASSUME IInv, fn # "none"
  PROVE  /\ fn \in Functions /\ steps = Code[fn] /\ at \in DOMAIN steps
         /\ Closed(steps) /\ Bracketed(steps)
BY DEF IInv, TypeOK, CodeOK

LEMMA RunningNow ==
  ASSUME IInv, NEW kind, Now(kind)
  PROVE  outcome = "running" /\ fn # "none" /\ steps[at].kind = kind
BY DEF Now, IInv

(* A step that does not end the call stays inside the function ...         *)
LEMMA NextInside ==
  ASSUME IInv, NEW kind, Now(kind), kind \notin Exits \cup {"jump"}
  PROVE  at + 1 \in DOMAIN steps
<1>1. fn # "none" /\ steps[at].kind = kind
  BY RunningNow
<1> QED BY <1>1, Running DEF Closed

(* ... and so does one that goes on somewhere else.                        *)
LEMMA HopInside ==
  ASSUME IInv, NEW kind, Now(kind), kind \in Hops
  PROVE  at + steps[at].vars \in DOMAIN steps
<1>1. fn # "none" /\ steps[at].kind = kind
  BY RunningNow
<1> QED BY <1>1, Running DEF Closed

(* Only hops and Py_END_ALLOW_THREADS run without the GIL.                 *)
LEMMA GilNeeded ==
  ASSUME IInv, NEW kind, Now(kind), kind \notin Hops \cup {"block"}
  PROVE  gil
<1>1. fn # "none" /\ steps[at].kind = kind
  BY RunningNow
<1> QED BY <1>1, Running DEF IInv, Bracketed, TypeOK

(* A hop without the GIL leads to a place that is reached without it.      *)
LEMMA HopOutsideGil ==
  ASSUME IInv, ~gil, NEW kind, Now(kind), kind \in Hops
  PROVE  at + steps[at].vars \in WithoutGil(steps)
<1>1. fn # "none" /\ steps[at].kind = kind
  BY RunningNow
<1> QED BY <1>1, Running DEF IInv, Bracketed

(* What follows a step that ran without the GIL and did not take it back,  *)
(* or a Py_BEGIN_ALLOW_THREADS, runs without it.                           *)
LEMMA FollowsAllow ==
  ASSUME NEW s, DOMAIN s = 1 .. Len(s), NEW n \in DOMAIN s, n + 1 \in DOMAIN s,
         s[n].kind # "block",
         s[n].kind = "allow" \/ n \in WithoutGil(s)
  PROVE  n + 1 \in WithoutGil(s)
<1>1. n \in Int /\ n >= 1
  OBVIOUS
<1>2. CASE s[n].kind = "allow"
  <2>1. n \in 1 .. (n + 1) - 1 /\ n + 1 .. (n + 1) - 1 = {}
    BY <1>1
  <2> QED BY <1>2, <2>1 DEF WithoutGil
<1>3. CASE n \in WithoutGil(s)
  <2>1. PICK m \in 1 .. n - 1 :
          s[m].kind = "allow" /\ \A k \in m + 1 .. n - 1 : s[k].kind # "block"
    BY <1>3 DEF WithoutGil
  <2>2. m \in 1 .. (n + 1) - 1
    BY <1>1, <2>1
  <2>3. \A k \in m + 1 .. (n + 1) - 1 : k = n \/ k \in m + 1 .. n - 1
    BY <1>1, <2>1
  <2>4. \A k \in m + 1 .. (n + 1) - 1 : s[k].kind # "block"
    BY <2>1, <2>3
  <2> QED BY <2>1, <2>2, <2>4 DEF WithoutGil
<1> QED BY <1>2, <1>3

-----------------------------------------------------------------------------
(* What the variables hold.                                                *)

VarsOK ==
  /\ \A x \in DOMAIN fields : fields[x] \in States
  /\ \A x \in DOMAIN locals : locals[x] \in States

LEMMA AssignTypes ==
  ASSUME VarsOK, NEW X, NEW v \in States, Assign(X, v)
  PROVE  VarsOK'
BY DEF VarsOK, Assign

LEMMA AbortTypes ==
  ASSUME VarsOK, NEW set, NEW raises \in BOOLEAN, exc \in BOOLEAN,
         Abort(set, raises)
  PROVE  VarsOK' /\ exc' \in BOOLEAN
<1>1. \A x \in DOMAIN fields' : fields'[x] \in States
  BY DEF VarsOK, Abort, States
<1>2. DOMAIN locals' = {}
  BY DEF Abort
<1>3. exc' \in BOOLEAN
  BY DEF Abort
<1> QED BY <1>1, <1>2, <1>3 DEF VarsOK

-----------------------------------------------------------------------------
(* One step of a call, one lemma per action.                               *)

LEMMA SameCode ==
  CodeOK => CodeOK'
BY DEF CodeOK, Closed, Bracketed, WithoutGil, Methods, Functions

(* A step that goes on, and one that ends the call.                        *)
LEMMA GoesOn ==
  ASSUME IInv, fn # "none", Same, outcome' = outcome, VarsOK',
         exc' \in BOOLEAN, gil' \in BOOLEAN, at' \in DOMAIN steps,
         ~gil' => outcome = "running" /\ at' \in WithoutGil(steps)
  PROVE  IInv'
<1>1. CodeOK'
  BY SameCode DEF IInv
<1>2. TypeOK'
  BY DEF IInv, TypeOK, VarsOK, Same, Functions
<1>3. steps' = Code[fn'] /\ outcome' # "idle" /\ fn' # "none"
  BY DEF IInv, Same
<1>4. ~gil' => outcome' = "running" /\ at' \in WithoutGil(steps')
  BY DEF Same
<1> QED BY <1>1, <1>2, <1>3, <1>4 DEF IInv

LEMMA Ends ==
  ASSUME IInv, fn # "none", gil, Same, at' = at, gil' = gil, VarsOK',
         exc' \in BOOLEAN, outcome' \in {"value", "NULL"}
  PROVE  IInv'
<1>1. CodeOK'
  BY SameCode DEF IInv
<1>2. TypeOK'
  BY DEF IInv, TypeOK, VarsOK, Same, Functions
<1>3. steps' = Code[fn'] /\ outcome' # "idle" /\ fn' # "none"
  BY DEF IInv, Same
<1> QED BY <1>1, <1>2, <1>3 DEF IInv

(* What IInv says of the variables.                                        *)
LEMMA Typed ==
  ASSUME IInv
  PROVE  VarsOK /\ exc \in BOOLEAN /\ gil \in BOOLEAN
BY DEF IInv, TypeOK, VarsOK

(* A step that goes to the next one with the GIL held.                     *)
LEMMA GoesToNext ==
  ASSUME IInv, NEW kind, Now(kind), kind \notin Exits \cup Hops \cup {"block"},
         Go(1), Same, UNCHANGED <<gil, outcome>>, VarsOK', exc' \in BOOLEAN
  PROVE  IInv'
<1>1. fn # "none" /\ gil
  BY RunningNow, GilNeeded
<1>2. at' \in DOMAIN steps
  BY NextInside DEF Go, Hops
<1> QED BY <1>1, <1>2, GoesOn

LEMMA StorePreserves ==
  ASSUME IInv, NEW kind \in {"get", "take", "lend", "null"},
         NEW v \in States, Store(kind, v)
  PROVE  IInv'
<1>1. VarsOK'
  BY AssignTypes, Typed DEF Store
<1>2. kind \notin Exits \cup Hops \cup {"block"}
  BY DEF Exits, Hops
<1>3. Now(kind) /\ Go(1) /\ Same /\ UNCHANGED <<exc, gil, outcome>>
  BY DEF Store
<1> QED BY <1>1, <1>2, <1>3, GoesToNext, Typed

LEMMA ReleasePreserves ==
  ASSUME IInv, NEW kind \in {"drop", "clear", "give", "pass"},
         NEW leaves \in States, NEW wrong, Release(kind, leaves, wrong)
  PROVE  IInv'
<1>1. VarsOK'
  BY AssignTypes, Typed DEF Release
<1>2. kind \notin Exits \cup Hops \cup {"block"}
  BY DEF Exits, Hops
<1>3. Now(kind) /\ Go(1) /\ Same /\ UNCHANGED <<exc, gil, outcome>>
  BY DEF Release
<1> QED BY <1>1, <1>2, <1>3, GoesToNext, Typed

LEMMA AbortPreserves ==
  ASSUME IInv, NEW kind \in {"get", "try", "fail", "mute", "leave"}, Now(kind),
         NEW set, NEW raises \in BOOLEAN, Abort(set, raises)
  PROVE  IInv'
<1>1. fn # "none" /\ gil
  BY RunningNow, GilNeeded DEF Hops
<1>2. VarsOK' /\ exc' \in BOOLEAN
  BY AbortTypes, Typed
<1>3. Same /\ at' = at /\ gil' = gil /\ outcome' = "NULL"
  BY DEF Abort
<1> QED BY <1>1, <1>2, <1>3, Ends

LEMMA OtherStepsPreserve ==
  ASSUME IInv, CheckPasses \/ SetException \/ UseReference
  PROVE  IInv'
<1>1. PICK kind \in {"try", "raise", "forget", "use"} : Now(kind)
  BY DEF CheckPasses, SetException, UseReference
<1>2. kind \notin Exits \cup Hops \cup {"block"}
  BY DEF Exits, Hops
<1>3. Go(1) /\ Same /\ UNCHANGED <<fields, locals, gil, outcome>>
  BY DEF CheckPasses, SetException, UseReference
<1>4. VarsOK'
  BY <1>3, Typed DEF VarsOK
<1>5. exc' \in BOOLEAN
  <2>1. CASE CheckPasses \/ UseReference
    BY <2>1, Typed DEF CheckPasses, UseReference
  <2>2. CASE SetException
    BY <2>2 DEF SetException, Now
  <2> QED BY <2>1, <2>2
<1> QED BY <1>1, <1>2, <1>3, <1>4, <1>5, GoesToNext

LEMMA BranchPreserves ==
  ASSUME IInv, Branch
  PROVE  IInv'
<1>1. PICK kind \in Hops : Now(kind) /\ (kind = "branch" \/ ~NextBranch)
  BY DEF Branch, TakeBranch, NextBranch, Hops
<1>2. fn # "none" /\ outcome = "running" /\ steps[at].kind = kind
  BY <1>1, RunningNow
<1>3. Same /\ UNCHANGED <<fields, locals, exc, gil, outcome>>
  BY DEF Branch
<1>4. VarsOK' /\ exc' \in BOOLEAN /\ gil' \in BOOLEAN
  BY <1>3, Typed DEF VarsOK
<1>5. CASE TakeBranch
  <2>1. at' = at + steps[at].vars
    BY <1>5 DEF TakeBranch, Go, Vars
  <2>2. at' \in DOMAIN steps
    BY <1>1, <2>1, HopInside
  <2>3. ~gil => at' \in WithoutGil(steps)
    BY <1>1, <2>1, HopOutsideGil
  <2> QED BY <1>2, <1>3, <1>4, <2>2, <2>3, GoesOn
<1>6. CASE NextBranch
  <2>1. Now("branch") /\ at' = at + 1
    BY <1>6 DEF NextBranch, Go
  <2>2. at \in DOMAIN steps /\ at + 1 \in DOMAIN steps /\ steps[at].kind = "branch"
    BY <1>2, <2>1, NextInside, RunningNow, Running DEF Exits
  <2>3. DOMAIN steps = 1 .. Len(steps)
    BY <1>2, Running DEF Closed
  <2>4. ~gil => at + 1 \in WithoutGil(steps)
    <3>1. HAVE ~gil
    <3>2. at \in WithoutGil(steps)
      BY <3>1 DEF IInv
    <3> QED BY <2>2, <2>3, <3>2, FollowsAllow
  <2> QED BY <1>2, <1>3, <1>4, <2>1, <2>2, <2>4, GoesOn
<1> QED BY <1>5, <1>6 DEF Branch

LEMMA SwitchGilPreserves ==
  ASSUME IInv, SwitchGil
  PROVE  IInv'
<1>1. PICK kind \in {"allow", "block"} : Now(kind) /\ gil' = Now("block")
  BY DEF SwitchGil
<1>2. fn # "none" /\ outcome = "running" /\ steps[at].kind = kind
  BY <1>1, RunningNow
<1>3. Go(1) /\ Same /\ UNCHANGED <<fields, locals, exc, outcome>>
  BY DEF SwitchGil
<1>4. VarsOK' /\ exc' \in BOOLEAN
  BY <1>3, Typed DEF VarsOK
<1>5. gil' \in BOOLEAN
  BY <1>1 DEF Now
<1>6. at \in DOMAIN steps /\ at' = at + 1 /\ at' \in DOMAIN steps
  BY <1>1, <1>2, <1>3, NextInside, Running DEF Go, Exits
<1>7. ~gil' => at' \in WithoutGil(steps)
  <2>1. HAVE ~gil'
  <2>2. ~Now("block")
    BY <1>1, <2>1
  <2>3. kind = "allow"
    BY <1>1, <2>2
  <2>4. DOMAIN steps = 1 .. Len(steps)
    BY <1>2, Running DEF Closed
  <2> QED BY <1>2, <1>6, <2>3, <2>4, FollowsAllow
<1> QED BY <1>2, <1>3, <1>4, <1>5, <1>6, <1>7, GoesOn

LEMMA ReturnPreserves ==
  ASSUME IInv, ReturnStep
  PROVE  IInv'
<1>1. Now("return")
  BY DEF ReturnStep
<1>2. fn # "none" /\ gil
  BY <1>1, RunningNow, GilNeeded DEF Hops
<1>3. Same /\ UNCHANGED <<fields, at, exc, gil>> /\ DOMAIN locals' = {}
  BY DEF ReturnStep
<1>4. outcome' \in {"value", "NULL"}
  BY DEF ReturnStep
<1>5. VarsOK'
  BY <1>3, Typed DEF VarsOK
<1> QED BY <1>2, <1>3, <1>4, <1>5, Typed, Ends

LEMMA CallStepPreserves ==
  ASSUME IInv, CallStep
  PROVE  IInv'
<1>1. CASE Acquire \/ Obtain \/ Borrow \/ SetNull
  BY <1>1, StorePreserves DEF Acquire, Obtain, Borrow, SetNull, States
<1>2. CASE AcquireFails \/ CheckFails \/ FailsMutely
  BY <1>2, AbortPreserves DEF AcquireFails, CheckFails, FailsMutely
<1>3. CASE CheckPasses \/ SetException \/ UseReference
  BY <1>3, OtherStepsPreserve
<1>4. CASE \/ DropReferences \/ ClearReferences
           \/ GiveReference \/ PassReference
  BY <1>4, ReleasePreserves
     DEF DropReferences, ClearReferences, GiveReference, PassReference, States
<1> QED BY <1>1, <1>2, <1>3, <1>4, BranchPreserves, SwitchGilPreserves,
           ReturnPreserves DEF CallStep

-----------------------------------------------------------------------------
(* Between calls.                                                          *)

LEMMA Nothing ==
  ASSUME NEW f, f = <<>>
  PROVE  \A x \in DOMAIN f : f[x] \in States
<1>1. DOMAIN f = 1 .. 0
  OBVIOUS
<1> QED BY <1>1

LEMMA StartPreserves ==
  ASSUME IInv, NEW f \in Functions, Start(f),
         object' \in DOMAIN Types \cup {"none"},
         \A x \in DOMAIN fields' : fields'[x] \in States
  PROVE  IInv'
<1>1. CodeOK'
  BY SameCode DEF IInv
<1>2. f # "none" /\ 1 \in DOMAIN Code[f]
  BY DEF IInv, CodeOK, Closed
<1>3. TypeOK'
  BY <1>2 DEF IInv, TypeOK, Start, Functions
<1>4. gil'
  BY DEF IInv, Start, TypeOK
<1> QED BY <1>1, <1>2, <1>3, <1>4 DEF IInv, Start

LEMMA NewPreserves ==
  ASSUME IInv, NEW T \in DOMAIN Types, New(T)
  PROVE  IInv'
<1>1. Types[T].new \in Functions
  BY DEF IInv, CodeOK
<1>2. \A x \in DOMAIN fields' : fields'[x] \in States
  BY DEF New, States
<1> QED BY <1>1, <1>2, StartPreserves DEF New

LEMMA BeginPreserves ==
  ASSUME IInv, NEW f \in Functions, Begin(f)
  PROVE  IInv'
BY StartPreserves DEF Begin, IInv, TypeOK

LEMMA LeavePreserves ==
  ASSUME IInv, Leave
  PROVE  IInv'
<1>1. CodeOK'
  BY SameCode DEF IInv
<1>2. /\ \A x \in DOMAIN fields' : fields'[x] \in States
      /\ object' \in DOMAIN Types \cup {"none"}
  <2>1. CASE LastCall(outcome)
    BY <2>1, Nothing DEF Leave
  <2>2. CASE ~LastCall(outcome)
    BY <2>2 DEF Leave, IInv, TypeOK
  <2> QED BY <2>1, <2>2
<1>3. \A x \in DOMAIN locals' : locals'[x] \in States
  BY Nothing DEF Leave, Idle
<1>4. TypeOK'
  BY <1>2, <1>3 DEF TypeOK, Leave, Idle
<1> QED BY <1>1, <1>4 DEF IInv, Leave, Idle

-----------------------------------------------------------------------------
(* The theorems.                                                           *)

(* A function whose text satisfies CodeOK is at one of its own steps until *)
(* it returns, whatever fails and whichever branch it takes, and is        *)
(* without the GIL only in the part of its text that                       *)
(* Py_BEGIN_ALLOW_THREADS opens.                                           *)
THEOREM Invariance ==
  ASSUME CodeOK
  PROVE  Spec => []IInv
<1>1. Init => IInv
  BY Nothing DEF Init, IInv, TypeOK
<1>2. IInv /\ [Next]_vars => IInv'
  <2> SUFFICES ASSUME IInv, [Next]_vars PROVE IInv'
    OBVIOUS
  <2>1. CASE Next
    BY <2>1, NewPreserves, BeginPreserves, CallStepPreserves, LeavePreserves
       DEF Next
  <2>2. CASE UNCHANGED vars
    <3>1. CodeOK'
      BY SameCode DEF IInv
    <3> QED BY <2>2, <3>1 DEF vars, callVars, IInv, TypeOK, Functions
  <2> QED BY <2>1, <2>2
<1> QED BY <1>1, <1>2, PTL DEF Spec

(* Every step the bindings take between Py_BEGIN_ALLOW_THREADS and         *)
(* Py_END_ALLOW_THREADS is control, on every failure path: no Python       *)
(* object is made, released or looked at there, no exception is set, and   *)
(* the GIL is held when the function returns.                              *)
THEOREM GilAlwaysHeld ==
  ASSUME CodeOK
  PROVE  Spec => []GilHeld
<1>1. IInv => GilHeld
  <2> SUFFICES ASSUME IInv, ~gil
               PROVE  /\ outcome = "running"
                      /\ Now("branch") \/ Now("block") \/ Now("jump")
    BY DEF GilHeld
  <2>1. outcome = "running" /\ at \in WithoutGil(steps)
    BY DEF IInv
  <2>2. fn # "none"
    BY <2>1 DEF IInv
  <2>3. at \in DOMAIN steps /\ DOMAIN steps = 1 .. Len(steps)
    BY <2>2, Running DEF Closed
  <2>4. steps[at].kind \in {"branch", "jump", "block"}
    BY <2>1, <2>2, Running DEF Bracketed, Hops
  <2>5. at <= Len(steps)
    BY <2>3
  <2> QED BY <2>1, <2>4, <2>5 DEF Now
<1> QED BY <1>1, Invariance, PTL

=============================================================================
