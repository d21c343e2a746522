------------------------- MODULE NssContextsProofs -------------------------
(***************************************************************************)
(* Proofs about NssContexts, for any threads, managers and nesting.        *)
(***************************************************************************)
EXTENDS NssContexts, TLAPS

(* Appending to a sequence adds one element to its range.                  *)
LEMMA AppendRange ==
  ASSUME NEW S, NEW s \in Seq(S), NEW x \in S, NEW a, a = Append(s, x)
  PROVE  /\ a \in Seq(S)
         /\ {a[i] : i \in DOMAIN a} = {s[i] : i \in DOMAIN s} \cup {x}
<1>1. /\ a \in Seq(S)
      /\ DOMAIN a = 1 .. Len(s) + 1
      /\ \A i \in 1 .. Len(s) : a[i] = s[i]
      /\ a[Len(s) + 1] = x
  OBVIOUS
<1>2. Len(s) \in Nat /\ DOMAIN s = 1 .. Len(s)
  OBVIOUS
<1>3. 1 .. Len(s) + 1 = 1 .. Len(s) \cup {Len(s) + 1}
  BY <1>2
<1>4. {a[i] : i \in DOMAIN a} = {a[i] : i \in 1 .. Len(s)} \cup {x}
  BY <1>1, <1>2, <1>3
<1> QED
  BY <1>1, <1>2, <1>4

(* Dropping the last element takes nothing else out of the range.          *)
LEMMA FrontRange ==
  ASSUME NEW S, NEW s \in Seq(S), s # <<>>
  PROVE  LET f == SubSeq(s, 1, Len(s) - 1) IN
         /\ f \in Seq(S)
         /\ s[Len(s)] \in S
         /\ {s[i] : i \in DOMAIN s}
              = {f[i] : i \in DOMAIN f} \cup {s[Len(s)]}
         /\ Len(s) = 1 => f = <<>>
<1> DEFINE f == SubSeq(s, 1, Len(s) - 1)
<1>1. Len(s) \in Nat \ {0} /\ DOMAIN s = 1 .. Len(s)
  OBVIOUS
<1>2. /\ f \in Seq(S)
      /\ Len(f) = Len(s) - 1
      /\ DOMAIN f = 1 .. Len(s) - 1
      /\ \A i \in 1 .. Len(s) - 1 : f[i] = s[i]
  BY <1>1
<1>3. 1 .. Len(s) = 1 .. Len(s) - 1 \cup {Len(s)}
  BY <1>1
<1>4. Len(s) = 1 => f = <<>>
  BY <1>1, <1>2
<1>5. {f[i] : i \in DOMAIN f} = {s[i] : i \in 1 .. Len(s) - 1}
  BY <1>2
<1> HIDE DEF f
<1>6. {s[i] : i \in DOMAIN s} = {f[i] : i \in DOMAIN f} \cup {s[Len(s)]}
  BY <1>1, <1>3, <1>5
<1>7. s[Len(s)] \in S
  BY <1>1
<1> QED
  BY <1>2, <1>4, <1>6, <1>7 DEF f

-----------------------------------------------------------------------------
(* What the NSS calls do to the state of NSS.                              *)

LEMMA NssSteps ==
  ASSUME NssTypeOK
  PROVE  /\ NSS_Initialize(TRUE) => NssTypeOK' /\ nssIsInitted'
         /\ NSS_Initialize(FALSE) => NssTypeOK' /\ ~nssIsInitted /\ ~nssIsInitted'
         /\ UNCHANGED nssVars => NssTypeOK' /\ nssIsInitted' = nssIsInitted
         /\ EndNssShutdown => NssTypeOK' /\ ~nssIsInitted'
<1>1. NSS_Initialize(TRUE) => NssTypeOK' /\ nssIsInitted'
  BY DEF NSS_Initialize, NssTypeOK
<1>2. NSS_Initialize(FALSE) => NssTypeOK' /\ ~nssIsInitted /\ ~nssIsInitted'
  BY DEF NSS_Initialize, NssTypeOK
<1>3. UNCHANGED nssVars => NssTypeOK' /\ nssIsInitted' = nssIsInitted
  BY DEF nssVars, NssTypeOK
<1>4. EndNssShutdown => NssTypeOK' /\ ~nssIsInitted'
  BY DEF EndNssShutdown, NssTypeOK, Owners
<1> QED
  BY <1>1, <1>2, <1>3, <1>4

(* The managers of a thread are managers.                                  *)
LEMMA OpenType ==
  ASSUME TypeOK, NEW t \in Threads
  PROVE  /\ Open(t) \subseteq Managers
         /\ blocks[t] = <<>> <=> Open(t) = {}
<1>1. blocks[t] \in Seq(Managers)
  BY DEF TypeOK
<1>2. \A i \in DOMAIN blocks[t] : blocks[t][i] \in Managers
  BY <1>1
<1>3. blocks[t] # <<>> => 1 \in DOMAIN blocks[t]
  BY <1>1
<1>4. blocks[t] = <<>> => DOMAIN blocks[t] = {}
  OBVIOUS
<1> QED
  BY <1>2, <1>3, <1>4 DEF Open

(* A step of one thread that leaves the blocks alone.                      *)
LEMMA SameBlocks ==
  ASSUME UNCHANGED blocks, NEW t
  PROVE  Open(t)' = Open(t)
BY DEF Open

(* What leaving a block does to the managers of the thread that leaves.    *)
LEMMA ExitOpens ==
  ASSUME TypeOK, NEW t \in Threads, Exit(t)
  PROVE  /\ blocks' \in [Threads -> Seq(Managers)]
         /\ Innermost(t) \in Managers
         /\ Open(t) = Open(t)' \cup {Innermost(t)}
         /\ \A u \in Threads \ {t} : Open(u)' = Open(u) /\ blocks'[u] = blocks[u]
         /\ Len(blocks[t]) = 1 => blocks'[t] = <<>>
<1> DEFINE s == blocks[t]
           f == SubSeq(s, 1, Len(s) - 1)
<1>1. s \in Seq(Managers) /\ s # <<>>
  BY DEF TypeOK, Exit
<1>2. /\ f \in Seq(Managers)
      /\ s[Len(s)] \in Managers
      /\ {s[i] : i \in DOMAIN s} = {f[i] : i \in DOMAIN f} \cup {s[Len(s)]}
      /\ Len(s) = 1 => f = <<>>
  BY <1>1, FrontRange
<1>3. blocks' = [blocks EXCEPT ![t] = f] /\ blocks \in [Threads -> Seq(Managers)]
  BY DEF Exit, TypeOK
<1> HIDE DEF f
<1>4. blocks' \in [Threads -> Seq(Managers)] /\ blocks'[t] = f
  BY <1>2, <1>3
<1>5. \A u \in Threads \ {t} : blocks'[u] = blocks[u]
  BY <1>3
<1>6. \A u \in Threads \ {t} : Open(u)' = Open(u)
  BY <1>5 DEF Open
<1>7. Open(t) = {s[i] : i \in DOMAIN s} /\ Innermost(t) = s[Len(s)]
  BY DEF Open, Innermost
<1>8. Open(t)' = {f[i] : i \in DOMAIN f}
  BY <1>4 DEF Open
<1>9. Open(t) = Open(t)' \cup {Innermost(t)}
  BY <1>2, <1>7, <1>8
<1> QED
  BY <1>2, <1>4, <1>5, <1>6, <1>7, <1>9

(* What entering a block does to them.                                     *)
LEMMA EnteredOpens ==
  ASSUME TypeOK, NEW t \in Threads, Entered(t), manager[t] \in Managers
  PROVE  /\ blocks' \in [Threads -> Seq(Managers)]
         /\ Open(t)' = Open(t) \cup {manager[t]}
         /\ \A u \in Threads \ {t} : Open(u)' = Open(u) /\ blocks'[u] = blocks[u]
         /\ blocks[t] = <<>> => Len(blocks'[t]) = 1
<1> DEFINE s == blocks[t]
           a == Append(s, manager[t])
<1>1. s \in Seq(Managers)
  BY DEF TypeOK
<1>2. /\ a \in Seq(Managers)
      /\ {a[i] : i \in DOMAIN a} = {s[i] : i \in DOMAIN s} \cup {manager[t]}
  <2>1. a = Append(s, manager[t])
    OBVIOUS
  <2> HIDE DEF s, a
  <2> QED
    BY <1>1, <2>1, AppendRange
<1>3. s = <<>> => Len(a) = 1
  BY <1>1
<1>4. blocks' = [blocks EXCEPT ![t] = a] /\ blocks \in [Threads -> Seq(Managers)]
  BY DEF Entered, TypeOK
<1> HIDE DEF a
<1>5. blocks' \in [Threads -> Seq(Managers)] /\ blocks'[t] = a
  BY <1>2, <1>4
<1>6. \A u \in Threads \ {t} : blocks'[u] = blocks[u]
  BY <1>4
<1>7. \A u \in Threads \ {t} : Open(u)' = Open(u)
  BY <1>6 DEF Open
<1>8. Open(t)' = {a[i] : i \in DOMAIN a}
  BY <1>5 DEF Open
<1>9. Open(t)' = Open(t) \cup {manager[t]}
  BY <1>2, <1>8 DEF Open
<1> QED
  BY <1>3, <1>5, <1>6, <1>7, <1>9

-----------------------------------------------------------------------------
(* One step of thread t: nothing of the other threads changes.             *)
StepOf(t) ==
  /\ pc' = [pc EXCEPT ![t] = pc'[t]]
  /\ manager' = [manager EXCEPT ![t] = manager'[t]]
  /\ pc'[t] \in Places
  /\ manager'[t] \in Managers \cup {NoManager}
  /\ manager'[t] = NoManager <=> pc'[t] = "python"

(* The actions, and where they take the thread.                            *)
LEMMA Shapes ==
  ASSUME IInv, NEW t \in Threads
  PROVE  /\ \A m \in Managers : Enter(t, m) => StepOf(t) /\ pc'[t] = "init"
         /\ Initialize(t) => StepOf(t) /\ pc'[t] = "entered"
         /\ EnterFails(t) => StepOf(t) /\ pc'[t] = "python"
         /\ Entered(t) => StepOf(t) /\ pc'[t] = "python"
         /\ Shutdown(t) => StepOf(t) /\ pc'[t] \in {"closed", "python"}
         /\ ShutdownBusy(t) => StepOf(t) /\ pc'[t] = "python"
         /\ Closed(t) => StepOf(t) /\ pc'[t] = "python"
<1> USE NobodyAssumption, ContextAssumption DEF IInv, TypeOK, Private, StepOf,
      Places
<1>1. ASSUME NEW m \in Managers, Enter(t, m)
      PROVE  StepOf(t) /\ pc'[t] = "init"
  BY <1>1 DEF Enter
<1>2. Initialize(t) => StepOf(t) /\ pc'[t] = "entered"
  BY DEF Initialize, Goto
<1>3. EnterFails(t) => StepOf(t) /\ pc'[t] = "python"
  BY DEF EnterFails, Return
<1>4. Entered(t) => StepOf(t) /\ pc'[t] = "python"
  BY DEF Entered, Return
<1>5. Shutdown(t) => StepOf(t) /\ pc'[t] \in {"closed", "python"}
  BY DEF Shutdown, Goto, Return
<1>6. ShutdownBusy(t) => StepOf(t) /\ pc'[t] = "python"
  BY DEF ShutdownBusy, Return
<1>7. Closed(t) => StepOf(t) /\ pc'[t] = "python"
  BY DEF Closed, Return
<1> QED
  BY <1>1, <1>2, <1>3, <1>4, <1>5, <1>6, <1>7

(* The part of Private about one thread follows from the shape of a step.  *)
LEMMA StepTypes ==
  ASSUME IInv, NEW t \in Threads, StepOf(t)
  PROVE  /\ pc' \in [Threads -> Places]
         /\ manager' \in [Threads -> Managers \cup {NoManager}]
         /\ \A u \in Threads : manager'[u] = NoManager <=> pc'[u] = "python"
         /\ \A u \in Threads \ {t} : pc'[u] = pc[u] /\ manager'[u] = manager[u]
BY DEF IInv, TypeOK, Private, StepOf

-----------------------------------------------------------------------------
(* The invariant holds at the start.                                       *)
LEMMA InitIInv == Init => IInv
<1> SUFFICES ASSUME Init PROVE IInv
  OBVIOUS
<1> USE DEF Init
<1>1. TypeOK
  <2>1. NssTypeOK
    BY DEF NssStart, NssTypeOK, Owners
  <2>2. <<>> \in Seq(Managers)
    OBVIOUS
  <2> QED
    BY <2>1, <2>2 DEF TypeOK, Places
<1>2. \A t \in Threads : Open(t) = {} /\ manager[t] = NoManager /\ Idle(t)
  <2> SUFFICES ASSUME NEW t \in Threads
               PROVE  Open(t) = {} /\ manager[t] = NoManager /\ Idle(t)
    OBVIOUS
  <2>1. blocks[t] = <<>>
    OBVIOUS
  <2>2. Open(t) = {}
    BY <1>1, <2>1, OpenType
  <2> QED
    BY <2>1, <2>2 DEF Idle
<1>3. Private
  BY <1>2 DEF Private, Uses
<1>4. Alone
  BY <1>2 DEF Alone
<1>5. Owed
  BY DEF Owed, NssStart
<1> QED
  BY <1>1, <1>3, <1>4, <1>5 DEF IInv

(* Types are kept.                                                         *)
LEMMA NextTypes ==
  ASSUME IInv, [Next]_vars
  PROVE  TypeOK'
<1> USE DEF IInv, TypeOK
<1>1. ASSUME NEW t \in Threads, NEW m \in Managers, Enter(t, m)
      PROVE  TypeOK'
  <2>1. NssTypeOK'
    BY <1>1, NssSteps DEF Enter
  <2>2. password' \in [Threads -> WithCallback \cup {NoManager}]
    BY <1>1 DEF Enter
  <2>3. overlapped' \in BOOLEAN /\ shared' \in BOOLEAN /\ cut' \in BOOLEAN
    BY <1>1, Zenon DEF Enter
  <2> QED
    BY <1>1, <2>1, <2>2, <2>3, Shapes, StepTypes DEF Enter
<1>2. ASSUME NEW t \in Threads, Initialize(t)
      PROVE  TypeOK'
  <2>1. NssTypeOK'
    BY <1>2, NssSteps DEF Initialize
  <2> QED
    BY <1>2, <2>1, Shapes, StepTypes DEF Initialize, history, Goto
<1>3. ASSUME NEW t \in Threads, EnterFails(t)
      PROVE  TypeOK'
  <2>1. NssTypeOK'
    BY <1>3, NssSteps DEF EnterFails
  <2> QED
    BY <1>3, <2>1, Shapes, StepTypes DEF EnterFails, history
<1>4. ASSUME NEW t \in Threads, Entered(t)
      PROVE  TypeOK'
  <2>1. NssTypeOK'
    BY <1>4, NssSteps DEF Entered
  <2>2. manager[t] \in Managers
    BY <1>4 DEF Private, Entered
  <2>3. blocks' \in [Threads -> Seq(Managers)]
    BY <1>4, <2>2, EnteredOpens
  <2> QED
    BY <1>4, <2>1, <2>3, Shapes, StepTypes DEF Entered, history
<1>5. ASSUME NEW t \in Threads, Exit(t)
      PROVE  TypeOK'
  <2>1. NssTypeOK'
    BY <1>5, NssSteps DEF Exit
  <2>2. blocks' \in [Threads -> Seq(Managers)] /\ Innermost(t) \in Managers
    BY <1>5, ExitOpens
  <2>3. /\ pc' \in [Threads -> Places]
        /\ manager' \in [Threads -> Managers \cup {NoManager}]
    BY <1>5, <2>2 DEF Exit, Places
  <2> QED
    BY <1>5, <2>1, <2>2, <2>3 DEF Exit, history
<1>6. ASSUME NEW t \in Threads, Shutdown(t)
      PROVE  TypeOK'
  <2>1. NssTypeOK'
    BY <1>6, NssSteps DEF Shutdown
  <2>2. UNCHANGED blocks
    BY <1>6 DEF Shutdown, Goto
  <2> QED
    BY <1>6, <2>1, <2>2, Shapes, StepTypes DEF Shutdown, history
<1>7. ASSUME NEW t \in Threads, ShutdownBusy(t)
      PROVE  TypeOK'
  <2>1. NssTypeOK'
    BY <1>7, NssSteps DEF ShutdownBusy
  <2> QED
    BY <1>7, <2>1, Shapes, StepTypes DEF ShutdownBusy, history
<1>8. ASSUME NEW t \in Threads, Closed(t)
      PROVE  TypeOK'
  <2>1. NssTypeOK'
    BY <1>8, NssSteps DEF Closed
  <2> QED
    BY <1>8, <2>1, Shapes, StepTypes DEF Closed, history
<1>9. CASE Interrupt
  <2>1. NssTypeOK'
    BY <1>9, NssSteps DEF Interrupt
  <2>2. /\ pc' \in [Threads -> Places]
        /\ manager' \in [Threads -> Managers \cup {NoManager}]
    BY <1>9 DEF Interrupt, Return, Places
  <2>3. cut' \in BOOLEAN
    BY <1>9, Zenon DEF Interrupt
  <2> QED
    BY <1>9, <2>1, <2>2, <2>3 DEF Interrupt
<1>10. CASE UNCHANGED vars
  <2>1. NssTypeOK'
    BY <1>10, NssSteps DEF vars
  <2> QED
    BY <1>10, <2>1 DEF vars, blockVars, history
<1> QED
  BY <1>1, <1>2, <1>3, <1>4, <1>5, <1>6, <1>7, <1>8, <1>9, <1>10 DEF Next

-----------------------------------------------------------------------------
(* Managers stay private.                                                  *)

(* A step that gives no thread a manager it did not use before.            *)
Shrinks ==
  /\ shared' = shared
  /\ \A t \in Threads : Uses(t)' \subseteq Uses(t) \cup {NoManager}

LEMMA NextShrinks ==
  ASSUME IInv, NEW t \in Threads,
         \/ Initialize(t) \/ EnterFails(t) \/ Entered(t) \/ Exit(t)
         \/ Shutdown(t) \/ ShutdownBusy(t) \/ Closed(t)
         \/ (t = MainThread /\ Interrupt)
  PROVE  Shrinks
<1> USE DEF IInv, Uses
<1>1. shared' = shared
  BY DEF Initialize, EnterFails, Entered, Exit, Shutdown, ShutdownBusy, Closed,
         Interrupt, history
<1>2. manager \in [Threads -> Managers \cup {NoManager}]
  BY DEF TypeOK
<1>3. ASSUME UNCHANGED blocks, manager' = manager \/ Return(t)
      PROVE  Shrinks
  <2>1. \A u \in Threads : Open(u)' = Open(u)
    BY <1>3, SameBlocks
  <2>2. \A u \in Threads : manager'[u] \in {manager[u], NoManager}
    BY <1>2, <1>3 DEF Return
  <2> QED
    BY <1>1, <2>1, <2>2 DEF Shrinks
<1>4. CASE Initialize(t) \/ EnterFails(t) \/ Shutdown(t) \/ ShutdownBusy(t)
           \/ Closed(t) \/ (t = MainThread /\ Interrupt)
  BY <1>3, <1>4 DEF Initialize, EnterFails, Shutdown, ShutdownBusy, Closed,
                    Interrupt, Goto
<1>5. CASE Entered(t)
  <2>1. manager[t] \in Managers
    BY <1>2, <1>5 DEF Private, Entered
  <2>2. /\ Open(t)' = Open(t) \cup {manager[t]}
        /\ \A u \in Threads \ {t} : Open(u)' = Open(u)
    BY <1>5, <2>1, EnteredOpens
  <2>3. \A u \in Threads : manager'[u] \in {manager[u], NoManager}
    BY <1>2, <1>5 DEF Entered, Return
  <2> QED
    BY <1>1, <2>2, <2>3 DEF Shrinks
<1>6. CASE Exit(t)
  <2>1. /\ Open(t) = Open(t)' \cup {Innermost(t)}
        /\ \A u \in Threads \ {t} : Open(u)' = Open(u)
    BY <1>6, ExitOpens
  <2>2. \A u \in Threads \ {t} : manager'[u] = manager[u]
    BY <1>2, <1>6 DEF Exit
  <2>3. manager'[t] \in {manager[t], Innermost(t)}
    BY <1>2, <1>6 DEF Exit
  <2> QED
    BY <1>1, <2>1, <2>2, <2>3 DEF Shrinks
<1> QED
  BY <1>4, <1>5, <1>6

LEMMA NextPrivate ==
  ASSUME IInv, [Next]_vars
  PROVE  Private'
<1> USE DEF IInv
<1>1. TypeOK'
  BY NextTypes
<1>2. \A t \in Threads : manager'[t] = NoManager <=> pc'[t] = "python"
  <2>1. ASSUME NEW t \in Threads, Exit(t), NEW u \in Threads
        PROVE  manager'[u] = NoManager <=> pc'[u] = "python"
    <3>1. Innermost(t) \in Managers
      BY <2>1, ExitOpens
    <3> QED
      BY <2>1, <3>1, ContextAssumption DEF Exit, Private, TypeOK
  <2>2. CASE Interrupt
    BY <2>2, ContextAssumption DEF Interrupt, Return, Private, TypeOK
  <2>3. CASE UNCHANGED vars
    BY <2>3 DEF vars, blockVars, Private
  <2>4. ASSUME NEW t \in Threads, StepOf(t)
        PROVE  \A u \in Threads : manager'[u] = NoManager <=> pc'[u] = "python"
    BY <2>4, StepTypes
  <2> QED
    BY <2>1, <2>2, <2>3, <2>4, Shapes DEF Next
<1>3. ASSUME Shrinks, ~shared', NEW t \in Threads, NEW u \in Threads, t # u
      PROVE  Uses(t)' \cap Uses(u)' \subseteq {NoManager}
  BY <1>3 DEF Shrinks, Private
<1>4. ASSUME ~shared', NEW t \in Threads, NEW u \in Threads, t # u
      PROVE  Uses(t)' \cap Uses(u)' \subseteq {NoManager}
  <2>1. ASSUME NEW v \in Threads, NEW m \in Managers, Enter(v, m)
        PROVE  Uses(t)' \cap Uses(u)' \subseteq {NoManager}
    <3>1. \A w \in Threads : Open(w)' = Open(w)
      BY <2>1, SameBlocks DEF Enter
    <3>2. ~shared /\ \A w \in Threads \ {v} : m \notin Uses(w)
      BY <1>4, <2>1 DEF Enter
    <3>3. manager' = [manager EXCEPT ![v] = m]
      BY <2>1 DEF Enter
    <3>4. Uses(v)' \subseteq Uses(v) \cup {m}
      BY <3>1, <3>3 DEF Uses, TypeOK
    <3>5. \A w \in Threads \ {v} : Uses(w)' = Uses(w)
      BY <3>1, <3>3 DEF Uses, TypeOK
    <3>6. Uses(t) \cap Uses(u) \subseteq {NoManager}
      BY <1>4, <3>2 DEF Private
    <3> QED
      BY <1>4, <3>2, <3>4, <3>5, <3>6
  <2>2. CASE UNCHANGED vars
    <3>1. \A w \in Threads : Uses(w)' = Uses(w)
      BY <2>2, SameBlocks DEF Uses, vars, blockVars
    <3> QED
      BY <1>4, <2>2, <3>1 DEF Private, vars, history
  <2>3. Next => \/ \E v \in Threads, m \in Managers : Enter(v, m)
                \/ Shrinks
    BY NextShrinks, ContextAssumption DEF Next
  <2> QED
    BY <1>3, <1>4, <2>1, <2>2, <2>3
<1> QED
  BY <1>2, <1>4 DEF Private

-----------------------------------------------------------------------------
(* A block that overlaps no other keeps NSS up.                            *)

(* What a step of t leaves: the others idle, and t as Alone wants it.      *)
LEMMA AloneStep ==
  ASSUME NEW t \in Threads,
         \A u \in Threads \ {t} : Idle(u)',
         (blocks[t])' # <<>> => (pc[t])' = "python" /\ (Len(blocks[t]))' = 1,
         (blocks[t])' # <<>> \/ (pc[t])' = "entered" => nssIsInitted'
  PROVE  Alone'
BY DEF Alone, Idle

LEMMA NextAlone ==
  ASSUME IInv, [Next]_vars
  PROVE  Alone'
<1> USE DEF IInv
<1>1. TypeOK'
  BY NextTypes
<1>2. ASSUME NEW t \in Threads, ~overlapped, ~Idle(t)
      PROVE  /\ \A u \in Threads \ {t} : Idle(u)
             /\ blocks[t] # <<>> => pc[t] = "python" /\ Len(blocks[t]) = 1
             /\ blocks[t] # <<>> \/ pc[t] = "entered" => nssIsInitted
  BY <1>2 DEF Alone
<1> SUFFICES ASSUME ~overlapped'
             PROVE  Alone'
  BY DEF Alone
<1>3. ASSUME NEW t \in Threads, NEW m \in Managers, Enter(t, m)
      PROVE  Alone'
  <2>1. \A u \in Threads : Idle(u)
    BY <1>3 DEF Enter, Quiet
  <2>2. \A u \in Threads \ {t} : Idle(u)'
    BY <1>3, <2>1, Shapes, StepTypes DEF Enter, Idle
  <2>3. (blocks[t])' = <<>> /\ (pc[t])' = "init"
    BY <1>3, <2>1, Shapes DEF Enter, Idle
  <2> QED
    BY <2>2, <2>3, AloneStep
<1>4. ASSUME NEW t \in Threads, Initialize(t)
      PROVE  Alone'
  <2>1. ~overlapped /\ ~Idle(t) /\ pc[t] = "init"
    BY <1>4 DEF Initialize, history, Idle
  <2>2. blocks' = blocks /\ blocks[t] = <<>>
    BY <1>2, <1>4, <2>1 DEF Initialize, Goto
  <2>3. \A u \in Threads \ {t} : Idle(u)'
    BY <1>2, <1>4, <2>1, <2>2, Shapes, StepTypes DEF Idle
  <2>4. nssIsInitted'
    BY <1>4, NssSteps DEF Initialize, TypeOK
  <2> QED
    BY <2>2, <2>3, <2>4, AloneStep
<1>5. ASSUME NEW t \in Threads, EnterFails(t)
      PROVE  Alone'
  <2>1. ~overlapped /\ ~Idle(t) /\ pc[t] = "init"
    BY <1>5 DEF EnterFails, history, Idle
  <2>2. blocks' = blocks /\ blocks[t] = <<>>
    BY <1>2, <1>5, <2>1 DEF EnterFails
  <2>3. \A u \in Threads \ {t} : Idle(u)'
    BY <1>2, <1>5, <2>1, <2>2, Shapes, StepTypes DEF Idle
  <2>4. (pc[t])' = "python"
    BY <1>5, Shapes
  <2> QED
    BY <2>2, <2>3, <2>4, AloneStep
<1>6. ASSUME NEW t \in Threads, Entered(t)
      PROVE  Alone'
  <2>1. ~overlapped /\ ~Idle(t) /\ pc[t] = "entered" /\ manager[t] \in Managers
    BY <1>6 DEF Entered, history, Idle, Private, TypeOK
  <2>2. blocks[t] = <<>> /\ nssIsInitted
    BY <1>2, <2>1
  <2>3. (Len(blocks[t]))' = 1 /\ (pc[t])' = "python"
    BY <1>6, <2>1, <2>2, EnteredOpens, Shapes
  <2>4. \A u \in Threads \ {t} : Idle(u)'
    BY <1>2, <1>6, <2>1, EnteredOpens, Shapes, StepTypes DEF Idle
  <2>5. nssIsInitted'
    BY <1>6, <2>2 DEF Entered, nssVars
  <2> QED
    BY <2>3, <2>4, <2>5, AloneStep
<1>7. ASSUME NEW t \in Threads, Exit(t)
      PROVE  Alone'
  <2>1. ~overlapped /\ ~Idle(t) /\ blocks[t] # <<>>
    BY <1>7 DEF Exit, history, Idle
  <2>2. Len(blocks[t]) = 1
    BY <1>2, <2>1
  <2>3. (blocks[t])' = <<>>
    BY <1>7, <2>2, ExitOpens
  <2>4. \A u \in Threads \ {t} : Idle(u)'
    BY <1>2, <1>7, <2>1, ExitOpens DEF Idle, Exit, TypeOK
  <2>5. (pc[t])' # "entered"
    BY <1>7 DEF Exit, TypeOK
  <2> QED
    BY <2>3, <2>4, <2>5, AloneStep
<1>8. ASSUME NEW t \in Threads, Shutdown(t) \/ ShutdownBusy(t) \/ Closed(t)
      PROVE  Alone'
  <2>1. ~overlapped /\ ~Idle(t) /\ pc[t] \in {"shutdown", "closed"}
    BY <1>8 DEF Shutdown, ShutdownBusy, Closed, history, Idle
  <2>2. blocks' = blocks /\ blocks[t] = <<>>
    BY <1>2, <1>8, <2>1 DEF Shutdown, ShutdownBusy, Closed, Goto
  <2>3. \A u \in Threads \ {t} : Idle(u)'
    BY <1>2, <1>8, <2>1, <2>2, Shapes, StepTypes DEF Idle
  <2>4. (pc[t])' # "entered"
    BY <1>8, Shapes
  <2> QED
    BY <2>2, <2>3, <2>4, AloneStep
<1>9. CASE Interrupt
  <2> DEFINE t == MainThread
  <2>1. t \in Threads /\ ~overlapped /\ ~Idle(t) /\ pc[t] # "python"
    BY <1>9, ContextAssumption DEF Interrupt, Idle
  <2>2. blocks' = blocks /\ blocks[t] = <<>>
    BY <1>2, <1>9, <2>1 DEF Interrupt
  <2>3. /\ \A u \in Threads \ {t} : (pc[u])' = pc[u]
        /\ (pc[t])' = "python"
    BY <1>9, <2>1 DEF Interrupt, Return, TypeOK
  <2>4. \A u \in Threads \ {t} : Idle(u)'
    BY <1>2, <2>1, <2>2, <2>3 DEF Idle
  <2> QED
    BY <2>1, <2>2, <2>3, <2>4, AloneStep
<1>10. CASE UNCHANGED vars
  BY <1>10 DEF vars, nssVars, blockVars, history, Alone, Idle
<1> QED
  BY <1>3, <1>4, <1>5, <1>6, <1>7, <1>8, <1>9, <1>10 DEF Next

-----------------------------------------------------------------------------
(* NSS is never up without somebody who owes its shutdown.                 *)

LEMMA NextOwed ==
  ASSUME IInv, [Next]_vars
  PROVE  Owed'
<1> USE DEF IInv
<1>1. SUFFICES ASSUME nssIsInitted', ~shared', ~cut'
               PROVE  \E u \in Threads : Owes(u)'
  BY DEF Owed
<1>2. ~cut
  BY <1>1 DEF Next, Enter, Initialize, EnterFails, Entered, Exit, Shutdown,
     ShutdownBusy, Closed, Interrupt, history, vars, TypeOK
<1>3. ~shared
  BY <1>1 DEF Next, Enter, Initialize, EnterFails, Entered, Exit,
     Shutdown, ShutdownBusy, Closed, Interrupt, history, vars, TypeOK
<1>4. nssIsInitted => \E u \in Threads : Owes(u)
  BY <1>2, <1>3 DEF Owed
<1>5. ASSUME NEW t \in Threads, NEW m \in Managers, Enter(t, m)
      PROVE  \E u \in Threads : Owes(u)'
  <2>1. nssIsInitted /\ UNCHANGED <<initialized, blocks>>
    BY <1>1, <1>5 DEF Enter, nssVars
  <2>2. PICK u \in Threads : Owes(u)
    BY <1>4, <2>1
  <2>3. Open(u)' = Open(u)
    BY <2>1, SameBlocks
  <2>4. pc[t] = "python" /\ (pc[t])' = "init"
    BY <1>5, Shapes DEF Enter
  <2>5. u # t => (pc[u])' = pc[u]
    BY <1>5, Shapes, StepTypes
  <2>6. Owes(u)'
    BY <2>1, <2>2, <2>3, <2>4, <2>5 DEF Owes
  <2> QED
    BY <2>6
<1>6. ASSUME NEW t \in Threads, Initialize(t)
      PROVE  \E u \in Threads : Owes(u)'
  BY <1>6, Shapes DEF Owes
<1>7. ASSUME NEW t \in Threads, EnterFails(t)
      PROVE  \E u \in Threads : Owes(u)'
  <2>1. nssIsInitted /\ UNCHANGED <<initialized, blocks>>
    BY <1>1, <1>7, NssSteps DEF EnterFails, TypeOK
  <2>2. PICK u \in Threads : Owes(u)
    BY <1>4, <2>1
  <2>3. Open(u)' = Open(u)
    BY <2>1, SameBlocks
  <2>4. pc[t] = "init" /\ (pc[t])' = "python"
    BY <1>7, Shapes DEF EnterFails
  <2>5. u # t => (pc[u])' = pc[u]
    BY <1>7, Shapes, StepTypes
  <2>6. Owes(u)'
    BY <2>1, <2>2, <2>3, <2>4, <2>5 DEF Owes
  <2> QED
    BY <2>6
<1>8. ASSUME NEW t \in Threads, Entered(t)
      PROVE  \E u \in Threads : Owes(u)'
  <2>1. manager[t] \in Managers
    BY <1>8 DEF Entered, Private, TypeOK
  <2>3. initialized'[manager[t]]
    BY <1>8, <2>1 DEF Entered, TypeOK
  <2>4. manager[t] \in Open(t)'
    BY <1>8, <2>1, EnteredOpens
  <2>5. (pc[t])' = "python"
    BY <1>8, Shapes
  <2>6. Owes(t)'
    BY <2>3, <2>4, <2>5 DEF Owes
  <2> QED
    BY <2>6
<1>9. ASSUME NEW t \in Threads, Exit(t)
       PROVE  \E u \in Threads : Owes(u)'
  <2>1. nssIsInitted /\ UNCHANGED initialized
    BY <1>1, <1>9 DEF Exit, nssVars
  <2>2. PICK u \in Threads : Owes(u)
    BY <1>4, <2>1
  <2>3. CASE initialized[Innermost(t)]
    <3>1. (pc[t])' = "shutdown"
      BY <1>9, <2>3 DEF Exit, TypeOK
    <3> QED
      BY <3>1 DEF Owes
  <2>4. CASE ~initialized[Innermost(t)]
    <3>1. pc' = pc
      BY <1>9, <2>4 DEF Exit
    <3>2. \A v \in Threads : \A m \in Open(v) :
            initialized[m] => m \in Open(v)'
      BY <1>9, <2>4, ExitOpens
    <3>3. Owes(u)'
      BY <2>1, <2>2, <3>1, <3>2 DEF Owes
    <3> QED
      BY <3>3
  <2> QED
    BY <2>3, <2>4
<1>10. ASSUME NEW t \in Threads, Shutdown(t) \/ ShutdownBusy(t)
       PROVE  FALSE
  BY <1>1, <1>10, NssSteps DEF Shutdown, ShutdownBusy, TypeOK
<1>11. ASSUME NEW t \in Threads, Closed(t)
       PROVE  \E u \in Threads : Owes(u)'
  <2>1. nssIsInitted /\ UNCHANGED blocks
    BY <1>1, <1>11 DEF Closed, nssVars
  <2>2. PICK u \in Threads : Owes(u)
    BY <1>4, <2>1
  <2>3. pc[t] = "closed"
    BY <1>11 DEF Closed
  <2>4. u # t
    BY <2>2, <2>3 DEF Owes
  <2>5. manager[t] \in Managers
    BY <2>3 DEF Private, TypeOK
  <2>6. manager[t] \notin Open(u)
    BY <1>3, <2>4, <2>5, ContextAssumption DEF Private, Uses
  <2>7. Open(u)' = Open(u)
    BY <2>1, SameBlocks
  <2>8. (pc[u])' = pc[u]
    BY <1>11, <2>4, Shapes, StepTypes
  <2>9. \A m \in Open(u) : initialized'[m] = initialized[m]
    BY <1>11, <2>6, OpenType DEF Closed, TypeOK
  <2>10. Owes(u)'
    BY <2>2, <2>7, <2>8, <2>9 DEF Owes
  <2> QED
    BY <2>10
<1>12. CASE Interrupt
  <2> DEFINE t == MainThread
  <2>1. nssIsInitted /\ UNCHANGED <<initialized, blocks>> /\ t \in Threads
    BY <1>1, <1>12, ContextAssumption DEF Interrupt, nssVars
  <2>2. pc[t] \notin {"entered", "shutdown"}
    BY <1>1, <1>12 DEF Interrupt, TypeOK
  <2>3. PICK u \in Threads : Owes(u)
    BY <1>4, <2>1
  <2>4. Open(u)' = Open(u)
    BY <2>1, SameBlocks
  <2>5. (pc[t])' = "python" /\ (u # t => (pc[u])' = pc[u])
    BY <1>12, <2>1 DEF Interrupt, Return, TypeOK
  <2>6. Owes(u)'
    BY <2>1, <2>2, <2>3, <2>4, <2>5 DEF Owes
  <2> QED
    BY <2>6
<1>13. CASE UNCHANGED vars
  <2>1. \A u \in Threads : Open(u)' = Open(u)
    BY <1>13, SameBlocks DEF vars, blockVars
  <2> QED
    BY <1>1, <1>4, <1>13, <2>1 DEF Owes, vars, nssVars, blockVars
<1> QED
  BY <1>5, <1>6, <1>7, <1>8, <1>9, <1>10, <1>11, <1>12, <1>13 DEF Next

-----------------------------------------------------------------------------

(* The invariant behind InsideUp and LeftDown holds in every reachable     *)
(* state.                                                                  *)
THEOREM ContextInvariant == Spec => []IInv
<1>1. Init => IInv
  BY InitIInv
<1>2. IInv /\ [Next]_vars => IInv'
  BY NextTypes, NextPrivate, NextAlone, NextOwed DEF IInv
<1> QED
  BY <1>1, <1>2, PTL DEF Spec

(* Inside a with-block that overlaps no other, NSS is initialised.         *)
THEOREM BlocksHaveNss == Spec => []InsideUp
<1>1. IInv => InsideUp
  BY DEF IInv, Alone, InsideUp, Idle
<1> QED
  BY <1>1, ContextInvariant, PTL

(* When every with-block has been left NSS is shut down, if no manager was *)
(* shared between threads and none was interrupted half way.               *)
THEOREM BlocksCleanUp == Spec => []LeftDown
<1>1. ASSUME IInv, Quiet, NEW t \in Threads
      PROVE  ~Owes(t)
  <2>1. pc[t] = "python" /\ Open(t) = {}
    BY <1>1, OpenType DEF Quiet, Idle, IInv
  <2> QED
    BY <2>1 DEF Owes
<1>2. IInv => LeftDown
  BY <1>1 DEF IInv, Owed, LeftDown
<1> QED
  BY <1>2, ContextInvariant, PTL

=============================================================================
