------------------------- MODULE NssLifetimeProofs -------------------------
(***************************************************************************)
(* The functions of NssLifecycle implement NssLifetime: every step of      *)
(* theirs is a step of NssLifetime or changes nothing of what it speaks    *)
(* of.  One lemma per action, from the invariant of NssLifecycleProofs.    *)
(***************************************************************************)
EXTENDS NssLifecycleProofs

USE NobodyAssumption, LifecycleAssumption

GivesUp == ContextClosers \cup {"shutdown"}
Mapped == <<Initialized, OpenContexts, Pending, nssInitLock, Requests>>
MappedStep == Lifetime!Next \/ UNCHANGED Mapped

RequestOf(t) == [kind |-> Kind(t), context |-> Closes(t)]

(* What a call asks for, or was answered, is seen in op, target, status    *)
(* and whether it is past NSS's entry.                                     *)
SameCall(u) ==
  /\ op'[u] = op[u] /\ target'[u] = target[u]
  /\ op[u] \in GivesUp =>
       status'[u] = status[u] /\ (pc'[u] = "entry" <=> pc[u] = "entry")

LEMMA SameRequest ==
  ASSUME NEW u, SameCall(u)
  PROVE  RequestOf(u)' = RequestOf(u)
<1>1. Closes(u)' = Closes(u)
  BY DEF SameCall, Closes
<1>2. Kind(u)' = Kind(u)
  BY DEF SameCall, Kind, GivesUp, ContextClosers
<1>3. QED BY <1>1, <1>2 DEF RequestOf

LEMMA SameRequests ==
  ASSUME \A u \in Threads : SameCall(u)
  PROVE  Requests' = Requests
<1>1. \A u \in Threads : RequestOf(u)' = RequestOf(u)
  BY SameRequest
<1>2. QED BY <1>1 DEF Requests, RequestOf

LEMMA OneRequest ==
  ASSUME NEW t \in Threads, \A u \in Threads \ {t} : SameCall(u)
  PROVE  Requests' = [Requests EXCEPT ![t] = RequestOf(t)']
<1>1. \A u \in Threads \ {t} : RequestOf(u)' = RequestOf(u)
  BY SameRequest
<1>2. QED BY <1>1 DEF Requests, RequestOf

LEMMA SameMapped ==
  ASSUME \A u \in Threads : SameCall(u), UNCHANGED nssVars
  PROVE  MappedStep
<1>1. Requests' = Requests
  BY SameRequests
<1>2. UNCHANGED <<Initialized, OpenContexts, Pending, nssInitLock>>
  BY DEF nssVars, Initialized, OpenContexts, Pending, LockFree, Listed,
         Registered
<1>3. QED BY <1>1, <1>2 DEF MappedStep, Mapped

-----------------------------------------------------------------------------
(* Steps that neither use NSS nor give it up.                              *)

LEMMA GilStep ==
  ASSUME IInv, NEW t \in Threads,
         AcquireGil(t) \/ SwitchThread(t) \/ ThreadExit(t)
  PROVE  MappedStep
<1>1. UNCHANGED nssVars
  BY DEF AcquireGil, SwitchThread, ThreadExit
<1>2. \A u \in Threads : SameCall(u)
  BY DEF AcquireGil, SwitchThread, ThreadExit, SameCall, callVars, Goto,
         IInv, TypeOK, CallShape, GivesUp, ContextClosers
<1>3. QED BY <1>1, <1>2, SameMapped

(* Calls that ask for nothing to be given up.                              *)
LEMMA UsingCall ==
  ASSUME IInv, NEW t \in Threads, NEW o \in Ops \ GivesUp, NEW place,
         Call(t, o, place), UNCHANGED <<self, target>>
  PROVE  MappedStep
<1>1. UNCHANGED nssVars
  BY DEF Call
<1>2. \A u \in Threads \ {t} : SameCall(u)
  BY DEF Call, SameCall, Goto, IInv, TypeOK
<1>3. RequestOf(t)' = RequestOf(t)
  BY DEF Call, RequestOf, Kind, Closes, IInv, TypeOK, CallShape, GivesUp,
         ContextClosers
<1>4. Requests' = Requests
  BY <1>2, <1>3, OneRequest DEF Requests, RequestOf
<1>5. UNCHANGED <<Initialized, OpenContexts, Pending, nssInitLock>>
  BY <1>1 DEF nssVars, Initialized, OpenContexts, Pending, LockFree, Listed,
              Registered
<1>6. QED BY <1>4, <1>5 DEF MappedStep, Mapped

(* A thread that is in no call has asked for nothing.                      *)
LEMMA Unasked ==
  ASSUME IInv, NEW t \in Threads, op[t] \notin GivesUp
  PROVE  Requests[t] = Lifetime!Nothing
BY DEF Requests, Kind, Closes, GivesUp, Lifetime!Nothing, Lifetime!Request

LEMMA ShutdownCall ==
  ASSUME IInv, NEW t \in Threads, nss_shutdown(t)
  PROVE  MappedStep
<1> USE DEF nss_shutdown, CallWithoutObject
<1>1. Requests[t] = Lifetime!Nothing
  BY Unasked DEF Call, IInv, CallShape, GivesUp, ContextClosers
<1>2. \A u \in Threads \ {t} : SameCall(u)
  BY DEF Call, SameCall, Goto, IInv, TypeOK
<1>3. RequestOf(t)' = Lifetime!Whole
  BY DEF Call, RequestOf, Kind, Closes, Goto, IInv, TypeOK, ContextClosers,
         Lifetime!Whole, Lifetime!Request
<1>4. Requests' = [Requests EXCEPT ![t] = Lifetime!Whole]
  BY <1>2, <1>3, OneRequest
<1>5. UNCHANGED <<Initialized, OpenContexts, Pending, nssInitLock>>
  BY DEF Call, nssVars, Initialized, OpenContexts, Pending, LockFree, Listed,
         Registered
<1>6. Lifetime!AskOnly(t, Lifetime!Whole)
  BY <1>1, <1>4, <1>5 DEF Lifetime!AskOnly, Lifetime!Ask
<1>7. QED BY <1>6 DEF MappedStep, Lifetime!Next, Lifetime!GiveUp

LEMMA CloseCall ==
  ASSUME IInv, NEW t \in Threads, NEW c \in Objects,
         NEW o \in ContextClosers \ {"ctx.undo"}, CallOnContext(t, o, c)
  PROVE  MappedStep
<1> DEFINE a == ctxAddr[c]
<1>0. a \in Addresses
  BY DEF CallOnContext, Reachable, Live, IInv, TypeOK
<1>1. Requests[t] = Lifetime!Nothing
  BY Unasked DEF CallOnContext, Call, IInv, CallShape, GivesUp, ContextClosers
<1>2. \A u \in Threads \ {t} : SameCall(u)
  BY DEF CallOnContext, Call, SameCall, Goto, IInv, TypeOK
<1>3. RequestOf(t)' = Lifetime!Request("close", a)
  BY DEF CallOnContext, Call, RequestOf, Kind, Closes, Goto, IInv, TypeOK,
         ContextClosers, Lifetime!Request
<1>4. Requests' = [Requests EXCEPT ![t] = Lifetime!Request("close", a)]
  BY <1>2, <1>3, OneRequest
<1>5. UNCHANGED <<Initialized, OpenContexts, Pending, nssInitLock>>
  BY DEF CallOnContext, Call, nssVars, Initialized, OpenContexts, Pending,
         LockFree, Listed, Registered
<1>6. Lifetime!AskOnly(t, Lifetime!Request("close", a))
  BY <1>1, <1>4, <1>5 DEF Lifetime!AskOnly, Lifetime!Ask
<1>7. QED BY <1>0, <1>6 DEF MappedStep, Lifetime!Next, Lifetime!GiveUp

(* Calls taken together.                                                   *)
LEMMA UserCallMapped ==
  ASSUME IInv, NEW t \in Threads, UserCall(t)
  PROVE  MappedStep
<1>1. ASSUME NEW o \in {"init", "initialize", "init_context"},
             CallWithoutObject(t, o)
      PROVE  MappedStep
  BY <1>1, UsingCall
  DEF CallWithoutObject, Ops, KeepsGil, DropsGil, GivesUp, ContextClosers
<1>2. ASSUME NEW p, nss_set_shutdown_callback(t, p)
      PROVE  MappedStep
  BY <1>2, UsingCall
  DEF nss_set_shutdown_callback, Ops, KeepsGil, DropsGil, GivesUp,
      ContextClosers
<1>3. ASSUME NEW c \in Objects,
             \/ nss_shutdown_context(t, c) \/ InitContext_shutdown(t, c)
             \/ InitContext_dealloc(t, c)
      PROVE  MappedStep
  BY <1>3, CloseCall
  DEF nss_shutdown_context, InitContext_shutdown, InitContext_dealloc,
      ContextClosers
<1>4. QED
  BY <1>1, <1>2, <1>3, ShutdownCall
  DEF UserCall, nss_init, nss_init_read_write, nss_init_nodb, nss_initialize,
      nss_init_context

-----------------------------------------------------------------------------
(* Steps that use NSS.                                                     *)

LEMMA InitMapped ==
  ASSUME IInv, NEW t \in Threads, InitStep(t)
  PROVE  MappedStep
<1>1. PICK ok \in BOOLEAN : NSS_Initialize(ok) /\ Answer(t, ok)
  BY DEF InitStep
<1>2. \A u \in Threads : SameCall(u)
  BY <1>1 DEF InitStep, Answer, Goto, SameCall, IInv, TypeOK, GivesUp,
              ContextClosers
<1>3. Requests' = Requests
  BY <1>2, SameRequests
<1>4. UNCHANGED <<OpenContexts, Pending, nssInitLock>>
  BY <1>1 DEF NSS_Initialize, OpenContexts, Pending, LockFree, Listed,
              Registered
<1>5. CASE ok
  <2>1. Lifetime!Initialize
    BY <1>1, <1>3, <1>4, <1>5
    DEF Lifetime!Initialize, Lifetime!Open, NSS_Initialize, Initialized,
        LockFree
  <2>2. QED BY <2>1 DEF MappedStep, Lifetime!Next
<1>6. CASE ~ok
  BY <1>1, <1>3, <1>4, <1>6
  DEF MappedStep, Mapped, NSS_Initialize, Initialized, IInv, TypeOK, NssTypeOK
<1>7. QED BY <1>5, <1>6

LEMMA InitContextFailsMapped ==
  ASSUME IInv, NEW t \in Threads, InitContextFails(t)
  PROVE  MappedStep
<1>1. \A u \in Threads : SameCall(u)
  BY DEF InitContextFails, Answer, Goto, SameCall, IInv, TypeOK, GivesUp,
         ContextClosers
<1>2. QED BY <1>1, SameMapped DEF InitContextFails

(* A new node of NSS's list is a context nobody had.                       *)
LEMMA NewContext ==
  ASSUME IInv, NEW a \in Addresses, NEW owner \in Objects \cup {Orphan},
         NSS_InitContext(a, owner)
  PROVE  /\ LockFree /\ a \notin OpenContexts
         /\ OpenContexts' = OpenContexts \cup {a}
         /\ UNCHANGED <<Initialized, Pending, nssInitLock>>
BY DEF NSS_InitContext, OpenContexts, Initialized, Pending, LockFree, Listed,
       Registered, IInv, TypeOK, NssTypeOK, Owners

LEMMA ContextMapped ==
  ASSUME IInv, NEW t \in Threads, NEW a \in Addresses, NEW c \in Objects,
         InitContext_new_from_NSSInitContext(t, a, c)
  PROVE  MappedStep
<1>1. \A u \in Threads : SameCall(u)
  BY DEF InitContext_new_from_NSSInitContext, Answer, Goto, SameCall, IInv,
         TypeOK, GivesUp, ContextClosers
<1>2. Requests' = Requests
  BY <1>1, SameRequests
<1>3. Lifetime!CreateContext(a)
  BY <1>2, NewContext
  DEF Lifetime!CreateContext, Lifetime!Open, LockFree,
      InitContext_new_from_NSSInitContext
<1>4. QED BY <1>3 DEF MappedStep, Lifetime!Next

LEMMA ContextInVainMapped ==
  ASSUME IInv, NEW t \in Threads, NEW a \in Addresses,
         InitContextObjectFails(t, a)
  PROVE  MappedStep
<1>1. \A u \in Threads \ {t} : SameCall(u)
  BY DEF InitContextObjectFails, SameCall, IInv, TypeOK
<1>2. RequestOf(t)' = Lifetime!Request("close", a)
  BY DEF InitContextObjectFails, RequestOf, Kind, Closes, IInv, TypeOK,
         ContextClosers, Lifetime!Request
<1>3. Requests' = [Requests EXCEPT ![t] = Lifetime!Request("close", a)]
  BY <1>1, <1>2, OneRequest
<1>4. Requests[t] = Lifetime!Nothing
  BY Unasked DEF InitContextObjectFails, GivesUp, ContextClosers
<1>5. Lifetime!CreateInVain(t, a)
  BY <1>3, <1>4, NewContext
  DEF Lifetime!CreateInVain, Lifetime!Ask, Lifetime!Open, LockFree,
      InitContextObjectFails
<1>6. QED BY <1>5 DEF MappedStep, Lifetime!Next, Lifetime!GiveUp

LEMMA UnregisterMapped ==
  ASSUME IInv, NEW t \in Threads, UnregisterStep(t)
  PROVE  MappedStep
<1> DEFINE old == cbArgs[t]
<1>1. \A u \in Threads : SameCall(u)
  BY DEF UnregisterStep, StoreCallback, Goto, SameCall, IInv, TypeOK,
         CallShape, GivesUp, ContextClosers
<1>2. Requests' = Requests
  BY <1>1, SameRequests
<1>3. CASE UNCHANGED nssVars
  BY <1>1, <1>3, SameMapped
<1>4. CASE NSS_UnregisterShutdown(old) /\ old # NoTuple
  <2>1. old \in Tuples
    BY <1>4 DEF IInv, TypeOK
  <2>2. UNCHANGED <<Initialized, OpenContexts, nssInitLock>> /\ LockFree
    BY <1>4 DEF NSS_UnregisterShutdown, Initialized, OpenContexts, LockFree,
                Listed
  <2>3. CASE NSS_IsInitialized
    <3>1. Pending' = Pending \ {old}
      BY <1>4, <2>1, <2>3
      DEF NSS_UnregisterShutdown, Pending, Registered, IInv, TypeOK, NssTypeOK
    <3>2. Lifetime!CancelCallback(old)
      BY <1>2, <2>2, <2>3, <3>1
      DEF Lifetime!CancelCallback, Lifetime!Open, Lifetime!Up, LockFree,
          NSS_IsInitialized, Initialized, OpenContexts
    <3>3. QED BY <2>1, <3>2 DEF MappedStep, Lifetime!Next
  <2>4. CASE ~NSS_IsInitialized
    <3>1. Pending' = Pending
      BY <1>4, <2>4 DEF NSS_UnregisterShutdown, Pending, Registered
    <3>2. QED BY <1>2, <2>2, <3>1 DEF MappedStep, Mapped
  <2>5. QED BY <2>3, <2>4
<1>5. QED
  BY <1>3, <1>4 DEF UnregisterStep, get_thread_local

LEMMA RegisterMapped ==
  ASSUME IInv, NEW t \in Threads, RegisterStep(t)
  PROVE  MappedStep
<1> DEFINE p == newArgs[t]
<1>1. \A u \in Threads : SameCall(u)
  BY DEF RegisterStep, callVars, Goto, SameCall, IInv, TypeOK, CallShape,
         GivesUp, ContextClosers
<1>2. Requests' = Requests
  BY <1>1, SameRequests
<1>3. p \in Tuples
  BY DEF RegisterStep, IInv, CallShape
<1>4. UNCHANGED <<Initialized, OpenContexts, nssInitLock>> /\ LockFree
  BY DEF RegisterStep, NSS_RegisterShutdown, Initialized, OpenContexts,
         LockFree, Listed
<1>5. CASE NSS_IsInitialized
  <2>1. Pending' = Pending \cup {p}
    BY <1>3, <1>5
    DEF RegisterStep, NSS_RegisterShutdown, Pending, Registered, IInv, TypeOK,
        NssTypeOK
  <2>2. Lifetime!SetCallback(p)
    BY <1>2, <1>4, <1>5, <2>1
    DEF Lifetime!SetCallback, Lifetime!Open, Lifetime!Up, LockFree,
        NSS_IsInitialized, Initialized, OpenContexts
  <2>3. QED BY <1>3, <2>2 DEF MappedStep, Lifetime!Next
<1>6. CASE ~NSS_IsInitialized
  <2>1. Pending' = Pending
    BY <1>6 DEF RegisterStep, NSS_RegisterShutdown, Pending, Registered
  <2>2. QED BY <1>2, <1>4, <2>1 DEF MappedStep, Mapped
<1>7. QED BY <1>5, <1>6

-----------------------------------------------------------------------------
(* Steps of the calls that give NSS up.                                    *)

(* At NSS's entry such a call still asks for what it was made for; past it *)
(* the request is the answer so far.                                       *)
LEMMA Asked ==
  ASSUME IInv, NEW t \in Threads, op[t] \in GivesUp
  PROVE  /\ Requests[t].context = Closes(t)
         /\ pc[t] = "entry" =>
              Requests[t].kind = IF op[t] = "shutdown" THEN "shutdown"
                                                       ELSE "close"
         /\ pc[t] # "entry" =>
              Requests[t].kind = IF status[t] THEN "success" ELSE "failure"
BY DEF Requests, Kind, GivesUp, ContextClosers

LEMMA Answered ==
  ASSUME IInv, NEW t \in Threads, op[t] \in GivesUp,
         op' = op, target' = target, pc'[t] # "entry",
         \A u \in Threads \ {t} : pc'[u] = pc[u] /\ status'[u] = status[u],
         NEW k, k = IF status'[t] THEN "success" ELSE "failure"
  PROVE  Lifetime!Say(t, k)
<1>1. \A u \in Threads \ {t} : SameCall(u)
  BY DEF SameCall
<1>2. RequestOf(t)' = Lifetime!Request(k, Requests[t].context)
  BY DEF RequestOf, Kind, Closes, GivesUp, ContextClosers, Lifetime!Request,
         Requests
<1>3. Requests' = [Requests EXCEPT ![t] = RequestOf(t)']
  BY <1>1, OneRequest
<1>4. QED BY <1>2, <1>3 DEF Lifetime!Say, Lifetime!Named

(* The callbacks and NSS's findings never make a failure a success.        *)
LEMMA NoBetter ==
  ASSUME IInv, NEW t \in Threads, pc[t] \in InNss,
         op' = op, target' = target, pc'[t] # "entry",
         \A u \in Threads \ {t} : pc'[u] = pc[u] /\ status'[u] = status[u],
         ~status[t] => ~status'[t]
  PROVE  Lifetime!SayNoBetter(t)
<1> DEFINE k == IF status'[t] THEN "success" ELSE "failure"
<1>1. op[t] \in GivesUp /\ pc[t] # "entry"
  BY DEF IInv, CallShape, GivesUp, InNss
<1>2. Requests[t].kind = IF status[t] THEN "success" ELSE "failure"
  BY <1>1, Asked
<1>3. Lifetime!Say(t, k)
  BY <1>1, Answered
<1>4. QED
  BY <1>2, <1>3 DEF Lifetime!SayNoBetter, Lifetime!Asks

(* What changes, seen from here, when nss_Shutdown takes the lock.         *)
LEMMA ShutdownBegun ==
  ASSUME IInv, NEW t \in Threads, BeginNssShutdown(t)
  PROVE  /\ LockFree
         /\ ~Initialized' /\ OpenContexts' = {}
         /\ nssInitLock' = t /\ Pending' = Pending
BY DEF BeginNssShutdown, LockFree, Initialized, OpenContexts, Pending,
       Registered

LEMMA RefusedMapped ==
  ASSUME IInv, NEW t \in Threads, UNCHANGED nssVars, LockFree,
         pc[t] = "entry", Answer(t, FALSE), op' = op, target' = target,
         \/ op[t] = "shutdown" /\ ~nssIsInitted
         \/ op[t] \in ContextClosers /\ ~Listed(target[t])
  PROVE  MappedStep
<1>1. op[t] \in GivesUp
  BY DEF GivesUp
<1>2. Lifetime!Say(t, "failure")
  BY <1>1, Answered DEF Answer, Goto, IInv, TypeOK
<1>3. UNCHANGED <<Initialized, OpenContexts, Pending, nssInitLock>>
  BY DEF nssVars, Initialized, OpenContexts, Pending, LockFree, Listed,
         Registered
<1>4. \/ Requests[t].kind = "shutdown" /\ ~Initialized
      \/ Requests[t].kind = "close" /\ Requests[t].context \notin OpenContexts
  BY <1>1, Asked DEF Initialized, OpenContexts, Closes, ContextClosers
<1>5. Lifetime!Refuse(t)
  BY <1>2, <1>3, <1>4
  DEF Lifetime!Refuse, Lifetime!Open, Lifetime!Asks, Lifetime!Named, LockFree
<1>6. QED BY <1>5 DEF MappedStep, Lifetime!Next, Lifetime!GiveUp

(* The three answers of NSS_ShutdownContext.                               *)
LEMMA ShutdownContextMapped ==
  ASSUME IInv, NEW t \in Threads, ShutdownContextStep(t)
  PROVE  MappedStep
<1> DEFINE a == target[t]
           lastUser == ~nssIsInitted /\ \A b \in Addresses \ {a} : ~Listed(b)
<1>1. pc[t] = "entry" /\ op[t] \in ContextClosers /\ op[t] \in GivesUp /\
      LockFree /\ a \in Addresses /\ status[t] /\ op' = op /\ target' = target
  BY DEF ShutdownContextStep, GivesUp, IInv, CallShape
<1>2. Requests[t].kind = "close" /\ Requests[t].context = a
  BY <1>1, Asked DEF Closes, ContextClosers
<1>3. CASE ~Listed(a)
  <2>1. Answer(t, FALSE) /\ UNCHANGED nssVars
    BY <1>3 DEF ShutdownContextStep
  <2>2. QED BY <1>1, <1>3, <2>1, RefusedMapped
<1>4. CASE Listed(a) /\ ~lastUser
  <2>1. Answer(t, TRUE)
        /\ contextOwner' = [contextOwner EXCEPT ![a] = NoObject]
        /\ UNCHANGED <<nssInitLock, nssIsInitted, registrant>>
    BY <1>4 DEF ShutdownContextStep
  <2>2. Lifetime!Say(t, "success")
    BY <1>1, <2>1, Answered DEF Answer, Goto, IInv, TypeOK
  <2>3. UNCHANGED <<Initialized, Pending, nssInitLock>>
    BY <2>1 DEF Initialized, Pending, LockFree, Registered
  <2>4. OpenContexts' = OpenContexts \ {a}
    BY <1>1, <2>1 DEF OpenContexts, LockFree, Listed, IInv, TypeOK, NssTypeOK
  <2>5. a \in OpenContexts /\ (Initialized \/ OpenContexts # {a})
    BY <1>1, <1>4 DEF OpenContexts, Initialized
  <2>6. Lifetime!CloseContext(t)
    BY <1>1, <1>2, <2>2, <2>3, <2>4, <2>5
    DEF Lifetime!CloseContext, Lifetime!Open, Lifetime!Asks, Lifetime!Named,
        LockFree
  <2>7. QED BY <2>6 DEF MappedStep, Lifetime!Next, Lifetime!GiveUp
<1>5. CASE Listed(a) /\ lastUser
  <2>1. BeginNssShutdown(t) /\ Goto(t, Draining) /\ UNCHANGED status
    BY <1>5 DEF ShutdownContextStep
  <2>2. Lifetime!Say(t, "success")
    BY <1>1, <2>1, Answered DEF Goto, Draining, IInv, TypeOK
  <2>3. ~Initialized /\ OpenContexts = {a}
    BY <1>1, <1>5 DEF Initialized, OpenContexts
  <2>4. Lifetime!BeginShutdown(t)
    BY <1>2, <2>1, <2>2, <2>3, ShutdownBegun
    DEF Lifetime!BeginShutdown, Lifetime!Open, Lifetime!Asks, Lifetime!Named,
        LockFree, Initialized
  <2>5. QED BY <2>4 DEF MappedStep, Lifetime!Next, Lifetime!GiveUp
<1>6. QED BY <1>3, <1>4, <1>5

(* The two answers of NSS_Shutdown.                                        *)
LEMMA ShutdownMapped ==
  ASSUME IInv, NEW t \in Threads, ShutdownStep(t)
  PROVE  MappedStep
<1>1. pc[t] = "entry" /\ op[t] = "shutdown" /\ op[t] \in GivesUp /\
      LockFree /\ status[t] /\ op' = op /\ target' = target
  BY DEF ShutdownStep, GivesUp, IInv, CallShape
<1>2. CASE ~nssIsInitted
  <2>1. Answer(t, FALSE) /\ UNCHANGED nssVars
    BY <1>2 DEF ShutdownStep
  <2>2. QED BY <1>1, <1>2, <2>1, RefusedMapped
<1>3. CASE nssIsInitted
  <2>1. BeginNssShutdown(t) /\ Goto(t, Draining) /\ UNCHANGED status
    BY <1>3 DEF ShutdownStep
  <2>2. Lifetime!Say(t, "success")
    BY <1>1, <2>1, Answered DEF Goto, Draining, IInv, TypeOK
  <2>3. Requests[t].kind = "shutdown" /\ Initialized
    BY <1>1, <1>3, Asked DEF Initialized
  <2>4. Lifetime!BeginShutdown(t)
    BY <2>1, <2>2, <2>3, ShutdownBegun
    DEF Lifetime!BeginShutdown, Lifetime!Open, Lifetime!Asks, LockFree,
        Initialized
  <2>5. QED BY <2>4 DEF MappedStep, Lifetime!Next, Lifetime!GiveUp
<1>4. QED BY <1>2, <1>3

(* An entry of the shutdown list is gone through, whatever came of it.     *)
LEMMA EntryMapped ==
  ASSUME IInv, NEW t \in Threads, NEW p \in Tuples, Registered(p),
         pc[t] \in {"ensure", "callback"}, ShutdownEntryDone(p),
         AfterEntry(t, p), op' = op, target' = target,
         \A u \in Threads \ {t} : status'[u] = status[u],
         ~status[t] => ~status'[t]
  PROVE  MappedStep
<1>1. nssInitLock = t
  BY DEF IInv, LockOwner, InNss
<1>2. Lifetime!SayNoBetter(t)
  BY NoBetter DEF AfterEntry, Goto, InNss, IInv, TypeOK
<1>3. UNCHANGED <<Initialized, OpenContexts, nssInitLock>>
  BY DEF ShutdownEntryDone, Initialized, OpenContexts, LockFree, Listed
<1>4. p \in Pending /\ Pending' = Pending \ {p}
  BY DEF ShutdownEntryDone, Pending, Registered, IInv, TypeOK, NssTypeOK
<1>5. Lifetime!RunCallback(t, p)
  BY <1>1, <1>2, <1>3, <1>4 DEF Lifetime!RunCallback
<1>6. QED BY <1>5 DEF MappedStep, Lifetime!Next, Lifetime!GiveUp

LEMMA CallbackMapped ==
  ASSUME IInv, NEW t \in Threads,
         \/ \E p \in Tuples : CallbackUndefined(t, p) \/ CallbackStart(t, p)
         \/ \E result \in Results : CallbackReturn(t, result)
  PROVE  MappedStep
<1>1. ASSUME NEW p \in Tuples, CallbackUndefined(t, p)
      PROVE  MappedStep
  BY <1>1, EntryMapped DEF CallbackUndefined, callVars
<1>2. ASSUME NEW p \in Tuples, CallbackStart(t, p)
      PROVE  MappedStep
  <2>1. \A u \in Threads : SameCall(u)
    BY <1>2 DEF CallbackStart, callVars, Goto, SameCall, IInv, TypeOK
  <2>2. QED BY <1>2, <2>1, SameMapped DEF CallbackStart
<1>3. ASSUME NEW result \in Results, CallbackReturn(t, result)
      PROVE  MappedStep
  <2>1. current \in Tuples /\ Registered(current)
    BY <1>3 DEF CallbackReturn, IInv, CallShape
  <2>2. /\ \A u \in Threads \ {t} : status'[u] = status[u]
        /\ ~status[t] => ~status'[t]
    BY <1>3 DEF CallbackReturn, IInv, TypeOK
  <2>3. QED BY <1>3, <2>1, <2>2, EntryMapped DEF CallbackReturn
<1>4. QED BY <1>1, <1>2, <1>3

(* At the end no callback is left, and NSS is down already.                *)
LEMMA FinishMapped ==
  ASSUME IInv, NEW t \in Threads, NEW busy \in BOOLEAN,
         ShutdownFinish(t, busy)
  PROVE  MappedStep
<1>1. nssInitLock = t /\ ~LockFree
  BY DEF ShutdownFinish, IInv, LockOwner, InNss, LockFree
<1>2. Pending = {}
  BY <1>1 DEF ShutdownFinish, IInv, ListMeansUp, Pending
<1>3. Lifetime!SayNoBetter(t)
  BY NoBetter DEF ShutdownFinish, Answer, Goto, InNss, IInv, TypeOK
<1>4. nssInitLock' = NoThread /\ Pending' = Pending
  BY DEF ShutdownFinish, EndNssShutdown, Pending, Registered
<1>5. UNCHANGED <<Initialized, OpenContexts>>
  BY <1>1 DEF ShutdownFinish, EndNssShutdown, Initialized, OpenContexts,
              Listed
<1>6. Lifetime!EndShutdown(t)
  BY <1>1, <1>2, <1>3, <1>4, <1>5 DEF Lifetime!EndShutdown
<1>7. QED BY <1>6 DEF MappedStep, Lifetime!Next, Lifetime!GiveUp

LEMMA ReturnMapped ==
  ASSUME IInv, NEW t \in Threads, Return(t)
  PROVE  MappedStep
<1>1. \A u \in Threads \ {t} : SameCall(u)
  BY DEF Return, Goto, SameCall, IInv, TypeOK
<1>2. RequestOf(t)' = Lifetime!Nothing
  BY DEF Return, RequestOf, Kind, Closes, IInv, TypeOK, ContextClosers,
         Lifetime!Nothing, Lifetime!Request
<1>3. Requests' = [Requests EXCEPT ![t] = Lifetime!Nothing]
  BY <1>1, <1>2, OneRequest
<1>4. UNCHANGED <<Initialized, OpenContexts, Pending, nssInitLock>>
  BY DEF Return, nssVars, Initialized, OpenContexts, Pending, LockFree,
         Listed, Registered
<1>5. CASE op[t] \in GivesUp
  <2>1. nssInitLock # t
    BY DEF Return, IInv, LockOwner, InNss
  <2>2. Requests[t].kind \in {"success", "failure"}
    BY <1>5, Asked DEF Return
  <2>3. Lifetime!Return(t)
    BY <1>3, <1>4, <2>1, <2>2 DEF Lifetime!Return, Lifetime!Asks
  <2>4. QED BY <2>3 DEF MappedStep, Lifetime!Next, Lifetime!GiveUp
<1>6. CASE op[t] \notin GivesUp
  <2>1. Requests[t] = Lifetime!Nothing
    BY <1>6, Unasked
  <2>2. Requests' = Requests
    BY <1>3, <2>1 DEF Requests
  <2>3. QED BY <1>4, <2>2 DEF MappedStep, Mapped
<1>7. QED BY <1>5, <1>6

-----------------------------------------------------------------------------

(* Every step of the functions is a step of NssLifetime or a stutter.      *)
LEMMA NextMapped == IInv /\ [Next]_vars => MappedStep
<1> SUFFICES ASSUME IInv, [Next]_vars PROVE MappedStep
  OBVIOUS
<1>1. CASE UNCHANGED vars
  BY <1>1, SameMapped DEF vars, callVars, SameCall
<1>2. ASSUME NEW t \in Threads, Step(t) PROVE MappedStep
  <2>1. CASE Progress(t)
    BY <2>1, InitMapped, InitContextFailsMapped, ContextMapped,
       ContextInVainMapped, ShutdownContextMapped, ShutdownMapped,
       CallbackMapped, FinishMapped, UnregisterMapped, RegisterMapped,
       ReturnMapped
    DEF Progress
  <2>2. QED BY <1>2, <2>1, GilStep, UserCallMapped DEF Step
<1>3. QED BY <1>1, <1>2 DEF Next

(* The functions of the bindings, with their locks, callbacks and error    *)
(* paths, implement the lifetime of NSS that NssLifetime promises.         *)
THEOREM ImplementsLifetime == Spec => LifetimeSpec
<1>1. Init => Lifetime!Init
  <2> SUFFICES ASSUME Init PROVE Lifetime!Init
    OBVIOUS
  <2>1. Initialized = FALSE /\ OpenContexts = {} /\ Pending = {}
    BY DEF Init, NssStart, Initialized, OpenContexts, Pending, Listed,
           Registered
  <2>2. Requests = [t \in Threads |-> Lifetime!Nothing]
    BY DEF Init, Requests, Kind, Closes, ContextClosers, Lifetime!Nothing,
           Lifetime!Request
  <2>3. nssInitLock = NoThread
    BY DEF Init, NssStart
  <2>4. QED BY <2>1, <2>2, <2>3 DEF Lifetime!Init
<1>2. IInv /\ [Next]_vars => [Lifetime!Next]_(Lifetime!vars)
  BY NextMapped DEF MappedStep, Mapped, Lifetime!vars
<1>3. QED
  BY <1>1, <1>2, Invariance, PTL DEF Spec, LifetimeSpec, Lifetime!Spec
=============================================================================
