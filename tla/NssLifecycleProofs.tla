------------------------- MODULE NssLifecycleProofs -------------------------
(***************************************************************************)
(* Proofs about NssLifecycle: IInv is inductive, hence the safety          *)
(* properties hold for any number of threads, objects, addresses and       *)
(* argument tuples.  One lemma per action; under it one step per conjunct  *)
(* of IInv the action can disturb, and a last one for the others.          *)
(***************************************************************************)
EXTENDS NssLifecycle, TLAPS

USE NobodyAssumption, LifecycleAssumption

(* Initially no call is in progress and NSS is down.                       *)
LEMMA InitIInv == Init => IInv
<1> SUFFICES ASSUME Init PROVE IInv
  OBVIOUS
<1> USE DEF Init, NssStart
<1>1. TypeOK
  BY DEF TypeOK, NssTypeOK, Owners, Places, NeedsGil, Ops
<1>2. CallShape /\ CallsBackEntries
  BY DEF CallShape, CallsBackEntries, InNss, ContextClosers
<1>3. GilBalance /\ LockOwner
  BY DEF GilBalance, LockOwner, WaitsLock, InNss, Dead
<1>4. ListMeansUp /\ RegistrationCurrent /\ ArmedStaysListed
  BY DEF ListMeansUp, RegistrationCurrent, ArmedStaysListed, Registered
<1>5. TuplesPrivate
  BY DEF TuplesPrivate, Holds
<1>6. OwnersHold
  BY DEF OwnersHold
<1>7. QED
  BY <1>1, <1>2, <1>3, <1>4, <1>5, <1>6 DEF IInv

-----------------------------------------------------------------------------
(* Every action preserves the invariant.                                   *)

(* Nobody waits for a lock or sits in NSS while taking the GIL.            *)
LEMMA AcquireGilStep ==
  ASSUME IInv, NEW t \in Threads,
         AcquireGil(t)
  PROVE  IInv'
<1> USE DEF IInv, nssVars, callVars, tlsVars, KeepsGil, DropsGil,
            AcquireGil
<1>1. TypeOK'
  BY DEF TypeOK, NssTypeOK, Owners, Places, NeedsGil, WaitsLock, InNss,
         Dead, Ops, CallShape, ContextClosers
<1>2. GilBalance'
  BY DEF GilBalance, Dead, WaitsLock, InNss, NeedsGil, TypeOK, CallShape,
         ContextClosers
<1>3. CallShape' /\ LockOwner' /\ ListMeansUp' /\ RegistrationCurrent' /\
      ArmedStaysListed' /\ TuplesPrivate' /\ OwnersHold'
  BY DEF CallShape, InNss, ContextClosers, Registered, TypeOK, NssTypeOK,
         GilBalance, LockOwner, OwnersHold, InUse, Reachable, Live,
         LockFree, ListMeansUp, NSS_IsInitialized, Listed,
         RegistrationCurrent, ArmedStaysListed, TuplesPrivate, Holds,
         Undoing, Owners
<1>4. CallsBackEntries'
  BY DEF CallsBackEntries, Registered, TypeOK, NssTypeOK, CallShape,
         LockOwner, LockFree, InNss
<1>5. QED
  BY <1>1, <1>2, <1>3, <1>4 DEF IInv

(* Only a thread running bytecode gives the GIL up.                        *)
LEMMA SwitchThreadStep ==
  ASSUME IInv, NEW t \in Threads,
         SwitchThread(t)
  PROVE  IInv'
<1> USE DEF IInv, nssVars, callVars, tlsVars, KeepsGil, DropsGil,
            SwitchThread
<1>1. TypeOK'
  BY DEF TypeOK, NssTypeOK, Owners, Places, NeedsGil, WaitsLock, InNss,
         Dead, Ops, CallShape, ContextClosers
<1>2. GilBalance'
  BY DEF GilBalance, Dead, WaitsLock, InNss, NeedsGil, TypeOK, CallShape,
         ContextClosers
<1>3. CallShape' /\ LockOwner' /\ ListMeansUp' /\ RegistrationCurrent' /\
      ArmedStaysListed' /\ TuplesPrivate' /\ OwnersHold'
  BY DEF CallShape, InNss, ContextClosers, Registered, TypeOK, NssTypeOK,
         GilBalance, LockOwner, OwnersHold, InUse, Reachable, Live,
         LockFree, ListMeansUp, NSS_IsInitialized, Listed,
         RegistrationCurrent, ArmedStaysListed, TuplesPrivate, Holds,
         Undoing, Owners
<1>4. CallsBackEntries'
  BY DEF CallsBackEntries, Registered, TypeOK, NssTypeOK, CallShape,
         LockOwner, LockFree, InNss
<1>5. QED
  BY <1>1, <1>2, <1>3, <1>4 DEF IInv

(* A thread that ends leaves its entry behind, as RegistrationCurrent      *)
(* allows.                                                                 *)
LEMMA ThreadExitStep ==
  ASSUME IInv, NEW t \in Threads,
         ThreadExit(t)
  PROVE  IInv'
<1> USE DEF IInv, nssVars, callVars, tlsVars, KeepsGil, DropsGil,
            ThreadExit, Goto
<1>1. TypeOK'
  BY DEF TypeOK, NssTypeOK, Owners, Places, NeedsGil, WaitsLock, InNss,
         Dead, Ops, CallShape, ContextClosers
<1>2. CallShape'
  BY DEF CallShape, InNss, ContextClosers, Registered, TypeOK, NssTypeOK,
         GilBalance, LockOwner, OwnersHold, InUse, Reachable, Live,
         LockFree
<1>3. GilBalance'
  BY DEF GilBalance, Dead, WaitsLock, InNss, NeedsGil, TypeOK, CallShape,
         ContextClosers
<1>4. RegistrationCurrent'
  BY DEF RegistrationCurrent, Registered, TypeOK, NssTypeOK, CallShape,
         ListMeansUp, LockFree, NSS_IsInitialized, LockOwner, InNss
<1>5. TuplesPrivate'
  BY DEF TuplesPrivate, Holds, TypeOK
<1>6. LockOwner' /\ ListMeansUp' /\ ArmedStaysListed' /\ OwnersHold'
  BY DEF LockOwner, InNss, TypeOK, NssTypeOK, LockFree, ListMeansUp,
         Registered, NSS_IsInitialized, Listed, ArmedStaysListed,
         TuplesPrivate, Holds, CallShape, OwnersHold, Undoing, Owners,
         Reachable, InUse, Live, ContextClosers
<1>7. CallsBackEntries'
  BY DEF CallsBackEntries, Registered, TypeOK, NssTypeOK, CallShape,
         LockOwner, LockFree, InNss
<1>8. QED
  BY <1>1, <1>2, <1>3, <1>4, <1>5, <1>6, <1>7 DEF IInv

(* A call enters NSS with the GIL dropped or kept, as its function does.   *)
LEMMA CallStep ==
  ASSUME IInv, NEW t \in Threads,
         NEW o \in (DropsGil \cup {"init_context"}) \ {"shutdown_context"},
         CallWithoutObject(t, o)
  PROVE  IInv'
<1> USE DEF IInv, nssVars, callVars, tlsVars, KeepsGil, DropsGil,
            CallWithoutObject, Call, Goto
<1>1. TypeOK'
  BY DEF TypeOK, NssTypeOK, Owners, Places, NeedsGil, WaitsLock, InNss,
         Dead, Ops, CallShape, ContextClosers
<1>2. CallShape'
  BY DEF CallShape, InNss, ContextClosers, Registered, TypeOK, NssTypeOK,
         GilBalance, LockOwner, OwnersHold, InUse, Reachable, Live,
         LockFree
<1>3. GilBalance'
  BY DEF GilBalance, Dead, WaitsLock, InNss, NeedsGil, TypeOK, CallShape,
         ContextClosers
<1>4. OwnersHold'
  BY DEF OwnersHold, Undoing, TypeOK, NssTypeOK, Owners, Listed, Reachable,
         InUse, Live, CallShape, ContextClosers
<1>5. LockOwner' /\ ListMeansUp' /\ RegistrationCurrent' /\
      ArmedStaysListed' /\ TuplesPrivate'
  BY DEF LockOwner, InNss, TypeOK, NssTypeOK, LockFree, ListMeansUp,
         Registered, NSS_IsInitialized, Listed, RegistrationCurrent,
         CallShape, ArmedStaysListed, TuplesPrivate, Holds
<1>6. CallsBackEntries'
  BY DEF CallsBackEntries, Registered, TypeOK, NssTypeOK, CallShape,
         LockOwner, LockFree, InNss
<1>7. QED
  BY <1>1, <1>2, <1>3, <1>4, <1>5, <1>6 DEF IInv

(* The object is reachable, so nobody is destroying it.                    *)
LEMMA CallOnContextStep ==
  ASSUME IInv, NEW t \in Threads,
         NEW c \in Objects,
         NEW o \in {"shutdown_context", "ctx.shutdown"},
         CallOnContext(t, o, c)
  PROVE  IInv'
<1> USE DEF IInv, nssVars, callVars, tlsVars, KeepsGil, DropsGil,
            CallOnContext, Call, Goto
<1>1. TypeOK'
  BY DEF TypeOK, NssTypeOK, Owners, Places, NeedsGil, WaitsLock, InNss,
         Dead, Ops, CallShape, ContextClosers
<1>2. CallShape'
  BY DEF CallShape, InNss, ContextClosers, Registered, TypeOK, NssTypeOK,
         GilBalance, LockOwner, OwnersHold, InUse, Reachable, Live,
         LockFree
<1>3. GilBalance'
  BY DEF GilBalance, Dead, WaitsLock, InNss, NeedsGil, TypeOK, CallShape,
         ContextClosers
<1>4. OwnersHold'
  BY DEF OwnersHold, Undoing, TypeOK, NssTypeOK, Owners, Listed, Reachable,
         InUse, Live, CallShape, ContextClosers
<1>5. LockOwner' /\ ListMeansUp' /\ RegistrationCurrent' /\
      ArmedStaysListed' /\ TuplesPrivate'
  BY DEF LockOwner, InNss, TypeOK, NssTypeOK, LockFree, ListMeansUp,
         Registered, NSS_IsInitialized, Listed, RegistrationCurrent,
         CallShape, ArmedStaysListed, TuplesPrivate, Holds
<1>6. CallsBackEntries'
  BY DEF CallsBackEntries, Registered, TypeOK, NssTypeOK, CallShape,
         LockOwner, LockFree, InNss
<1>7. QED
  BY <1>1, <1>2, <1>3, <1>4, <1>5, <1>6 DEF IInv

(* The object is in use by nobody when its destruction begins.             *)
LEMMA DeallocStep ==
  ASSUME IInv, NEW t \in Threads,
         NEW c \in Objects,
         InitContext_dealloc(t, c)
  PROVE  IInv'
<1> USE DEF IInv, nssVars, callVars, tlsVars, KeepsGil, DropsGil,
            InitContext_dealloc, CallOnContext, Call, Goto
<1>1. TypeOK'
  BY DEF TypeOK, NssTypeOK, Owners, Places, NeedsGil, WaitsLock, InNss,
         Dead, Ops, CallShape, ContextClosers
<1>2. CallShape'
  BY DEF CallShape, InNss, ContextClosers, Registered, TypeOK, NssTypeOK,
         GilBalance, LockOwner, OwnersHold, InUse, Reachable, Live,
         LockFree
<1>3. GilBalance'
  BY DEF GilBalance, Dead, WaitsLock, InNss, NeedsGil, TypeOK, CallShape,
         ContextClosers
<1>4. OwnersHold'
  BY DEF OwnersHold, Undoing, TypeOK, NssTypeOK, Owners, Listed, Reachable,
         InUse, Live, CallShape, ContextClosers
<1>5. LockOwner' /\ ListMeansUp' /\ RegistrationCurrent' /\
      ArmedStaysListed' /\ TuplesPrivate'
  BY DEF LockOwner, InNss, TypeOK, NssTypeOK, LockFree, ListMeansUp,
         Registered, NSS_IsInitialized, Listed, RegistrationCurrent,
         CallShape, ArmedStaysListed, TuplesPrivate, Holds
<1>6. CallsBackEntries'
  BY DEF CallsBackEntries, Registered, TypeOK, NssTypeOK, CallShape,
         LockOwner, LockFree, InNss
<1>7. QED
  BY <1>1, <1>2, <1>3, <1>4, <1>5, <1>6 DEF IInv

(* The tuple is new, or it is the empty one.                               *)
LEMMA SetCallbackStep ==
  ASSUME IInv, NEW t \in Threads,
         NEW p \in Tuples \cup {NoTuple},
         nss_set_shutdown_callback(t, p)
  PROVE  IInv'
<1> USE DEF IInv, nssVars, callVars, tlsVars, KeepsGil, DropsGil,
            nss_set_shutdown_callback, Call, Goto, Allocated, Holds
<1>1. TypeOK'
  BY DEF TypeOK, NssTypeOK, Owners, Places, NeedsGil, WaitsLock, InNss,
         Dead, Ops, CallShape, ContextClosers
<1>2. CallShape'
  BY DEF CallShape, InNss, ContextClosers, Registered, TypeOK, NssTypeOK,
         GilBalance, LockOwner, OwnersHold, InUse, Reachable, Live,
         LockFree
<1>3. GilBalance'
  BY DEF GilBalance, Dead, WaitsLock, InNss, NeedsGil, TypeOK, CallShape,
         ContextClosers
<1>4. TuplesPrivate'
  BY DEF TuplesPrivate, Holds, TypeOK
<1>5. LockOwner' /\ ListMeansUp' /\ RegistrationCurrent' /\
      ArmedStaysListed' /\ OwnersHold'
  BY DEF LockOwner, InNss, TypeOK, NssTypeOK, LockFree, ListMeansUp,
         Registered, NSS_IsInitialized, Listed, RegistrationCurrent,
         CallShape, ArmedStaysListed, TuplesPrivate, Holds, OwnersHold,
         Undoing, Owners, Reachable, InUse, Live, ContextClosers
<1>6. CallsBackEntries'
  BY DEF CallsBackEntries, Registered, TypeOK, NssTypeOK, CallShape,
         LockOwner, LockFree, InNss
<1>7. QED
  BY <1>1, <1>2, <1>3, <1>4, <1>5, <1>6 DEF IInv

(* NSS only comes up here, so registered callbacks keep their meaning.     *)
LEMMA InitStepStep ==
  ASSUME IInv, NEW t \in Threads,
         InitStep(t)
  PROVE  IInv'
<1> USE DEF IInv, nssVars, callVars, tlsVars, KeepsGil, DropsGil, InitStep,
            NSS_Initialize, Answer, Goto
<1>1. TypeOK'
  BY DEF TypeOK, NssTypeOK, Owners, Places, NeedsGil, WaitsLock, InNss,
         Dead, Ops, CallShape, ContextClosers
<1>2. CallShape'
  BY DEF CallShape, InNss, ContextClosers, Registered, TypeOK, NssTypeOK,
         GilBalance, LockOwner, OwnersHold, InUse, Reachable, Live,
         LockFree
<1>3. GilBalance'
  BY DEF GilBalance, Dead, WaitsLock, InNss, NeedsGil, TypeOK, CallShape,
         ContextClosers
<1>4. LockOwner'
  BY DEF LockOwner, InNss, TypeOK, NssTypeOK, LockFree
<1>5. ListMeansUp'
  BY DEF ListMeansUp, Registered, LockFree, NSS_IsInitialized, Listed,
         TypeOK, NssTypeOK, LockOwner, InNss
<1>6. RegistrationCurrent'
  BY DEF RegistrationCurrent, Registered, TypeOK, NssTypeOK, CallShape,
         ListMeansUp, LockFree, NSS_IsInitialized, LockOwner, InNss
<1>7. ArmedStaysListed' /\ TuplesPrivate' /\ OwnersHold'
  BY DEF ArmedStaysListed, Registered, LockFree, TypeOK, NssTypeOK,
         TuplesPrivate, Holds, CallShape, LockOwner, InNss, OwnersHold,
         Undoing, Owners, Listed, Reachable, InUse, Live, ContextClosers
<1>8. CallsBackEntries'
  BY DEF CallsBackEntries, Registered, TypeOK, NssTypeOK, CallShape,
         LockOwner, LockFree, InNss
<1>9. QED
  BY <1>1, <1>2, <1>3, <1>4, <1>5, <1>6, <1>7, <1>8 DEF IInv

(* Nothing was created.                                                    *)
LEMMA InitContextFailsStep ==
  ASSUME IInv, NEW t \in Threads,
         InitContextFails(t)
  PROVE  IInv'
<1> USE DEF IInv, nssVars, callVars, tlsVars, KeepsGil, DropsGil,
            InitContextFails, Answer, Goto
<1>1. TypeOK'
  BY DEF TypeOK, NssTypeOK, Owners, Places, NeedsGil, WaitsLock, InNss,
         Dead, Ops, CallShape, ContextClosers
<1>2. CallShape'
  BY DEF CallShape, InNss, ContextClosers, Registered, TypeOK, NssTypeOK,
         GilBalance, LockOwner, OwnersHold, InUse, Reachable, Live,
         LockFree
<1>3. GilBalance'
  BY DEF GilBalance, Dead, WaitsLock, InNss, NeedsGil, TypeOK, CallShape,
         ContextClosers
<1>4. LockOwner'
  BY DEF LockOwner, InNss, TypeOK, NssTypeOK, LockFree
<1>5. ListMeansUp' /\ RegistrationCurrent' /\ ArmedStaysListed' /\
      TuplesPrivate' /\ OwnersHold'
  BY DEF ListMeansUp, Registered, LockFree, NSS_IsInitialized, Listed,
         TypeOK, NssTypeOK, LockOwner, InNss, RegistrationCurrent,
         CallShape, ArmedStaysListed, TuplesPrivate, Holds, OwnersHold,
         Undoing, Owners, Reachable, InUse, Live, ContextClosers
<1>6. CallsBackEntries'
  BY DEF CallsBackEntries, Registered, TypeOK, NssTypeOK, CallShape,
         LockOwner, LockFree, InNss
<1>7. QED
  BY <1>1, <1>2, <1>3, <1>4, <1>5, <1>6 DEF IInv

(* The new object takes a slot no call refers to.                          *)
LEMMA InitContextStep ==
  ASSUME IInv, NEW t \in Threads,
         NEW a \in Addresses, NEW c \in Objects,
         InitContext_new_from_NSSInitContext(t, a, c)
  PROVE  IInv'
<1> USE DEF IInv, nssVars, callVars, tlsVars, KeepsGil, DropsGil,
            InitContext_new_from_NSSInitContext, NSS_InitContext, Answer,
            Goto, Live
<1>1. TypeOK'
  BY DEF TypeOK, NssTypeOK, Owners, Places, NeedsGil, WaitsLock, InNss,
         Dead, Ops, CallShape, ContextClosers
<1>2. CallShape'
  BY DEF CallShape, InNss, ContextClosers, Registered, TypeOK, NssTypeOK,
         GilBalance, LockOwner, OwnersHold, InUse, Reachable, Live,
         LockFree
<1>3. GilBalance'
  BY DEF GilBalance, Dead, WaitsLock, InNss, NeedsGil, TypeOK, CallShape,
         ContextClosers
<1>4. LockOwner'
  BY DEF LockOwner, InNss, TypeOK, NssTypeOK, LockFree
<1>5. ListMeansUp'
  BY DEF ListMeansUp, Registered, LockFree, NSS_IsInitialized, Listed,
         TypeOK, NssTypeOK, LockOwner, InNss
<1>6. OwnersHold'
  BY DEF OwnersHold, Undoing, TypeOK, NssTypeOK, Owners, Listed, Reachable,
         InUse, Live, CallShape, ContextClosers
<1>7. RegistrationCurrent' /\ ArmedStaysListed' /\ TuplesPrivate'
  BY DEF RegistrationCurrent, Registered, TypeOK, NssTypeOK, CallShape,
         ListMeansUp, LockFree, NSS_IsInitialized, LockOwner, InNss,
         ArmedStaysListed, TuplesPrivate, Holds
<1>8. CallsBackEntries'
  BY DEF CallsBackEntries, Registered, TypeOK, NssTypeOK, CallShape,
         LockOwner, LockFree, InNss
<1>9. QED
  BY <1>1, <1>2, <1>3, <1>4, <1>5, <1>6, <1>7, <1>8 DEF IInv

(* The orphan context is being given back by its thread.                   *)
LEMMA InitContextObjectFailsStep ==
  ASSUME IInv, NEW t \in Threads,
         NEW a \in Addresses,
         InitContextObjectFails(t, a)
  PROVE  IInv'
<1> USE DEF IInv, nssVars, callVars, tlsVars, KeepsGil, DropsGil,
            InitContextObjectFails, NSS_InitContext
<1>1. TypeOK'
  BY DEF TypeOK, NssTypeOK, Owners, Places, NeedsGil, WaitsLock, InNss,
         Dead, Ops, CallShape, ContextClosers
<1>2. CallShape'
  BY DEF CallShape, InNss, ContextClosers, Registered, TypeOK, NssTypeOK,
         GilBalance, LockOwner, OwnersHold, InUse, Reachable, Live,
         LockFree
<1>3. GilBalance'
  BY DEF GilBalance, Dead, WaitsLock, InNss, NeedsGil, TypeOK, CallShape,
         ContextClosers
<1>4. ListMeansUp'
  BY DEF ListMeansUp, Registered, LockFree, NSS_IsInitialized, Listed,
         TypeOK, NssTypeOK, LockOwner, InNss
<1>5. OwnersHold'
  BY DEF OwnersHold, Undoing, TypeOK, NssTypeOK, Owners, Listed, Reachable,
         InUse, Live, CallShape, ContextClosers
<1>6. LockOwner' /\ RegistrationCurrent' /\ ArmedStaysListed' /\
      TuplesPrivate'
  BY DEF LockOwner, InNss, TypeOK, NssTypeOK, LockFree,
         RegistrationCurrent, Registered, CallShape, ListMeansUp,
         NSS_IsInitialized, ArmedStaysListed, TuplesPrivate, Holds
<1>7. CallsBackEntries'
  BY DEF CallsBackEntries, Registered, TypeOK, NssTypeOK, CallShape,
         LockOwner, LockFree, InNss
<1>8. QED
  BY <1>1, <1>2, <1>3, <1>4, <1>5, <1>6, <1>7 DEF IInv

(* The last user of NSS takes the lock and keeps it while callbacks are    *)
(* left.                                                                   *)
LEMMA ShutdownContextStepStep ==
  ASSUME IInv, NEW t \in Threads,
         ShutdownContextStep(t)
  PROVE  IInv'
<1> USE DEF IInv, nssVars, callVars, tlsVars, KeepsGil, DropsGil,
            ShutdownContextStep, Answer, Goto, BeginNssShutdown, Draining
<1>1. TypeOK'
  <2>1. NssTypeOK'
    BY DEF TypeOK, NssTypeOK, Owners
  <2>2. pc' \in [Threads -> Places]
    BY DEF TypeOK, Places, NeedsGil, WaitsLock, InNss, Dead
  <2>3. QED
    BY <2>1, <2>2 DEF TypeOK
<1>2. CallShape'
  BY DEF CallShape, InNss, ContextClosers, Registered, TypeOK, NssTypeOK,
         GilBalance, LockOwner, OwnersHold, InUse, Reachable, Live,
         LockFree
<1>3. GilBalance'
  BY DEF GilBalance, Dead, WaitsLock, InNss, NeedsGil, TypeOK, CallShape,
         ContextClosers
<1>4. LockOwner'
  BY DEF LockOwner, InNss, TypeOK, NssTypeOK, LockFree
<1>5. ListMeansUp'
  BY DEF ListMeansUp, Registered, LockFree, NSS_IsInitialized, Listed,
         TypeOK, NssTypeOK, LockOwner, InNss
<1>6. RegistrationCurrent'
  BY DEF RegistrationCurrent, Registered, TypeOK, NssTypeOK, CallShape,
         ListMeansUp, LockFree, NSS_IsInitialized, LockOwner, InNss
<1>7. ArmedStaysListed'
  BY DEF ArmedStaysListed, Registered, LockFree, TypeOK, NssTypeOK,
         TuplesPrivate, Holds, CallShape, LockOwner, InNss
<1>8. OwnersHold'
  BY DEF OwnersHold, Undoing, TypeOK, NssTypeOK, Owners, Listed, Reachable,
         InUse, Live, CallShape, ContextClosers
<1>9. TuplesPrivate'
  BY DEF TuplesPrivate, Holds, TypeOK
<1>10. CallsBackEntries'
  BY DEF CallsBackEntries, Registered, TypeOK, NssTypeOK, CallShape,
         LockOwner, LockFree, InNss
<1>11. QED
  BY <1>1, <1>2, <1>3, <1>4, <1>5, <1>6, <1>7, <1>8, <1>9, <1>10 DEF IInv

(* nss_shutdown takes the lock if NSS is up.                               *)
LEMMA ShutdownStepStep ==
  ASSUME IInv, NEW t \in Threads,
         ShutdownStep(t)
  PROVE  IInv'
<1> USE DEF IInv, nssVars, callVars, tlsVars, KeepsGil, DropsGil,
            ShutdownStep, Answer, Goto, BeginNssShutdown, Draining
<1>1. TypeOK'
  <2>1. NssTypeOK'
    BY DEF TypeOK, NssTypeOK, Owners
  <2>2. pc' \in [Threads -> Places]
    BY DEF TypeOK, Places, NeedsGil, WaitsLock, InNss, Dead
  <2>3. QED
    BY <2>1, <2>2 DEF TypeOK
<1>2. CallShape'
  BY DEF CallShape, InNss, ContextClosers, Registered, TypeOK, NssTypeOK,
         GilBalance, LockOwner, OwnersHold, InUse, Reachable, Live,
         LockFree
<1>3. GilBalance'
  BY DEF GilBalance, Dead, WaitsLock, InNss, NeedsGil, TypeOK, CallShape,
         ContextClosers
<1>4. LockOwner'
  BY DEF LockOwner, InNss, TypeOK, NssTypeOK, LockFree
<1>5. ListMeansUp'
  BY DEF ListMeansUp, Registered, LockFree, NSS_IsInitialized, Listed,
         TypeOK, NssTypeOK, LockOwner, InNss
<1>6. RegistrationCurrent'
  BY DEF RegistrationCurrent, Registered, TypeOK, NssTypeOK, CallShape,
         ListMeansUp, LockFree, NSS_IsInitialized, LockOwner, InNss
<1>7. ArmedStaysListed'
  BY DEF ArmedStaysListed, Registered, LockFree, TypeOK, NssTypeOK,
         TuplesPrivate, Holds, CallShape, LockOwner, InNss
<1>8. TuplesPrivate' /\ OwnersHold'
  BY DEF TuplesPrivate, Holds, TypeOK, OwnersHold, Undoing, NssTypeOK,
         Owners, Listed, Reachable, InUse, Live, CallShape, ContextClosers
<1>9. CallsBackEntries'
  BY DEF CallsBackEntries, Registered, TypeOK, NssTypeOK, CallShape,
         LockOwner, LockFree, InNss
<1>10. QED
  BY <1>1, <1>2, <1>3, <1>4, <1>5, <1>6, <1>7, <1>8, <1>9 DEF IInv

(* An entry without a callback in this thread is skipped.                  *)
LEMMA CallbackUndefinedStep ==
  ASSUME IInv, NEW t \in Threads,
         NEW p \in Tuples,
         CallbackUndefined(t, p)
  PROVE  IInv'
<1> USE DEF IInv, nssVars, callVars, tlsVars, KeepsGil, DropsGil,
            CallbackUndefined, ShutdownEntryDone, AfterEntry, Goto,
            PyGILState_Release
<1>1. TypeOK'
  BY DEF TypeOK, NssTypeOK, Owners, Places, NeedsGil, WaitsLock, InNss,
         Dead, Ops, CallShape, ContextClosers
<1>2. CallShape'
  BY DEF CallShape, InNss, ContextClosers, Registered, TypeOK, NssTypeOK,
         GilBalance, LockOwner, OwnersHold, InUse, Reachable, Live,
         LockFree
<1>3. GilBalance'
  BY DEF GilBalance, Dead, WaitsLock, InNss, NeedsGil, TypeOK, CallShape,
         ContextClosers
<1>4. LockOwner'
  BY DEF LockOwner, InNss, TypeOK, NssTypeOK, LockFree
<1>5. ListMeansUp'
  BY DEF ListMeansUp, Registered, LockFree, NSS_IsInitialized, Listed,
         TypeOK, NssTypeOK, LockOwner, InNss
<1>6. RegistrationCurrent'
  BY DEF RegistrationCurrent, Registered, TypeOK, NssTypeOK, CallShape,
         ListMeansUp, LockFree, NSS_IsInitialized, LockOwner, InNss
<1>7. ArmedStaysListed'
  BY DEF ArmedStaysListed, Registered, LockFree, TypeOK, NssTypeOK,
         TuplesPrivate, Holds, CallShape, LockOwner, InNss
<1>8. TuplesPrivate' /\ OwnersHold'
  BY DEF TuplesPrivate, Holds, TypeOK, OwnersHold, Undoing, NssTypeOK,
         Owners, Listed, Reachable, InUse, Live, CallShape, ContextClosers
<1>9. CallsBackEntries'
  BY DEF CallsBackEntries, Registered, TypeOK, NssTypeOK, CallShape,
         LockOwner, LockFree, InNss
<1>10. QED
  BY <1>1, <1>2, <1>3, <1>4, <1>5, <1>6, <1>7, <1>8, <1>9 DEF IInv

(* The entry being called back stays in the list until the callback        *)
(* returns.                                                                *)
LEMMA CallbackStartStep ==
  ASSUME IInv, NEW t \in Threads,
         NEW p \in Tuples,
         CallbackStart(t, p)
  PROVE  IInv'
<1> USE DEF IInv, nssVars, callVars, tlsVars, KeepsGil, DropsGil,
            CallbackStart, Goto
<1>1. TypeOK'
  BY DEF TypeOK, NssTypeOK, Owners, Places, NeedsGil, WaitsLock, InNss,
         Dead, Ops, CallShape, ContextClosers
<1>2. CallShape'
  BY DEF CallShape, InNss, ContextClosers, Registered, TypeOK, NssTypeOK,
         GilBalance, LockOwner, OwnersHold, InUse, Reachable, Live,
         LockFree
<1>3. GilBalance'
  BY DEF GilBalance, Dead, WaitsLock, InNss, NeedsGil, TypeOK, CallShape,
         ContextClosers
<1>4. LockOwner'
  BY DEF LockOwner, InNss, TypeOK, NssTypeOK, LockFree
<1>5. ListMeansUp'
  BY DEF ListMeansUp, Registered, LockFree, NSS_IsInitialized, Listed,
         TypeOK, NssTypeOK, LockOwner, InNss
<1>6. RegistrationCurrent'
  BY DEF RegistrationCurrent, Registered, TypeOK, NssTypeOK, CallShape,
         ListMeansUp, LockFree, NSS_IsInitialized, LockOwner, InNss
<1>7. ArmedStaysListed' /\ TuplesPrivate' /\ OwnersHold'
  BY DEF ArmedStaysListed, Registered, LockFree, TypeOK, NssTypeOK,
         TuplesPrivate, Holds, CallShape, LockOwner, InNss, OwnersHold,
         Undoing, Owners, Listed, Reachable, InUse, Live, ContextClosers
<1>8. CallsBackEntries'
  BY DEF CallsBackEntries, Registered, TypeOK, NssTypeOK, CallShape,
         LockOwner, LockFree, InNss
<1>9. QED
  BY <1>1, <1>2, <1>3, <1>4, <1>5, <1>6, <1>7, <1>8 DEF IInv

(* The entry is done; the GIL goes back to how PyGILState_Ensure found it. *)
LEMMA CallbackReturnStep ==
  ASSUME IInv, NEW t \in Threads,
         NEW result \in Results,
         CallbackReturn(t, result)
  PROVE  IInv'
<1> USE DEF IInv, nssVars, callVars, tlsVars, KeepsGil, DropsGil,
            CallbackReturn, ShutdownEntryDone, AfterEntry, Goto,
            PyGILState_Release, CallbackStatus
<1>1. TypeOK'
  BY DEF TypeOK, NssTypeOK, Owners, Places, NeedsGil, WaitsLock, InNss,
         Dead, Ops, CallShape, ContextClosers
<1>2. CallShape'
  BY DEF CallShape, InNss, ContextClosers, Registered, TypeOK, NssTypeOK,
         GilBalance, LockOwner, OwnersHold, InUse, Reachable, Live,
         LockFree
<1>3. GilBalance'
  BY DEF GilBalance, Dead, WaitsLock, InNss, NeedsGil, TypeOK, CallShape,
         ContextClosers
<1>4. LockOwner'
  BY DEF LockOwner, InNss, TypeOK, NssTypeOK, LockFree
<1>5. ListMeansUp'
  BY DEF ListMeansUp, Registered, LockFree, NSS_IsInitialized, Listed,
         TypeOK, NssTypeOK, LockOwner, InNss
<1>6. RegistrationCurrent'
  BY DEF RegistrationCurrent, Registered, TypeOK, NssTypeOK, CallShape,
         ListMeansUp, LockFree, NSS_IsInitialized, LockOwner, InNss
<1>7. ArmedStaysListed'
  BY DEF ArmedStaysListed, Registered, LockFree, TypeOK, NssTypeOK,
         TuplesPrivate, Holds, CallShape, LockOwner, InNss
<1>8. TuplesPrivate' /\ OwnersHold'
  BY DEF TuplesPrivate, Holds, TypeOK, OwnersHold, Undoing, NssTypeOK,
         Owners, Listed, Reachable, InUse, Live, CallShape, ContextClosers
<1>9. CallsBackEntries'
  BY DEF CallsBackEntries, Registered, TypeOK, NssTypeOK, CallShape,
         LockOwner, LockFree, InNss
<1>10. QED
  BY <1>1, <1>2, <1>3, <1>4, <1>5, <1>6, <1>7, <1>8, <1>9 DEF IInv

(* No entry is left when NSS goes down, so nothing outlives its epoch.     *)
LEMMA ShutdownFinishStep ==
  ASSUME IInv, NEW t \in Threads,
         NEW busy \in BOOLEAN,
         ShutdownFinish(t, busy)
  PROVE  IInv'
<1> USE DEF IInv, nssVars, callVars, tlsVars, KeepsGil, DropsGil,
            ShutdownFinish, EndNssShutdown, Answer, Goto
<1>1. TypeOK'
  BY DEF TypeOK, NssTypeOK, Owners, Places, NeedsGil, WaitsLock, InNss,
         Dead, Ops, CallShape, ContextClosers
<1>2. CallShape'
  BY DEF CallShape, InNss, ContextClosers, Registered, TypeOK, NssTypeOK,
         GilBalance, LockOwner, OwnersHold, InUse, Reachable, Live,
         LockFree
<1>3. GilBalance'
  BY DEF GilBalance, Dead, WaitsLock, InNss, NeedsGil, TypeOK, CallShape,
         ContextClosers
<1>4. LockOwner'
  BY DEF LockOwner, InNss, TypeOK, NssTypeOK, LockFree
<1>5. ListMeansUp'
  BY DEF ListMeansUp, Registered, LockFree, NSS_IsInitialized, Listed,
         TypeOK, NssTypeOK, LockOwner, InNss
<1>6. RegistrationCurrent'
  BY DEF RegistrationCurrent, Registered, TypeOK, NssTypeOK, CallShape,
         ListMeansUp, LockFree, NSS_IsInitialized, LockOwner, InNss
<1>7. ArmedStaysListed'
  BY DEF ArmedStaysListed, Registered, LockFree, TypeOK, NssTypeOK,
         TuplesPrivate, Holds, CallShape, LockOwner, InNss
<1>8. OwnersHold'
  BY DEF OwnersHold, Undoing, TypeOK, NssTypeOK, Owners, Listed, Reachable,
         InUse, Live, CallShape, ContextClosers
<1>9. TuplesPrivate'
  BY DEF TuplesPrivate, Holds, TypeOK
<1>10. CallsBackEntries'
  BY DEF CallsBackEntries, Registered, TypeOK, NssTypeOK, CallShape,
         LockOwner, LockFree, InNss
<1>11. QED
  BY <1>1, <1>2, <1>3, <1>4, <1>5, <1>6, <1>7, <1>8, <1>9, <1>10 DEF IInv

(* The entry of the tuple that loses its reference is cancelled first.     *)
LEMMA UnregisterStepStep ==
  ASSUME IInv, NEW t \in Threads,
         UnregisterStep(t)
  PROVE  IInv'
<1> USE DEF IInv, nssVars, callVars, tlsVars, KeepsGil, DropsGil,
            UnregisterStep, StoreCallback, get_thread_local,
            set_thread_local, del_thread_local, NSS_UnregisterShutdown,
            Goto
<1>1. TypeOK'
  BY DEF TypeOK, NssTypeOK, Owners, Places, NeedsGil, WaitsLock, InNss,
         Dead, Ops, CallShape, ContextClosers
<1>2. CallShape'
  BY DEF CallShape, InNss, ContextClosers, Registered, TypeOK, NssTypeOK,
         GilBalance, LockOwner, OwnersHold, InUse, Reachable, Live,
         LockFree
<1>3. GilBalance'
  BY DEF GilBalance, Dead, WaitsLock, InNss, NeedsGil, TypeOK, CallShape,
         ContextClosers
<1>4. LockOwner'
  BY DEF LockOwner, InNss, TypeOK, NssTypeOK, LockFree
<1>5. ListMeansUp'
  BY DEF ListMeansUp, Registered, LockFree, NSS_IsInitialized, Listed,
         TypeOK, NssTypeOK, LockOwner, InNss
<1>6. RegistrationCurrent'
  BY DEF RegistrationCurrent, Registered, TypeOK, NssTypeOK, CallShape,
         ListMeansUp, LockFree, NSS_IsInitialized, LockOwner, InNss
<1>7. ArmedStaysListed'
  BY DEF ArmedStaysListed, Registered, LockFree, TypeOK, NssTypeOK,
         TuplesPrivate, Holds, CallShape, LockOwner, InNss
<1>8. TuplesPrivate'
  BY DEF TuplesPrivate, Holds, TypeOK
<1>9. OwnersHold'
  BY DEF OwnersHold, Undoing, TypeOK, NssTypeOK, Owners, Listed, Reachable,
         InUse, Live, CallShape, ContextClosers
<1>10. CallsBackEntries'
  BY DEF CallsBackEntries, Registered, TypeOK, NssTypeOK, CallShape,
         LockOwner, LockFree, InNss
<1>11. QED
  BY <1>1, <1>2, <1>3, <1>4, <1>5, <1>6, <1>7, <1>8, <1>9, <1>10 DEF IInv

(* What is registered is what the thread local dict already holds.         *)
LEMMA RegisterStepStep ==
  ASSUME IInv, NEW t \in Threads,
         RegisterStep(t)
  PROVE  IInv'
<1> USE DEF IInv, nssVars, callVars, tlsVars, KeepsGil, DropsGil,
            RegisterStep, NSS_RegisterShutdown, Goto
<1>1. TypeOK'
  BY DEF TypeOK, NssTypeOK, Owners, Places, NeedsGil, WaitsLock, InNss,
         Dead, Ops, CallShape, ContextClosers
<1>2. CallShape'
  BY DEF CallShape, InNss, ContextClosers, Registered, TypeOK, NssTypeOK,
         GilBalance, LockOwner, OwnersHold, InUse, Reachable, Live,
         LockFree
<1>3. GilBalance'
  BY DEF GilBalance, Dead, WaitsLock, InNss, NeedsGil, TypeOK, CallShape,
         ContextClosers
<1>4. LockOwner'
  BY DEF LockOwner, InNss, TypeOK, NssTypeOK, LockFree
<1>5. ListMeansUp'
  BY DEF ListMeansUp, Registered, LockFree, NSS_IsInitialized, Listed,
         TypeOK, NssTypeOK, LockOwner, InNss
<1>6. RegistrationCurrent'
  BY DEF RegistrationCurrent, Registered, TypeOK, NssTypeOK, CallShape,
         ListMeansUp, LockFree, NSS_IsInitialized, LockOwner, InNss
<1>7. ArmedStaysListed'
  BY DEF ArmedStaysListed, Registered, LockFree, TypeOK, NssTypeOK,
         TuplesPrivate, Holds, CallShape, LockOwner, InNss
<1>8. TuplesPrivate' /\ OwnersHold'
  BY DEF TuplesPrivate, Holds, TypeOK, OwnersHold, Undoing, NssTypeOK,
         Owners, Listed, Reachable, InUse, Live, CallShape, ContextClosers
<1>9. CallsBackEntries'
  BY DEF CallsBackEntries, Registered, TypeOK, NssTypeOK, CallShape,
         LockOwner, LockFree, InNss
<1>10. QED
  BY <1>1, <1>2, <1>3, <1>4, <1>5, <1>6, <1>7, <1>8, <1>9 DEF IInv

(* A destroyed object owned no context any more.                           *)
LEMMA ReturnStep ==
  ASSUME IInv, NEW t \in Threads,
         Return(t)
  PROVE  IInv'
<1> USE DEF IInv, nssVars, callVars, tlsVars, KeepsGil, DropsGil, Return,
            Goto
<1>1. TypeOK'
  BY DEF TypeOK, NssTypeOK, Owners, Places, NeedsGil, WaitsLock, InNss,
         Dead, Ops, CallShape, ContextClosers
<1>2. CallShape'
  BY DEF CallShape, InNss, ContextClosers, Registered, TypeOK, NssTypeOK,
         GilBalance, LockOwner, OwnersHold, InUse, Reachable, Live,
         LockFree
<1>3. GilBalance'
  BY DEF GilBalance, Dead, WaitsLock, InNss, NeedsGil, TypeOK, CallShape,
         ContextClosers
<1>4. LockOwner'
  BY DEF LockOwner, InNss, TypeOK, NssTypeOK, LockFree
<1>5. TuplesPrivate'
  BY DEF TuplesPrivate, Holds, TypeOK
<1>6. OwnersHold'
  BY DEF OwnersHold, Undoing, TypeOK, NssTypeOK, Owners, Listed, Reachable,
         InUse, Live, CallShape, ContextClosers
<1>7. ListMeansUp' /\ RegistrationCurrent' /\ ArmedStaysListed'
  BY DEF ListMeansUp, Registered, LockFree, NSS_IsInitialized, Listed,
         TypeOK, NssTypeOK, LockOwner, InNss, RegistrationCurrent,
         CallShape, ArmedStaysListed, TuplesPrivate, Holds
<1>8. CallsBackEntries'
  BY DEF CallsBackEntries, Registered, TypeOK, NssTypeOK, CallShape,
         LockOwner, LockFree, InNss
<1>9. QED
  BY <1>1, <1>2, <1>3, <1>4, <1>5, <1>6, <1>7, <1>8 DEF IInv

(* The invariant is inductive.                                             *)
LEMMA NextIInv == IInv /\ [Next]_vars => IInv'
<1> SUFFICES ASSUME IInv, [Next]_vars PROVE IInv'
  OBVIOUS
<1>1. CASE UNCHANGED vars
  <2> USE <1>1 DEF vars, nssVars, callVars, tlsVars, IInv
  <2>1. TypeOK' /\ CallShape' /\ GilBalance' /\ LockOwner'
    BY DEF TypeOK, NssTypeOK, CallShape, Registered, GilBalance, LockOwner
  <2>2. ListMeansUp' /\ RegistrationCurrent' /\ ArmedStaysListed'
    BY DEF ListMeansUp, RegistrationCurrent, ArmedStaysListed, Registered,
           LockFree, NSS_IsInitialized, Listed
  <2>3. TuplesPrivate' /\ OwnersHold' /\ CallsBackEntries'
    BY DEF TuplesPrivate, Holds, OwnersHold, Undoing, CallsBackEntries,
           Registered
  <2>4. QED
    BY <2>1, <2>2, <2>3
<1>2. ASSUME NEW t \in Threads, Step(t) PROVE IInv'
  <2>1. CASE AcquireGil(t) \/ SwitchThread(t) \/ ThreadExit(t)
    BY <2>1, AcquireGilStep, SwitchThreadStep, ThreadExitStep
  <2>2. CASE UserCall(t)
    <3>1. ASSUME NEW o \in {"init", "initialize", "shutdown", "init_context"},
                 CallWithoutObject(t, o)
          PROVE  IInv'
      BY <3>1, CallStep DEF DropsGil
    <3>2. QED
      BY <2>2, <3>1, CallOnContextStep, DeallocStep, SetCallbackStep
      DEF UserCall, nss_init, nss_init_read_write, nss_init_nodb,
          nss_initialize, nss_shutdown, nss_init_context,
          nss_shutdown_context, InitContext_shutdown
  <2>3. CASE Progress(t)
    BY <2>3, InitStepStep, InitContextFailsStep, InitContextStep,
       InitContextObjectFailsStep, ShutdownContextStepStep,
       ShutdownStepStep, CallbackUndefinedStep, CallbackStartStep,
       CallbackReturnStep, ShutdownFinishStep, UnregisterStepStep,
       RegisterStepStep, ReturnStep
    DEF Progress
  <2>4. QED
    BY <1>2, <2>1, <2>2, <2>3 DEF Step
<1>3. QED
  BY <1>1, <1>2 DEF Next

(* The inductive invariant holds in every reachable state, for any number  *)
(* of threads, InitContext objects, addresses and argument tuples.         *)
THEOREM Invariance == Spec => []IInv
<1>1. IInv /\ [Next]_vars => IInv'
  BY NextIInv
<1>2. QED
  BY InitIInv, <1>1, PTL DEF Spec

-----------------------------------------------------------------------------
(* What it implies.                                                        *)

(* Type correctness of the lifecycle state.                                *)
THEOREM TypeCorrect == Spec => []TypeOK
<1>1. IInv => TypeOK
  BY DEF IInv
<1>2. QED
  BY Invariance, <1>1, PTL

(* Each lifecycle function is inside NSS with or without the GIL as its    *)
(* source says and comes back to it, but for the error paths of            *)
(* nss_initialize and nss_shutdown_context, the only ones that use the     *)
(* Python API without it.                                                  *)
THEOREM GilBalanced == Spec => []GilBalance
<1>1. IInv => GilBalance
  BY DEF IInv
<1>2. QED
  BY Invariance, <1>1, PTL

(* Every entry of the shutdown list is the current callback of the thread *)
(* that registered it, so no entry dangles, also after a thread has ended. *)
THEOREM RegistrationsCurrent == Spec => []RegistrationCurrent
<1>1. IInv => RegistrationCurrent
  BY DEF IInv
<1>2. QED
  BY Invariance, <1>1, PTL

(* A callback with user data stays registered until cancelled or shutdown. *)
THEOREM ArmedListed == Spec => []ArmedStaysListed
<1>1. IInv => ArmedStaysListed
  BY DEF IInv
<1>2. QED
  BY Invariance, <1>1, PTL

(* Every listed context has somebody who will close it.                    *)
THEOREM NoContextLeaks == Spec => []NoLeakedContext
<1>1. IInv => NoLeakedContext
  <2> SUFFICES ASSUME IInv, NEW a \in Addresses, Listed(a)
               PROVE  \/ \E c \in Objects : ctxAddr[c] = a
                      \/ \E t \in Threads : Undoing(t, a)
    BY DEF NoLeakedContext
  <2>1. contextOwner[a] \in Objects \/ contextOwner[a] = Orphan
    BY DEF IInv, TypeOK, NssTypeOK, Owners, Listed
  <2>2. QED
    BY <2>1 DEF IInv, OwnersHold
<1>2. QED
  BY Invariance, <1>1, PTL

(* The two locks can block each other only while a shutdown calls back:    *)
(* without a registered callback, whoever holds NSS's lock waits for       *)
(* nothing, so waiting ends after two steps and no threads wait in a       *)
(* circle.                                                                 *)
THEOREM LocksStayOrdered == Spec => []LocksOrdered
<1>1. IInv => LocksOrdered
  <2> SUFFICES ASSUME IInv, \A p \in Tuples : ~Registered(p),
                      NEW t \in Threads, NEW u \in Threads,
                      NEW v \in Threads, NEW w \in Threads,
                      WaitsFor(t, u), WaitsFor(u, v), WaitsFor(v, w)
               PROVE  FALSE
    BY DEF LocksOrdered
  <2> USE DEF IInv
  <2>1. ASSUME NEW s \in Threads, nssInitLock = s
        PROVE  pc[s] = "finish"
    BY <2>1 DEF LockOwner, InNss, CallsBackEntries, CallShape
  <2>2. ASSUME NEW x \in Threads, NEW y \in Threads, WaitsFor(x, y),
               pc[x] \in WaitsLock
        PROVE  pc[y] = "finish"
    BY <2>1, <2>2 DEF WaitsFor, WaitsLock, NeedsGil
  <2>3. ASSUME NEW x \in Threads, NEW y \in Threads, WaitsFor(x, y)
        PROVE  pc[x] # "finish"
    BY <2>3 DEF WaitsFor, WaitsLock, NeedsGil
  <2>4. pc[t] \notin WaitsLock /\ pc[u] \notin WaitsLock
    BY <2>2, <2>3
  <2>5. gil = u /\ gil = v /\ u # v
    BY <2>4 DEF WaitsFor
  <2> QED BY <2>5
<1>2. QED
  BY <1>1, Invariance, PTL

(* Steps of other threads leave a thread where it is.                      *)
LEMMA OthersStay ==
  ASSUME IInv, NEW t \in Threads, NEW u \in Threads, u # t, Step(u)
  PROVE  pc'[t] = pc[t] /\ status'[t] = status[t]
<1> USE DEF IInv, TypeOK, NssTypeOK, Goto, Answer
<1>1. CASE AcquireGil(u) \/ SwitchThread(u) \/ ThreadExit(u)
  BY <1>1 DEF AcquireGil, SwitchThread, ThreadExit, callVars
<1>2. CASE UserCall(u)
  BY <1>2
  DEF UserCall, nss_init, nss_init_read_write, nss_init_nodb,
      nss_initialize, nss_shutdown, nss_init_context,
      nss_shutdown_context, InitContext_shutdown, InitContext_dealloc,
      nss_set_shutdown_callback, CallWithoutObject, CallOnContext, Call
<1>3. CASE Progress(u)
  BY <1>3
  DEF Progress, InitStep, InitContextFails, InitContextObjectFails,
      InitContext_new_from_NSSInitContext, ShutdownContextStep,
      ShutdownStep, CallbackUndefined, CallbackStart, CallbackReturn,
      ShutdownFinish, UnregisterStep, StoreCallback, RegisterStep,
      Return, AfterEntry, callVars
<1>4. QED
  BY <1>1, <1>2, <1>3 DEF Step

(* A shutdown that has begun ends with NSS down and an empty shutdown      *)
(* list, and reports the failure of any callback.                          *)
THEOREM ShutdownRunsToTheEnd == Spec => ShutdownOutcome
<1> DEFINE Outcome(t) ==
      pc[t] \in InNss =>
        /\ pc'[t] \notin InNss =>
             ~NSS_IsInitialized' /\ \A p \in Tuples : ~Registered(p)'
        /\ ~status[t] => ~status'[t]
<1>1. ASSUME IInv, [Next]_vars, NEW t \in Threads, pc[t] \in InNss
      PROVE  /\ pc'[t] \notin InNss =>
                  ~NSS_IsInitialized' /\ \A p \in Tuples : ~Registered(p)'
             /\ ~status[t] => ~status'[t]
  <2> USE <1>1 DEF IInv, TypeOK, NssTypeOK, Goto, Answer
  <2>1. CASE UNCHANGED vars
    BY <2>1 DEF vars, callVars
  <2>2. ASSUME NEW u \in Threads, Step(u), u # t
        PROVE  pc'[t] = pc[t] /\ status'[t] = status[t]
    BY <1>1, <2>2, OthersStay
  <2>3. ASSUME Step(t)
        PROVE  \/ \E p \in Tuples : CallbackUndefined(t, p)
               \/ \E p \in Tuples : CallbackStart(t, p)
               \/ \E result \in Results : CallbackReturn(t, result)
               \/ \E busy \in BOOLEAN : ShutdownFinish(t, busy)
               \/ AcquireGil(t) \/ SwitchThread(t)
    BY <2>3
    DEF Step, Progress, UserCall, nss_init, nss_init_read_write,
        nss_init_nodb, nss_initialize, nss_shutdown, nss_init_context,
        nss_shutdown_context, InitContext_shutdown, InitContext_dealloc,
        nss_set_shutdown_callback, CallWithoutObject, CallOnContext, Call,
        ThreadExit, InitStep, InitContextFails, InitContextObjectFails,
        InitContext_new_from_NSSInitContext, ShutdownContextStep,
        ShutdownStep, UnregisterStep, StoreCallback, RegisterStep, Return,
        InNss, Dead
  <2>4. ASSUME NEW p \in Tuples, CallbackUndefined(t, p)
        PROVE  pc'[t] \in InNss /\ status'[t] = status[t]
    BY <2>4 DEF CallbackUndefined, AfterEntry, callVars, InNss
  <2>5. ASSUME NEW p \in Tuples, CallbackStart(t, p)
        PROVE  pc'[t] \in InNss /\ status'[t] = status[t]
    BY <2>5 DEF CallbackStart, callVars, InNss
  <2>6. ASSUME NEW result \in Results, CallbackReturn(t, result)
        PROVE  pc'[t] \in InNss /\ (~status[t] => ~status'[t])
    BY <2>6 DEF CallbackReturn, AfterEntry, InNss
  <2>7. ASSUME NEW busy \in BOOLEAN, ShutdownFinish(t, busy)
        PROVE  /\ ~NSS_IsInitialized' /\ \A p \in Tuples : ~Registered(p)'
               /\ ~status[t] => ~status'[t]
    <3>1. ~NSS_IsInitialized'
      BY <2>7 DEF ShutdownFinish, EndNssShutdown, NSS_IsInitialized, Listed
    <3>2. \A p \in Tuples : ~Registered(p)'
      BY <2>7 DEF ShutdownFinish, EndNssShutdown, ListMeansUp, Registered,
                  LockOwner, LockFree, InNss
    <3>3. ~status[t] => ~status'[t]
      BY <2>7 DEF ShutdownFinish
    <3>4. QED
      BY <3>1, <3>2, <3>3
  <2>8. ASSUME AcquireGil(t) \/ SwitchThread(t)
        PROVE  pc'[t] \in InNss /\ status'[t] = status[t]
    BY <2>8 DEF AcquireGil, SwitchThread, callVars
  <2>9. QED
    BY <2>1, <2>2, <2>3, <2>4, <2>5, <2>6, <2>7, <2>8 DEF Next
<1>2. IInv /\ [Next]_vars => [\A t \in Threads : Outcome(t)]_vars
  BY <1>1
<1>3. QED
  BY Invariance, <1>2, PTL DEF Spec, ShutdownOutcome

(* A context is taken off the list by the object that owns it only, unless *)
(* its address is shared.                                                  *)
THEOREM OthersContextsStay == Spec => ClosesOnlyOwn
<1> DEFINE Own(t) ==
      /\ pc[t] = "entry" /\ pc'[t] # "entry"
      /\ op[t] \in ContextClosers \ {"ctx.undo"} /\ ~AddressShared(t)
      => \A a \in Addresses :
           contextOwner[a] \notin {NoObject, self[t]} =>
             contextOwner'[a] = contextOwner[a]
<1>1. ASSUME IInv, [Next]_vars, NEW t \in Threads
      PROVE  Own(t)
  <2> SUFFICES ASSUME pc[t] = "entry", pc'[t] # "entry",
                      op[t] \in ContextClosers \ {"ctx.undo"},
                      ~AddressShared(t), NEW a \in Addresses,
                      contextOwner[a] \notin {NoObject, self[t]}
               PROVE  contextOwner'[a] = contextOwner[a]
    OBVIOUS
  <2>1. target[t] # a
    <3>1. contextOwner[a] \in Objects \/ contextOwner[a] = Orphan
      BY <1>1 DEF IInv, TypeOK, NssTypeOK, Owners
    <3>2. CASE contextOwner[a] \in Objects
      BY <1>1, <3>2 DEF IInv, OwnersHold, AddressShared
    <3>3. CASE contextOwner[a] = Orphan
      BY <1>1, <3>3 DEF IInv, OwnersHold, AddressShared, Undoing
    <3>4. QED BY <3>1, <3>2, <3>3
  <2>2. Step(t)
    <3>1. ~ UNCHANGED vars
      BY DEF vars
    <3>2. PICK u \in Threads : Step(u)
      BY <1>1, <3>1 DEF Next
    <3>3. QED BY <1>1, <3>2, OthersStay
  <2>3. ShutdownContextStep(t)
    BY <2>2
    DEF Step, Progress, UserCall, nss_init, nss_init_read_write,
        nss_init_nodb, nss_initialize, nss_shutdown, nss_init_context,
        nss_shutdown_context, InitContext_shutdown, InitContext_dealloc,
        nss_set_shutdown_callback, CallWithoutObject, CallOnContext, Call,
        AcquireGil, SwitchThread, ThreadExit, NeedsGil, InitStep,
        InitContextFails, InitContextObjectFails,
        InitContext_new_from_NSSInitContext, ShutdownStep,
        CallbackUndefined, CallbackStart, CallbackReturn, ShutdownFinish,
        UnregisterStep, StoreCallback, RegisterStep, Return, ContextClosers
  <2>4. \/ UNCHANGED contextOwner
        \/ contextOwner' = [contextOwner EXCEPT ![target[t]] = NoObject]
    BY <2>3 DEF ShutdownContextStep, nssVars
  <2>5. QED
    BY <1>1, <2>1, <2>4 DEF IInv, TypeOK, NssTypeOK
<1>2. IInv /\ [Next]_vars => [\A t \in Threads : Own(t)]_vars
  BY <1>1
<1>3. QED
  BY Invariance, <1>2, PTL DEF Spec, ClosesOnlyOwn

(* No thread can register a callback while another one shuts NSS down.     *)
LEMMA ListShrinks ==
  ASSUME IInv, ~LockFree, NEW t \in Threads, Step(t)
  PROVE  Pending' \subseteq Pending
<1> USE DEF IInv, TypeOK, NssTypeOK, Pending, Registered, nssVars
<1>1. CASE AcquireGil(t) \/ SwitchThread(t) \/ ThreadExit(t)
  BY <1>1 DEF AcquireGil, SwitchThread, ThreadExit
<1>2. CASE UserCall(t)
  BY <1>2
  DEF UserCall, nss_init, nss_init_read_write, nss_init_nodb,
      nss_initialize, nss_shutdown, nss_init_context,
      nss_shutdown_context, InitContext_shutdown, InitContext_dealloc,
      nss_set_shutdown_callback, CallWithoutObject, CallOnContext, Call
<1>3. CASE Progress(t)
  BY <1>3
  DEF Progress, InitStep, NSS_Initialize, InitContextFails,
      InitContextObjectFails, NSS_InitContext,
      InitContext_new_from_NSSInitContext, ShutdownContextStep,
      ShutdownStep, CallbackUndefined, CallbackStart, CallbackReturn,
      ShutdownEntryDone, ShutdownFinish, EndNssShutdown, UnregisterStep,
      NSS_UnregisterShutdown, RegisterStep, NSS_RegisterShutdown, Return
<1>4. QED
  BY <1>1, <1>2, <1>3 DEF Step

(* Steps of other threads leave a thread in its call, and the GIL with it. *)
LEMMA OthersCallsStay ==
  ASSUME IInv, NEW t \in Threads, NEW u \in Threads, u # t, Step(u)
  PROVE  op'[t] = op[t] /\ (HasEntry(t) => gil' = t)
<1> USE NobodyAssumption DEF IInv, TypeOK, HasEntry
<1>1. CASE AcquireGil(u) \/ SwitchThread(u) \/ ThreadExit(u)
  BY <1>1 DEF AcquireGil, SwitchThread, ThreadExit, callVars
<1>2. CASE UserCall(u)
  BY <1>2
  DEF UserCall, nss_init, nss_init_read_write, nss_init_nodb,
      nss_initialize, nss_shutdown, nss_init_context,
      nss_shutdown_context, InitContext_shutdown, InitContext_dealloc,
      nss_set_shutdown_callback, CallWithoutObject, CallOnContext, Call
<1>3. CASE Progress(u)
  BY <1>3
  DEF Progress, InitStep, InitContextFails, InitContextObjectFails,
      InitContext_new_from_NSSInitContext, ShutdownContextStep,
      ShutdownStep, CallbackUndefined, CallbackStart, CallbackReturn,
      ShutdownFinish, UnregisterStep, StoreCallback, RegisterStep,
      Return, callVars
<1>4. QED
  BY <1>1, <1>2, <1>3 DEF Step

(* Where a step of the thread itself takes its call.                       *)
Nearer(t) ==
  \/ pc'[t] = pc[t] /\ (HasEntry(t) => gil' = t)
  \/ ToGo[pc'[t]] < ToGo[pc[t]]
  \/ pc[t] \in InNss /\ pc'[t] = "ensure" /\ Pending' # Pending
KeepsCall(t) ==
  \/ op'[t] = op[t]
  \/ pc'[t] = "python"
  \/ op[t] = "init_context" /\ op'[t] = "ctx.undo"

LEMMA CallGoesOn ==
  ASSUME IInv, NEW t \in Threads, op[t] # "none", Step(t)
  PROVE  Nearer(t) /\ KeepsCall(t)
<1> USE DEF IInv, TypeOK, Goto, Nearer, KeepsCall, ToGo, HasEntry
<1>1. ~UserCall(t) /\ ~ThreadExit(t)
  BY DEF UserCall, nss_init, nss_init_read_write, nss_init_nodb,
      nss_initialize, nss_shutdown, nss_init_context,
      nss_shutdown_context, InitContext_shutdown, InitContext_dealloc,
      nss_set_shutdown_callback, CallWithoutObject, CallOnContext, Call,
      ThreadExit, CallShape
<1>2. CASE AcquireGil(t) \/ SwitchThread(t)
  BY <1>2 DEF AcquireGil, SwitchThread, callVars
<1>3. CASE InitStep(t) \/ InitContextFails(t)
  BY <1>3 DEF InitStep, InitContextFails, Answer
<1>4. ASSUME NEW a \in Addresses,
             \/ InitContextObjectFails(t, a)
             \/ \E c \in Objects : InitContext_new_from_NSSInitContext(t, a, c)
      PROVE  Nearer(t) /\ KeepsCall(t)
  BY <1>4 DEF InitContextObjectFails, InitContext_new_from_NSSInitContext,
     Answer
<1>5. CASE ShutdownContextStep(t) \/ ShutdownStep(t)
  BY <1>5 DEF ShutdownContextStep, ShutdownStep, Answer, Draining
<1>6. ASSUME NEW p \in Tuples, CallbackUndefined(t, p) \/ CallbackStart(t, p)
      PROVE  Nearer(t) /\ KeepsCall(t)
  <2>1. CallbackUndefined(t, p) => p \in Pending /\ p \notin Pending'
    BY <1>6 DEF CallbackUndefined, ShutdownEntryDone, Pending, Registered,
       NssTypeOK
  <2>2. QED
    BY <1>6, <2>1 DEF CallbackUndefined, CallbackStart, AfterEntry, callVars,
       InNss
<1>7. ASSUME NEW result \in Results, CallbackReturn(t, result)
      PROVE  Nearer(t) /\ KeepsCall(t)
  <2>1. current \in Pending /\ current \notin Pending'
    BY <1>7 DEF CallbackReturn, CallShape, ShutdownEntryDone, Pending,
       Registered, NssTypeOK
  <2>2. QED
    BY <1>7, <2>1 DEF CallbackReturn, AfterEntry, InNss
<1>8. ASSUME NEW busy \in BOOLEAN, ShutdownFinish(t, busy)
      PROVE  Nearer(t) /\ KeepsCall(t)
  BY <1>8 DEF ShutdownFinish, Answer
<1>9. CASE UnregisterStep(t) \/ RegisterStep(t)
  BY <1>9 DEF UnregisterStep, StoreCallback, RegisterStep, callVars
<1>10. CASE Return(t)
  BY <1>10 DEF Return
<1>11. QED
  BY <1>1, <1>2, <1>3, <1>4, <1>5, <1>6, <1>7, <1>8, <1>9, <1>10
  DEF Step, Progress

(* A call never does a thing twice, and a shutdown calls each callback it  *)
(* finds once: what can keep a call from returning is waiting, for a lock  *)
(* or for Python, never a loop of its own.                                 *)
THEOREM CallsGoOn == Spec => CallsAdvance
<1> DEFINE Goes(t) ==
      op[t] # "none" =>
        /\ \/ pc'[t] = pc[t] /\ (HasEntry(t) => gil' = t)
           \/ ToGo[pc'[t]] < ToGo[pc[t]]
           \/ pc[t] \in InNss /\ pc'[t] = "ensure" /\ Pending' # Pending
        /\ \/ op'[t] = op[t]
           \/ pc'[t] = "python"
           \/ op[t] = "init_context" /\ op'[t] = "ctx.undo"
        /\ pc[t] \in InNss => Pending' \subseteq Pending
<1>1. ASSUME IInv, NEW t \in Threads, NEW u \in Threads, Step(u)
      PROVE  Goes(t)
  <2>1. pc[t] \in InNss => Pending' \subseteq Pending
    BY <1>1, ListShrinks DEF IInv, LockOwner, LockFree, NobodyAssumption
  <2>2. CASE u = t
    BY <1>1, <2>1, <2>2, CallGoesOn DEF Nearer, KeepsCall
  <2>3. CASE u # t
    BY <1>1, <2>1, <2>3, OthersStay, OthersCallsStay
  <2>4. QED BY <2>2, <2>3
<1>2. IInv /\ [Next]_vars => [\A t \in Threads : Goes(t)]_vars
  BY <1>1 DEF Next
<1>3. QED
  BY Invariance, <1>2, PTL DEF Spec, CallsAdvance
=============================================================================
