---------------------------- MODULE NssLifecycle ----------------------------
(***************************************************************************)
(* Initialising and shutting down NSS from Python threads: the functions   *)
(* nss_init*, nss_initialize, nss_shutdown, nss_init_context,              *)
(* nss_shutdown_context, the InitContext objects, set_shutdown_callback    *)
(* and the C function NSS calls back at shutdown (py_nss.c).               *)
(*                                                                         *)
(* Two locks are at work: CPython's GIL and NSS's initialisation lock      *)
(* (NssInit).  Some functions give the GIL up around the NSS call and some *)
(* do not, and NSS keeps its lock while it runs the shutdown callbacks,    *)
(* each of which takes the GIL.  A thread is inside at most one API call;  *)
(* pc says how far it got.                                                 *)
(***************************************************************************)
EXTENDS Naturals, NssInit

CONSTANTS
  MainThread,  \* the thread the interpreter started with; it never exits
  EmptyTuple,  \* CPython's shared () object: the arguments of a callback
               \* set without user data, whoever sets it
  NoTuple,     \* no callback defined
  NoAddress    \* no context

ASSUME LifecycleAssumption ==
  /\ MainThread \in Threads
  /\ EmptyTuple \in Tuples
  /\ NoTuple \notin Tuples
  /\ NoAddress \notin Addresses

VARIABLES
  gil,        \* the thread that holds the GIL
  pc,         \* where each thread is
  op,         \* the API call each thread is in
  self,       \* the InitContext object of that call
  target,     \* the address that call passes to NSS_ShutdownContext
  newArgs,    \* the argument tuple that call to set_shutdown_callback holds
  current,    \* the shutdown list entry being called back
  status,     \* whether that call succeeded so far
  ctxAddr,    \* object slot -> the pointer kept in InitContext.context
  cbArgs,     \* thread local "shutdown_callback_args" (with its callback)
  armed       \* history: the thread's callback was registered since NSS
              \* was last initialised and not cancelled by that thread

callVars == <<op, self, target, newArgs, status>>
tlsVars  == <<cbArgs, armed>>
vars == <<nssVars, gil, pc, callVars, current, ctxAddr, tlsVars>>

(* The functions that keep the GIL during the NSS call, and those that     *)
(* release it (Py_BEGIN_ALLOW_THREADS).                                    *)
KeepsGil == {"init_context", "ctx.shutdown", "ctx.dealloc", "ctx.undo",
             "set_callback"}
DropsGil == {"init", "initialize", "shutdown", "shutdown_context"}
Ops == {"none"} \cup KeepsGil \cup DropsGil

(* python: running bytecode.  entry, unregister, register: about to enter  *)
(* NSS.  ensure, callback, finish: inside nss_Shutdown, holding NSS's      *)
(* lock.  return: NSS is done.  noGil: C code used the Python API without  *)
(* the GIL; the process dies there.                                        *)
NeedsGil  == {"python", "ensure", "callback", "return"}
InNss     == {"ensure", "callback", "finish"}
WaitsLock == {"entry", "unregister", "register"}
Dead      == {"noGil"}
Places == NeedsGil \cup InNss \cup WaitsLock \cup Dead \cup {"exited"}

Crashed == \E t \in Threads : pc[t] \in Dead
Live(c) == ctxAddr[c] # NoAddress
InUse(c) == \E t \in Threads : self[t] = c
Reachable(c) ==
  Live(c) /\ ~ \E t \in Threads : self[t] = c /\ op[t] = "ctx.dealloc"

(* A tuple exists as long as a thread local dict or a call in progress     *)
(* refers to it; NSS's shutdown list holds a bare pointer.                 *)
Holds(t, p) == p \in {cbArgs[t], newArgs[t]}
Allocated(p) == p = EmptyTuple \/ \E t \in Threads : Holds(t, p)

TypeOK ==
  /\ NssTypeOK
  /\ gil \in Threads \cup {NoThread}
  /\ pc \in [Threads -> Places]
  /\ op \in [Threads -> Ops]
  /\ self \in [Threads -> Objects \cup {NoObject}]
  /\ target \in [Threads -> Addresses \cup {NoAddress}]
  /\ newArgs \in [Threads -> Tuples \cup {NoTuple}]
  /\ current \in Tuples \cup {NoTuple}
  /\ status \in [Threads -> BOOLEAN]
  /\ ctxAddr \in [Objects -> Addresses \cup {NoAddress}]
  /\ cbArgs \in [Threads -> Tuples \cup {NoTuple}]
  /\ armed \in [Threads -> BOOLEAN]

Init ==
  /\ NssStart
  /\ gil = NoThread
  /\ pc = [t \in Threads |-> "python"]
  /\ op = [t \in Threads |-> "none"]
  /\ self = [t \in Threads |-> NoObject]
  /\ target = [t \in Threads |-> NoAddress]
  /\ newArgs = [t \in Threads |-> NoTuple]
  /\ current = NoTuple
  /\ status = [t \in Threads |-> TRUE]
  /\ ctxAddr = [o \in Objects |-> NoAddress]
  /\ cbArgs = [t \in Threads |-> NoTuple]
  /\ armed = [t \in Threads |-> FALSE]

Goto(t, place) == pc' = [pc EXCEPT ![t] = place]

-----------------------------------------------------------------------------
(* The GIL.                                                                *)

AcquireGil(t) ==
  /\ gil = NoThread
  /\ pc[t] \in NeedsGil
  /\ gil' = t
  /\ UNCHANGED <<nssVars, pc, callVars, current, ctxAddr, tlsVars>>

(* The evaluation loop drops the GIL when another thread asks for it.      *)
SwitchThread(t) ==
  /\ gil = t
  /\ pc[t] \in {"python", "callback"}
  /\ \E u \in Threads \ {t} : pc[u] \in NeedsGil
  /\ gil' = NoThread
  /\ UNCHANGED <<nssVars, pc, callVars, current, ctxAddr, tlsVars>>

(* A thread that ends drops CPython's reference to the dict its callback   *)
(* is in.  The one set_thread_local got from PyDict_New is never given     *)
(* back, so the dict and the argument tuple in it survive the thread.      *)
ThreadExit(t) ==
  /\ gil = t
  /\ pc[t] = "python"
  /\ t # MainThread
  /\ gil' = NoThread
  /\ Goto(t, "exited")
  /\ UNCHANGED <<nssVars, callVars, current, ctxAddr, tlsVars>>

-----------------------------------------------------------------------------
(* Calling a function of the module: its arguments are parsed, and the GIL *)
(* is dropped if the function does that.                                   *)

Call(t, o, place) ==
  /\ gil = t
  /\ pc[t] = "python"
  /\ gil' = IF o \in DropsGil THEN NoThread ELSE t
  /\ Goto(t, place)
  /\ op' = [op EXCEPT ![t] = o]
  /\ status' = [status EXCEPT ![t] = TRUE]
  /\ UNCHANGED <<nssVars, current, ctxAddr, tlsVars>>

CallWithoutObject(t, o) ==
  /\ Call(t, o, "entry")
  /\ UNCHANGED <<self, target, newArgs>>

nss_init(t)            == CallWithoutObject(t, "init")
nss_init_read_write(t) == CallWithoutObject(t, "init")
nss_init_nodb(t)       == CallWithoutObject(t, "init")
nss_initialize(t)      == CallWithoutObject(t, "initialize")
nss_shutdown(t)        == CallWithoutObject(t, "shutdown")
nss_init_context(t)    == CallWithoutObject(t, "init_context")

(* Mutant: an object under destruction may still be called.                *)
CallOnDyingContext(t, o, c) ==
  /\ Live(c)
  /\ Call(t, o, "entry")
  /\ self' = [self EXCEPT ![t] = c]
  /\ target' = [target EXCEPT ![t] = ctxAddr[c]]
  /\ UNCHANGED newArgs

CallOnContext(t, o, c) ==
  /\ Reachable(c)
  /\ Call(t, o, "entry")
  /\ self' = [self EXCEPT ![t] = c]
  /\ target' = [target EXCEPT ![t] = ctxAddr[c]]
  /\ UNCHANGED newArgs

nss_shutdown_context(t, c) == CallOnContext(t, "shutdown_context", c)
InitContext_shutdown(t, c) == CallOnContext(t, "ctx.shutdown", c)

(* The last reference goes away: no call is using the object.              *)
InitContext_dealloc(t, c) == ~InUse(c) /\ CallOnContext(t, "ctx.dealloc", c)

(* set_shutdown_callback(callback, ...) builds the argument tuple, which   *)
(* is the shared () when there is no user data;                            *)
(* set_shutdown_callback(None) carries no tuple that matters.              *)
nss_set_shutdown_callback(t, p) ==
  /\ p \in {EmptyTuple, NoTuple} \/ ~Allocated(p)
  /\ Call(t, "set_callback", "unregister")
  /\ newArgs' = [newArgs EXCEPT ![t] = p]
  /\ UNCHANGED <<self, target>>

-----------------------------------------------------------------------------
(* Inside the NSS calls.                                                   *)

(* What the function does with NSS's answer.  The error paths of           *)
(* nss_initialize and nss_shutdown_context call set_nspr_error, a Python   *)
(* API user, before the GIL is back; the others take it first.             *)
Answer(t, ok) ==
  /\ Goto(t, IF ~ok /\ op[t] \in {"initialize", "shutdown_context"}
               THEN "noGil" ELSE "return")
  /\ status' = [status EXCEPT ![t] = ok]

InitStep(t) ==
  /\ pc[t] = "entry"
  /\ op[t] \in {"init", "initialize"}
  /\ \E ok \in BOOLEAN : NSS_Initialize(ok) /\ Answer(t, ok)
  /\ UNCHANGED <<gil, op, self, target, newArgs, current, ctxAddr, tlsVars>>

(* NSS_InitContext fails (the object made for the NULL context is lost);   *)
(* or gives a node that a new object wraps; or the object cannot be        *)
(* allocated and the node must be given back.                              *)
InitContextFails(t) ==
  /\ pc[t] = "entry" /\ op[t] = "init_context"
  /\ LockFree
  /\ Answer(t, FALSE)
  /\ UNCHANGED <<nssVars, gil, op, self, target, newArgs, current, ctxAddr, tlsVars>>

(* Mutant: the object may have a context already, which it forgets.        *)
InitContext_newForgets(t, a, c) ==
  /\ pc[t] = "entry" /\ op[t] = "init_context"
  /\ NSS_InitContext(a, c)
  /\ ctxAddr' = [ctxAddr EXCEPT ![c] = a]
  /\ Answer(t, TRUE)
  /\ UNCHANGED <<gil, op, self, target, newArgs, current, tlsVars>>

InitContext_new_from_NSSInitContext(t, a, c) ==
  /\ pc[t] = "entry" /\ op[t] = "init_context"
  /\ ~Live(c)
  /\ NSS_InitContext(a, c)
  /\ ctxAddr' = [ctxAddr EXCEPT ![c] = a]
  /\ Answer(t, TRUE)
  /\ UNCHANGED <<gil, op, self, target, newArgs, current, tlsVars>>

(* Mutant: the error path forgets to give the node back.                   *)
InitContextObjectLeaks(t, a) ==
  /\ pc[t] = "entry" /\ op[t] = "init_context"
  /\ NSS_InitContext(a, Orphan)
  /\ Answer(t, FALSE)
  /\ UNCHANGED <<gil, op, self, target, newArgs, current, ctxAddr, tlsVars>>

InitContextObjectFails(t, a) ==
  /\ pc[t] = "entry" /\ op[t] = "init_context"
  /\ NSS_InitContext(a, Orphan)
  /\ op' = [op EXCEPT ![t] = "ctx.undo"]
  /\ target' = [target EXCEPT ![t] = a]
  /\ UNCHANGED <<gil, pc, self, newArgs, status, current, ctxAddr, tlsVars>>

ContextClosers == {"shutdown_context", "ctx.shutdown", "ctx.dealloc",
                   "ctx.undo"}

Draining == IF \E p \in Tuples : Registered(p) THEN "ensure" ELSE "finish"

(* NSS_ShutdownContext takes the node off the list, if it is there, and    *)
(* shuts NSS down when that was its last user.                             *)
ShutdownContextStep(t) ==
  LET a == target[t]
      lastUser == ~nssIsInitted /\ \A b \in Addresses \ {a} : ~Listed(b)
  IN
  /\ pc[t] = "entry" /\ op[t] \in ContextClosers
  /\ LockFree
  /\ \/ /\ ~Listed(a)
        /\ Answer(t, FALSE)
        /\ UNCHANGED nssVars
     \/ /\ Listed(a) /\ ~lastUser
        /\ contextOwner' = [contextOwner EXCEPT ![a] = NoObject]
        /\ Answer(t, TRUE)
        /\ UNCHANGED <<nssInitLock, nssIsInitted, registrant>>
     \/ /\ Listed(a) /\ lastUser
        /\ contextOwner' = [contextOwner EXCEPT ![a] = NoObject]
        /\ BeginNssShutdown(t)
        /\ Goto(t, Draining)
        /\ UNCHANGED status
  /\ UNCHANGED <<gil, op, self, target, newArgs, current, ctxAddr, tlsVars>>

(* NSS_Shutdown answers only to a traditional initialisation, but takes    *)
(* every context down with it (EndNssShutdown).                            *)
ShutdownStep(t) ==
  /\ pc[t] = "entry" /\ op[t] = "shutdown"
  /\ LockFree
  /\ \/ /\ ~nssIsInitted
        /\ Answer(t, FALSE)
        /\ UNCHANGED nssVars
     \/ /\ nssIsInitted
        /\ BeginNssShutdown(t)
        /\ Goto(t, Draining)
        /\ UNCHANGED <<contextOwner, status>>
  /\ UNCHANGED <<gil, op, self, target, newArgs, current, ctxAddr, tlsVars>>

-----------------------------------------------------------------------------
(* The thread local dict, seen through the one entry that matters here.    *)
(* Deleting an absent key is a KeyError if the dict exists at all, which   *)
(* other callbacks may have seen to, and success if it does not.           *)
get_thread_local(t) == cbArgs[t]
set_thread_local(t, p) == cbArgs' = [cbArgs EXCEPT ![t] = p]
del_thread_local(t, ok) ==
  /\ get_thread_local(t) # NoTuple => ok
  /\ cbArgs' = [cbArgs EXCEPT ![t] = NoTuple]

(* NSS_Shutdown_Callback(app_data = p): runs with NSS's lock held, takes   *)
(* the GIL with PyGILState_Ensure (which is nothing to a thread that has   *)
(* it already) and looks the callback up in the thread local storage of    *)
(* the thread that is shutting NSS down.                                   *)

PyGILState_Release(t) == gil' = IF op[t] \in DropsGil THEN NoThread ELSE t

AfterEntry(t, p) ==
  Goto(t, IF \E q \in Tuples \ {p} : Registered(q) THEN "ensure"
                                                   ELSE "finish")

(* Mutant: the early return misses PyGILState_Release.                     *)
CallbackUndefinedKeepsGil(t, p) ==
  /\ pc[t] = "ensure" /\ gil = t
  /\ Registered(p)
  /\ get_thread_local(t) = NoTuple
  /\ ShutdownEntryDone(p)
  /\ AfterEntry(t, p)
  /\ UNCHANGED <<gil, callVars, current, ctxAddr, tlsVars>>

CallbackUndefined(t, p) ==
  /\ pc[t] = "ensure" /\ gil = t
  /\ Registered(p)
  /\ get_thread_local(t) = NoTuple
  /\ ShutdownEntryDone(p)
  /\ AfterEntry(t, p)
  /\ PyGILState_Release(t)
  /\ UNCHANGED <<callVars, current, ctxAddr, tlsVars>>

CallbackStart(t, p) ==
  /\ pc[t] = "ensure" /\ gil = t
  /\ Registered(p)
  /\ get_thread_local(t) # NoTuple
  /\ Goto(t, "callback")
  /\ current' = p
  /\ UNCHANGED <<nssVars, gil, callVars, ctxAddr, tlsVars>>

(* True and an exception both leave SECSuccess; False and any object that  *)
(* is not a bool are SECFailure.  A failure of one entry is the failure of *)
(* the whole shutdown.                                                     *)
Results == {"True", "False", "exception", "other"}
CallbackStatus(result) == result \in {"True", "exception"}

(* Mutant: the last callback decides.                                      *)
CallbackReturnLastWins(t, result) ==
  /\ pc[t] = "callback" /\ gil = t
  /\ ShutdownEntryDone(current)
  /\ AfterEntry(t, current)
  /\ PyGILState_Release(t)
  /\ current' = NoTuple
  /\ status' = [status EXCEPT ![t] = CallbackStatus(result)]
  /\ UNCHANGED <<op, self, target, newArgs, ctxAddr, tlsVars>>

(* Mutant: a callback that answers False is called again.                  *)
CallbackReturnRetries(t, result) ==
  /\ pc[t] = "callback" /\ gil = t
  /\ IF result = "False"
       THEN Goto(t, "ensure") /\ UNCHANGED nssVars
       ELSE ShutdownEntryDone(current) /\ AfterEntry(t, current)
  /\ PyGILState_Release(t)
  /\ current' = NoTuple
  /\ status' = [status EXCEPT ![t] = status[t] /\ CallbackStatus(result)]
  /\ UNCHANGED <<op, self, target, newArgs, ctxAddr, tlsVars>>

CallbackReturn(t, result) ==
  /\ pc[t] = "callback" /\ gil = t
  /\ ShutdownEntryDone(current)
  /\ AfterEntry(t, current)
  /\ PyGILState_Release(t)
  /\ current' = NoTuple
  /\ status' = [status EXCEPT ![t] = status[t] /\ CallbackStatus(result)]
  /\ UNCHANGED <<op, self, target, newArgs, ctxAddr, tlsVars>>

(* Mutant: only what NSS itself finds is reported.                         *)
ShutdownFinishForgets(t, busy) ==
  /\ pc[t] = "finish"
  /\ EndNssShutdown
  /\ Answer(t, ~busy)
  /\ armed' = [u \in Threads |-> FALSE]
  /\ UNCHANGED <<gil, op, self, target, newArgs, current, ctxAddr, cbArgs>>

(* The rest of nss_Shutdown; busy: NSS objects are still referenced.       *)
ShutdownFinish(t, busy) ==
  /\ pc[t] = "finish"
  /\ EndNssShutdown
  /\ Answer(t, status[t] /\ ~busy)
  /\ armed' = [u \in Threads |-> FALSE]
  /\ UNCHANGED <<gil, op, self, target, newArgs, current, ctxAddr, cbArgs>>

-----------------------------------------------------------------------------
(* set_shutdown_callback inside: the thread's previous registration, if it *)
(* has one, is cancelled; then the thread local callback is replaced and   *)
(* its arguments are registered next, or it is removed, for None.          *)
StoreCallback(t) ==
  /\ pc[t] = "unregister"
  /\ armed' = [armed EXCEPT ![t] = FALSE]
  /\ \/ /\ newArgs[t] # NoTuple
        /\ set_thread_local(t, newArgs[t])
        /\ Goto(t, "register")
        /\ UNCHANGED status
     \/ /\ newArgs[t] = NoTuple
        /\ \E ok \in BOOLEAN : /\ del_thread_local(t, ok)
                              /\ status' = [status EXCEPT ![t] = ok]
        /\ Goto(t, "return")
  /\ UNCHANGED <<gil, op, self, target, newArgs, current, ctxAddr>>

(* Mutants: the previous registration is not cancelled; it is looked up in *)
(* a variable all threads share.                                           *)
UnregisterNothing(t) == StoreCallback(t) /\ UNCHANGED nssVars

UnregisterAnyones(t) ==
  /\ StoreCallback(t)
  /\ IF \A u \in Threads : cbArgs[u] = NoTuple
       THEN UNCHANGED nssVars
       ELSE \E u \in Threads :
              cbArgs[u] # NoTuple /\ NSS_UnregisterShutdown(cbArgs[u])

UnregisterStep(t) ==
  LET old == get_thread_local(t) IN
  /\ IF old = NoTuple THEN UNCHANGED nssVars ELSE NSS_UnregisterShutdown(old)
  /\ StoreCallback(t)

RegisterStep(t) ==
  /\ pc[t] = "register"
  /\ NSS_RegisterShutdown(t, newArgs[t])
  /\ \E up \in BOOLEAN : /\ up <=> NSS_IsInitialized
                        /\ armed' = [armed EXCEPT ![t] = up]
  /\ Goto(t, "return")
  /\ UNCHANGED <<gil, callVars, current, ctxAddr, cbArgs>>

(* Back in Python, with the GIL; a deallocated object is gone.             *)
Return(t) ==
  /\ pc[t] = "return" /\ gil = t
  /\ Goto(t, "python")
  /\ op' = [op EXCEPT ![t] = "none"]
  /\ self' = [self EXCEPT ![t] = NoObject]
  /\ target' = [target EXCEPT ![t] = NoAddress]
  /\ newArgs' = [newArgs EXCEPT ![t] = NoTuple]
  /\ status' = [status EXCEPT ![t] = TRUE]
  /\ ctxAddr' = IF op[t] = "ctx.dealloc"
                  THEN [ctxAddr EXCEPT ![self[t]] = NoAddress] ELSE ctxAddr
  /\ UNCHANGED <<nssVars, gil, current, tlsVars>>

-----------------------------------------------------------------------------

UserCall(t) ==
  \/ nss_init(t) \/ nss_init_read_write(t) \/ nss_init_nodb(t)
  \/ nss_initialize(t)
  \/ nss_shutdown(t)
  \/ nss_init_context(t)
  \/ \E c \in Objects : \/ nss_shutdown_context(t, c)
                        \/ InitContext_shutdown(t, c)
                        \/ InitContext_dealloc(t, c)
  \/ \E p \in Tuples \cup {NoTuple} : nss_set_shutdown_callback(t, p)

Progress(t) ==
  \/ InitStep(t)
  \/ InitContextFails(t)
  \/ \E a \in Addresses :
       \/ InitContextObjectFails(t, a)
       \/ \E c \in Objects : InitContext_new_from_NSSInitContext(t, a, c)
  \/ ShutdownContextStep(t)
  \/ ShutdownStep(t)
  \/ \E p \in Tuples : CallbackUndefined(t, p) \/ CallbackStart(t, p)
  \/ \E result \in Results : CallbackReturn(t, result)
  \/ \E busy \in BOOLEAN : ShutdownFinish(t, busy)
  \/ UnregisterStep(t)
  \/ RegisterStep(t)
  \/ Return(t)

Step(t) == AcquireGil(t) \/ SwitchThread(t) \/ ThreadExit(t)
             \/ UserCall(t) \/ Progress(t)

Next == ~Crashed /\ \E t \in Threads : Step(t)

Spec == Init /\ [][Next]_vars

(* Threads keep running; the holder of the GIL gives it up on request; a   *)
(* thread waiting for the GIL or for NSS's lock is not starved; callbacks  *)
(* return.  Nobody is obliged to call anything.                            *)
Fairness ==
  \A t \in Threads :
    /\ SF_vars(~Crashed /\ AcquireGil(t))
    /\ SF_vars(~Crashed /\ SwitchThread(t))
    /\ SF_vars(~Crashed /\ Progress(t))

FairSpec == Spec /\ Fairness

-----------------------------------------------------------------------------
(* Properties that hold.                                                   *)

(* The lifecycle functions of py_nss.c: one that dropped the GIL does not  *)
(* hold it while it waits in NSS, one that kept it still has it, and after *)
(* NSS it is held again, also when NSS ran Python callbacks in between,    *)
(* which take it and give it back in the state they found it in            *)
(* (PyGILState_Ensure).  There are two ways out without it, and no others: *)
(* the error paths of nss_initialize and nss_shutdown_context, inside      *)
(* their Py_BEGIN_ALLOW_THREADS.                                           *)
GilBalance ==
  \A t \in Threads :
    /\ pc[t] \in WaitsLock \cup {"finish"} => (gil = t <=> op[t] \in KeepsGil)
    /\ pc[t] \in {"ensure", "return"} /\ op[t] \in KeepsGil => gil = t
    /\ pc[t] \in Dead =>
         /\ gil # t /\ ~status[t]
         /\ op[t] \in {"initialize", "shutdown_context"}

(* Every entry of NSS's shutdown list is the current callback of the       *)
(* thread that registered it, registered in this initialisation of NSS,    *)
(* so its argument tuple is still referenced, also after that thread ended *)
(* (NSS keeps a bare pointer; the reference is in the thread local dict).  *)
RegistrationCurrent ==
  \A p \in Tuples :
    Registered(p) =>
      LET t == registrant[p] IN cbArgs[t] = p /\ armed[t]

(* A callback with user data, once accepted by NSS, stays in the shutdown  *)
(* list until its thread cancels it or NSS is shut down, whatever other    *)
(* threads set and cancel.  (Callbacks without user data share the entry   *)
(* of the empty tuple and are excepted.)                                   *)
ArmedStaysListed ==
  LockFree =>
    \A t \in Threads :
      armed[t] /\ cbArgs[t] # EmptyTuple =>
        cbArgs[t] \in Tuples /\ Registered(cbArgs[t])

(* No NSS context without somebody who will close it: every listed context *)
(* belongs to an InitContext object that holds its address, or is being    *)
(* given back by nss_init_context because that object could not be made.   *)
Undoing(t, a) == op[t] = "ctx.undo" /\ pc[t] = "entry" /\ target[t] = a

NoLeakedContext ==
  \A a \in Addresses :
    Listed(a) => \/ \E c \in Objects : ctxAddr[c] = a
                 \/ \E t \in Threads : Undoing(t, a)

(* A call on an InitContext object takes no other's context off NSS's      *)
(* list, unless NSS has given another context the address the object still *)
(* holds: the address is all that links the two (DeallocClosesOnlyOwn is   *)
(* what goes wrong otherwise).                                             *)
AddressShared(t) ==
  \/ \E c \in Objects \ {self[t]} : ctxAddr[c] = target[t]
  \/ \E u \in Threads : Undoing(u, target[t])

ClosesOnlyOwn ==
  [][\A t \in Threads :
       /\ pc[t] = "entry" /\ pc'[t] # "entry"
       /\ op[t] \in ContextClosers \ {"ctx.undo"} /\ ~AddressShared(t)
       => \A a \in Addresses :
            contextOwner[a] \notin {NoObject, self[t]} =>
              contextOwner'[a] = contextOwner[a]]_vars

(* A shutdown that has begun always runs to the end, whatever its          *)
(* callbacks answer: when it lets go of NSS, NSS is down, no callback is   *)
(* left registered, and a failure of any callback is the caller's error.   *)
ShutdownOutcome ==
  [][\A t \in Threads :
       pc[t] \in InNss =>
         /\ pc'[t] \notin InNss =>
              ~NSS_IsInitialized' /\ \A p \in Tuples : ~Registered(p)'
         /\ ~status[t] => ~status'[t]]_vars

(* The entries of the shutdown list; how far a call still has to go.       *)
Pending == {p \in Tuples : Registered(p)}

ToGo == [python |-> 0, exited |-> 0, noGil |-> 0, return |-> 1, finish |-> 2,
         register |-> 2, unregister |-> 3, callback |-> 3, ensure |-> 4,
         entry |-> 5]

(* With the GIL, about to deal with an entry.                              *)
HasEntry(t) == pc[t] = "ensure" /\ gil = t

(* A call only goes on towards its return, apart from waiting for the GIL: *)
(* nothing is done twice.  nss_Shutdown may come back to its list, but     *)
(* each time with fewer entries, for no thread can register a callback     *)
(* while it lasts: each is called once.  So a call that lasts for ever is  *)
(* one that waits for a lock or for a Python callback.                     *)
CallsAdvance ==
  [][\A t \in Threads : op[t] # "none" =>
       /\ \/ pc'[t] = pc[t] /\ (HasEntry(t) => gil' = t)
          \/ ToGo[pc'[t]] < ToGo[pc[t]]
          \/ pc[t] \in InNss /\ pc'[t] = "ensure" /\ Pending' # Pending
       /\ \/ op'[t] = op[t]
          \/ pc'[t] = "python"
          \/ op[t] = "init_context" /\ op'[t] = "ctx.undo"
       /\ pc[t] \in InNss => Pending' \subseteq Pending]_vars

(* As long as no callback is registered the GIL and NSS's lock cannot      *)
(* block each other: a thread may wait for the GIL while its holder waits  *)
(* for NSS's lock, but then the holder of that lock waits for nobody.      *)
(* Every cycle of waiting threads has chains of any length.                *)
WaitsFor(t, u) ==
  \/ pc[t] \in NeedsGil /\ gil = u /\ t # u
  \/ pc[t] \in WaitsLock /\ nssInitLock = u

LocksOrdered ==
  (\A p \in Tuples : ~Registered(p)) =>
    ~ \E t, u, v, w \in Threads :
        WaitsFor(t, u) /\ WaitsFor(u, v) /\ WaitsFor(v, w)

(* The functions implement NssLifetime.  While nss_Shutdown runs nothing   *)
(* is in use any more; past NSS's entry, status is the answer to the call. *)
Kind(t) ==
  CASE op[t] \notin ContextClosers \cup {"shutdown"} -> "none"
    [] op[t] = "shutdown" /\ pc[t] = "entry"         -> "shutdown"
    [] op[t] \in ContextClosers /\ pc[t] = "entry"   -> "close"
    [] OTHER -> IF status[t] THEN "success" ELSE "failure"

Closes(t) == IF op[t] \in ContextClosers THEN target[t] ELSE NoAddress

Initialized  == LockFree /\ nssIsInitted
OpenContexts == {a \in Addresses : LockFree /\ Listed(a)}
Requests     == [t \in Threads |-> [kind |-> Kind(t), context |-> Closes(t)]]

Lifetime == INSTANCE NssLifetime WITH
  Contexts  <- Addresses, NoContext <- NoAddress, Callbacks <- Tuples,
  initialized <- Initialized, contexts <- OpenContexts,
  callbacks <- Pending, closing <- nssInitLock, request <- Requests

(* Every behaviour of the functions is one NssLifetime allows: a shutdown  *)
(* excludes all use of NSS, runs each callback it finds, leaves NSS down,  *)
(* and a call succeeds only if all that it set off did.                    *)
LifetimeSpec == Lifetime!Spec

(* Without shutdown callbacks the two locks cannot deadlock: every call    *)
(* returns (or the process dies in an error path without the GIL).         *)
InCall(t) == pc[t] \notin {"python", "exited"} /\ ~Crashed

CallsReturn ==
  [](\A t \in Threads : cbArgs[t] = NoTuple)
    => \A t \in Threads : InCall(t) ~> ~InCall(t)

-----------------------------------------------------------------------------
(* Properties the documentation states and the code does not have.         *)

(* ChangeLog: the missing thread locks of nss_initialize, nss_init_context *)
(* and nss_shutdown_context have been fixed.  No function uses the Python  *)
(* API without the GIL.                                                    *)
NoPythonWithoutGil == \A t \in Threads : pc[t] # "noGil"

(* InitContext_dealloc: if the context was already shut down,              *)
(* NSS_ShutdownContext will fail, so destroying an object leaves every     *)
(* context but its own alone.                                              *)
DeallocClosesOnlyOwn ==
  [][\A t \in Threads :
       pc[t] = "entry" /\ pc'[t] # "entry" /\ op[t] = "ctx.dealloc" =>
         \A a \in Addresses :
           contextOwner[a] \notin {NoObject, self[t]} =>
             contextOwner'[a] = contextOwner[a]]_vars

(* set_shutdown_callback: whatever the callback returns, the NSS shutdown  *)
(* function will complete.                                                 *)
ShutdownCompletes ==
  \A t \in Threads :
    pc[t] \in {"ensure", "callback"} ~> (pc[t] \notin InNss \/ Crashed)

-----------------------------------------------------------------------------
(* The inductive invariant behind the properties.                          *)

LockOwner ==
  \A t \in Threads : nssInitLock = t <=> pc[t] \in InNss

ListMeansUp ==
  \A p \in Tuples : Registered(p) =>
    IF LockFree THEN NSS_IsInitialized
                ELSE \A t \in Threads : pc[t] # "finish"

CallShape ==
  \A t \in Threads :
    /\ op[t] = "none" <=> pc[t] \in {"python", "exited"}
    /\ pc[t] = "entry" => op[t] # "set_callback" /\ status[t]
    /\ pc[t] \in {"unregister", "register"} => op[t] = "set_callback"
    /\ pc[t] \in InNss => op[t] \in ContextClosers \cup {"shutdown"}
    /\ op[t] \in ContextClosers => target[t] \in Addresses
    /\ op[t] \in ContextClosers \ {"ctx.undo"} =>
         self[t] \in Objects /\ ctxAddr[self[t]] = target[t]
    /\ op[t] # "set_callback" => newArgs[t] = NoTuple
    /\ pc[t] = "register" => newArgs[t] \in Tuples /\ cbArgs[t] = newArgs[t]
    /\ pc[t] = "callback" => current \in Tuples /\ Registered(current)

(* Two threads share no argument tuple except the empty one.               *)
TuplesPrivate ==
  \A p \in Tuples \ {EmptyTuple} : \A t, u \in Threads :
    Holds(t, p) /\ Holds(u, p) => t = u

(* An object being destroyed is used by nobody else, and past its call of  *)
(* NSS_ShutdownContext it owns no context.                                 *)
OwnersHold ==
  /\ \A a \in Addresses : contextOwner[a] \in Objects =>
       ctxAddr[contextOwner[a]] = a
  /\ \A a \in Addresses : contextOwner[a] = Orphan =>
       \E t \in Threads : Undoing(t, a)
  /\ \A t, u \in Threads :
       op[t] = "ctx.dealloc" /\ t # u => self[u] # self[t]
  /\ \A t \in Threads : \A a \in Addresses :
       op[t] = "ctx.dealloc" /\ pc[t] # "entry" => contextOwner[a] # self[t]

(* nss_Shutdown calls back only for entries that are there.                *)
CallsBackEntries ==
  \A t \in Threads : pc[t] = "ensure" => \E p \in Tuples : Registered(p)

IInv ==
  /\ TypeOK
  /\ CallShape
  /\ CallsBackEntries
  /\ GilBalance
  /\ LockOwner
  /\ ListMeansUp
  /\ RegistrationCurrent
  /\ TuplesPrivate
  /\ ArmedStaysListed
  /\ OwnersHold

=============================================================================
