------------------------------ MODULE SslHooks ------------------------------
(***************************************************************************)
(* The functions NSS calls back during an SSL handshake (py_ssl.c): the    *)
(* hooks set with set_auth_certificate_callback,                           *)
(* set_client_auth_data_callback and set_handshake_callback, the PIN       *)
(* arguments of set_pkcs11_pin_arg, and the password function of py_nss.c. *)
(*                                                                         *)
(* NSS keeps borrowed pointers per descriptor: to the SSLSocket a hook was *)
(* set through and to the tuple of PIN arguments.  A descriptor that was   *)
(* accepted starts with the pointers of the listening one (NSS does that;  *)
(* the servers in the tests and examples rely on it).  Nothing in the      *)
(* bindings keeps what these pointers refer to alive: that is left to the  *)
(* program, which follows Rules.                                           *)
(***************************************************************************)
EXTENDS Naturals, FiniteSets

CONSTANTS
  Threads, NoThread,
  Objects, NoObject,       \* memory for SSLSocket objects
  Descriptors, NoFd,       \* memory for NSPR descriptors
  Tags, NoTag,             \* callbacks, each with the user data given with it
  Pins, NoPin,             \* tuples of PIN arguments
  Hook,                    \* the hooks in use
  Passwords,               \* what set_password_callback is called with
  Rules                    \* what the program takes care of, see below

(* keep: an SSLSocket is dropped only when no descriptor opened or         *)
(* accepted through it is open and no hook set through it is running; its  *)
(* PIN arguments change only while no accepted descriptor uses them.       *)
(* alone: PIN arguments are not set, nor the descriptor closed, while      *)
(* another thread is using them.  Hooks may be set at any time.            *)
ASSUME HooksAssumption ==
  /\ NoThread \notin Threads /\ NoObject \notin Objects
  /\ NoFd \notin Descriptors /\ NoTag \notin Tags /\ NoPin \notin Pins
  /\ Hook \subseteq {"auth", "client", "handshake"}
  /\ Passwords \subseteq {"None", "callable"}
  /\ Rules \subseteq {"keep", "alone"}

VARIABLES
  held,        \* the SSLSockets the program holds
  fdOf,        \* object -> its pr_socket
  callback,    \* object, hook -> the callback stored in it
  data,        \* object, hook -> the user data stored in it
  pin,         \* object -> py_pk11_pin_args
  raced,       \* history: the hooks that two threads set at a time, object
               \* and hook, until a thread sets it alone
  open,        \* the descriptors that are open
  hookArg,     \* descriptor, hook -> the pointer NSS passes to the hook
  pinArg,      \* descriptor -> the pointer NSS passes for the PIN
  botched,     \* history: the descriptors whose last new PIN arguments NSS
               \* refused
  stage,       \* descriptor -> how far its handshake has come
  answer,      \* descriptor -> what the certificate callback came to
  line,        \* history: the objects a descriptor was opened and
               \* accepted through
  gil,         \* the thread that holds the GIL
  at,          \* where each thread is
  call,        \* the frame of the C function each thread is in
  torn,        \* history: the threads about to call a hook that was raced
               \* or set while they prepared the call
  passwordFunc,\* whether NSS has PK11_password_callback
  passwordOf   \* thread local "password_callback"

objVars  == <<held, fdOf, callback, data, pin, raced>>
nssVars  == <<open, hookArg, pinArg, botched, stage, answer, line>>
callVars == <<gil, at, call, torn>>
pwVars   == <<passwordFunc, passwordOf>>
vars == <<objVars, nssVars, callVars, pwVars>>

(* idle: running Python that does not concern SSL.  hooking, stored,       *)
(* pinning, storing: in a setter, having replaced an old value, whose      *)
(* destructor may run.  nss: inside NSS, without the GIL.  ensure: in a    *)
(* function NSS called, waiting for the GIL.  build: making the arguments. *)
(* python: in the callback.                                                *)
Setting == {"hooking", "stored", "pinning"}
Inside  == {"nss", "ensure", "build", "python"}
Places  == {"idle", "storing"} \cup Setting \cup Inside

Unfinished == {"start", "authed", "wrong", "unlocked", "ready"}
Complete   == {"shaken", "over"}
Stages     == Unfinished \cup Complete \cup {"failed"}
Answers    == {"none", "true", "false", "raise", "noTruth", "memory"}

Frames ==
  [obj : Objects \cup {NoObject}, fd : Descriptors \cup {NoFd},
   hook : Hook \cup {"none", "password"}, self : Objects \cup {NoObject},
   pin : Pins \cup {NoPin}, callback : Tags \cup {NoTag},
   data : Tags \cup {NoTag}, sock : Objects \cup {NoObject}]

Frame(o, d, h, s, p) ==
  [obj |-> o, fd |-> d, hook |-> h, self |-> s, pin |-> p,
   callback |-> NoTag, data |-> NoTag, sock |-> NoObject]
Carrying(f, c, v, n) ==
  [obj |-> f.obj, fd |-> f.fd, hook |-> f.hook, self |-> f.self,
   pin |-> f.pin, callback |-> c, data |-> v, sock |-> n]
NoFrame == Frame(NoObject, NoFd, "none", NoObject, NoPin)

(* An SSLSocket exists while the program or the arguments of a callback    *)
(* refer to it, a PIN tuple while an SSLSocket or the call that sets it    *)
(* does.                                                                   *)
Live == held \cup ({call[t].sock : t \in Threads} \ {NoObject})
PinLive(p) ==
  \/ \E o \in Live : pin[o] = p
  \/ \E t \in Threads : at[t] = "pinning" /\ call[t].pin = p

InNss(d) == \E t \in Threads : at[t] \in Inside /\ call[t].fd = d
Heirs(o) == {d \in open : o \in line[d]}

BeingHooked(u, o, h) ==
  at[u] = "hooking" /\ call[u].obj = o /\ call[u].hook = h
BeingPinned(o) == \E t \in Threads : at[t] = "pinning" /\ call[t].obj = o

(* The rules, where the program can break them.                            *)
MayDrop(o) ==
  "keep" \in Rules =>
    Heirs(o) = {} /\ \A t \in Threads : call[t].self # o
MaySetPin(o) ==
  /\ "keep" \in Rules => Heirs(o) \subseteq {fdOf[o]}
  /\ "alone" \in Rules =>
       ~BeingPinned(o) /\ \A d \in Heirs(o) : ~InNss(d)
Settled(d)  == "alone" \in Rules => \A o \in line[d] : ~BeingPinned(o)
MayClose(d) == "alone" \in Rules => ~InNss(d)

TypeOK ==
  /\ held \subseteq Objects
  /\ fdOf \in [Objects -> Descriptors \cup {NoFd}]
  /\ callback \in [Objects -> [Hook -> Tags \cup {NoTag}]]
  /\ data \in [Objects -> [Hook -> Tags \cup {NoTag}]]
  /\ pin \in [Objects -> Pins \cup {NoPin}]
  /\ raced \subseteq Objects \X Hook
  /\ open \subseteq Descriptors
  /\ hookArg \in [Descriptors -> [Hook -> Objects \cup {NoObject}]]
  /\ pinArg \in [Descriptors -> Pins \cup {NoPin}]
  /\ botched \subseteq Descriptors
  /\ stage \in [Descriptors -> Stages]
  /\ answer \in [Descriptors -> Answers]
  /\ line \in [Descriptors -> SUBSET Objects]
  /\ gil \in Threads \cup {NoThread}
  /\ at \in [Threads -> Places]
  /\ call \in [Threads -> Frames]
  /\ torn \subseteq Threads
  /\ passwordFunc \in BOOLEAN
  /\ passwordOf \in [Threads -> {"undefined"} \cup Passwords]

Unset(v) == [h \in Hook |-> v]

Init ==
  /\ held = {} /\ raced = {} /\ open = {} /\ botched = {} /\ torn = {}
  /\ fdOf = [o \in Objects |-> NoFd]
  /\ callback = [o \in Objects |-> Unset(NoTag)]
  /\ data = [o \in Objects |-> Unset(NoTag)]
  /\ pin = [o \in Objects |-> NoPin]
  /\ hookArg = [d \in Descriptors |-> Unset(NoObject)]
  /\ pinArg = [d \in Descriptors |-> NoPin]
  /\ stage = [d \in Descriptors |-> "start"]
  /\ answer = [d \in Descriptors |-> "none"]
  /\ line = [d \in Descriptors |-> {}]
  /\ gil = NoThread
  /\ at = [t \in Threads |-> "idle"]
  /\ call = [t \in Threads |-> NoFrame]
  /\ passwordFunc = FALSE
  /\ passwordOf = [t \in Threads |-> "undefined"]

-----------------------------------------------------------------------------
(* The GIL.  A thread that is idle takes it for the length of an action.   *)

Idle(t) == at[t] = "idle" /\ gil = NoThread
Running(t, place) == at[t] = place /\ gil = t

TakeGil(t) ==
  /\ gil = NoThread
  /\ at[t] \in Setting \cup {"storing", "build", "python"}
  /\ gil' = t
  /\ UNCHANGED <<objVars, nssVars, at, call, torn, pwVars>>

(* Python code runs: in the callback, in the destructor of a value that    *)
(* was replaced, in a garbage collection an allocation sets off.           *)
YieldGil(t) ==
  /\ gil = t
  /\ gil' = NoThread
  /\ UNCHANGED <<objVars, nssVars, at, call, torn, pwVars>>

-----------------------------------------------------------------------------
(* SSLSocket objects.                                                      *)

(* Mutant: the user data is left as it was in memory.                      *)
SSLSocket_clearCallbacks(o) ==
  /\ callback' = [callback EXCEPT ![o] = Unset(NoTag)]
  /\ pin' = [pin EXCEPT ![o] = NoPin]
  /\ raced' = raced \ ({o} \X Hook)
  /\ UNCHANGED data

(* The fields are NULL when an object is made and when it is destroyed.    *)
SSLSocket_clear(o) ==
  /\ callback' = [callback EXCEPT ![o] = Unset(NoTag)]
  /\ data' = [data EXCEPT ![o] = Unset(NoTag)]
  /\ pin' = [pin EXCEPT ![o] = NoPin]
  /\ raced' = raced \ ({o} \X Hook)

(* A handshake that NSS has not begun.                                     *)
NewHandshake(d) ==
  /\ stage' = [stage EXCEPT ![d] = "start"]
  /\ answer' = [answer EXCEPT ![d] = "none"]

Fresh(d) ==
  /\ hookArg' = [hookArg EXCEPT ![d] = Unset(NoObject)]
  /\ pinArg' = [pinArg EXCEPT ![d] = NoPin]
  /\ botched' = botched \ {d}
  /\ NewHandshake(d)

(* A new object, also from import_tcp_socket; or a second __init__, which  *)
(* keeps the hooks and PIN arguments in the object.  That it closes the    *)
(* old descriptor first is Socket_close.                                   *)
SSLSocket_init(t, o, d) ==
  /\ Idle(t)
  /\ d \notin open
  /\ \/ o \notin Live /\ SSLSocket_clear(o)
     \/ /\ o \in held /\ fdOf[o] = NoFd
        /\ UNCHANGED <<callback, data, pin, raced>>
  /\ fdOf' = [fdOf EXCEPT ![o] = d]
  /\ held' = held \cup {o}
  /\ open' = open \cup {d}
  /\ Fresh(d)
  /\ line' = [line EXCEPT ![d] = {o}]
  /\ UNCHANGED <<callVars, pwVars>>

(* The object for the accepted descriptor may fail to be made; the         *)
(* descriptor then stays open.                                             *)
SSLSocket_accept(t, o, d, n) ==
  /\ Idle(t)
  /\ o \in held /\ fdOf[o] \in open /\ d \notin open
  /\ n \notin Live
  /\ Settled(fdOf[o])
  /\ open' = open \cup {d}
  /\ hookArg' = [hookArg EXCEPT ![d] = hookArg[fdOf[o]]]
  /\ pinArg' = [pinArg EXCEPT ![d] = pinArg[fdOf[o]]]
  /\ botched' = IF fdOf[o] \in botched THEN botched \cup {d}
                ELSE botched \ {d}
  /\ NewHandshake(d)
  /\ \/ /\ SSLSocket_clear(n)
        /\ fdOf' = [fdOf EXCEPT ![n] = d]
        /\ held' = held \cup {n}
        /\ line' = [line EXCEPT ![d] = line[fdOf[o]] \cup {n}]
     \/ /\ line' = [line EXCEPT ![d] = line[fdOf[o]]]
        /\ UNCHANGED objVars
  /\ UNCHANGED <<callVars, pwVars>>

Socket_close(t, o) ==
  /\ Idle(t)
  /\ o \in held /\ fdOf[o] \in open
  /\ MayClose(fdOf[o])
  /\ open' = open \ {fdOf[o]}
  /\ Fresh(fdOf[o])
  /\ line' = [line EXCEPT ![fdOf[o]] = {}]
  /\ fdOf' = [fdOf EXCEPT ![o] = NoFd]
  /\ UNCHANGED <<held, callback, data, pin, raced, callVars, pwVars>>

(* The program drops its last reference.  The descriptor stays open.  The  *)
(* call of a method refers to its object and a callback to its arguments,  *)
(* but a hook does not to what NSS passes it.                              *)
SSLSocket_dealloc(t, o) ==
  /\ Idle(t)
  /\ o \in held /\ \A u \in Threads : o \notin {call[u].obj, call[u].sock}
  /\ MayDrop(o)
  /\ held' = held \ {o}
  /\ SSLSocket_clear(o)
  /\ fdOf' = [fdOf EXCEPT ![o] = NoFd]
  /\ UNCHANGED <<nssVars, callVars, pwVars>>

-----------------------------------------------------------------------------
(* The setters.  The previous value is released before the new one is      *)
(* known to NSS.                                                           *)

Enter(t, place, frame) ==
  /\ Idle(t)
  /\ gil' = t
  /\ at' = [at EXCEPT ![t] = place]
  /\ call' = [call EXCEPT ![t] = frame]

Leave(t) ==
  /\ gil' = NoThread
  /\ at' = [at EXCEPT ![t] = "idle"]
  /\ call' = [call EXCEPT ![t] = NoFrame]

(* The frame of set_*_callback, with the new user data.                    *)
SetterFrame(o, h, new) ==
  Carrying(Frame(o, NoFd, h, NoObject, NoPin), NoTag, new, NoObject)

(* Another thread may be setting the same hook, or calling it.             *)
SetHook(t, o, h, new) ==
  /\ o \in held
  /\ Enter(t, "hooking", SetterFrame(o, h, new))
  /\ callback' = [callback EXCEPT ![o][h] = new]
  /\ raced' = IF \E u \in Threads : BeingHooked(u, o, h)
              THEN raced \cup {<<o, h>>} ELSE raced \ {<<o, h>>}
  /\ torn' = torn \cup {u \in Threads : /\ at[u] = "build"
                                       /\ call[u].self = o
                                       /\ call[u].hook = h}
  /\ UNCHANGED <<held, fdOf, data, pin, nssVars, pwVars>>

(* Mutant: user data, once given, stays.                                   *)
StoreDataOnce(t) ==
  LET o == call[t].obj
      h == call[t].hook
  IN  /\ Running(t, "hooking")
      /\ data' = IF data[o][h] = NoTag
                 THEN [data EXCEPT ![o][h] = call[t].data] ELSE data
      /\ at' = [at EXCEPT ![t] = "stored"]
      /\ UNCHANGED <<held, fdOf, callback, pin, raced, nssVars, gil, call,
                     torn, pwVars>>

StoreData(t) ==
  /\ Running(t, "hooking")
  /\ data' = [data EXCEPT ![call[t].obj][call[t].hook] = call[t].data]
  /\ at' = [at EXCEPT ![t] = "stored"]
  /\ UNCHANGED <<held, fdOf, callback, pin, raced, nssVars, gil, call, torn,
                 pwVars>>

(* NSS refuses the hook on a descriptor that is closed; callback and user  *)
(* data stay in the object.                                                *)
HookNss(t) ==
  LET o == call[t].obj
  IN  /\ Running(t, "stored")
      /\ \/ /\ fdOf[o] \in open
            /\ hookArg' = [hookArg EXCEPT ![fdOf[o]][call[t].hook] = o]
         \/ UNCHANGED hookArg
      /\ Leave(t)
      /\ UNCHANGED <<objVars, open, pinArg, botched, stage, answer, line,
                     torn, pwVars>>

SSLSocket_set_pkcs11_pin_arg(t, o, p) ==
  /\ o \in held
  /\ ~PinLive(p)
  /\ MaySetPin(o)
  /\ Enter(t, "pinning", Frame(o, NoFd, "none", NoObject, p))
  /\ pin' = [pin EXCEPT ![o] = p]
  /\ UNCHANGED <<held, fdOf, callback, data, raced, nssVars, torn, pwVars>>

(* NSS has taken the new arguments, or refused them: then they are dropped *)
(* although the previous ones, already released, stay with NSS.            *)
PinTaken(o, p) ==
  /\ fdOf[o] \in open
  /\ pinArg' = [pinArg EXCEPT ![fdOf[o]] = p]
  /\ botched' = botched \ {fdOf[o]}
PinRefused(o) ==
  /\ pin' = [pin EXCEPT ![o] = NoPin]
  /\ botched' = botched \cup ({fdOf[o]} \cap open)

(* Mutant: the reference is dropped as on the error path.                  *)
SSL_SetPKCS11PinArgDropped(t) ==
  LET o == call[t].obj
  IN  /\ Running(t, "pinning")
      /\ PinTaken(o, call[t].pin)
      /\ pin' = [pin EXCEPT ![o] = NoPin]
      /\ Leave(t)
      /\ UNCHANGED <<held, fdOf, callback, data, raced, open, hookArg, stage,
                     answer, line, torn, pwVars>>

SSL_SetPKCS11PinArg(t) ==
  LET o == call[t].obj
  IN  /\ Running(t, "pinning")
      /\ \/ PinTaken(o, call[t].pin) /\ UNCHANGED pin
         \/ PinRefused(o) /\ UNCHANGED pinArg
      /\ Leave(t)
      /\ UNCHANGED <<held, fdOf, callback, data, raced, open, hookArg, stage,
                     answer, line, torn, pwVars>>

pk11_set_password_callback(t, c) ==
  /\ Enter(t, "storing", NoFrame)
  /\ passwordOf' = [passwordOf EXCEPT ![t] = c]
  /\ UNCHANGED <<objVars, nssVars, torn, passwordFunc>>

PK11_SetPasswordFunc(t) ==
  /\ Running(t, "storing")
  /\ passwordFunc' = (passwordOf[t] = "callable")
  /\ Leave(t)
  /\ UNCHANGED <<objVars, nssVars, torn, passwordOf>>

(* A thread ends, and its storage with it; a new one takes its name.       *)
ThreadExit(t) ==
  /\ Idle(t)
  /\ passwordOf' = [passwordOf EXCEPT ![t] = "undefined"]
  /\ UNCHANGED <<objVars, nssVars, callVars, passwordFunc>>

-----------------------------------------------------------------------------
(* A handshake.  NSS runs it in the calling thread, which gave the GIL up. *)

HandshakeFrame(o, d) == Frame(o, d, "none", NoObject, NoPin)

(* It begins, or goes on where a call that timed out has left it.          *)
SSLSocket_force_handshake(t, o) ==
  /\ Idle(t)
  /\ o \in held /\ fdOf[o] \in open /\ stage[fdOf[o]] \in Unfinished
  /\ ~InNss(fdOf[o])
  /\ Settled(fdOf[o])
  /\ at' = [at EXCEPT ![t] = "nss"]
  /\ call' = [call EXCEPT ![t] = HandshakeFrame(o, fdOf[o])]
  /\ UNCHANGED <<objVars, nssVars, gil, torn, pwVars>>

(* NSS is asked for another handshake, which force_handshake then drives.  *)
(* It holds its lock on the descriptor while a handshake is in progress.   *)
AskAnother(t, o, s) ==
  /\ Idle(t)
  /\ o \in held /\ fdOf[o] \in open /\ stage[fdOf[o]] \in s
  /\ ~InNss(fdOf[o])
  /\ NewHandshake(fdOf[o])
  /\ UNCHANGED <<objVars, open, hookArg, pinArg, botched, line, callVars,
                 pwVars>>

SSLSocket_rehandshake(t, o)     == AskAnother(t, o, Complete)
SSLSocket_reset_handshake(t, o) == AskAnother(t, o, Stages)

Handshake(t, s) == at[t] = "nss" /\ stage[call[t].fd] \in s
Hooked(t, h) == h \in Hook /\ hookArg[call[t].fd][h] # NoObject

(* NSS reads its pointer and calls the function, which waits for the GIL.  *)
CallHook(t, h) ==
  /\ Hooked(t, h)
  /\ at' = [at EXCEPT ![t] = "ensure"]
  /\ call' = [call EXCEPT ![t] =
                 Frame(@.obj, @.fd, h, hookArg[@.fd][h], NoPin)]
  /\ UNCHANGED <<objVars, nssVars, gil, torn, pwVars>>

NssAuthenticates(t) == Handshake(t, {"start"}) /\ CallHook(t, "auth")
NssAsksClient(t) ==
  Handshake(t, {"authed", "unlocked"}) /\ CallHook(t, "client")
NssReports(t) == Handshake(t, {"shaken"}) /\ CallHook(t, "handshake")

(* NSS may ask for the password of a token, and again after a wrong one.   *)
NssAsksPassword(t) ==
  /\ Handshake(t, {"authed", "wrong"})
  /\ passwordFunc
  /\ at' = [at EXCEPT ![t] = "ensure"]
  /\ call' = [call EXCEPT ![t] =
                 Frame(@.obj, @.fd, "password", NoObject, pinArg[@.fd])]
  /\ UNCHANGED <<objVars, nssVars, gil, torn, pwVars>>

Reach(d, s) == stage' = [stage EXCEPT ![d] = s]

Advance(t, s) ==
  /\ Reach(call[t].fd, s)
  /\ UNCHANGED <<objVars, open, hookArg, pinArg, botched, answer, line,
                 callVars, pwVars>>

(* NSS's own check where no hook is set, or none is needed.                *)
NssAccepts(t) == Handshake(t, {"start"}) /\ Advance(t, "authed")
NssRefuses(t) == Handshake(t, Unfinished) /\ Advance(t, "failed")
NssCompletes(t) ==
  Handshake(t, {"authed", "unlocked", "ready"}) /\ Advance(t, "shaken")

(* Back in Python, with the handshake done or given up, or, while NSS      *)
(* waits for the peer, at the timeout.                                     *)
EndHandshake(t) ==
  /\ gil = NoThread
  /\ \/ Handshake(t, {"failed", "over"}) /\ UNCHANGED stage
     \/ /\ Handshake(t, {"shaken"}) /\ ~Hooked(t, "handshake")
        /\ Reach(call[t].fd, "over")
  /\ Leave(t)
  /\ UNCHANGED <<objVars, open, hookArg, pinArg, botched, answer, line, torn,
                 pwVars>>

NssTimesOut(t) ==
  /\ gil = NoThread
  /\ Handshake(t, Unfinished \ {"wrong"})
  /\ Leave(t)
  /\ UNCHANGED <<objVars, nssVars, torn, pwVars>>

-----------------------------------------------------------------------------
(* The functions NSS calls.                                                *)

Ensured(t) == at[t] = "ensure" /\ gil = NoThread

(* PyGILState_Ensure, and the size of the user data.                       *)
PyGILState_Ensure(t) ==
  LET o == call[t].self
      h == call[t].hook
  IN  /\ Ensured(t)
      /\ gil' = t
      /\ at' = [at EXCEPT ![t] = "build"]
      /\ IF h = "password" THEN UNCHANGED <<call, torn>>
         ELSE /\ call' = [call EXCEPT ![t] =
                              Carrying(@, NoTag, data[o][h], NoObject)]
              /\ torn' = IF \/ <<o, h>> \in raced
                            \/ \E u \in Threads : BeingHooked(u, o, h)
                         THEN torn \cup {t} ELSE torn \ {t}
      /\ UNCHANGED <<objVars, nssVars, pwVars>>

(* Mutant: an error return without PyGILState_Release.                     *)
PyGILState_ReleaseUnlessFailed(t, next, said) ==
  /\ gil' = IF next = "failed" THEN gil ELSE NoThread
  /\ at' = [at EXCEPT ![t] = "nss"]
  /\ Reach(call[t].fd, next)
  /\ call' = [call EXCEPT ![t] = HandshakeFrame(@.obj, @.fd)]
  /\ torn' = torn \ {t}
  /\ answer' = IF call[t].hook = "auth"
               THEN [answer EXCEPT ![call[t].fd] = said] ELSE answer
  /\ UNCHANGED <<callback, data, pin, raced, open, hookArg, pinArg, botched,
                 line, pwVars>>

(* Back into NSS: the arguments are released, and the GIL.                 *)
PyGILState_Release(t, next, said) ==
  /\ gil' = NoThread
  /\ at' = [at EXCEPT ![t] = "nss"]
  /\ Reach(call[t].fd, next)
  /\ call' = [call EXCEPT ![t] = HandshakeFrame(@.obj, @.fd)]
  /\ torn' = torn \ {t}
  /\ answer' = IF call[t].hook = "auth"
               THEN [answer EXCEPT ![call[t].fd] = said] ELSE answer
  /\ UNCHANGED <<callback, data, pin, raced, open, hookArg, pinArg, botched,
                 line, pwVars>>

(* Mutants: a callback that cannot be called counts as a yes; what the     *)
(* callback said is returned to NSS as it is.                              *)
StatusUnlessFalse(h, said) ==
  IF h = "client" THEN "ready"
  ELSE IF h = "handshake" THEN "over"
  ELSE IF h = "auth" /\ said \in {"true", "noTruth", "memory"} THEN "authed"
  ELSE "failed"
StatusAsSaid(h, said) == said

(* No memory for the arguments: what each function returns then.           *)
Status(h, said) ==
  IF h = "client" THEN "ready"
  ELSE IF h = "handshake" THEN "over"
  ELSE IF h = "auth" /\ said \in {"true", "noTruth"} THEN "authed"
  ELSE "failed"

ArgumentsFail(t) ==
  /\ Running(t, "build")
  /\ PyGILState_Release(t, Status(call[t].hook, "memory"), "memory")
  /\ UNCHANGED <<held, fdOf>>

(* The user data is read item by item, as many as were counted.            *)
Reading(t, n) ==
  LET f == call[t]
  IN  Carrying(f, callback[f.self][f.hook],
               IF f.data = data[f.self][f.hook] THEN f.data ELSE NoTag, n)

RunCallback(t, frame) ==
  /\ Running(t, "build")
  /\ at' = [at EXCEPT ![t] = "python"]
  /\ call' = [call EXCEPT ![t] = frame]
  /\ UNCHANGED <<held, nssVars, gil, torn, pwVars>>

(* The callback gets a new SSLSocket for the descriptor.                   *)
ssl_auth_certificate(t, n) ==
  /\ call[t].hook = "auth"
  /\ n \notin Live
  /\ RunCallback(t, Reading(t, n))
  /\ SSLSocket_clear(n)
  /\ fdOf' = [fdOf EXCEPT ![n] = call[t].fd]

get_client_auth_data(t) ==
  /\ call[t].hook = "client"
  /\ RunCallback(t, Reading(t, NoObject))
  /\ UNCHANGED <<fdOf, callback, data, pin, raced>>

(* The callback gets the SSLSocket the hook was set through, with a        *)
(* reference of its own.                                                   *)
ssl_handshake_callback(t) ==
  /\ call[t].hook = "handshake"
  /\ RunCallback(t, Reading(t, call[t].self))
  /\ UNCHANGED <<fdOf, callback, data, pin, raced>>

(* Mutant: the hook's own argument is released too.                        *)
ReleaseSocketAndSelf(t) ==
  /\ fdOf' = IF call[t].hook = "auth"
             THEN [fdOf EXCEPT ![call[t].sock] = NoFd] ELSE fdOf
  /\ held' = held \ {call[t].self}

ReleaseSocket(t) ==
  /\ fdOf' = IF call[t].hook = "auth"
             THEN [fdOf EXCEPT ![call[t].sock] = NoFd] ELSE fdOf
  /\ UNCHANGED held

HookReturns(t, said) ==
  /\ Running(t, "python") /\ call[t].hook # "password"
  /\ PyGILState_Release(t, Status(call[t].hook, said), said)
  /\ ReleaseSocket(t)

(* Mutant: NSS is told of a wrong password where there is no callback.     *)
PasswordUndefinedTriesAgain(t) ==
  /\ Running(t, "build") /\ call[t].hook = "password"
  /\ passwordOf[t] # "callable"
  /\ PyGILState_Release(t, "wrong", "none")
  /\ UNCHANGED <<held, fdOf>>

(* The password function finds no callback in this thread: either NSS is   *)
(* told so, or None was stored there, and calling it fails.                *)
PasswordUndefined(t) ==
  /\ Running(t, "build") /\ call[t].hook = "password"
  /\ passwordOf[t] # "callable"
  /\ PyGILState_Release(t, "failed", "none")
  /\ UNCHANGED <<held, fdOf>>

PK11_password_callback(t) ==
  /\ call[t].hook = "password" /\ passwordOf[t] = "callable"
  /\ RunCallback(t, call[t])
  /\ UNCHANGED <<fdOf, callback, data, pin, raced>>

(* No password, a wrong one, the right one, asked again or not: whatever   *)
(* the callback returns goes to NSS.                                       *)
PasswordReturns(t) ==
  /\ Running(t, "python") /\ call[t].hook = "password"
  /\ \E next \in {"failed", "wrong", "unlocked"} :
       PyGILState_Release(t, next, "none")
  /\ UNCHANGED <<held, fdOf>>

-----------------------------------------------------------------------------

Program(t) ==
  \/ \E o \in Objects, d \in Descriptors : SSLSocket_init(t, o, d)
  \/ \E o, n \in Objects, d \in Descriptors : SSLSocket_accept(t, o, d, n)
  \/ \E o \in Objects : \/ Socket_close(t, o)
                        \/ SSLSocket_dealloc(t, o)
                        \/ SSLSocket_force_handshake(t, o)
                        \/ SSLSocket_rehandshake(t, o)
                        \/ SSLSocket_reset_handshake(t, o)
  \/ \E o \in Objects, h \in Hook, new \in Tags : SetHook(t, o, h, new)
  \/ \E o \in Objects, p \in Pins : SSLSocket_set_pkcs11_pin_arg(t, o, p)
  \/ \E c \in Passwords : pk11_set_password_callback(t, c)
  \/ ThreadExit(t)

Setter(t) ==
  \/ StoreData(t)
  \/ HookNss(t)
  \/ SSL_SetPKCS11PinArg(t)
  \/ PK11_SetPasswordFunc(t)

Nss(t) ==
  \/ NssAuthenticates(t) \/ NssAsksClient(t) \/ NssReports(t)
  \/ NssAsksPassword(t) \/ NssAccepts(t) \/ NssRefuses(t) \/ NssCompletes(t)
  \/ EndHandshake(t) \/ NssTimesOut(t)

CalledBack(t) ==
  \/ PyGILState_Ensure(t)
  \/ ArgumentsFail(t)
  \/ \E n \in Objects : ssl_auth_certificate(t, n)
  \/ get_client_auth_data(t)
  \/ ssl_handshake_callback(t)
  \/ \E said \in {"true", "false", "raise", "noTruth"} : HookReturns(t, said)
  \/ PasswordUndefined(t)
  \/ PK11_password_callback(t)
  \/ PasswordReturns(t)

Next ==
  \E t \in Threads :
    \/ TakeGil(t) \/ YieldGil(t)
    \/ Program(t) \/ Setter(t) \/ Nss(t) \/ CalledBack(t)

Spec == Init /\ [][Next]_vars

(* CPython hands the GIL over to a thread that waits for it, callbacks and *)
(* destructors return, and NSS goes on: a thread is at one place, where    *)
(* one of the three can go on.                                             *)
Fairness ==
  \A t \in Threads :
    /\ SF_vars(TakeGil(t))
    /\ SF_vars(Setter(t) \/ Nss(t) \/ CalledBack(t))

FairSpec == Spec /\ Fairness

-----------------------------------------------------------------------------
(* Properties.                                                             *)

(* Whatever NSS would pass to a hook of an open descriptor, and what a     *)
(* hook in progress works with, is an SSLSocket that exists: also for      *)
(* descriptors that inherited the hooks of the socket they were accepted   *)
(* on.                                                                     *)
HooksAlive ==
  /\ \A d \in open, h \in Hook : hookArg[d][h] \in Live \cup {NoObject}
  /\ \A t \in Threads : call[t].self \in Live \cup {NoObject}

(* The tuple of PIN arguments NSS points to exists, except while           *)
(* set_pkcs11_pin_arg is replacing it, and always while a handshake may    *)
(* pass it to the password function.  Where NSS has refused the last ones, *)
(* botched, this is not so: the setter has released the previous ones by   *)
(* then, which NSS keeps, and get_pkcs11_pin_arg, documented to return a   *)
(* tuple of arguments, returns them.                                       *)
PinArgAlive(d) == pinArg[d] = NoPin \/ PinLive(pinArg[d])
PinsAlive ==
  /\ \A d \in open \ botched :
       \/ PinArgAlive(d)
       \/ ~InNss(d) /\ \E t \in Threads :
                         at[t] = "pinning" /\ fdOf[call[t].obj] = d
  /\ \A t \in Threads :
       \/ call[t].pin = NoPin \/ PinLive(call[t].pin)
       \/ call[t].fd \in botched

Calling(t) == at[t] = "python" /\ call[t].hook # "password"
WithOwnData(t) == call[t].callback = call[t].data

(* A callback is called with the user data that was given together with    *)
(* it, although the two are stored one after the other and read one after  *)
(* the other and other threads run in between: only two setters of that    *)
(* very hook at a time, or one while the call is prepared, can tear them   *)
(* apart.  Other hooks, other sockets, inheritance, a second __init__ and  *)
(* a new object in old memory cannot.                                      *)
OwnDataUnlessTorn == \A t \in Threads \ torn : Calling(t) => WithOwnData(t)

Accepted == {"none", "true", "noTruth"}

(* No handshake completes after the certificate callback refused, raised   *)
(* or could not be called, also when it is resumed after a timeout or      *)
(* done again.  A value without a truth value counts as yes:               *)
(* PyObject_IsTrue then returns -1.                                        *)
AuthRespected ==
  \A d \in open : stage[d] \in Complete => answer[d] \in Accepted

(* NSS runs without the GIL, whichever way its functions were left.        *)
GilBalance == gil \in Threads => at[gil] \notin {"idle", "nss", "ensure"}

(* The order of the stages, and of the places inside one.                  *)
StageNo ==
  [start |-> 1, authed |-> 2, wrong |-> 3, unlocked |-> 4, ready |-> 5,
   shaken |-> 6, over |-> 7, failed |-> 7]
PlaceNo == [nss |-> 0, ensure |-> 1, build |-> 2, python |-> 3]

AsksPassword(t) == at[t] = "python" /\ call[t].hook = "password"

Stays(t, d) == at'[t] = at[t] /\ stage'[d] = stage[d]
Forward(t, d) ==
  /\ at'[t] \in Inside
  /\ \/ StageNo[stage'[d]] > StageNo[stage[d]]
     \/ stage'[d] = stage[d] /\ PlaceNo[at'[t]] > PlaceNo[at[t]]
WrongAgain(t, d) ==
  AsksPassword(t) /\ at'[t] = "nss" /\ stage[d] = "wrong" /\ stage'[d] = "wrong"
Ends(t, d) ==
  /\ at[t] = "nss" /\ at'[t] = "idle"
  /\ stage'[d] = IF stage[d] = "shaken" THEN "over" ELSE stage[d]

(* While its descriptor stays open a handshake only goes forward: every    *)
(* step of a thread inside it enters the function NSS calls, or its        *)
(* callback, or leaves a stage for good, or the handshake, which keeps its *)
(* stage.  So NSS calls every hook once at most in a handshake, over any   *)
(* timeouts, whatever other threads do.  The one exception is a password   *)
(* callback that goes on giving wrong passwords.                           *)
HandshakeAdvances ==
  [][\A t \in Threads :
       LET d == call[t].fd
       IN  at[t] \in Inside /\ d \in open \cap open' =>
             Stays(t, d) \/ Forward(t, d) \/ WrongAgain(t, d) \/ Ends(t, d)]_vars

(* A handshake ends, whatever other threads do with the GIL, the setters   *)
(* and the password function, unless its own password callback is called   *)
(* over and over (the endless loop the documentation warns of).            *)
HandshakeEnds ==
  \A t \in Threads : []<>(at[t] \notin Inside) \/ []<>AsksPassword(t)

-----------------------------------------------------------------------------
(* What holds whatever the program does.                                   *)

Called == {"ensure", "build", "python"}

(* What a frame refers to has the type of what the C function expects.     *)
FrameShape ==
  \A t \in Threads :
    /\ at[t] \in Setting => call[t].obj \in Objects
    /\ at[t] \in {"hooking", "stored"} => call[t].hook \in Hook
    /\ at[t] \in Inside => call[t].fd \in Descriptors
    /\ at[t] \in Called =>
         /\ call[t].hook \in Hook \cup {"password"}
         /\ call[t].hook \in Hook => call[t].self \in Objects

(* A descriptor is in the handshake of one thread at most.                 *)
OneHandshake ==
  \A t, u \in Threads :
    at[t] \in Inside /\ at[u] \in Inside /\ call[t].fd = call[u].fd => t = u

(* Where in a handshake each function is called; a descriptor closed and   *)
(* opened anew meanwhile is back at the start.                             *)
HookStage ==
  \A t \in Threads : at[t] \in Called =>
    LET s == stage[call[t].fd]
        h == call[t].hook
    IN  s = "start" \/ /\ h # "auth"
                       /\ h = "client" => s \in {"authed", "unlocked"}
                       /\ h = "handshake" => s = "shaken"
                       /\ h = "password" => s \in {"authed", "wrong"}

(* What NSS makes of the answer until a new handshake is asked for.        *)
AnswerKept ==
  \A d \in Descriptors : stage[d] = "failed" \/ answer[d] \in Accepted

AnyInv == TypeOK /\ FrameShape /\ OneHandshake /\ HookStage /\ AnswerKept

-----------------------------------------------------------------------------
(* What holds for a program that keeps its sockets, "keep": whatever other *)
(* threads set and close, the pointers of every descriptor lead to objects *)
(* the program holds, and callback and user data stay together.            *)

HeldLineage ==
  /\ \A d \in Descriptors :
       /\ line[d] \subseteq held
       /\ d \notin open => line[d] = {}
       /\ \A h \in Hook : hookArg[d][h] \in line[d] \cup {NoObject}
  /\ \A o \in held :
       fdOf[o] # NoFd => fdOf[o] \in open /\ o \in line[fdOf[o]]
  /\ \A o, n \in held : fdOf[o] = fdOf[n] => o = n \/ fdOf[o] = NoFd

HeldInUse ==
  \A t \in Threads :
    /\ call[t].self \in held \cup {NoObject}
    /\ at[t] \in Setting => call[t].obj \in held
    /\ at[t] = "python" /\ call[t].hook = "auth" => call[t].sock \notin held

(* A setter that is alone with its hook has its callback there.            *)
SetterData ==
  \A t \in Threads :
    LET o == call[t].obj
        h == call[t].hook
    IN  at[t] = "hooking" /\ <<o, h>> \notin raced =>
          /\ callback[o][h] = call[t].data
          /\ \A u \in Threads : BeingHooked(u, o, h) => u = t

(* Callback and user data belong together outside of the setter.           *)
StoredData ==
  \A o \in held, h \in Hook :
    \/ callback[o][h] = data[o][h] \/ <<o, h>> \in raced
    \/ \E t \in Threads : BeingHooked(t, o, h)

(* A call that is being prepared and not torn finds them in order.         *)
CallData ==
  \A t \in Threads \ torn :
    LET o == call[t].self
        h == call[t].hook
    IN  at[t] = "build" /\ h \in Hook =>
          /\ call[t].data = data[o][h]
          /\ <<o, h>> \notin raced
          /\ \A u \in Threads : ~BeingHooked(u, o, h)

KeptInv ==
  /\ TypeOK
  /\ FrameShape
  /\ HeldLineage
  /\ HeldInUse
  /\ SetterData
  /\ StoredData
  /\ CallData
  /\ OwnDataUnlessTorn

-----------------------------------------------------------------------------
(* What holds for a program that follows both rules.                       *)

(* A handshake has an open descriptor and NSS's PIN arguments; nobody else *)
(* is setting those meanwhile, nor twice at a time.                        *)
PinsUndisturbed ==
  /\ \A t \in Threads :
       /\ at[t] \in Inside => call[t].fd \in open
       /\ call[t].pin # NoPin =>
            \/ at[t] = "pinning" /\ call[t].pin = pin[call[t].obj]
            \/ at[t] \in Called /\ call[t].pin = pinArg[call[t].fd]
  /\ \A t, u \in Threads : at[t] = "pinning" =>
       /\ at[u] = "pinning" /\ call[t].obj = call[u].obj => t = u
       /\ at[u] \in Inside => call[t].obj \notin line[call[u].fd]
       /\ \A d \in open : call[t].obj \in line[d] => fdOf[call[t].obj] = d

(* Where NSS's PIN arguments come from.                                    *)
PinLineage ==
  \A d \in open :
    \/ pinArg[d] = NoPin \/ d \in botched
    \/ \E o \in line[d] : pin[o] = pinArg[d]
    \/ \E t \in Threads :
         /\ at[t] = "pinning"
         /\ fdOf[call[t].obj] = d /\ call[t].obj \in line[d]

IInv == KeptInv /\ PinsUndisturbed /\ PinLineage

=============================================================================
