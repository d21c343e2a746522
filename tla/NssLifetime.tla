---------------------------- MODULE NssLifetime ----------------------------
(***************************************************************************)
(* What the functions of NssLifecycle promise a program about the lifetime *)
(* of NSS, whatever locks and callbacks they work with.  NSS is up while   *)
(* it has a user.  A call that gives a user back is told at once whether   *)
(* there was one, unless it was the last: then that call shuts NSS down,   *)
(* while nobody else can use it, every shutdown callback runs once, and    *)
(* the call is told of success only if each of them succeeded.             *)
(***************************************************************************)
CONSTANTS Threads, NoThread, Contexts, NoContext, Callbacks

VARIABLES
  initialized,  \* NSS was initialised for the process as a whole
  contexts,     \* the contexts in use
  callbacks,    \* the shutdown callbacks that are still to run
  closing,      \* the thread that is shutting NSS down
  request       \* thread -> what it asks to be given up, then the answer

vars == <<initialized, contexts, callbacks, closing, request>>

(* kind: none, shutdown (the whole), close (one context), success, failure *)
Request(k, a) == [kind |-> k, context |-> a]
Nothing == Request("none", NoContext)
Whole   == Request("shutdown", NoContext)

Open == closing = NoThread
Up == initialized \/ contexts # {}
Asks(t, k) == request[t].kind = k
Named(t) == request[t].context

Init ==
  /\ initialized = FALSE
  /\ contexts = {}
  /\ callbacks = {}
  /\ closing = NoThread
  /\ request = [t \in Threads |-> Nothing]

-----------------------------------------------------------------------------
(* Using NSS.                                                              *)

Initialize ==
  /\ Open
  /\ initialized' = TRUE
  /\ UNCHANGED <<contexts, callbacks, closing, request>>

CreateContext(a) ==
  /\ Open
  /\ a \notin contexts
  /\ contexts' = contexts \cup {a}
  /\ UNCHANGED <<initialized, callbacks, closing, request>>

SetCallback(p) ==
  /\ Open /\ Up
  /\ callbacks' = callbacks \cup {p}
  /\ UNCHANGED <<initialized, contexts, closing, request>>

CancelCallback(p) ==
  /\ Open /\ Up
  /\ callbacks' = callbacks \ {p}
  /\ UNCHANGED <<initialized, contexts, closing, request>>

-----------------------------------------------------------------------------
(* Giving it up.                                                           *)

Ask(t, r) ==
  /\ request[t] = Nothing
  /\ request' = [request EXCEPT ![t] = r]

AskOnly(t, r) ==
  /\ Ask(t, r)
  /\ UNCHANGED <<initialized, contexts, callbacks, closing>>

(* A context that nobody can be given is closed at once.                   *)
CreateInVain(t, a) ==
  /\ Open
  /\ a \notin contexts
  /\ contexts' = contexts \cup {a}
  /\ Ask(t, Request("close", a))
  /\ UNCHANGED <<initialized, callbacks, closing>>

Say(t, k) == request' = [request EXCEPT ![t] = Request(k, Named(t))]

Refuse(t) ==
  /\ Open
  /\ \/ Asks(t, "shutdown") /\ ~initialized
     \/ Asks(t, "close") /\ Named(t) \notin contexts
  /\ Say(t, "failure")
  /\ UNCHANGED <<initialized, contexts, callbacks, closing>>

CloseContext(t) ==
  /\ Open
  /\ Asks(t, "close") /\ Named(t) \in contexts
  /\ initialized \/ contexts # {Named(t)}
  /\ contexts' = contexts \ {Named(t)}
  /\ Say(t, "success")
  /\ UNCHANGED <<initialized, callbacks, closing>>

(* Giving up the whole takes the contexts with it; otherwise the last one  *)
(* is given up.                                                            *)
BeginShutdown(t) ==
  /\ Open
  /\ \/ Asks(t, "shutdown") /\ initialized
     \/ Asks(t, "close") /\ ~initialized /\ contexts = {Named(t)}
  /\ initialized' = FALSE
  /\ contexts' = {}
  /\ closing' = t
  /\ Say(t, "success")
  /\ UNCHANGED callbacks

SayNoBetter(t) ==
  \/ Asks(t, "success") /\ Say(t, "success")
  \/ Asks(t, "success") /\ Say(t, "failure")
  \/ Asks(t, "failure") /\ Say(t, "failure")

RunCallback(t, p) ==
  /\ closing = t
  /\ p \in callbacks
  /\ callbacks' = callbacks \ {p}
  /\ SayNoBetter(t)
  /\ UNCHANGED <<initialized, contexts, closing>>

(* NSS itself may still find fault, with objects that are in use.          *)
EndShutdown(t) ==
  /\ closing = t
  /\ callbacks = {}
  /\ closing' = NoThread
  /\ SayNoBetter(t)
  /\ UNCHANGED <<initialized, contexts, callbacks>>

Return(t) ==
  /\ closing # t
  /\ Asks(t, "success") \/ Asks(t, "failure")
  /\ request' = [request EXCEPT ![t] = Nothing]
  /\ UNCHANGED <<initialized, contexts, callbacks, closing>>

GiveUp(t) ==
  \/ AskOnly(t, Whole)
  \/ \E a \in Contexts : \/ AskOnly(t, Request("close", a))
                         \/ CreateInVain(t, a)
  \/ Refuse(t)
  \/ CloseContext(t)
  \/ BeginShutdown(t)
  \/ \E p \in Callbacks : RunCallback(t, p)
  \/ EndShutdown(t)
  \/ Return(t)

Next ==
  \/ Initialize
  \/ \E a \in Contexts : CreateContext(a)
  \/ \E p \in Callbacks : SetCallback(p) \/ CancelCallback(p)
  \/ \E t \in Threads : GiveUp(t)

Spec == Init /\ [][Next]_vars
=============================================================================
