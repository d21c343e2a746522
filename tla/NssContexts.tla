---------------------------- MODULE NssContexts ----------------------------
(***************************************************************************)
(* The context managers of nss_context.py: with-blocks that initialise NSS *)
(* when they are entered and shut it down when they are left, over the     *)
(* one NSS of the process (NssInit).                                       *)
(*                                                                         *)
(* NSS counts no users, and a manager remembers in one flag whether it     *)
(* owes a shutdown; blocks may nest, threads may run them side by side,    *)
(* and one manager may be used again or by several threads.  The NSS calls *)
(* release the GIL and the interpreter may switch threads between any two  *)
(* statements, so each step below is one statement that matters.  All      *)
(* initialising and shutting down goes through managers here; NssLifecycle *)
(* models the functions of the module.                                     *)
(***************************************************************************)
EXTENDS NssInit, Integers, Sequences

CONSTANTS
  MainThread,    \* the thread that receives KeyboardInterrupt
  Managers,      \* the NSSContext objects
  NoManager,     \* no manager
  WithCallback,  \* the managers made with a password_callback
  MaxNesting     \* bound: with-blocks a thread has open at a time

ASSUME ContextAssumption ==
  /\ MainThread \in Threads
  /\ NoManager \notin Managers
  /\ WithCallback \subseteq Managers
  /\ MaxNesting \in Nat

VARIABLES
  initialized,  \* NSSContext._initialized
  blocks,       \* the managers whose with-blocks the thread is inside
  pc,           \* python, or how far it is in __enter__ or __exit__
  manager,      \* the manager whose __enter__ or __exit__ that is
  password,     \* the manager whose callback the thread local dict holds
  overlapped,   \* history: since NSS was last idle, a block was entered
                \* while another was open
  shared,       \* history: two threads used one manager at the same time
  cut           \* history: an interrupt stopped __enter__ or __exit__
                \* where NSS was initialised

blockVars == <<blocks, pc, manager>>
history   == <<overlapped, shared, cut>>
vars == <<nssVars, initialized, blockVars, password, history>>

Places == {"python", "init", "entered", "shutdown", "closed"}

TypeOK ==
  /\ NssTypeOK
  /\ initialized \in [Managers -> BOOLEAN]
  /\ blocks \in [Threads -> Seq(Managers)]
  /\ pc \in [Threads -> Places]
  /\ manager \in [Threads -> Managers \cup {NoManager}]
  /\ password \in [Threads -> WithCallback \cup {NoManager}]
  /\ overlapped \in BOOLEAN /\ shared \in BOOLEAN /\ cut \in BOOLEAN

Init ==
  /\ NssStart
  /\ initialized = [m \in Managers |-> FALSE]
  /\ blocks = [t \in Threads |-> <<>>]
  /\ pc = [t \in Threads |-> "python"]
  /\ manager = [t \in Threads |-> NoManager]
  /\ password = [t \in Threads |-> NoManager]
  /\ overlapped = FALSE /\ shared = FALSE /\ cut = FALSE

Open(t) == {blocks[t][i] : i \in DOMAIN blocks[t]}
Uses(t) == Open(t) \cup {manager[t]}

Idle(t) == pc[t] = "python" /\ blocks[t] = <<>>
Quiet   == \A t \in Threads : Idle(t)

-----------------------------------------------------------------------------
(* __enter__                                                               *)

Goto(t, place) ==
  /\ pc' = [pc EXCEPT ![t] = place]
  /\ UNCHANGED <<blocks, manager>>

Return(t) ==
  /\ pc' = [pc EXCEPT ![t] = "python"]
  /\ manager' = [manager EXCEPT ![t] = NoManager]

(* The password callback is set before NSS is, and stays whatever follows. *)
Enter(t, m) ==
  /\ pc[t] = "python" /\ Len(blocks[t]) < MaxNesting
  /\ pc' = [pc EXCEPT ![t] = "init"]
  /\ manager' = [manager EXCEPT ![t] = m]
  /\ password' = IF m \in WithCallback THEN [password EXCEPT ![t] = m]
                                       ELSE password
  /\ overlapped' = ~Quiet
  /\ shared' = (shared \/ \E u \in Threads \ {t} : m \in Uses(u))
  /\ UNCHANGED <<nssVars, initialized, blocks, cut>>

(* nss_init and nss_init_nodb, which release the GIL around the NSS call.  *)
Initialize(t) ==
  /\ pc[t] = "init"
  /\ NSS_Initialize(TRUE)
  /\ Goto(t, "entered")
  /\ UNCHANGED <<initialized, password, history>>

(* Mutant: the error is logged and not raised again.                       *)
EnterFailsSilently(t) ==
  /\ pc[t] = "init"
  /\ NSS_Initialize(FALSE) \/ UNCHANGED nssVars
  /\ Return(t)
  /\ blocks' = [blocks EXCEPT ![t] = Append(@, manager[t])]
  /\ UNCHANGED <<initialized, password, history>>

(* NSS refuses, or the call fails before it gets there: the exception is   *)
(* raised again, the block is not entered and __exit__ is not called.      *)
EnterFails(t) ==
  /\ pc[t] = "init"
  /\ NSS_Initialize(FALSE) \/ UNCHANGED nssVars
  /\ Return(t)
  /\ UNCHANGED <<initialized, blocks, password, history>>

(* Mutant: _initialized is set only by the first block of the manager.     *)
EnteredOnce(t) ==
  /\ pc[t] = "entered"
  /\ initialized' = [initialized EXCEPT ![manager[t]] = Open(t) = {}]
  /\ blocks' = [blocks EXCEPT ![t] = Append(@, manager[t])]
  /\ Return(t)
  /\ UNCHANGED <<nssVars, password, history>>

Entered(t) ==
  /\ pc[t] = "entered"
  /\ initialized' = [initialized EXCEPT ![manager[t]] = TRUE]
  /\ blocks' = [blocks EXCEPT ![t] = Append(@, manager[t])]
  /\ Return(t)
  /\ UNCHANGED <<nssVars, password, history>>

-----------------------------------------------------------------------------
(* __exit__, whether the block ended or raised an exception.               *)

Innermost(t) == blocks[t][Len(blocks[t])]

(* Mutant: only the outermost block shuts NSS down, but clears the flag.   *)
ExitOutermost(t) ==
  /\ pc[t] = "python" /\ blocks[t] # <<>>
  /\ blocks' = [blocks EXCEPT ![t] = SubSeq(@, 1, Len(@) - 1)]
  /\ IF initialized[Innermost(t)] /\ Len(blocks[t]) = 1
       THEN /\ pc' = [pc EXCEPT ![t] = "shutdown"]
            /\ manager' = [manager EXCEPT ![t] = Innermost(t)]
       ELSE UNCHANGED <<pc, manager>>
  /\ initialized' = [initialized EXCEPT ![Innermost(t)] =
                       Len(blocks[t]) = 1 /\ @]
  /\ UNCHANGED <<nssVars, password, history>>

(* A manager whose flag is down owes nothing.                              *)
Exit(t) ==
  /\ pc[t] = "python" /\ blocks[t] # <<>>
  /\ blocks' = [blocks EXCEPT ![t] = SubSeq(@, 1, Len(@) - 1)]
  /\ IF initialized[Innermost(t)]
       THEN /\ pc' = [pc EXCEPT ![t] = "shutdown"]
            /\ manager' = [manager EXCEPT ![t] = Innermost(t)]
       ELSE UNCHANGED <<pc, manager>>
  /\ UNCHANGED <<nssVars, initialized, password, history>>

(* nss_shutdown.  It fails when NSS is not up, and it may fail when NSS    *)
(* objects are still in use, but then NSS is shut down all the same.       *)
Shutdown(t) ==
  /\ pc[t] = "shutdown"
  /\ LockFree /\ EndNssShutdown
  /\ IF NSS_IsInitialized THEN Goto(t, "closed")
                          ELSE Return(t) /\ UNCHANGED blocks
  /\ UNCHANGED <<initialized, password, history>>

(* The error is logged, the manager keeps its flag.                        *)
ShutdownBusy(t) ==
  /\ pc[t] = "shutdown"
  /\ LockFree /\ NSS_IsInitialized /\ EndNssShutdown
  /\ Return(t)
  /\ UNCHANGED <<initialized, blocks, password, history>>

Closed(t) ==
  /\ pc[t] = "closed"
  /\ initialized' = [initialized EXCEPT ![manager[t]] = FALSE]
  /\ Return(t)
  /\ UNCHANGED <<nssVars, blocks, password, history>>

(* KeyboardInterrupt is no Exception: no handler of the manager sees it,   *)
(* and what was left of __enter__ or __exit__ does not happen.             *)
Interrupt ==
  LET t == MainThread IN
  /\ pc[t] # "python"
  /\ cut' = (cut \/ pc[t] \in {"entered", "shutdown"})
  /\ Return(t)
  /\ UNCHANGED <<nssVars, initialized, blocks, password, overlapped, shared>>

-----------------------------------------------------------------------------

Next ==
  \/ \E t \in Threads :
       \/ \E m \in Managers : Enter(t, m)
       \/ Initialize(t)
       \/ EnterFails(t)
       \/ Entered(t)
       \/ Exit(t)
       \/ Shutdown(t)
       \/ ShutdownBusy(t)
       \/ Closed(t)
  \/ Interrupt

Spec == Init /\ [][Next]_vars

-----------------------------------------------------------------------------
(* Properties.                                                             *)

(* "NSS is initialized, perform operations": inside a block that overlaps  *)
(* no other block, NSS is up.  Nested and concurrent blocks have no such   *)
(* promise: the first of them that is left shuts NSS down for all.         *)
InsideUp ==
  ~overlapped =>
    \A t \in Threads : pc[t] = "python" /\ blocks[t] # <<>> => nssIsInitted

(* "NSS will be shut down on exit": when all blocks have been left, nested *)
(* and concurrent ones, failed ones and reused managers included, NSS is   *)
(* down, unless an interrupt stopped a manager half way or two threads     *)
(* used one manager: the flag one of them clears is then the other's.      *)
LeftDown == Quiet => ~nssIsInitted \/ shared \/ cut

(* Every time NSS is up somebody owes a shutdown: a thread that is about   *)
(* to remember it or to do it, or one with an open block whose manager     *)
(* remembers.  A thread that is about to clear its manager's flag does not *)
(* count: the block it left may be nested in another of that manager.      *)
Owes(t) ==
  \/ pc[t] \in {"entered", "shutdown"}
  \/ pc[t] # "closed" /\ \E m \in Open(t) : initialized[m]

Owed == nssIsInitted => shared \/ cut \/ \E t \in Threads : Owes(t)

(* A block alone: nobody else is in one, and it is not nested.             *)
Alone ==
  ~overlapped =>
    \A t \in Threads : ~Idle(t) =>
      /\ \A u \in Threads \ {t} : Idle(u)
      /\ blocks[t] # <<>> => pc[t] = "python" /\ Len(blocks[t]) = 1
      /\ blocks[t] # <<>> \/ pc[t] = "entered" => nssIsInitted

(* Managers that are not shared are used by one thread each.               *)
Private ==
  /\ \A t \in Threads : manager[t] = NoManager <=> pc[t] = "python"
  /\ ~shared =>
       \A t, u \in Threads : t # u => Uses(t) \cap Uses(u) \subseteq {NoManager}

IInv == TypeOK /\ Private /\ Alone /\ Owed

=============================================================================
