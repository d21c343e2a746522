------------------------------ MODULE NssInit ------------------------------
(***************************************************************************)
(* The process-wide initialisation state of the NSS library, as the       *)
(* bindings in py_nss.c use it.  NSS itself is not part of the             *)
(* repository: this module is external and says only what the callers      *)
(* depend on.                                                              *)
(*                                                                         *)
(* NSS counts its users in two ways: one flag for every traditional        *)
(* NSS_Init* call together, and one list node per NSS_InitContext call.    *)
(* All of it is guarded by one non-recursive lock, which nss_Shutdown      *)
(* keeps while it runs the functions registered with NSS_RegisterShutdown. *)
(* The shutdown list identifies an entry by (function, argument); the      *)
(* bindings register one single function, so an entry is its argument, and *)
(* a slot freed in the list is reused, so no order is promised.            *)
(***************************************************************************)

CONSTANTS
  Threads,    \* the threads of the process
  NoThread,   \* nobody: a lock that is free, an entry that is absent
  Objects,    \* memory slots for InitContext objects
  NoObject,   \* no object
  Orphan,     \* owner of a context no Python object was created for
  Addresses,  \* the addresses malloc may return for an NSSInitContext
  Tuples      \* the addresses of the tuples passed as callback arguments

ASSUME NobodyAssumption ==
  /\ NoThread \notin Threads
  /\ NoObject \notin Objects
  /\ Orphan \notin Objects
  /\ Orphan # NoObject

VARIABLES
  nssInitLock,    \* the thread holding NSS's initialisation lock
  nssIsInitted,   \* a traditional NSS_Init* is in effect
  contextOwner,   \* the context list: listed addresses and whose they are
  registrant      \* the shutdown list: registered tuples and by whom

nssVars == <<nssInitLock, nssIsInitted, contextOwner, registrant>>

Owners == Objects \cup {NoObject, Orphan}

NssTypeOK ==
  /\ nssInitLock \in Threads \cup {NoThread}
  /\ nssIsInitted \in BOOLEAN
  /\ contextOwner \in [Addresses -> Owners]
  /\ registrant \in [Tuples -> Threads \cup {NoThread}]

NssStart ==
  /\ nssInitLock = NoThread
  /\ nssIsInitted = FALSE
  /\ contextOwner = [a \in Addresses |-> NoObject]
  /\ registrant = [p \in Tuples |-> NoThread]

Listed(a) == contextOwner[a] # NoObject
Registered(p) == registrant[p] # NoThread

NSS_IsInitialized == nssIsInitted \/ \E a \in Addresses : Listed(a)

LockFree == nssInitLock = NoThread

(* NSS_Init, NSS_InitReadWrite, NSS_NoDB_Init, NSS_Initialize: idempotent, *)
(* the second caller gets success whatever it asks for.                    *)
NSS_Initialize(ok) ==
  /\ LockFree
  /\ nssIsInitted => ok
  /\ nssIsInitted' = ok
  /\ UNCHANGED <<nssInitLock, contextOwner, registrant>>

(* NSS_InitContext returns a node at any address that is not in use; the   *)
(* address of a freed node may come back.                                  *)
NSS_InitContext(a, owner) ==
  /\ LockFree
  /\ ~Listed(a)
  /\ contextOwner' = [contextOwner EXCEPT ![a] = owner]
  /\ UNCHANGED <<nssInitLock, nssIsInitted, registrant>>

NSS_RegisterShutdown(t, p) ==
  /\ LockFree
  /\ registrant' = IF NSS_IsInitialized /\ ~Registered(p)
                     THEN [registrant EXCEPT ![p] = t]
                     ELSE registrant
  /\ UNCHANGED <<nssInitLock, nssIsInitted, contextOwner>>

NSS_UnregisterShutdown(p) ==
  /\ LockFree
  /\ registrant' = IF NSS_IsInitialized
                     THEN [registrant EXCEPT ![p] = NoThread]
                     ELSE registrant
  /\ UNCHANGED <<nssInitLock, nssIsInitted, contextOwner>>

(* nss_Shutdown: takes the lock, runs the shutdown list (one entry at a    *)
(* time, ShutdownEntryDone), then drops every user of the library.         *)
BeginNssShutdown(t) ==
  /\ LockFree
  /\ nssInitLock' = t
  /\ UNCHANGED <<nssIsInitted, registrant>>

ShutdownEntryDone(p) ==
  /\ registrant' = [registrant EXCEPT ![p] = NoThread]
  /\ UNCHANGED <<nssInitLock, nssIsInitted, contextOwner>>

(* Mutant: the lock is not given back.                                     *)
EndNssShutdownLocked ==
  /\ nssIsInitted' = FALSE
  /\ contextOwner' = [a \in Addresses |-> NoObject]
  /\ UNCHANGED <<nssInitLock, registrant>>

EndNssShutdown ==
  /\ nssInitLock' = NoThread
  /\ nssIsInitted' = FALSE
  /\ contextOwner' = [a \in Addresses |-> NoObject]
  /\ UNCHANGED registrant

=============================================================================
