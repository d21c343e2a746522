--------------------------- MODULE SslHooksProofs ---------------------------
(***************************************************************************)
(* Proofs about SslHooks, for any number of threads, SSLSockets,           *)
(* descriptors, callbacks and PIN tuples.  Three invariants: AnyInv needs  *)
(* no rule, KeptInv only that the program keeps its sockets, IInv both     *)
(* rules.  What the actions do to the threads, to the stages and to the    *)
(* sockets is said in a lemma each, with one step per action; the          *)
(* invariants follow from these.                                           *)
(***************************************************************************)
EXTENDS SslHooks, TLAPS

(* What a thread may do: Next without its quantifier. *)
Step(t) ==
  \/ TakeGil(t) \/ YieldGil(t)
  \/ Program(t) \/ Setter(t) \/ Nss(t) \/ CalledBack(t)

LEMMA FrameFields ==
  /\ \A o, s \in Objects \cup {NoObject}, d \in Descriptors \cup {NoFd},
       h \in Hook \cup {"none", "password"}, p \in Pins \cup {NoPin} :
       Frame(o, d, h, s, p) \in Frames
  /\ \A f \in Frames, c, v \in Tags \cup {NoTag},
       n \in Objects \cup {NoObject} : Carrying(f, c, v, n) \in Frames
BY DEF Frames, Frame, Carrying

(* What the fields of a frame are, when TypeOK and FrameShape hold.        *)
LEMMA FrameRange ==
  ASSUME TypeOK, FrameShape, NEW t \in Threads
  PROVE  /\ call[t] \in Frames
         /\ call[t].obj \in Objects \cup {NoObject}
         /\ call[t].data \in Tags \cup {NoTag}
         /\ call[t].pin \in Pins \cup {NoPin}
         /\ at[t] \in Setting => call[t].obj \in Objects
         /\ at[t] \in {"hooking", "stored"} => call[t].hook \in Hook
         /\ at[t] \in Inside =>
              /\ call[t].fd \in Descriptors
              /\ \A h \in Hook :
                   hookArg[call[t].fd][h] \in Objects \cup {NoObject}
              /\ pinArg[call[t].fd] \in Pins \cup {NoPin}
         /\ at[t] \in {"ensure", "build", "python"} =>
              /\ call[t].hook \in Hook \cup {"password"}
              /\ call[t].hook # "password" =>
                   /\ call[t].hook \in Hook /\ call[t].self \in Objects
                   /\ callback[call[t].self][call[t].hook]
                        \in Tags \cup {NoTag}
                   /\ data[call[t].self][call[t].hook] \in Tags \cup {NoTag}
<1>1. call[t] \in Frames
  BY DEF TypeOK
<1>2. /\ call[t].obj \in Objects \cup {NoObject}
      /\ call[t].data \in Tags \cup {NoTag}
      /\ call[t].pin \in Pins \cup {NoPin}
  BY <1>1 DEF Frames
<1>3. /\ at[t] \in Setting => call[t].obj \in Objects
      /\ at[t] \in {"hooking", "stored"} => call[t].hook \in Hook
      /\ at[t] \in Inside => call[t].fd \in Descriptors
  BY DEF FrameShape
<1>4. ASSUME NEW d \in Descriptors, NEW h \in Hook
      PROVE  hookArg[d][h] \in Objects \cup {NoObject}
  BY DEF TypeOK
<1>5. ASSUME NEW o \in Objects, NEW h \in Hook
      PROVE  callback[o][h] \in Tags \cup {NoTag} /\ data[o][h] \in Tags \cup {NoTag}
  BY DEF TypeOK
<1>6. \A d \in Descriptors : pinArg[d] \in Pins \cup {NoPin}
  BY DEF TypeOK
<1>7. ASSUME at[t] \in {"ensure", "build", "python"}
      PROVE  /\ call[t].hook \in Hook \cup {"password"}
             /\ call[t].hook # "password" =>
                  call[t].hook \in Hook /\ call[t].self \in Objects
  BY <1>7 DEF FrameShape, Called
<1> QED BY <1>1, <1>2, <1>3, <1>4, <1>5, <1>6, <1>7

LEMMA TypeStep ==
  ASSUME TypeOK, FrameShape, NEW t \in Threads, Step(t)
  PROVE  TypeOK'
<1> USE HooksAssumption
<1> USE DEF TypeOK, Unfinished, Complete, Stages, Places, Setting, Inside,
   Answers, Unset, objVars, nssVars, callVars, pwVars
<1>1. CASE TakeGil(t)
  BY <1>1 DEF TakeGil
<1>2. CASE YieldGil(t)
  BY <1>2 DEF YieldGil
<1>3. ASSUME NEW o \in Objects, NEW d \in Descriptors,
             SSLSocket_init(t, o, d)
      PROVE  TypeOK'
  <2>1. line' \in [Descriptors -> SUBSET Objects]
    BY <1>3 DEF SSLSocket_init
  <2>2. /\ callback' \in [Objects -> [Hook -> Tags \cup {NoTag}]]
        /\ data' \in [Objects -> [Hook -> Tags \cup {NoTag}]]
        /\ pin' \in [Objects -> Pins \cup {NoPin}]
    <3>1. CASE SSLSocket_clear(o)
      BY <3>1 DEF SSLSocket_clear
    <3>2. CASE UNCHANGED <<callback, data, pin>>
      BY <3>2
    <3>3. QED BY ONLY <3>1, <3>2, <1>3 DEF SSLSocket_init
  <2>0. raced' \subseteq raced
    <3>1. CASE SSLSocket_clear(o)
      BY ONLY <3>1 DEF SSLSocket_clear
    <3>2. CASE UNCHANGED raced
      BY ONLY <3>2
    <3>3. QED BY ONLY <3>1, <3>2, <1>3 DEF SSLSocket_init
  <2>3. hookArg' \in [Descriptors -> [Hook -> Objects \cup {NoObject}]]
    BY <1>3 DEF SSLSocket_init, Fresh
  <2>4. QED BY <2>0, <2>1, <2>2, <2>3, <1>3 DEF SSLSocket_init, Fresh, NewHandshake
<1>4. ASSUME NEW o \in Objects, NEW n \in Objects, NEW d \in Descriptors,
             SSLSocket_accept(t, o, d, n)
      PROVE  TypeOK'
  <2>1. fdOf[o] \in Descriptors
    BY <1>4 DEF SSLSocket_accept
  <2>2. /\ line[fdOf[o]] \in SUBSET Objects
        /\ hookArg[fdOf[o]] \in [Hook -> Objects \cup {NoObject}]
        /\ pinArg[fdOf[o]] \in Pins \cup {NoPin}
    BY <2>1
  <2>3. line' \in [Descriptors -> SUBSET Objects]
    <3>1. CASE line' = [line EXCEPT ![d] = line[fdOf[o]] \cup {n}]
      BY <2>2, <3>1
    <3>2. CASE line' = [line EXCEPT ![d] = line[fdOf[o]]]
      BY <2>2, <3>2
    <3>3. QED BY <3>1, <3>2, <1>4 DEF SSLSocket_accept
  <2>4. /\ hookArg' \in [Descriptors -> [Hook -> Objects \cup {NoObject}]]
        /\ botched' \subseteq Descriptors
    BY <2>2, <1>4 DEF SSLSocket_accept
  <2>5. /\ callback' \in [Objects -> [Hook -> Tags \cup {NoTag}]]
        /\ data' \in [Objects -> [Hook -> Tags \cup {NoTag}]]
        /\ held' \subseteq Objects
        /\ fdOf' \in [Objects -> Descriptors \cup {NoFd}]
        /\ pin' \in [Objects -> Pins \cup {NoPin}]
        /\ raced' \subseteq raced
    <3>1. CASE UNCHANGED objVars
      BY <3>1
    <3>2. CASE /\ SSLSocket_clear(n)
               /\ fdOf' = [fdOf EXCEPT ![n] = d]
               /\ held' = held \cup {n}
      BY <3>2 DEF SSLSocket_clear
    <3>3. QED BY <3>1, <3>2, <1>4 DEF SSLSocket_accept
  <2>6. QED BY <2>2, <2>3, <2>4, <2>5, <1>4 DEF SSLSocket_accept, NewHandshake
<1>5. ASSUME NEW o \in Objects,
             Socket_close(t, o)
      PROVE  TypeOK'
  <2>1. fdOf[o] \in Descriptors
    BY <1>5 DEF Socket_close
  <2>2. QED BY <2>1, <1>5 DEF Socket_close, Fresh, NewHandshake
<1>6. ASSUME NEW o \in Objects,
             SSLSocket_dealloc(t, o)
      PROVE  TypeOK'
  BY <1>6 DEF SSLSocket_dealloc, SSLSocket_clear, Idle
<1>7. ASSUME NEW o \in Objects,
             SSLSocket_force_handshake(t, o)
      PROVE  TypeOK'
  BY FrameRange, FrameFields, <1>7 DEF SSLSocket_force_handshake, HandshakeFrame
<1>8. ASSUME NEW o \in Objects,
             SSLSocket_rehandshake(t, o)
      PROVE  TypeOK'
  BY <1>8 DEF SSLSocket_rehandshake, AskAnother, NewHandshake
<1>9. ASSUME NEW o \in Objects,
             SSLSocket_reset_handshake(t, o)
      PROVE  TypeOK'
  BY <1>9 DEF SSLSocket_reset_handshake, AskAnother, NewHandshake
<1>10. ASSUME NEW o \in Objects, NEW h \in Hook, NEW new \in Tags,
             SetHook(t, o, h, new)
      PROVE  TypeOK'
  <2>1. SetterFrame(o, h, new) \in Frames
    BY FrameFields DEF SetterFrame
  <2>2. raced' \subseteq Objects \X Hook
    BY <1>10 DEF SetHook
  <2>3. QED BY <2>1, <2>2, <1>10 DEF SetHook, Enter
<1>11. ASSUME NEW o \in Objects, NEW p \in Pins,
             SSLSocket_set_pkcs11_pin_arg(t, o, p)
      PROVE  TypeOK'
  <2>1. Frame(o, NoFd, "none", NoObject, p) \in Frames
    BY FrameFields
  <2>2. QED BY <2>1, <1>11 DEF SSLSocket_set_pkcs11_pin_arg, Enter
<1>12. ASSUME NEW c \in Passwords,
             pk11_set_password_callback(t, c)
      PROVE  TypeOK'
  BY FrameRange, FrameFields, <1>12 DEF pk11_set_password_callback, Enter, NoFrame
<1>13. CASE ThreadExit(t)
  BY <1>13 DEF ThreadExit, Idle
<1>14. CASE StoreData(t)
  <2>1. /\ call[t].obj \in Objects /\ call[t].hook \in Hook
        /\ call[t].data \in Tags \cup {NoTag}
    BY FrameRange, <1>14 DEF StoreData, Running
  <2>2. data' \in [Objects -> [Hook -> Tags \cup {NoTag}]]
    BY <2>1, <1>14 DEF StoreData
  <2>3. QED BY <2>2, <1>14 DEF StoreData
<1>15. CASE HookNss(t)
  <2>0. call[t].obj \in Objects /\ call[t].hook \in Hook
    BY FrameRange, <1>15 DEF HookNss, Running
  <2>1. hookArg' \in [Descriptors -> [Hook -> Objects \cup {NoObject}]]
    <3> DEFINE d == fdOf[call[t].obj]
    <3>1. d \in Descriptors \/ UNCHANGED hookArg
      BY <2>0, <1>15 DEF HookNss
    <3>2. \/ UNCHANGED hookArg
          \/ hookArg' = [hookArg EXCEPT ![d][call[t].hook] = call[t].obj]
      BY ONLY <1>15 DEF HookNss, nssVars
    <3>3. ASSUME d \in Descriptors
          PROVE  hookArg' \in [Descriptors -> [Hook -> Objects \cup {NoObject}]]
      <4> DEFINE g == [hookArg[d] EXCEPT ![call[t].hook] = call[t].obj]
      <4>1. hookArg \in [Descriptors -> [Hook -> Objects \cup {NoObject}]]
        BY ONLY TypeOK DEF TypeOK
      <4>2. hookArg[d] \in [Hook -> Objects \cup {NoObject}]
        BY ONLY <3>3, <4>1
      <4>3. g \in [Hook -> Objects \cup {NoObject}]
        BY ONLY <2>0, <4>2
      <4>4. hookArg' = hookArg \/ hookArg' = [hookArg EXCEPT ![d] = g]
        BY ONLY <3>2
      <4> HIDE DEF g
      <4>5. QED BY ONLY <4>1, <4>3, <4>4, <3>3
    <3>4. QED BY <3>1, <3>3
  <2>2. QED BY FrameFields, <2>1, <1>15 DEF HookNss, Leave, NoFrame
<1>16. CASE SSL_SetPKCS11PinArg(t)
  <2>1. call[t].obj \in Objects /\ call[t].pin \in Pins \cup {NoPin}
    BY FrameRange, <1>16 DEF SSL_SetPKCS11PinArg, Running
  <2>2. /\ pinArg' \in [Descriptors -> Pins \cup {NoPin}]
        /\ pin' \in [Objects -> Pins \cup {NoPin}]
        /\ botched' \subseteq Descriptors
    BY <2>1, <1>16 DEF SSL_SetPKCS11PinArg, PinTaken, PinRefused
  <2>3. QED BY FrameFields, <2>2, <1>16 DEF SSL_SetPKCS11PinArg, Leave, NoFrame
<1>17. CASE PK11_SetPasswordFunc(t)
  BY FrameRange, FrameFields, <1>17 DEF PK11_SetPasswordFunc, Leave, NoFrame
<1>18. CASE NssAuthenticates(t)
  <2>1. Frame(call[t].obj, call[t].fd, "auth",
              hookArg[call[t].fd]["auth"], NoPin) \in Frames
    BY FrameRange, FrameFields, <1>18 DEF NssAuthenticates, CallHook, Hooked, Handshake
  <2>2. call' \in [Threads -> Frames]
    BY <2>1, <1>18 DEF NssAuthenticates, CallHook
  <2>3. QED BY <2>2, <1>18 DEF NssAuthenticates, CallHook
<1>19. CASE NssAsksClient(t)
  <2>1. Frame(call[t].obj, call[t].fd, "client",
              hookArg[call[t].fd]["client"], NoPin) \in Frames
    BY FrameRange, FrameFields, <1>19 DEF NssAsksClient, CallHook, Hooked, Handshake
  <2>2. call' \in [Threads -> Frames]
    BY <2>1, <1>19 DEF NssAsksClient, CallHook
  <2>3. QED BY <2>2, <1>19 DEF NssAsksClient, CallHook
<1>20. CASE NssReports(t)
  <2>1. Frame(call[t].obj, call[t].fd, "handshake",
              hookArg[call[t].fd]["handshake"], NoPin) \in Frames
    BY FrameRange, FrameFields, <1>20 DEF NssReports, CallHook, Hooked, Handshake
  <2>2. call' \in [Threads -> Frames]
    BY <2>1, <1>20 DEF NssReports, CallHook
  <2>3. QED BY <2>2, <1>20 DEF NssReports, CallHook
<1>21. CASE NssAsksPassword(t)
  BY FrameRange, FrameFields, <1>21 DEF NssAsksPassword, Handshake
<1>22. CASE NssAccepts(t)
  BY <1>22 DEF NssAccepts, Advance, Reach
<1>23. CASE NssRefuses(t)
  BY <1>23 DEF NssRefuses, Advance, Reach
<1>24. CASE NssCompletes(t)
  BY <1>24 DEF NssCompletes, Advance, Reach
<1>25. CASE EndHandshake(t)
  BY FrameFields, <1>25 DEF EndHandshake, Reach, Leave, NoFrame
<1>26. CASE NssTimesOut(t)
  BY FrameFields, <1>26 DEF NssTimesOut, Leave, NoFrame
<1>27. CASE PyGILState_Ensure(t)
  <2>1. CASE call[t].hook = "password"
    BY <2>1, <1>27 DEF PyGILState_Ensure
  <2>3. CASE call[t].hook # "password"
    <3>1. Carrying(call[t], NoTag, data[call[t].self][call[t].hook], NoObject)
            \in Frames
      BY FrameRange, FrameFields, <2>3, <1>27 DEF PyGILState_Ensure, Ensured
    <3>2. call' \in [Threads -> Frames] /\ torn' \subseteq Threads
      BY ONLY TypeOK, <3>1, <2>3, <1>27 DEF PyGILState_Ensure, TypeOK
    <3>3. QED BY <3>2, <1>27 DEF PyGILState_Ensure
  <2>2. QED BY <2>1, <2>3
<1>28. CASE ArgumentsFail(t)
  BY FrameRange, FrameFields, <1>28 DEF ArgumentsFail, PyGILState_Release, Reach,
     HandshakeFrame, Status, Running
<1>29. ASSUME NEW n \in Objects,
             ssl_auth_certificate(t, n)
      PROVE  TypeOK'
  <2>1. Reading(t, n) \in Frames
    BY FrameRange, FrameFields, <1>29 DEF ssl_auth_certificate, RunCallback, Reading, Running
  <2>2. call' \in [Threads -> Frames]
    BY ONLY TypeOK, <2>1, <1>29 DEF TypeOK, ssl_auth_certificate, RunCallback
  <2>3. raced' \subseteq raced
    BY ONLY <1>29 DEF ssl_auth_certificate, SSLSocket_clear
  <2>4. /\ callback' \in [Objects -> [Hook -> Tags \cup {NoTag}]]
        /\ data' \in [Objects -> [Hook -> Tags \cup {NoTag}]]
        /\ pin' \in [Objects -> Pins \cup {NoPin}]
    BY <1>29 DEF ssl_auth_certificate, SSLSocket_clear
  <2>5. call[t].fd \in Descriptors
    BY FrameRange, <1>29 DEF ssl_auth_certificate, RunCallback, Running
  <2>6. fdOf' \in [Objects -> Descriptors \cup {NoFd}]
    BY <2>5, <1>29 DEF ssl_auth_certificate
  <2>7. QED BY <2>2, <2>3, <2>4, <2>6, <1>29 DEF ssl_auth_certificate, RunCallback
<1>30. CASE get_client_auth_data(t)
  <2>1. Reading(t, NoObject) \in Frames
    BY FrameRange, FrameFields, <1>30 DEF get_client_auth_data, RunCallback, Reading, Running
  <2>2. call' \in [Threads -> Frames]
    BY ONLY TypeOK, <2>1, <1>30 DEF TypeOK, get_client_auth_data, RunCallback
  <2>3. QED BY <2>2, <1>30 DEF get_client_auth_data, RunCallback
<1>31. CASE ssl_handshake_callback(t)
  <2>1. Reading(t, call[t].self) \in Frames
    BY FrameRange, FrameFields, <1>31 DEF ssl_handshake_callback, RunCallback, Reading, Running
  <2>2. call' \in [Threads -> Frames]
    BY ONLY TypeOK, <2>1, <1>31 DEF TypeOK, ssl_handshake_callback, RunCallback
  <2>3. QED BY <2>2, <1>31 DEF ssl_handshake_callback, RunCallback
<1>32. ASSUME NEW said \in {"true", "false", "raise", "noTruth"},
             HookReturns(t, said)
      PROVE  TypeOK'
  BY FrameRange, FrameFields, <1>32 DEF HookReturns, PyGILState_Release, Reach,
     HandshakeFrame, ReleaseSocket, Status, Running
<1>33. CASE PasswordUndefined(t)
  BY FrameRange, FrameFields, <1>33 DEF PasswordUndefined, PyGILState_Release, Reach,
     HandshakeFrame, Running
<1>34. CASE PK11_password_callback(t)
  BY FrameRange, FrameFields, <1>34 DEF PK11_password_callback, RunCallback
<1>35. CASE PasswordReturns(t)
  <2>1. PICK next \in {"failed", "wrong", "unlocked"} :
          PyGILState_Release(t, next, "none")
    BY <1>35 DEF PasswordReturns
  <2>2. QED BY FrameRange, FrameFields, <2>1, <1>35 DEF PasswordReturns,
     PyGILState_Release, Reach, HandshakeFrame, Running
<1> QED BY ONLY Step(t), <1>1, <1>2, <1>3, <1>4, <1>5, <1>6, <1>7, <1>8, <1>9,
   <1>10, <1>11, <1>12, <1>13, <1>14, <1>15, <1>16, <1>17, <1>18, <1>19,
   <1>20, <1>21, <1>22, <1>23, <1>24, <1>25, <1>26, <1>27, <1>28, <1>29,
   <1>30, <1>31, <1>32, <1>33, <1>34, <1>35
    DEF Step, Program, Setter, Nss, CalledBack

LEMMA FrameStep ==
  ASSUME TypeOK, FrameShape, NEW t \in Threads, Step(t)
  PROVE  FrameShape'
<1> USE HooksAssumption, FrameRange
<1> USE DEF FrameShape, Setting, Inside, Called, TypeOK, objVars, nssVars, callVars, pwVars
<1>1. CASE TakeGil(t)
  BY <1>1 DEF TakeGil
<1>2. CASE YieldGil(t)
  BY <1>2 DEF YieldGil
<1>3. ASSUME NEW o \in Objects, NEW d \in Descriptors,
             SSLSocket_init(t, o, d)
      PROVE  FrameShape'
  BY <1>3 DEF SSLSocket_init, SSLSocket_clear, Idle
<1>4. ASSUME NEW o \in Objects, NEW n \in Objects, NEW d \in Descriptors,
             SSLSocket_accept(t, o, d, n)
      PROVE  FrameShape'
  BY <1>4 DEF SSLSocket_accept, SSLSocket_clear, Idle
<1>5. ASSUME NEW o \in Objects,
             Socket_close(t, o)
      PROVE  FrameShape'
  BY <1>5 DEF Socket_close, Idle
<1>6. ASSUME NEW o \in Objects,
             SSLSocket_dealloc(t, o)
      PROVE  FrameShape'
  BY <1>6 DEF SSLSocket_dealloc, SSLSocket_clear, Idle
<1>7. ASSUME NEW o \in Objects,
             SSLSocket_force_handshake(t, o)
      PROVE  FrameShape'
  BY <1>7 DEF SSLSocket_force_handshake, Idle, HandshakeFrame, Frame
<1>8. ASSUME NEW o \in Objects,
             SSLSocket_rehandshake(t, o)
      PROVE  FrameShape'
  BY <1>8 DEF SSLSocket_rehandshake, AskAnother, Idle
<1>9. ASSUME NEW o \in Objects,
             SSLSocket_reset_handshake(t, o)
      PROVE  FrameShape'
  BY <1>9 DEF SSLSocket_reset_handshake, AskAnother, Idle
<1>10. ASSUME NEW o \in Objects, NEW h \in Hook, NEW new \in Tags,
             SetHook(t, o, h, new)
      PROVE  FrameShape'
  BY <1>10 DEF SetHook, Enter, Idle, SetterFrame, Carrying, Frame
<1>11. ASSUME NEW o \in Objects, NEW p \in Pins,
             SSLSocket_set_pkcs11_pin_arg(t, o, p)
      PROVE  FrameShape'
  BY <1>11 DEF SSLSocket_set_pkcs11_pin_arg, Enter, Idle, Frame
<1>12. ASSUME NEW c \in Passwords,
             pk11_set_password_callback(t, c)
      PROVE  FrameShape'
  BY <1>12 DEF pk11_set_password_callback, Enter, NoFrame, Frame, Idle
<1>13. CASE ThreadExit(t)
  BY <1>13 DEF ThreadExit, Idle
<1>14. CASE StoreData(t)
  BY <1>14 DEF StoreData, Running
<1>15. CASE HookNss(t)
  BY <1>15 DEF HookNss, Leave, NoFrame, Frame, Running
<1>16. CASE SSL_SetPKCS11PinArg(t)
  BY <1>16 DEF SSL_SetPKCS11PinArg, Leave, NoFrame, Frame, Running
<1>17. CASE PK11_SetPasswordFunc(t)
  BY <1>17 DEF PK11_SetPasswordFunc, Leave, NoFrame, Frame, Running
<1>18. CASE NssAuthenticates(t)
  BY <1>18 DEF NssAuthenticates, CallHook, Hooked, Handshake, Frame
<1>19. CASE NssAsksClient(t)
  BY <1>19 DEF NssAsksClient, CallHook, Hooked, Handshake, Frame
<1>20. CASE NssReports(t)
  BY <1>20 DEF NssReports, CallHook, Hooked, Handshake, Frame
<1>21. CASE NssAsksPassword(t)
  <2>1. "password" \notin Hook
    BY HooksAssumption
  <2>2. QED BY <2>1, <1>21 DEF NssAsksPassword, Frame, Handshake
<1>22. CASE NssAccepts(t)
  BY <1>22 DEF NssAccepts, Advance, Reach, Handshake
<1>23. CASE NssRefuses(t)
  BY <1>23 DEF NssRefuses, Advance, Reach, Handshake
<1>24. CASE NssCompletes(t)
  BY <1>24 DEF NssCompletes, Advance, Reach, Handshake
<1>25. CASE EndHandshake(t)
  BY <1>25 DEF EndHandshake, Reach, Leave, NoFrame, Frame, Handshake
<1>26. CASE NssTimesOut(t)
  BY <1>26 DEF NssTimesOut, Leave, NoFrame, Frame, Handshake
<1>27. CASE PyGILState_Ensure(t)
  BY <1>27 DEF PyGILState_Ensure, Carrying, Ensured
<1>28. CASE ArgumentsFail(t)
  BY <1>28 DEF ArgumentsFail, PyGILState_Release, Reach, HandshakeFrame,
     Frame, Running
<1>29. ASSUME NEW n \in Objects,
             ssl_auth_certificate(t, n)
      PROVE  FrameShape'
  BY <1>29 DEF ssl_auth_certificate, RunCallback, Reading, Carrying, Running,
     SSLSocket_clear
<1>30. CASE get_client_auth_data(t)
  BY <1>30 DEF get_client_auth_data, RunCallback, Reading, Carrying, Running
<1>31. CASE ssl_handshake_callback(t)
  BY <1>31 DEF ssl_handshake_callback, RunCallback, Reading, Carrying, Running
<1>32. ASSUME NEW said \in {"true", "false", "raise", "noTruth"},
             HookReturns(t, said)
      PROVE  FrameShape'
  BY <1>32 DEF HookReturns, PyGILState_Release, Reach, HandshakeFrame, Frame,
     ReleaseSocket, Running
<1>33. CASE PasswordUndefined(t)
  BY <1>33 DEF PasswordUndefined, PyGILState_Release, Reach, HandshakeFrame,
     Frame, Running
<1>34. CASE PK11_password_callback(t)
  BY <1>34 DEF PK11_password_callback, RunCallback, Running
<1>35. CASE PasswordReturns(t)
  BY <1>35 DEF PasswordReturns, PyGILState_Release, Reach, HandshakeFrame,
     Frame, Running
<1> QED BY ONLY Step(t), <1>1, <1>2, <1>3, <1>4, <1>5, <1>6, <1>7, <1>8, <1>9,
   <1>10, <1>11, <1>12, <1>13, <1>14, <1>15, <1>16, <1>17, <1>18, <1>19,
   <1>20, <1>21, <1>22, <1>23, <1>24, <1>25, <1>26, <1>27, <1>28, <1>29,
   <1>30, <1>31, <1>32, <1>33, <1>34, <1>35
    DEF Step, Program, Setter, Nss, CalledBack

-----------------------------------------------------------------------------
(* What holds whatever the program does: no rule is assumed from here to   *)
(* HandshakeForward.                                                       *)

GilInv ==
  /\ at \in [Threads -> Places] /\ gil \in Threads \cup {NoThread}
  /\ GilBalance

LEMMA GilStep ==
  ASSUME GilInv, NEW t \in Threads, Step(t)
  PROVE  GilInv'
<1> USE HooksAssumption
<1> USE DEF GilInv, GilBalance, Places, Inside, Setting, objVars, nssVars, callVars, pwVars
<1>1. CASE TakeGil(t)
  BY <1>1 DEF TakeGil
<1>2. CASE YieldGil(t)
  BY <1>2 DEF YieldGil
<1>3. ASSUME NEW o \in Objects, NEW d \in Descriptors,
             SSLSocket_init(t, o, d)
      PROVE  GilInv'
  BY <1>3 DEF SSLSocket_init, Idle
<1>4. ASSUME NEW o \in Objects, NEW n \in Objects, NEW d \in Descriptors,
             SSLSocket_accept(t, o, d, n)
      PROVE  GilInv'
  BY <1>4 DEF SSLSocket_accept, Idle
<1>5. ASSUME NEW o \in Objects,
             Socket_close(t, o)
      PROVE  GilInv'
  BY <1>5 DEF Socket_close, Idle
<1>6. ASSUME NEW o \in Objects,
             SSLSocket_dealloc(t, o)
      PROVE  GilInv'
  BY <1>6 DEF SSLSocket_dealloc, Idle
<1>7. ASSUME NEW o \in Objects,
             SSLSocket_force_handshake(t, o)
      PROVE  GilInv'
  BY <1>7 DEF SSLSocket_force_handshake, Idle
<1>8. ASSUME NEW o \in Objects,
             SSLSocket_rehandshake(t, o)
      PROVE  GilInv'
  BY <1>8 DEF SSLSocket_rehandshake, AskAnother, Idle
<1>9. ASSUME NEW o \in Objects,
             SSLSocket_reset_handshake(t, o)
      PROVE  GilInv'
  BY <1>9 DEF SSLSocket_reset_handshake, AskAnother, Idle
<1>10. ASSUME NEW o \in Objects, NEW h \in Hook, NEW new \in Tags,
             SetHook(t, o, h, new)
      PROVE  GilInv'
  BY <1>10 DEF SetHook, Enter, Idle
<1>11. ASSUME NEW o \in Objects, NEW p \in Pins,
             SSLSocket_set_pkcs11_pin_arg(t, o, p)
      PROVE  GilInv'
  BY <1>11 DEF SSLSocket_set_pkcs11_pin_arg, Enter, Idle
<1>12. ASSUME NEW c \in Passwords,
             pk11_set_password_callback(t, c)
      PROVE  GilInv'
  BY <1>12 DEF pk11_set_password_callback, Enter, Idle
<1>13. CASE ThreadExit(t)
  BY <1>13 DEF ThreadExit, Idle
<1>14. CASE StoreData(t)
  BY <1>14 DEF StoreData, Running
<1>15. CASE HookNss(t)
  BY <1>15 DEF HookNss, Leave, Running
<1>16. CASE SSL_SetPKCS11PinArg(t)
  BY <1>16 DEF SSL_SetPKCS11PinArg, Leave, Running
<1>17. CASE PK11_SetPasswordFunc(t)
  BY <1>17 DEF PK11_SetPasswordFunc, Leave, Running
<1>18. CASE NssAuthenticates(t)
  BY <1>18 DEF NssAuthenticates, CallHook, Handshake
<1>19. CASE NssAsksClient(t)
  BY <1>19 DEF NssAsksClient, CallHook, Handshake
<1>20. CASE NssReports(t)
  BY <1>20 DEF NssReports, CallHook, Handshake
<1>21. CASE NssAsksPassword(t)
  BY <1>21 DEF NssAsksPassword, Handshake
<1>22. CASE NssAccepts(t)
  BY <1>22 DEF NssAccepts, Advance, Handshake
<1>23. CASE NssRefuses(t)
  BY <1>23 DEF NssRefuses, Advance, Handshake
<1>24. CASE NssCompletes(t)
  BY <1>24 DEF NssCompletes, Advance, Handshake
<1>25. CASE EndHandshake(t)
  BY <1>25 DEF EndHandshake, Leave, Handshake
<1>26. CASE NssTimesOut(t)
  BY <1>26 DEF NssTimesOut, Leave, Handshake
<1>27. CASE PyGILState_Ensure(t)
  BY <1>27 DEF PyGILState_Ensure, Ensured
<1>28. CASE ArgumentsFail(t)
  BY <1>28 DEF ArgumentsFail, PyGILState_Release, Running
<1>29. ASSUME NEW n \in Objects,
             ssl_auth_certificate(t, n)
      PROVE  GilInv'
  BY <1>29 DEF ssl_auth_certificate, RunCallback, Running
<1>30. CASE get_client_auth_data(t)
  BY <1>30 DEF get_client_auth_data, RunCallback, Running
<1>31. CASE ssl_handshake_callback(t)
  BY <1>31 DEF ssl_handshake_callback, RunCallback, Running
<1>32. ASSUME NEW said \in {"true", "false", "raise", "noTruth"},
             HookReturns(t, said)
      PROVE  GilInv'
  BY <1>32 DEF HookReturns, PyGILState_Release, ReleaseSocket, Running
<1>33. CASE PasswordUndefined(t)
  BY <1>33 DEF PasswordUndefined, PyGILState_Release, Running
<1>34. CASE PK11_password_callback(t)
  BY <1>34 DEF PK11_password_callback, RunCallback, Running
<1>35. CASE PasswordReturns(t)
  <2>1. PICK next \in {"failed", "wrong", "unlocked"} :
          PyGILState_Release(t, next, "none")
    BY <1>35 DEF PasswordReturns
  <2>2. QED BY <2>1 DEF PyGILState_Release
<1> QED BY ONLY Step(t), <1>1, <1>2, <1>3, <1>4, <1>5, <1>6, <1>7, <1>8, <1>9,
   <1>10, <1>11, <1>12, <1>13, <1>14, <1>15, <1>16, <1>17, <1>18, <1>19,
   <1>20, <1>21, <1>22, <1>23, <1>24, <1>25, <1>26, <1>27, <1>28, <1>29,
   <1>30, <1>31, <1>32, <1>33, <1>34, <1>35
    DEF Step, Program, Setter, Nss, CalledBack


(* Outside callbacks, and inside NSS, no thread holds the GIL, whichever   *)
(* way the functions NSS calls were left.                                  *)
THEOREM GilGivenBack == Spec => []GilBalance
<1>1. Init => GilInv
  BY HooksAssumption DEF Init, GilInv, GilBalance, Places
<1>2. GilInv /\ [Next]_vars => GilInv'
  <2> SUFFICES ASSUME GilInv, [Next]_vars
               PROVE  GilInv'
    OBVIOUS
  <2>1. CASE UNCHANGED vars
    BY <2>1 DEF vars, callVars, GilInv, GilBalance
  <2>2. ASSUME NEW t \in Threads, Step(t)
        PROVE  GilInv'
    BY <2>2, GilStep
  <2> QED BY <2>1, <2>2 DEF Next, Step
<1>3. GilInv => GilBalance
  BY DEF GilInv
<1> QED BY <1>1, <1>2, <1>3, PTL DEF Spec

(* Only the thread that takes a step moves.  One that is in a handshake    *)
(* stays with its descriptor, and begins with one nobody else is using.    *)
Moved(t) ==
  /\ \A u \in Threads \ {t} : at'[u] = at[u] /\ call'[u] = call[u]
  /\ at'[t] \in Inside =>
       \/ at[t] \in Inside /\ call'[t].fd = call[t].fd
       \/ /\ at[t] = "idle" /\ at'[t] = "nss"
          /\ \E d \in open : /\ call'[t].fd = d
                             /\ ~InNss(d) /\ Settled(d)

LEMMA Moves ==
  ASSUME TypeOK, NEW t \in Threads, Step(t)
  PROVE  Moved(t)
<1> USE HooksAssumption
<1> USE DEF Setting, Inside, objVars, nssVars, callVars, pwVars, TypeOK, Moved
<1>1. CASE TakeGil(t)
  BY <1>1 DEF TakeGil
<1>2. CASE YieldGil(t)
  BY <1>2 DEF YieldGil
<1>3. ASSUME NEW o \in Objects, NEW d \in Descriptors,
             SSLSocket_init(t, o, d)
      PROVE  Moved(t)
  BY <1>3 DEF SSLSocket_init, Idle
<1>4. ASSUME NEW o \in Objects, NEW n \in Objects, NEW d \in Descriptors,
             SSLSocket_accept(t, o, d, n)
      PROVE  Moved(t)
  BY <1>4 DEF SSLSocket_accept, Idle
<1>5. ASSUME NEW o \in Objects,
             Socket_close(t, o)
      PROVE  Moved(t)
  BY <1>5 DEF Socket_close, Idle
<1>6. ASSUME NEW o \in Objects,
             SSLSocket_dealloc(t, o)
      PROVE  Moved(t)
  BY <1>6 DEF SSLSocket_dealloc, Idle
<1>7. ASSUME NEW o \in Objects,
             SSLSocket_force_handshake(t, o)
      PROVE  Moved(t)
  BY <1>7 DEF SSLSocket_force_handshake, Idle, HandshakeFrame, Frame
<1>8. ASSUME NEW o \in Objects,
             SSLSocket_rehandshake(t, o)
      PROVE  Moved(t)
  BY <1>8 DEF SSLSocket_rehandshake, AskAnother, Idle
<1>9. ASSUME NEW o \in Objects,
             SSLSocket_reset_handshake(t, o)
      PROVE  Moved(t)
  BY <1>9 DEF SSLSocket_reset_handshake, AskAnother, Idle
<1>10. ASSUME NEW o \in Objects, NEW h \in Hook, NEW new \in Tags,
             SetHook(t, o, h, new)
      PROVE  Moved(t)
  BY <1>10 DEF SetHook, Enter, Idle, SetterFrame, Carrying, Frame
<1>11. ASSUME NEW o \in Objects, NEW p \in Pins,
             SSLSocket_set_pkcs11_pin_arg(t, o, p)
      PROVE  Moved(t)
  BY <1>11 DEF SSLSocket_set_pkcs11_pin_arg, Enter, Idle, Frame
<1>12. ASSUME NEW c \in Passwords,
             pk11_set_password_callback(t, c)
      PROVE  Moved(t)
  BY <1>12 DEF pk11_set_password_callback, Enter, NoFrame, Frame, Idle
<1>13. CASE ThreadExit(t)
  BY <1>13 DEF ThreadExit, Idle
<1>14. CASE StoreData(t)
  BY <1>14 DEF StoreData, Running
<1>15. CASE HookNss(t)
  BY <1>15 DEF HookNss, Leave, NoFrame, Frame, Running
<1>16. CASE SSL_SetPKCS11PinArg(t)
  BY <1>16 DEF SSL_SetPKCS11PinArg, Leave, NoFrame, Frame, Running
<1>17. CASE PK11_SetPasswordFunc(t)
  BY <1>17 DEF PK11_SetPasswordFunc, Leave, NoFrame, Frame, Running
<1>18. CASE NssAuthenticates(t)
  BY <1>18 DEF NssAuthenticates, CallHook, Handshake, Frame
<1>19. CASE NssAsksClient(t)
  BY <1>19 DEF NssAsksClient, CallHook, Handshake, Frame
<1>20. CASE NssReports(t)
  BY <1>20 DEF NssReports, CallHook, Handshake, Frame
<1>21. CASE NssAsksPassword(t)
  BY <1>21 DEF NssAsksPassword, Frame, Handshake
<1>22. CASE NssAccepts(t)
  BY <1>22 DEF NssAccepts, Advance, Reach, Handshake
<1>23. CASE NssRefuses(t)
  BY <1>23 DEF NssRefuses, Advance, Reach, Handshake
<1>24. CASE NssCompletes(t)
  BY <1>24 DEF NssCompletes, Advance, Reach, Handshake
<1>25. CASE EndHandshake(t)
  BY <1>25 DEF EndHandshake, Reach, Leave, NoFrame, Frame, Handshake
<1>26. CASE NssTimesOut(t)
  BY <1>26 DEF NssTimesOut, Leave, NoFrame, Frame, Handshake
<1>27. CASE PyGILState_Ensure(t)
  BY <1>27 DEF PyGILState_Ensure, Carrying, Ensured
<1>28. CASE ArgumentsFail(t)
  BY <1>28 DEF ArgumentsFail, PyGILState_Release, Reach, HandshakeFrame,
     Frame, Running
<1>29. ASSUME NEW n \in Objects,
             ssl_auth_certificate(t, n)
      PROVE  Moved(t)
  BY <1>29 DEF ssl_auth_certificate, RunCallback, Reading, Carrying, Running
<1>30. CASE get_client_auth_data(t)
  BY <1>30 DEF get_client_auth_data, RunCallback, Reading, Carrying, Running
<1>31. CASE ssl_handshake_callback(t)
  BY <1>31 DEF ssl_handshake_callback, RunCallback, Reading, Carrying, Running
<1>32. ASSUME NEW said \in {"true", "false", "raise", "noTruth"},
             HookReturns(t, said)
      PROVE  Moved(t)
  BY <1>32 DEF HookReturns, PyGILState_Release, Reach, HandshakeFrame, Frame,
     ReleaseSocket, Running
<1>33. CASE PasswordUndefined(t)
  BY <1>33 DEF PasswordUndefined, PyGILState_Release, Reach, HandshakeFrame,
     Frame, Running
<1>34. CASE PK11_password_callback(t)
  BY <1>34 DEF PK11_password_callback, RunCallback, Running
<1>35. CASE PasswordReturns(t)
  <2>1. PICK next \in {"failed", "wrong", "unlocked"} :
          PyGILState_Release(t, next, "none")
    BY <1>35 DEF PasswordReturns
  <2>2. QED BY <2>1, <1>35 DEF PasswordReturns, Running, PyGILState_Release,
          HandshakeFrame, Frame
<1> QED BY ONLY Step(t), <1>1, <1>2, <1>3, <1>4, <1>5, <1>6, <1>7, <1>8, <1>9,
   <1>10, <1>11, <1>12, <1>13, <1>14, <1>15, <1>16, <1>17, <1>18, <1>19,
   <1>20, <1>21, <1>22, <1>23, <1>24, <1>25, <1>26, <1>27, <1>28, <1>29,
   <1>30, <1>31, <1>32, <1>33, <1>34, <1>35
    DEF Step, Program, Setter, Nss, CalledBack

(* The handshake of a descriptor stands still, is set back to its start    *)
(* while nobody is in it, or is moved by the thread that is in it.         *)
LEMMA StageMoves ==
  ASSUME AnyInv, NEW t \in Threads, Step(t)
  PROVE  \A d \in Descriptors :
           \/ stage'[d] = stage[d] /\ answer'[d] = answer[d]
           \/ /\ stage'[d] = "start" /\ answer'[d] = "none"
              /\ d \in open \cap open' => ~InNss(d)
           \/ /\ at[t] \in Inside /\ call[t].fd = d /\ at'[t] \notin Called
              /\ stage'[d] = "failed" \/ answer'[d] \in Accepted
<1> USE HooksAssumption
<1> USE DEF Setting, Inside, objVars, nssVars, callVars, pwVars, AnyInv, TypeOK
<1>1. CASE TakeGil(t)
  BY <1>1 DEF TakeGil
<1>2. CASE YieldGil(t)
  BY <1>2 DEF YieldGil
<1>3. ASSUME NEW o \in Objects, NEW e \in Descriptors,
             SSLSocket_init(t, o, e)
      PROVE  \A d \in Descriptors :
           \/ stage'[d] = stage[d] /\ answer'[d] = answer[d]
           \/ /\ stage'[d] = "start" /\ answer'[d] = "none"
              /\ d \in open \cap open' => ~InNss(d)
           \/ /\ at[t] \in Inside /\ call[t].fd = d /\ at'[t] \notin Called
              /\ stage'[d] = "failed" \/ answer'[d] \in Accepted
  BY <1>3 DEF SSLSocket_init, Fresh, NewHandshake
<1>4. ASSUME NEW o \in Objects, NEW n \in Objects, NEW e \in Descriptors,
             SSLSocket_accept(t, o, e, n)
      PROVE  \A d \in Descriptors :
           \/ stage'[d] = stage[d] /\ answer'[d] = answer[d]
           \/ /\ stage'[d] = "start" /\ answer'[d] = "none"
              /\ d \in open \cap open' => ~InNss(d)
           \/ /\ at[t] \in Inside /\ call[t].fd = d /\ at'[t] \notin Called
              /\ stage'[d] = "failed" \/ answer'[d] \in Accepted
  BY <1>4 DEF SSLSocket_accept, NewHandshake, Idle
<1>5. ASSUME NEW o \in Objects,
             Socket_close(t, o)
      PROVE  \A d \in Descriptors :
           \/ stage'[d] = stage[d] /\ answer'[d] = answer[d]
           \/ /\ stage'[d] = "start" /\ answer'[d] = "none"
              /\ d \in open \cap open' => ~InNss(d)
           \/ /\ at[t] \in Inside /\ call[t].fd = d /\ at'[t] \notin Called
              /\ stage'[d] = "failed" \/ answer'[d] \in Accepted
  BY <1>5 DEF Socket_close, Fresh, NewHandshake, Idle
<1>6. ASSUME NEW o \in Objects,
             SSLSocket_dealloc(t, o)
      PROVE  \A d \in Descriptors :
           \/ stage'[d] = stage[d] /\ answer'[d] = answer[d]
           \/ /\ stage'[d] = "start" /\ answer'[d] = "none"
              /\ d \in open \cap open' => ~InNss(d)
           \/ /\ at[t] \in Inside /\ call[t].fd = d /\ at'[t] \notin Called
              /\ stage'[d] = "failed" \/ answer'[d] \in Accepted
  BY <1>6 DEF SSLSocket_dealloc, Idle
<1>7. ASSUME NEW o \in Objects,
             SSLSocket_force_handshake(t, o)
      PROVE  \A d \in Descriptors :
           \/ stage'[d] = stage[d] /\ answer'[d] = answer[d]
           \/ /\ stage'[d] = "start" /\ answer'[d] = "none"
              /\ d \in open \cap open' => ~InNss(d)
           \/ /\ at[t] \in Inside /\ call[t].fd = d /\ at'[t] \notin Called
              /\ stage'[d] = "failed" \/ answer'[d] \in Accepted
  BY <1>7 DEF SSLSocket_force_handshake, Idle
<1>8. ASSUME NEW o \in Objects,
             SSLSocket_rehandshake(t, o)
      PROVE  \A d \in Descriptors :
           \/ stage'[d] = stage[d] /\ answer'[d] = answer[d]
           \/ /\ stage'[d] = "start" /\ answer'[d] = "none"
              /\ d \in open \cap open' => ~InNss(d)
           \/ /\ at[t] \in Inside /\ call[t].fd = d /\ at'[t] \notin Called
              /\ stage'[d] = "failed" \/ answer'[d] \in Accepted
  BY <1>8 DEF SSLSocket_rehandshake, AskAnother, NewHandshake, Idle
<1>9. ASSUME NEW o \in Objects,
             SSLSocket_reset_handshake(t, o)
      PROVE  \A d \in Descriptors :
           \/ stage'[d] = stage[d] /\ answer'[d] = answer[d]
           \/ /\ stage'[d] = "start" /\ answer'[d] = "none"
              /\ d \in open \cap open' => ~InNss(d)
           \/ /\ at[t] \in Inside /\ call[t].fd = d /\ at'[t] \notin Called
              /\ stage'[d] = "failed" \/ answer'[d] \in Accepted
  BY <1>9 DEF SSLSocket_reset_handshake, AskAnother, NewHandshake, Idle
<1>10. ASSUME NEW o \in Objects, NEW h \in Hook, NEW new \in Tags,
             SetHook(t, o, h, new)
      PROVE  \A d \in Descriptors :
           \/ stage'[d] = stage[d] /\ answer'[d] = answer[d]
           \/ /\ stage'[d] = "start" /\ answer'[d] = "none"
              /\ d \in open \cap open' => ~InNss(d)
           \/ /\ at[t] \in Inside /\ call[t].fd = d /\ at'[t] \notin Called
              /\ stage'[d] = "failed" \/ answer'[d] \in Accepted
  BY <1>10 DEF SetHook, Enter, Idle
<1>11. ASSUME NEW o \in Objects, NEW p \in Pins,
             SSLSocket_set_pkcs11_pin_arg(t, o, p)
      PROVE  \A d \in Descriptors :
           \/ stage'[d] = stage[d] /\ answer'[d] = answer[d]
           \/ /\ stage'[d] = "start" /\ answer'[d] = "none"
              /\ d \in open \cap open' => ~InNss(d)
           \/ /\ at[t] \in Inside /\ call[t].fd = d /\ at'[t] \notin Called
              /\ stage'[d] = "failed" \/ answer'[d] \in Accepted
  BY <1>11 DEF SSLSocket_set_pkcs11_pin_arg, Enter, Idle
<1>12. ASSUME NEW c \in Passwords,
             pk11_set_password_callback(t, c)
      PROVE  \A d \in Descriptors :
           \/ stage'[d] = stage[d] /\ answer'[d] = answer[d]
           \/ /\ stage'[d] = "start" /\ answer'[d] = "none"
              /\ d \in open \cap open' => ~InNss(d)
           \/ /\ at[t] \in Inside /\ call[t].fd = d /\ at'[t] \notin Called
              /\ stage'[d] = "failed" \/ answer'[d] \in Accepted
  BY <1>12 DEF pk11_set_password_callback, Enter, Idle
<1>13. CASE ThreadExit(t)
  BY <1>13 DEF ThreadExit, Idle
<1>14. CASE StoreData(t)
  BY <1>14 DEF StoreData, Running
<1>15. CASE HookNss(t)
  BY <1>15 DEF HookNss, Leave, Running
<1>16. CASE SSL_SetPKCS11PinArg(t)
  BY <1>16 DEF SSL_SetPKCS11PinArg, Leave, Running
<1>17. CASE PK11_SetPasswordFunc(t)
  BY <1>17 DEF PK11_SetPasswordFunc, Leave, Running
<1>18. CASE NssAuthenticates(t)
  BY <1>18 DEF NssAuthenticates, CallHook, Handshake
<1>19. CASE NssAsksClient(t)
  BY <1>19 DEF NssAsksClient, CallHook, Handshake
<1>20. CASE NssReports(t)
  BY <1>20 DEF NssReports, CallHook, Handshake
<1>21. CASE NssAsksPassword(t)
  BY <1>21 DEF NssAsksPassword, Handshake
<1>22. CASE NssAccepts(t)
  <2>1. call[t].fd \in Descriptors
    BY <1>22 DEF NssAccepts, Handshake, FrameShape
  <2>2. QED BY <2>1, <1>22 DEF NssAccepts, Advance, Leave, Reach, Handshake, Called,
          Accepted, AnswerKept, TypeOK, Unfinished
<1>23. CASE NssRefuses(t)
  <2>1. call[t].fd \in Descriptors
    BY <1>23 DEF NssRefuses, Handshake, FrameShape
  <2>2. QED BY <2>1, <1>23 DEF NssRefuses, Advance, Leave, Reach, Handshake, Called,
          Accepted, AnswerKept, TypeOK, Unfinished
<1>24. CASE NssCompletes(t)
  <2>1. call[t].fd \in Descriptors
    BY <1>24 DEF NssCompletes, Handshake, FrameShape
  <2>2. QED BY <2>1, <1>24 DEF NssCompletes, Advance, Leave, Reach, Handshake, Called,
          Accepted, AnswerKept, TypeOK, Unfinished
<1>25. CASE EndHandshake(t)
  <2>1. call[t].fd \in Descriptors
    BY <1>25 DEF EndHandshake, Handshake, FrameShape
  <2>2. QED BY <2>1, <1>25 DEF EndHandshake, Advance, Leave, Reach, Handshake, Called,
          Accepted, AnswerKept, TypeOK, Unfinished
<1>26. CASE NssTimesOut(t)
  BY <1>26 DEF NssTimesOut, Leave, Handshake
<1>27. CASE PyGILState_Ensure(t)
  BY <1>27 DEF PyGILState_Ensure, Ensured
<1>28. CASE ArgumentsFail(t)
  <2>1. at[t] \in Called /\ call[t].fd \in Descriptors
    BY <1>28 DEF ArgumentsFail, Running, Called, FrameShape
  <2>2. stage[call[t].fd] # "failed"
    BY ONLY HooksAssumption, AnyInv, <2>1 DEF AnyInv, HookStage, FrameShape,
       Called
  <2>3. QED BY <2>1, <2>2, <1>28 DEF ArgumentsFail, PyGILState_Release, Reach,
          Status, Called, Accepted, AnswerKept, TypeOK
<1>29. ASSUME NEW n \in Objects,
             ssl_auth_certificate(t, n)
      PROVE  \A d \in Descriptors :
           \/ stage'[d] = stage[d] /\ answer'[d] = answer[d]
           \/ /\ stage'[d] = "start" /\ answer'[d] = "none"
              /\ d \in open \cap open' => ~InNss(d)
           \/ /\ at[t] \in Inside /\ call[t].fd = d /\ at'[t] \notin Called
              /\ stage'[d] = "failed" \/ answer'[d] \in Accepted
  BY <1>29 DEF ssl_auth_certificate, RunCallback, Running
<1>30. CASE get_client_auth_data(t)
  BY <1>30 DEF get_client_auth_data, RunCallback, Running
<1>31. CASE ssl_handshake_callback(t)
  BY <1>31 DEF ssl_handshake_callback, RunCallback, Running
<1>32. ASSUME NEW said \in {"true", "false", "raise", "noTruth"},
             HookReturns(t, said)
      PROVE  \A d \in Descriptors :
           \/ stage'[d] = stage[d] /\ answer'[d] = answer[d]
           \/ /\ stage'[d] = "start" /\ answer'[d] = "none"
              /\ d \in open \cap open' => ~InNss(d)
           \/ /\ at[t] \in Inside /\ call[t].fd = d /\ at'[t] \notin Called
              /\ stage'[d] = "failed" \/ answer'[d] \in Accepted
  <2>1. at[t] \in Called /\ call[t].fd \in Descriptors
    BY <1>32 DEF HookReturns, Running, Called, FrameShape
  <2>2. stage[call[t].fd] # "failed"
    BY ONLY HooksAssumption, AnyInv, <2>1 DEF AnyInv, HookStage, FrameShape,
       Called
  <2>3. QED BY <2>1, <2>2, <1>32 DEF HookReturns, PyGILState_Release, Reach,
          Status, Called, Accepted, AnswerKept, TypeOK
<1>33. CASE PasswordUndefined(t)
  <2>1. at[t] \in Called /\ call[t].fd \in Descriptors
    BY <1>33 DEF PasswordUndefined, Running, Called, FrameShape
  <2>2. stage[call[t].fd] # "failed"
    BY ONLY HooksAssumption, AnyInv, <2>1 DEF AnyInv, HookStage, FrameShape,
       Called
  <2>3. QED BY <2>1, <2>2, <1>33 DEF PasswordUndefined, PyGILState_Release, Reach,
          Status, Called, Accepted, AnswerKept, TypeOK
<1>34. CASE PK11_password_callback(t)
  BY <1>34 DEF PK11_password_callback, RunCallback, Running
<1>35. CASE PasswordReturns(t)
  <2>1. PICK next \in {"failed", "wrong", "unlocked"} :
          PyGILState_Release(t, next, "none")
    BY <1>35 DEF PasswordReturns
  <2>2. at[t] \in Called /\ call[t].fd \in Descriptors
    BY <1>35 DEF PasswordReturns, Running, Called, FrameShape
  <2>3. stage[call[t].fd] # "failed"
    BY ONLY HooksAssumption, AnyInv, <2>2 DEF AnyInv, HookStage, FrameShape,
       Called
  <2>4. QED BY <2>1, <2>2, <2>3, <1>35 DEF PasswordReturns, PyGILState_Release,
          Reach, Called, Accepted, AnswerKept, TypeOK
<1> QED BY ONLY Step(t), <1>1, <1>2, <1>3, <1>4, <1>5, <1>6, <1>7, <1>8, <1>9,
   <1>10, <1>11, <1>12, <1>13, <1>14, <1>15, <1>16, <1>17, <1>18, <1>19,
   <1>20, <1>21, <1>22, <1>23, <1>24, <1>25, <1>26, <1>27, <1>28, <1>29,
   <1>30, <1>31, <1>32, <1>33, <1>34, <1>35
    DEF Step, Program, Setter, Nss, CalledBack

(* A hook is called where HookStage says, and the stage stays meanwhile.   *)
LEMMA HookMoves ==
  ASSUME TypeOK, FrameShape, HookStage, NEW t \in Threads, Step(t)
  PROVE  at'[t] \in Called =>
           LET s == stage[call'[t].fd]
               h == call'[t].hook
           IN  /\ stage' = stage
               /\ s = "start" \/ /\ h # "auth"
                                 /\ h = "client" => s \in {"authed", "unlocked"}
                                 /\ h = "handshake" => s = "shaken"
                                 /\ h = "password" => s \in {"authed", "wrong"}
<1> USE HooksAssumption
<1> USE DEF Setting, Inside, objVars, nssVars, callVars, pwVars, TypeOK, Called, HookStage
<1>1. CASE TakeGil(t)
  BY <1>1 DEF TakeGil
<1>2. CASE YieldGil(t)
  BY <1>2 DEF YieldGil
<1>3. ASSUME NEW o \in Objects, NEW d \in Descriptors,
             SSLSocket_init(t, o, d)
      PROVE  at'[t] \in Called =>
           LET s == stage[call'[t].fd]
               h == call'[t].hook
           IN  /\ stage' = stage
               /\ s = "start" \/ /\ h # "auth"
                                 /\ h = "client" => s \in {"authed", "unlocked"}
                                 /\ h = "handshake" => s = "shaken"
                                 /\ h = "password" => s \in {"authed", "wrong"}
  BY <1>3 DEF SSLSocket_init, Idle
<1>4. ASSUME NEW o \in Objects, NEW n \in Objects, NEW d \in Descriptors,
             SSLSocket_accept(t, o, d, n)
      PROVE  at'[t] \in Called =>
           LET s == stage[call'[t].fd]
               h == call'[t].hook
           IN  /\ stage' = stage
               /\ s = "start" \/ /\ h # "auth"
                                 /\ h = "client" => s \in {"authed", "unlocked"}
                                 /\ h = "handshake" => s = "shaken"
                                 /\ h = "password" => s \in {"authed", "wrong"}
  BY <1>4 DEF SSLSocket_accept, Idle
<1>5. ASSUME NEW o \in Objects,
             Socket_close(t, o)
      PROVE  at'[t] \in Called =>
           LET s == stage[call'[t].fd]
               h == call'[t].hook
           IN  /\ stage' = stage
               /\ s = "start" \/ /\ h # "auth"
                                 /\ h = "client" => s \in {"authed", "unlocked"}
                                 /\ h = "handshake" => s = "shaken"
                                 /\ h = "password" => s \in {"authed", "wrong"}
  BY <1>5 DEF Socket_close, Idle
<1>6. ASSUME NEW o \in Objects,
             SSLSocket_dealloc(t, o)
      PROVE  at'[t] \in Called =>
           LET s == stage[call'[t].fd]
               h == call'[t].hook
           IN  /\ stage' = stage
               /\ s = "start" \/ /\ h # "auth"
                                 /\ h = "client" => s \in {"authed", "unlocked"}
                                 /\ h = "handshake" => s = "shaken"
                                 /\ h = "password" => s \in {"authed", "wrong"}
  BY <1>6 DEF SSLSocket_dealloc, Idle
<1>7. ASSUME NEW o \in Objects,
             SSLSocket_force_handshake(t, o)
      PROVE  at'[t] \in Called =>
           LET s == stage[call'[t].fd]
               h == call'[t].hook
           IN  /\ stage' = stage
               /\ s = "start" \/ /\ h # "auth"
                                 /\ h = "client" => s \in {"authed", "unlocked"}
                                 /\ h = "handshake" => s = "shaken"
                                 /\ h = "password" => s \in {"authed", "wrong"}
  BY <1>7 DEF SSLSocket_force_handshake, Idle, HandshakeFrame, Frame
<1>8. ASSUME NEW o \in Objects,
             SSLSocket_rehandshake(t, o)
      PROVE  at'[t] \in Called =>
           LET s == stage[call'[t].fd]
               h == call'[t].hook
           IN  /\ stage' = stage
               /\ s = "start" \/ /\ h # "auth"
                                 /\ h = "client" => s \in {"authed", "unlocked"}
                                 /\ h = "handshake" => s = "shaken"
                                 /\ h = "password" => s \in {"authed", "wrong"}
  BY <1>8 DEF SSLSocket_rehandshake, AskAnother, Idle
<1>9. ASSUME NEW o \in Objects,
             SSLSocket_reset_handshake(t, o)
      PROVE  at'[t] \in Called =>
           LET s == stage[call'[t].fd]
               h == call'[t].hook
           IN  /\ stage' = stage
               /\ s = "start" \/ /\ h # "auth"
                                 /\ h = "client" => s \in {"authed", "unlocked"}
                                 /\ h = "handshake" => s = "shaken"
                                 /\ h = "password" => s \in {"authed", "wrong"}
  BY <1>9 DEF SSLSocket_reset_handshake, AskAnother, Idle
<1>10. ASSUME NEW o \in Objects, NEW k \in Hook, NEW new \in Tags,
             SetHook(t, o, k, new)
      PROVE  at'[t] \in Called =>
           LET s == stage[call'[t].fd]
               h == call'[t].hook
           IN  /\ stage' = stage
               /\ s = "start" \/ /\ h # "auth"
                                 /\ h = "client" => s \in {"authed", "unlocked"}
                                 /\ h = "handshake" => s = "shaken"
                                 /\ h = "password" => s \in {"authed", "wrong"}
  BY <1>10 DEF SetHook, Enter, Idle, SetterFrame, Carrying, Frame
<1>11. ASSUME NEW o \in Objects, NEW p \in Pins,
             SSLSocket_set_pkcs11_pin_arg(t, o, p)
      PROVE  at'[t] \in Called =>
           LET s == stage[call'[t].fd]
               h == call'[t].hook
           IN  /\ stage' = stage
               /\ s = "start" \/ /\ h # "auth"
                                 /\ h = "client" => s \in {"authed", "unlocked"}
                                 /\ h = "handshake" => s = "shaken"
                                 /\ h = "password" => s \in {"authed", "wrong"}
  BY <1>11 DEF SSLSocket_set_pkcs11_pin_arg, Enter, Idle, Frame
<1>12. ASSUME NEW c \in Passwords,
             pk11_set_password_callback(t, c)
      PROVE  at'[t] \in Called =>
           LET s == stage[call'[t].fd]
               h == call'[t].hook
           IN  /\ stage' = stage
               /\ s = "start" \/ /\ h # "auth"
                                 /\ h = "client" => s \in {"authed", "unlocked"}
                                 /\ h = "handshake" => s = "shaken"
                                 /\ h = "password" => s \in {"authed", "wrong"}
  BY <1>12 DEF pk11_set_password_callback, Enter, NoFrame, Frame, Idle
<1>13. CASE ThreadExit(t)
  BY <1>13 DEF ThreadExit, Idle
<1>14. CASE StoreData(t)
  BY <1>14 DEF StoreData, Running
<1>15. CASE HookNss(t)
  BY <1>15 DEF HookNss, Leave, NoFrame, Frame, Running
<1>16. CASE SSL_SetPKCS11PinArg(t)
  BY <1>16 DEF SSL_SetPKCS11PinArg, Leave, NoFrame, Frame, Running
<1>17. CASE PK11_SetPasswordFunc(t)
  BY <1>17 DEF PK11_SetPasswordFunc, Leave, NoFrame, Frame, Running
<1>18. CASE NssAuthenticates(t)
  BY FrameRange, <1>18 DEF NssAuthenticates, CallHook, Hooked, Handshake, Frame, Called
<1>19. CASE NssAsksClient(t)
  BY FrameRange, <1>19 DEF NssAsksClient, CallHook, Hooked, Handshake, Frame, Called
<1>20. CASE NssReports(t)
  BY FrameRange, <1>20 DEF NssReports, CallHook, Hooked, Handshake, Frame, Called
<1>21. CASE NssAsksPassword(t)
  BY <1>21 DEF NssAsksPassword, Frame, Handshake
<1>22. CASE NssAccepts(t)
  BY <1>22 DEF NssAccepts, Advance, Reach, Handshake
<1>23. CASE NssRefuses(t)
  BY <1>23 DEF NssRefuses, Advance, Reach, Handshake
<1>24. CASE NssCompletes(t)
  BY <1>24 DEF NssCompletes, Advance, Reach, Handshake
<1>25. CASE EndHandshake(t)
  BY <1>25 DEF EndHandshake, Reach, Leave, NoFrame, Frame, Handshake
<1>26. CASE NssTimesOut(t)
  BY <1>26 DEF NssTimesOut, Leave, NoFrame, Frame, Handshake
<1>27. CASE PyGILState_Ensure(t)
  BY <1>27 DEF PyGILState_Ensure, Carrying, Ensured
<1>28. CASE ArgumentsFail(t)
  BY <1>28 DEF ArgumentsFail, PyGILState_Release, Running, Called
<1>29. ASSUME NEW n \in Objects,
             ssl_auth_certificate(t, n)
      PROVE  at'[t] \in Called =>
           LET s == stage[call'[t].fd]
               h == call'[t].hook
           IN  /\ stage' = stage
               /\ s = "start" \/ /\ h # "auth"
                                 /\ h = "client" => s \in {"authed", "unlocked"}
                                 /\ h = "handshake" => s = "shaken"
                                 /\ h = "password" => s \in {"authed", "wrong"}
  BY <1>29 DEF ssl_auth_certificate, RunCallback, Reading, Carrying, Running
<1>30. CASE get_client_auth_data(t)
  BY <1>30 DEF get_client_auth_data, RunCallback, Reading, Carrying, Running
<1>31. CASE ssl_handshake_callback(t)
  BY <1>31 DEF ssl_handshake_callback, RunCallback, Reading, Carrying, Running
<1>32. ASSUME NEW said \in {"true", "false", "raise", "noTruth"},
             HookReturns(t, said)
      PROVE  at'[t] \in Called =>
           LET s == stage[call'[t].fd]
               h == call'[t].hook
           IN  /\ stage' = stage
               /\ s = "start" \/ /\ h # "auth"
                                 /\ h = "client" => s \in {"authed", "unlocked"}
                                 /\ h = "handshake" => s = "shaken"
                                 /\ h = "password" => s \in {"authed", "wrong"}
  BY <1>32 DEF HookReturns, PyGILState_Release, Running, Called
<1>33. CASE PasswordUndefined(t)
  BY <1>33 DEF PasswordUndefined, PyGILState_Release, Running, Called
<1>34. CASE PK11_password_callback(t)
  BY <1>34 DEF PK11_password_callback, RunCallback, Running
<1>35. CASE PasswordReturns(t)
  <2>1. PICK next \in {"failed", "wrong", "unlocked"} :
          PyGILState_Release(t, next, "none")
    BY <1>35 DEF PasswordReturns
  <2>2. QED BY <2>1 DEF PyGILState_Release, Called
<1> QED BY ONLY Step(t), <1>1, <1>2, <1>3, <1>4, <1>5, <1>6, <1>7, <1>8, <1>9,
   <1>10, <1>11, <1>12, <1>13, <1>14, <1>15, <1>16, <1>17, <1>18, <1>19,
   <1>20, <1>21, <1>22, <1>23, <1>24, <1>25, <1>26, <1>27, <1>28, <1>29,
   <1>30, <1>31, <1>32, <1>33, <1>34, <1>35
    DEF Step, Program, Setter, Nss, CalledBack

LEMMA AnyStart == Init => AnyInv
<1> SUFFICES ASSUME Init PROVE AnyInv
  OBVIOUS
<1> USE DEF Init
<1>1. NoFrame \in Frames
  BY FrameFields DEF NoFrame
<1>2. TypeOK
  BY <1>1 DEF TypeOK, Unset, Answers, Places, Stages, Unfinished
<1>3. FrameShape /\ OneHandshake /\ HookStage /\ AnswerKept
  BY DEF FrameShape, OneHandshake, HookStage, AnswerKept, Setting, Inside,
     Called, Accepted
<1> QED BY <1>2, <1>3 DEF AnyInv

LEMMA AnyStep ==
  ASSUME AnyInv, NEW t \in Threads, Step(t)
  PROVE  AnyInv'
<1>1. TypeOK /\ FrameShape /\ OneHandshake /\ HookStage /\ AnswerKept
  BY DEF AnyInv
<1>2. TypeOK' /\ FrameShape' /\ Moved(t)
  BY <1>1, TypeStep, FrameStep, Moves
<1>3. OneHandshake'
  <2> SUFFICES ASSUME NEW u \in Threads, NEW v \in Threads,
                      at'[u] \in Inside, at'[v] \in Inside,
                      call'[u].fd = call'[v].fd, u # v
               PROVE  FALSE
    BY DEF OneHandshake
  <2>1. ASSUME NEW w \in Threads, w # t, at'[w] \in Inside,
               at'[t] \in Inside, call'[w].fd = call'[t].fd
        PROVE  FALSE
    BY <1>1, <1>2, <2>1 DEF Moved, OneHandshake, InNss
  <2>2. CASE u # t /\ v # t
    BY <1>1, <1>2, <2>2 DEF Moved, OneHandshake
  <2> QED BY <2>1, <2>2
<1>4. HookStage'
  <2> SUFFICES ASSUME NEW u \in Threads, (at[u] \in Called)'
               PROVE  (LET s == stage[call[u].fd]
                           h == call[u].hook
                       IN  s = "start" \/
                             /\ h # "auth"
                             /\ h = "client" => s \in {"authed", "unlocked"}
                             /\ h = "handshake" => s = "shaken"
                             /\ h = "password" => s \in {"authed", "wrong"})'
    BY DEF HookStage
  <2>1. CASE u = t
    BY ONLY <1>1, HookMoves, <2>1, (at[u] \in Called)', Step(t)
  <2>2. CASE u # t
    <3>1. at[u] \in Called /\ call'[u] = call[u] /\ call[u].fd \in Descriptors
      BY <1>1, <1>2, <2>2 DEF Moved, FrameShape, Called, Inside
    <3>2. \/ stage'[call[u].fd] = stage[call[u].fd]
          \/ stage'[call[u].fd] = "start"
          \/ at[t] \in Inside /\ call[t].fd = call[u].fd
      BY <3>1, StageMoves
    <3>3. ~(at[t] \in Inside /\ call[t].fd = call[u].fd)
      BY <1>1, <2>2, <3>1 DEF OneHandshake, Called, Inside
    <3> QED BY <1>1, <3>1, <3>2, <3>3 DEF HookStage
  <2> QED BY <2>1, <2>2
<1>5. AnswerKept'
  BY <1>1, StageMoves DEF AnswerKept, Accepted
<1> QED BY <1>2, <1>3, <1>4, <1>5 DEF AnyInv

THEOREM AnyInvariance == Spec => []AnyInv
<1>1. AnyInv /\ [Next]_vars => AnyInv'
  <2> SUFFICES ASSUME AnyInv, [Next]_vars
               PROVE  AnyInv'
    OBVIOUS
  <2>1. CASE UNCHANGED vars
    BY <2>1 DEF AnyInv, vars, objVars, nssVars, callVars, pwVars, TypeOK,
       FrameShape, OneHandshake, HookStage, AnswerKept
  <2>2. ASSUME NEW t \in Threads, Step(t)
        PROVE  AnyInv'
    BY <2>2, AnyStep
  <2> QED BY <2>1, <2>2 DEF Next, Step
<1> QED BY <1>1, AnyStart, PTL DEF Spec

(* Whatever the program does with sockets and hooks in use, the variables  *)
(* keep their types: every frame refers to a hook, an SSLSocket and a      *)
(* descriptor of its kind.                                                 *)
THEOREM TypeCorrect == Spec => []TypeOK
<1>1. AnyInv => TypeOK
  BY DEF AnyInv
<1> QED BY <1>1, AnyInvariance, PTL

(* A handshake whose certificate callback refused, raised or could not be  *)
(* called is never completed, even if it is taken up again by another call *)
(* or thread and the descriptor, its SSLSocket and its hooks change.       *)
THEOREM RefusalRespected == Spec => []AuthRespected
<1>1. AnyInv => AuthRespected
  BY DEF AnyInv, AnswerKept, AuthRespected, TypeOK, Complete
<1> QED BY <1>1, AnyInvariance, PTL

(* What HandshakeAdvances says of one thread.                              *)
Onward(t) ==
  LET d == call[t].fd
  IN  at[t] \in Inside /\ d \in open \cap open' =>
        Stays(t, d) \/ Forward(t, d) \/ WrongAgain(t, d) \/ Ends(t, d)

LEMMA OnwardStep ==
  ASSUME TypeOK, FrameShape, HookStage, NEW t \in Threads, Step(t)
  PROVE  Onward(t)
<1> USE HooksAssumption
<1> USE DEF Onward, Inside, objVars, nssVars, callVars, pwVars
<1>1. CASE TakeGil(t)
  BY <1>1 DEF TakeGil, Stays
<1>2. CASE YieldGil(t)
  BY <1>2 DEF YieldGil, Stays
<1>3. ASSUME NEW o \in Objects, NEW d \in Descriptors,
             SSLSocket_init(t, o, d)
      PROVE  Onward(t)
  BY <1>3 DEF SSLSocket_init, Idle
<1>4. ASSUME NEW o \in Objects, NEW n \in Objects, NEW d \in Descriptors,
             SSLSocket_accept(t, o, d, n)
      PROVE  Onward(t)
  BY <1>4 DEF SSLSocket_accept, Idle
<1>5. ASSUME NEW o \in Objects,
             Socket_close(t, o)
      PROVE  Onward(t)
  BY <1>5 DEF Socket_close, Idle
<1>6. ASSUME NEW o \in Objects,
             SSLSocket_dealloc(t, o)
      PROVE  Onward(t)
  BY <1>6 DEF SSLSocket_dealloc, Idle
<1>7. ASSUME NEW o \in Objects,
             SSLSocket_force_handshake(t, o)
      PROVE  Onward(t)
  BY <1>7 DEF SSLSocket_force_handshake, Idle
<1>8. ASSUME NEW o \in Objects,
             SSLSocket_rehandshake(t, o)
      PROVE  Onward(t)
  BY <1>8 DEF SSLSocket_rehandshake, AskAnother, Idle
<1>9. ASSUME NEW o \in Objects,
             SSLSocket_reset_handshake(t, o)
      PROVE  Onward(t)
  BY <1>9 DEF SSLSocket_reset_handshake, AskAnother, Idle
<1>10. ASSUME NEW o \in Objects, NEW h \in Hook, NEW new \in Tags,
             SetHook(t, o, h, new)
      PROVE  Onward(t)
  BY <1>10 DEF SetHook, Enter, Idle
<1>11. ASSUME NEW o \in Objects, NEW p \in Pins,
             SSLSocket_set_pkcs11_pin_arg(t, o, p)
      PROVE  Onward(t)
  BY <1>11 DEF SSLSocket_set_pkcs11_pin_arg, Enter, Idle
<1>12. ASSUME NEW c \in Passwords,
             pk11_set_password_callback(t, c)
      PROVE  Onward(t)
  BY <1>12 DEF pk11_set_password_callback, Enter, Idle
<1>13. CASE ThreadExit(t)
  BY <1>13 DEF ThreadExit, Idle
<1>14. CASE StoreData(t)
  BY <1>14 DEF StoreData, Running
<1>15. CASE HookNss(t)
  BY <1>15 DEF HookNss, Running
<1>16. CASE SSL_SetPKCS11PinArg(t)
  BY <1>16 DEF SSL_SetPKCS11PinArg, Running
<1>17. CASE PK11_SetPasswordFunc(t)
  BY <1>17 DEF PK11_SetPasswordFunc, Running
<1>18. CASE NssAuthenticates(t)
  BY <1>18 DEF NssAuthenticates, CallHook, Handshake, Forward, PlaceNo, TypeOK
<1>19. CASE NssAsksClient(t)
  BY <1>19 DEF NssAsksClient, CallHook, Handshake, Forward, PlaceNo, TypeOK
<1>20. CASE NssReports(t)
  BY <1>20 DEF NssReports, CallHook, Handshake, Forward, PlaceNo, TypeOK
<1>21. CASE NssAsksPassword(t)
  BY <1>21 DEF NssAsksPassword, Handshake, Forward, PlaceNo, TypeOK
<1>22. CASE NssAccepts(t)
  <2>1. call[t].fd \in Descriptors
    BY <1>22 DEF NssAccepts, Handshake, FrameShape
  <2>2. QED BY <2>1, <1>22 DEF NssAccepts, Advance, Leave, Reach, Handshake, Stays,
          Forward, Ends, StageNo, TypeOK, Unfinished
<1>23. CASE NssRefuses(t)
  <2>1. call[t].fd \in Descriptors
    BY <1>23 DEF NssRefuses, Handshake, FrameShape
  <2>2. QED BY <2>1, <1>23 DEF NssRefuses, Advance, Leave, Reach, Handshake, Stays,
          Forward, Ends, StageNo, TypeOK, Unfinished
<1>24. CASE NssCompletes(t)
  <2>1. call[t].fd \in Descriptors
    BY <1>24 DEF NssCompletes, Handshake, FrameShape
  <2>2. QED BY <2>1, <1>24 DEF NssCompletes, Advance, Leave, Reach, Handshake, Stays,
          Forward, Ends, StageNo, TypeOK, Unfinished
<1>25. CASE EndHandshake(t)
  <2>1. call[t].fd \in Descriptors
    BY <1>25 DEF EndHandshake, Handshake, FrameShape
  <2>2. QED BY <2>1, <1>25 DEF EndHandshake, Advance, Leave, Reach, Handshake, Stays,
          Forward, Ends, StageNo, TypeOK, Unfinished
<1>26. CASE NssTimesOut(t)
  BY <1>26 DEF NssTimesOut, Leave, Handshake, Unfinished, Ends, TypeOK
<1>27. CASE PyGILState_Ensure(t)
  BY <1>27 DEF PyGILState_Ensure, Ensured, Forward, PlaceNo, TypeOK
<1>28. CASE ArgumentsFail(t)
  <2>1. at[t] = "build" /\ call[t].fd \in Descriptors
    BY <1>28 DEF ArgumentsFail, Running, FrameShape
  <2>2. LET s == stage[call[t].fd]
            h == call[t].hook
        IN  s = "start" \/ /\ h # "auth"
                           /\ h = "client" => s \in {"authed", "unlocked"}
                           /\ h = "handshake" => s = "shaken"
                           /\ h = "password" => s \in {"authed", "wrong"}
    BY ONLY <2>1, HookStage DEF HookStage, Called
  <2>3. call[t].hook \in {"auth", "client", "handshake", "password"}
    BY ONLY <2>1, HooksAssumption, FrameShape DEF FrameShape, Called
  <2>4. /\ at'[t] = "nss"
        /\ stage'[call[t].fd] = Status(call[t].hook, "memory")
    BY <2>1, <1>28 DEF ArgumentsFail, PyGILState_Release, Reach, TypeOK
  <2>5. CASE call[t].hook = "auth"
    <3>1. stage'[call[t].fd] \in {"authed", "failed"}
      BY ONLY <2>4, <2>5 DEF Status
    <3>2. stage[call[t].fd] \in {"start"}
      BY ONLY <2>2, <2>5
    <3>3. QED BY ONLY <2>4, <3>1, <3>2 DEF Onward, Forward, StageNo, Inside
  <2>6. CASE call[t].hook = "client"
    <3>1. stage'[call[t].fd] = "ready"
      BY ONLY <2>4, <2>6 DEF Status
    <3>2. stage[call[t].fd] \in {"start", "authed", "unlocked"}
      BY ONLY <2>2, <2>6
    <3>3. QED BY ONLY <2>4, <3>1, <3>2 DEF Onward, Forward, StageNo, Inside
  <2>7. CASE call[t].hook = "handshake"
    <3>1. stage'[call[t].fd] = "over"
      BY ONLY <2>4, <2>7 DEF Status
    <3>2. stage[call[t].fd] \in {"start", "shaken"}
      BY ONLY <2>2, <2>7
    <3>3. QED BY ONLY <2>4, <3>1, <3>2 DEF Onward, Forward, StageNo, Inside
  <2>8. CASE call[t].hook = "password"
    <3>1. stage'[call[t].fd] = "failed"
      BY ONLY <2>4, <2>8 DEF Status
    <3>2. stage[call[t].fd] \in {"start", "authed", "wrong"}
      BY ONLY <2>2, <2>8
    <3>3. QED BY ONLY <2>4, <3>1, <3>2 DEF Onward, Forward, StageNo, Inside
  <2>9. QED BY ONLY <2>3, <2>5, <2>6, <2>7, <2>8
<1>29. ASSUME NEW n \in Objects,
             ssl_auth_certificate(t, n)
      PROVE  Onward(t)
  BY <1>29 DEF ssl_auth_certificate, RunCallback, Running, Forward, PlaceNo, TypeOK
<1>30. CASE get_client_auth_data(t)
  BY <1>30 DEF get_client_auth_data, RunCallback, Running, Forward, PlaceNo, TypeOK
<1>31. CASE ssl_handshake_callback(t)
  BY <1>31 DEF ssl_handshake_callback, RunCallback, Running, Forward, PlaceNo, TypeOK
<1>32. ASSUME NEW said \in {"true", "false", "raise", "noTruth"},
             HookReturns(t, said)
      PROVE  Onward(t)
  <2>1. at[t] = "python" /\ call[t].fd \in Descriptors
    BY <1>32 DEF HookReturns, Running, FrameShape
  <2>2. LET s == stage[call[t].fd]
            h == call[t].hook
        IN  s = "start" \/ /\ h # "auth"
                           /\ h = "client" => s \in {"authed", "unlocked"}
                           /\ h = "handshake" => s = "shaken"
                           /\ h = "password" => s \in {"authed", "wrong"}
    BY ONLY <2>1, HookStage DEF HookStage, Called
  <2>3. call[t].hook \in {"auth", "client", "handshake", "password"}
    BY ONLY <2>1, HooksAssumption, FrameShape DEF FrameShape, Called
  <2>4. /\ at'[t] = "nss"
        /\ stage'[call[t].fd] = Status(call[t].hook, said)
    BY <2>1, <1>32 DEF HookReturns, PyGILState_Release, Reach, TypeOK
  <2>5. CASE call[t].hook = "auth"
    <3>1. stage'[call[t].fd] \in {"authed", "failed"}
      BY ONLY <2>4, <2>5 DEF Status
    <3>2. stage[call[t].fd] \in {"start"}
      BY ONLY <2>2, <2>5
    <3>3. QED BY ONLY <2>4, <3>1, <3>2 DEF Onward, Forward, StageNo, Inside
  <2>6. CASE call[t].hook = "client"
    <3>1. stage'[call[t].fd] = "ready"
      BY ONLY <2>4, <2>6 DEF Status
    <3>2. stage[call[t].fd] \in {"start", "authed", "unlocked"}
      BY ONLY <2>2, <2>6
    <3>3. QED BY ONLY <2>4, <3>1, <3>2 DEF Onward, Forward, StageNo, Inside
  <2>7. CASE call[t].hook = "handshake"
    <3>1. stage'[call[t].fd] = "over"
      BY ONLY <2>4, <2>7 DEF Status
    <3>2. stage[call[t].fd] \in {"start", "shaken"}
      BY ONLY <2>2, <2>7
    <3>3. QED BY ONLY <2>4, <3>1, <3>2 DEF Onward, Forward, StageNo, Inside
  <2>8. CASE call[t].hook = "password"
    <3>1. stage'[call[t].fd] = "failed"
      BY ONLY <2>4, <2>8 DEF Status
    <3>2. stage[call[t].fd] \in {"start", "authed", "wrong"}
      BY ONLY <2>2, <2>8
    <3>3. QED BY ONLY <2>4, <3>1, <3>2 DEF Onward, Forward, StageNo, Inside
  <2>9. QED BY ONLY <2>3, <2>5, <2>6, <2>7, <2>8
<1>33. CASE PasswordUndefined(t)
  <2>1. at[t] = "build" /\ call[t].hook = "password" /\ call[t].fd \in Descriptors
    BY <1>33 DEF PasswordUndefined, Running, FrameShape
  <2>2. stage[call[t].fd] \in {"start", "authed", "wrong"}
    BY ONLY <2>1, HookStage DEF HookStage, Called
  <2>3. at'[t] = "nss" /\ stage'[call[t].fd] = "failed"
    BY <2>1, <1>33 DEF PasswordUndefined, PyGILState_Release, Reach, TypeOK
  <2>4. QED BY ONLY <2>2, <2>3 DEF Onward, Forward, StageNo, Inside
<1>34. CASE PK11_password_callback(t)
  BY <1>34 DEF PK11_password_callback, RunCallback, Running, Forward, PlaceNo, TypeOK
<1>35. CASE PasswordReturns(t)
  <2>1. PICK next \in {"failed", "wrong", "unlocked"} :
          PyGILState_Release(t, next, "none")
    BY <1>35 DEF PasswordReturns
  <2>2. at[t] = "python" /\ call[t].hook = "password"
    BY <1>35 DEF PasswordReturns, Running
  <2>3. stage[call[t].fd] \in {"start", "authed", "wrong"} /\ call[t].fd \in Descriptors
    BY <2>2 DEF HookStage, FrameShape, Called
  <2>4. at'[t] = "nss" /\ stage'[call[t].fd] = next
    BY <2>1, <2>3 DEF PyGILState_Release, Reach, TypeOK
  <2>5. QED BY ONLY <2>1, <2>2, <2>3, <2>4 DEF Onward, Forward, WrongAgain,
          AsksPassword, StageNo, Inside
<1> QED BY ONLY Step(t), <1>1, <1>2, <1>3, <1>4, <1>5, <1>6, <1>7, <1>8, <1>9,
   <1>10, <1>11, <1>12, <1>13, <1>14, <1>15, <1>16, <1>17, <1>18, <1>19,
   <1>20, <1>21, <1>22, <1>23, <1>24, <1>25, <1>26, <1>27, <1>28, <1>29,
   <1>30, <1>31, <1>32, <1>33, <1>34, <1>35
    DEF Step, Program, Setter, Nss, CalledBack

(* While its descriptor is open, every step of a thread inside a handshake *)
(* brings it forward or ends it, except for another wrong password: over   *)
(* timeouts, and whatever other threads do, NSS calls each hook once at    *)
(* most until a new handshake is asked for.                                *)
THEOREM HandshakeForward == Spec => HandshakeAdvances
<1> DEFINE Goes == \A t \in Threads : Onward(t)
<1>1. AnyInv /\ [Next]_vars => [Goes]_vars
  <2> SUFFICES ASSUME AnyInv, Next
               PROVE  Goes
    OBVIOUS
  <2>1. PICK t \in Threads : Step(t)
    BY DEF Next, Step
  <2>2. TypeOK /\ FrameShape /\ OneHandshake /\ HookStage
    BY DEF AnyInv
  <2>3. ASSUME NEW u \in Threads
        PROVE  Onward(u)
    <3>1. CASE u = t
      BY <2>1, <2>2, <3>1, OnwardStep
    <3>2. ASSUME u # t, at[u] \in Inside, call[u].fd \in open \cap open'
          PROVE  Stays(u, call[u].fd)
      <4>1. call[u].fd \in Descriptors /\ InNss(call[u].fd)
        BY <2>2, <3>2 DEF FrameShape, InNss
      <4>2. ~(at[t] \in Inside /\ call[t].fd = call[u].fd)
        BY <2>2, <3>2 DEF OneHandshake
      <4>3. stage'[call[u].fd] = stage[call[u].fd]
        BY <2>1, <3>2, <4>1, <4>2, StageMoves
      <4>4. at'[u] = at[u]
        BY <2>1, <2>2, <3>2, Moves DEF Moved
      <4> QED BY <4>3, <4>4 DEF Stays
    <3> QED BY <3>1, <3>2 DEF Onward
  <2> QED BY <2>3
<1> QED BY <1>1, AnyInvariance, PTL DEF Spec, HandshakeAdvances, Onward

-----------------------------------------------------------------------------
(* What holds for a program that keeps its sockets: only the rule "keep"   *)
(* is assumed from here to OwnData.                                        *)

LEMMA HeldKept ==
  ASSUME HeldLineage, UNCHANGED <<held, open, line, hookArg>>,
         \A o \in held : fdOf'[o] = fdOf[o]
  PROVE  HeldLineage'
BY DEF HeldLineage

LEMMA HeldLineageStep ==
  ASSUME "keep" \in Rules, TypeOK, FrameShape, HeldLineage, HeldInUse,
     NEW t \in Threads, Step(t)
  PROVE  HeldLineage'
<1> USE HooksAssumption, FrameRange DEF Setting, Inside, Called, objVars,
   nssVars, TypeOK, HeldInUse
<1>1. CASE TakeGil(t)
  BY ONLY <1>1, HeldKept, HeldLineage DEF TakeGil, objVars, nssVars
<1>2. CASE YieldGil(t)
  BY ONLY <1>2, HeldKept, HeldLineage DEF YieldGil, objVars, nssVars
<1>3. ASSUME NEW o \in Objects, NEW d \in Descriptors,
             SSLSocket_init(t, o, d)
      PROVE  HeldLineage'
  <2>1. /\ d \notin open
        /\ held' = held \cup {o} /\ open' = open \cup {d}
        /\ fdOf' = [fdOf EXCEPT ![o] = d] /\ line' = [line EXCEPT ![d] = {o}]
        /\ hookArg' = [hookArg EXCEPT ![d] = Unset(NoObject)]
    BY ONLY <1>3 DEF SSLSocket_init, Fresh, Live
  <2>2. /\ fdOf'[o] = d /\ \A x \in held \ {o} : fdOf'[x] = fdOf[x]
        /\ line'[d] = {o} /\ \A e \in Descriptors \ {d} : line'[e] = line[e]
        /\ \A h \in Hook : hookArg'[d][h] = NoObject
        /\ \A e \in Descriptors \ {d} : hookArg'[e] = hookArg[e]
    BY ONLY TypeOK, <2>1, o \in Objects, d \in Descriptors DEF TypeOK, Unset
  <2>3. /\ open \subseteq Descriptors /\ HeldLineage
        /\ NoFd \notin Descriptors /\ d \in Descriptors
    BY ONLY TypeOK, HeldLineage, HooksAssumption, d \in Descriptors DEF TypeOK
  <2>4. \A e \in Descriptors :
          /\ line'[e] \subseteq held'
          /\ e \notin open' => line'[e] = {}
          /\ \A h \in Hook : hookArg'[e][h] \in line'[e] \cup {NoObject}
    BY ONLY <2>1, <2>2, <2>3 DEF HeldLineage
  <2>5. \A x \in held' :
          fdOf'[x] # NoFd => fdOf'[x] \in open' /\ x \in line'[fdOf'[x]]
    <3>1. ASSUME NEW x \in held \ {o}, fdOf[x] # NoFd
          PROVE  /\ fdOf[x] \in open /\ x \in line[fdOf[x]]
                 /\ fdOf[x] \in Descriptors \ {d}
      <4>1. fdOf[x] \in open /\ x \in line[fdOf[x]]
        BY ONLY HeldLineage, <3>1 DEF HeldLineage
      <4> QED BY ONLY <2>1, <2>3, <4>1
    <3> QED BY ONLY <2>1, <2>2, <3>1
  <2>6. \A x, y \in held' :
          fdOf'[x] = fdOf'[y] => x = y \/ fdOf'[x] = NoFd
    <3>1. ASSUME NEW x \in held \ {o}
          PROVE  fdOf'[x] # d /\ fdOf'[x] = fdOf[x]
      <4>1. fdOf[x] = NoFd \/ fdOf[x] \in open
        BY ONLY HeldLineage, <3>1 DEF HeldLineage
      <4> QED BY ONLY <2>1, <2>2, <2>3, <4>1
    <3>2. \A x, y \in held : fdOf[x] = fdOf[y] => x = y \/ fdOf[x] = NoFd
      BY ONLY HeldLineage DEF HeldLineage
    <3> QED BY ONLY <2>1, <2>2, <3>1, <3>2
  <2> QED BY ONLY <2>4, <2>5, <2>6 DEF HeldLineage
<1>4. ASSUME NEW o \in Objects, NEW n \in Objects, NEW d \in Descriptors,
             SSLSocket_accept(t, o, d, n)
      PROVE  HeldLineage'
  <2>1. n \notin held /\ d \notin open /\ o \in held /\ fdOf[o] \in open
    BY <1>4 DEF SSLSocket_accept, Live
  <2>2. /\ open' = open \cup {d}
        /\ \A e \in Descriptors \ {d} : line'[e] = line[e]
        /\ \A h \in Hook : hookArg'[d][h] = hookArg[fdOf[o]][h]
        /\ \A e \in Descriptors \ {d} : hookArg'[e] = hookArg[e]
    BY ONLY TypeOK, FrameShape, HeldLineage, HeldInUse, <2>1, <1>4 DEF SSLSocket_accept, TypeOK
  <2>3. \/ /\ held' = held \cup {n} /\ fdOf'[n] = d
           /\ \A x \in held : fdOf'[x] = fdOf[x]
           /\ line'[d] = line[fdOf[o]] \cup {n}
        \/ /\ held' = held /\ \A x \in held : fdOf'[x] = fdOf[x]
           /\ line'[d] = line[fdOf[o]]
    <3>1. CASE /\ fdOf' = [fdOf EXCEPT ![n] = d] /\ held' = held \cup {n}
               /\ line' = [line EXCEPT ![d] = line[fdOf[o]] \cup {n}]
      BY ONLY TypeOK, FrameShape, HeldLineage, HeldInUse, <2>1, <3>1, <1>4 DEF TypeOK
    <3>2. CASE /\ line' = [line EXCEPT ![d] = line[fdOf[o]]] /\ UNCHANGED objVars
      BY ONLY TypeOK, FrameShape, HeldLineage, HeldInUse, <2>1, <3>2, <1>4 DEF TypeOK, objVars
    <3>3. QED BY ONLY <3>1, <3>2, <1>4 DEF SSLSocket_accept
  <2>4. CASE held' = held
    <3>1. /\ \A x \in held : fdOf'[x] = fdOf[x]
          /\ line'[d] = line[fdOf[o]]
      BY ONLY <2>1, <2>3, <2>4
    <3>2. /\ open \subseteq Descriptors /\ d \in Descriptors /\ HeldLineage
      BY ONLY TypeOK, HeldLineage, d \in Descriptors DEF TypeOK
    <3>3. \A e \in Descriptors :
            /\ line'[e] \subseteq held'
            /\ e \notin open' => line'[e] = {}
            /\ \A h \in Hook : hookArg'[e][h] \in line'[e] \cup {NoObject}
      BY ONLY <2>1, <2>2, <2>4, <3>1, <3>2 DEF HeldLineage
    <3>4. \A x \in held' :
            fdOf'[x] # NoFd => fdOf'[x] \in open' /\ x \in line'[fdOf'[x]]
      BY ONLY <2>1, <2>2, <2>4, <3>1, <3>2 DEF HeldLineage
    <3>5. \A x, y \in held' :
            fdOf'[x] = fdOf'[y] => x = y \/ fdOf'[x] = NoFd
      BY ONLY <2>4, <3>1, <3>2 DEF HeldLineage
    <3> QED BY ONLY <3>3, <3>4, <3>5 DEF HeldLineage
  <2>5. CASE held' # held
    <3>1. /\ held' = held \cup {n} /\ fdOf'[n] = d
          /\ \A x \in held : fdOf'[x] = fdOf[x]
          /\ line'[d] = line[fdOf[o]] \cup {n}
      BY ONLY <2>3, <2>5
    <3>2. /\ open \subseteq Descriptors /\ d \in Descriptors /\ HeldLineage
      BY ONLY TypeOK, FrameShape, HeldLineage, HeldInUse, d \in Descriptors DEF TypeOK
    <3>3. \A e \in Descriptors :
            /\ line'[e] \subseteq held'
            /\ e \notin open' => line'[e] = {}
            /\ \A h \in Hook : hookArg'[e][h] \in line'[e] \cup {NoObject}
      BY ONLY <2>1, <2>2, <3>1, <3>2 DEF HeldLineage
    <3>4. \A x \in held' :
            fdOf'[x] # NoFd => fdOf'[x] \in open' /\ x \in line'[fdOf'[x]]
      BY ONLY <2>1, <2>2, <3>1, <3>2 DEF HeldLineage
    <3>5. \A x, y \in held' :
            fdOf'[x] = fdOf'[y] => x = y \/ fdOf'[x] = NoFd
      BY ONLY HooksAssumption, <2>1, <3>1, <3>2 DEF HeldLineage
    <3> QED BY ONLY <3>3, <3>4, <3>5 DEF HeldLineage
  <2>6. QED BY ONLY <2>4, <2>5
<1>5. ASSUME NEW o \in Objects,
             Socket_close(t, o)
      PROVE  HeldLineage'
  <2>1. /\ o \in held /\ fdOf[o] \in open
        /\ held \subseteq Objects /\ open \subseteq Descriptors
    BY <1>5 DEF Socket_close
  <2>2. /\ held' = held /\ open' = open \ {fdOf[o]} /\ fdOf'[o] = NoFd
        /\ \A x \in held \ {o} : fdOf'[x] = fdOf[x]
        /\ line'[fdOf[o]] = {}
        /\ \A e \in Descriptors \ {fdOf[o]} : line'[e] = line[e]
    BY ONLY TypeOK, FrameShape, HeldLineage, HeldInUse, <2>1, <1>5 DEF Socket_close, TypeOK
  <2>3. hookArg' = [hookArg EXCEPT ![fdOf[o]] = Unset(NoObject)]
    BY ONLY <1>5 DEF Socket_close, Fresh
  <2>4. /\ \A h \in Hook : hookArg'[fdOf[o]][h] = NoObject
        /\ \A e \in Descriptors \ {fdOf[o]} : hookArg'[e] = hookArg[e]
    BY ONLY TypeOK, FrameShape, HeldLineage, HeldInUse, <2>1, <2>3 DEF TypeOK, Unset
  <2>5. \A x \in held \ {o} : fdOf[x] # fdOf[o]
    BY ONLY TypeOK, FrameShape, HeldLineage, HeldInUse, HooksAssumption, <2>1 DEF HeldLineage, TypeOK
  <2>6. fdOf[o] \in Descriptors /\ HeldLineage
    BY ONLY TypeOK, FrameShape, HeldLineage, HeldInUse, <2>1
  <2>7. \A e \in Descriptors :
          /\ line'[e] \subseteq held'
          /\ e \notin open' => line'[e] = {}
          /\ \A h \in Hook : hookArg'[e][h] \in line'[e] \cup {NoObject}
    BY ONLY <2>1, <2>2, <2>4, <2>6 DEF HeldLineage
  <2>8. \A x \in held' :
          fdOf'[x] # NoFd => fdOf'[x] \in open' /\ x \in line'[fdOf'[x]]
    <3>1. ASSUME NEW x \in held \ {o}, fdOf[x] # NoFd
          PROVE  fdOf[x] \in open \ {fdOf[o]} /\ x \in line'[fdOf[x]]
      BY ONLY <2>1, <2>2, <2>5, <2>6, <3>1 DEF HeldLineage
    <3> QED BY ONLY <2>1, <2>2, <3>1
  <2>9. \A x, y \in held' :
          fdOf'[x] = fdOf'[y] => x = y \/ fdOf'[x] = NoFd
    BY ONLY <2>1, <2>2, <2>6 DEF HeldLineage
  <2> QED BY ONLY <2>7, <2>8, <2>9 DEF HeldLineage
<1>6. ASSUME NEW o \in Objects,
             SSLSocket_dealloc(t, o)
      PROVE  HeldLineage'
  <2>1. o \in held /\ \A e \in Descriptors : o \notin line[e]
    BY <1>6 DEF SSLSocket_dealloc, MayDrop, Heirs, HeldLineage
  <2>2. /\ held' = held \ {o}
        /\ \A x \in held' : fdOf'[x] = fdOf[x]
        /\ UNCHANGED <<open, line, hookArg>>
    BY <2>1, <1>6 DEF SSLSocket_dealloc, SSLSocket_clear, nssVars
  <2>3. QED BY ONLY TypeOK, FrameShape, HeldLineage, HeldInUse, <2>1, <2>2 DEF HeldLineage
<1>7. ASSUME NEW o \in Objects,
             SSLSocket_force_handshake(t, o)
      PROVE  HeldLineage'
  BY ONLY <1>7, HeldKept, HeldLineage DEF SSLSocket_force_handshake, objVars,
     nssVars
<1>8. ASSUME NEW o \in Objects,
             SSLSocket_rehandshake(t, o)
      PROVE  HeldLineage'
  BY ONLY <1>8, HeldKept, HeldLineage DEF SSLSocket_rehandshake, AskAnother,
     NewHandshake, objVars, nssVars
<1>9. ASSUME NEW o \in Objects,
             SSLSocket_reset_handshake(t, o)
      PROVE  HeldLineage'
  BY ONLY <1>9, HeldKept, HeldLineage DEF SSLSocket_reset_handshake, AskAnother,
     NewHandshake, objVars, nssVars
<1>10. ASSUME NEW o \in Objects, NEW h \in Hook, NEW new \in Tags,
             SetHook(t, o, h, new)
      PROVE  HeldLineage'
  BY ONLY <1>10, HeldKept, HeldLineage DEF SetHook, Enter, objVars, nssVars
<1>11. ASSUME NEW o \in Objects, NEW p \in Pins,
             SSLSocket_set_pkcs11_pin_arg(t, o, p)
      PROVE  HeldLineage'
  BY ONLY <1>11, HeldKept, HeldLineage DEF SSLSocket_set_pkcs11_pin_arg, Enter,
     objVars, nssVars
<1>12. ASSUME NEW c \in Passwords,
             pk11_set_password_callback(t, c)
      PROVE  HeldLineage'
  BY ONLY <1>12, HeldKept, HeldLineage DEF pk11_set_password_callback, Enter,
     objVars, nssVars
<1>13. CASE ThreadExit(t)
  BY ONLY <1>13, HeldKept, HeldLineage DEF ThreadExit, objVars, nssVars
<1>14. CASE StoreData(t)
  BY ONLY <1>14, HeldKept, HeldLineage DEF StoreData, objVars, nssVars
<1>15. CASE HookNss(t)
  <2> DEFINE o == call[t].obj
             d == fdOf[o]
  <2>1. /\ o \in held /\ call[t].hook \in Hook
        /\ UNCHANGED <<held, fdOf, open, line>>
    BY <1>15 DEF HookNss, Running
  <2>2. \/ UNCHANGED hookArg
        \/ d \in open /\ hookArg' = [hookArg EXCEPT ![d][call[t].hook] = o]
    BY ONLY <1>15 DEF HookNss
  <2>3. CASE UNCHANGED hookArg
    BY ONLY <2>1, <2>3, HeldKept, HeldLineage
  <2>4. ASSUME d \in open, hookArg' = [hookArg EXCEPT ![d][call[t].hook] = o]
        PROVE  HeldLineage'
    <3>1. o \in line[d] /\ d \in Descriptors
      BY ONLY TypeOK, HeldLineage, HooksAssumption, <2>1, <2>4 DEF HeldLineage, TypeOK
    <3>2. \A e \in Descriptors, h \in Hook :
            \/ hookArg'[e][h] = hookArg[e][h]
            \/ /\ e = d
               /\ hookArg'[e][h] = o
      <4>1. hookArg \in [Descriptors -> [Hook -> Objects \cup {NoObject}]]
        BY ONLY TypeOK DEF TypeOK
      <4>2. \A e \in Descriptors \ {d} : hookArg'[e] = hookArg[e]
        BY ONLY <2>4, <4>1
      <4>3. hookArg'[d] = [hookArg[d] EXCEPT ![call[t].hook] = o]
        BY ONLY <2>4, <3>1, <4>1
      <4>4. hookArg[d] \in [Hook -> Objects \cup {NoObject}]
        BY ONLY <3>1, <4>1
      <4>5. \A h \in Hook : hookArg'[d][h] = hookArg[d][h] \/ hookArg'[d][h] = o
        BY ONLY <4>3, <4>4
      <4>6. TAKE e \in Descriptors, h \in Hook
      <4>7. CASE e = d
        BY ONLY <4>5, <4>7, h \in Hook
      <4>8. CASE e # d
        BY ONLY <4>2, <4>8, e \in Descriptors
      <4>9. QED BY ONLY <4>7, <4>8
    <3>3. QED BY ONLY HeldLineage, <2>1, <3>1, <3>2 DEF HeldLineage
  <2>5. QED BY ONLY <2>2, <2>3, <2>4
<1>16. CASE SSL_SetPKCS11PinArg(t)
  BY ONLY <1>16, HeldKept, HeldLineage DEF SSL_SetPKCS11PinArg, Leave, objVars,
     nssVars
<1>17. CASE PK11_SetPasswordFunc(t)
  BY ONLY <1>17, HeldKept, HeldLineage DEF PK11_SetPasswordFunc, Leave, objVars,
     nssVars
<1>18. CASE NssAuthenticates(t)
  BY ONLY <1>18, HeldKept, HeldLineage DEF NssAuthenticates, CallHook, objVars,
     nssVars
<1>19. CASE NssAsksClient(t)
  BY ONLY <1>19, HeldKept, HeldLineage DEF NssAsksClient, CallHook, objVars,
     nssVars
<1>20. CASE NssReports(t)
  BY ONLY <1>20, HeldKept, HeldLineage DEF NssReports, CallHook, objVars, nssVars
<1>21. CASE NssAsksPassword(t)
  BY ONLY <1>21, HeldKept, HeldLineage DEF NssAsksPassword, objVars, nssVars
<1>22. CASE NssAccepts(t)
  BY ONLY <1>22, HeldKept, HeldLineage DEF NssAccepts, Advance, Reach, objVars,
     nssVars
<1>23. CASE NssRefuses(t)
  BY ONLY <1>23, HeldKept, HeldLineage DEF NssRefuses, Advance, Reach, objVars,
     nssVars
<1>24. CASE NssCompletes(t)
  BY ONLY <1>24, HeldKept, HeldLineage DEF NssCompletes, Advance, Reach, objVars,
     nssVars
<1>25. CASE EndHandshake(t)
  BY ONLY <1>25, HeldKept, HeldLineage DEF EndHandshake, Reach, Leave, objVars,
     nssVars
<1>26. CASE NssTimesOut(t)
  BY ONLY <1>26, HeldKept, HeldLineage DEF NssTimesOut, Leave, objVars, nssVars
<1>27. CASE PyGILState_Ensure(t)
  BY ONLY <1>27, HeldKept, HeldLineage DEF PyGILState_Ensure, objVars, nssVars
<1>28. CASE ArgumentsFail(t)
  BY ONLY <1>28, HeldKept, HeldLineage DEF ArgumentsFail, PyGILState_Release,
     Reach, objVars, nssVars
<1>29. ASSUME NEW n \in Objects,
             ssl_auth_certificate(t, n)
      PROVE  HeldLineage'
  BY ONLY <1>29, HeldKept, HeldLineage, TypeOK,
     n \in Objects DEF ssl_auth_certificate, RunCallback, SSLSocket_clear,
     Live, objVars, nssVars
<1>30. CASE get_client_auth_data(t)
  BY ONLY <1>30, HeldKept, HeldLineage DEF get_client_auth_data, RunCallback,
     objVars, nssVars
<1>31. CASE ssl_handshake_callback(t)
  BY ONLY <1>31, HeldKept, HeldLineage DEF ssl_handshake_callback, RunCallback,
     objVars, nssVars
<1>32. ASSUME NEW said \in {"true", "false", "raise", "noTruth"},
             HookReturns(t, said)
      PROVE  HeldLineage'
  <2>1. UNCHANGED <<held, open, line, hookArg>>
    BY <1>32 DEF HookReturns, PyGILState_Release, ReleaseSocket
  <2>2. CASE call[t].hook # "auth"
    BY <1>32, <2>1, <2>2, HeldKept DEF HookReturns, ReleaseSocket
  <2>3. CASE call[t].hook = "auth"
    <3>1. fdOf' = [fdOf EXCEPT ![call[t].sock] = NoFd]
      BY <1>32, <2>3 DEF HookReturns, ReleaseSocket
    <3> QED BY ONLY TypeOK, FrameShape, HeldLineage, HeldInUse, HooksAssumption, <2>1, <3>1 DEF HeldLineage, TypeOK
  <2> QED BY <2>2, <2>3
<1>33. CASE PasswordUndefined(t)
  BY ONLY <1>33, HeldKept, HeldLineage DEF PasswordUndefined, PyGILState_Release,
     Reach, objVars, nssVars
<1>34. CASE PK11_password_callback(t)
  BY ONLY <1>34, HeldKept, HeldLineage DEF PK11_password_callback, RunCallback,
     objVars, nssVars
<1>35. CASE PasswordReturns(t)
  BY ONLY <1>35, HeldKept, HeldLineage DEF PasswordReturns, PyGILState_Release
<1> QED BY ONLY Step(t), <1>1, <1>2, <1>3, <1>4, <1>5, <1>6, <1>7, <1>8, <1>9,
   <1>10, <1>11, <1>12, <1>13, <1>14, <1>15, <1>16, <1>17, <1>18, <1>19,
   <1>20, <1>21, <1>22, <1>23, <1>24, <1>25, <1>26, <1>27, <1>28, <1>29,
   <1>30, <1>31, <1>32, <1>33, <1>34, <1>35
    DEF Step, Program, Setter, Nss, CalledBack

LEMMA HeldInUseStep ==
  ASSUME "keep" \in Rules, TypeOK, FrameShape, HeldLineage, HeldInUse,
     NEW t \in Threads, Step(t)
  PROVE  HeldInUse'
<1> USE HooksAssumption DEF HeldInUse, Setting, Inside, TypeOK, objVars, nssVars, callVars, pwVars
<1>1. CASE TakeGil(t)
  BY <1>1 DEF TakeGil
<1>2. CASE YieldGil(t)
  BY <1>2 DEF YieldGil
<1>3. ASSUME NEW o \in Objects, NEW d \in Descriptors,
             SSLSocket_init(t, o, d)
      PROVE  HeldInUse'
  BY <1>3 DEF SSLSocket_init, Live
<1>4. ASSUME NEW o \in Objects, NEW n \in Objects, NEW d \in Descriptors,
             SSLSocket_accept(t, o, d, n)
      PROVE  HeldInUse'
  BY <1>4 DEF SSLSocket_accept, Live
<1>5. ASSUME NEW o \in Objects,
             Socket_close(t, o)
      PROVE  HeldInUse'
  BY <1>5 DEF Socket_close, Idle
<1>6. ASSUME NEW o \in Objects,
             SSLSocket_dealloc(t, o)
      PROVE  HeldInUse'
  BY <1>6 DEF SSLSocket_dealloc, MayDrop
<1>7. ASSUME NEW o \in Objects,
             SSLSocket_force_handshake(t, o)
      PROVE  HeldInUse'
  BY <1>7 DEF SSLSocket_force_handshake, Idle, HandshakeFrame, Frame
<1>8. ASSUME NEW o \in Objects,
             SSLSocket_rehandshake(t, o)
      PROVE  HeldInUse'
  BY <1>8 DEF SSLSocket_rehandshake, AskAnother, Idle
<1>9. ASSUME NEW o \in Objects,
             SSLSocket_reset_handshake(t, o)
      PROVE  HeldInUse'
  BY <1>9 DEF SSLSocket_reset_handshake, AskAnother, Idle
<1>10. ASSUME NEW o \in Objects, NEW h \in Hook, NEW new \in Tags,
             SetHook(t, o, h, new)
      PROVE  HeldInUse'
  BY <1>10 DEF SetHook, Enter, Idle, SetterFrame, Carrying, Frame
<1>11. ASSUME NEW o \in Objects, NEW p \in Pins,
             SSLSocket_set_pkcs11_pin_arg(t, o, p)
      PROVE  HeldInUse'
  BY <1>11 DEF SSLSocket_set_pkcs11_pin_arg, Enter, Idle, Frame
<1>12. ASSUME NEW c \in Passwords,
             pk11_set_password_callback(t, c)
      PROVE  HeldInUse'
  BY <1>12 DEF pk11_set_password_callback, Enter, NoFrame, Frame, Idle
<1>13. CASE ThreadExit(t)
  BY <1>13 DEF ThreadExit, Idle
<1>14. CASE StoreData(t)
  BY <1>14 DEF StoreData, Running
<1>15. CASE HookNss(t)
  BY <1>15 DEF HookNss, Leave, NoFrame, Frame, Running
<1>16. CASE SSL_SetPKCS11PinArg(t)
  BY <1>16 DEF SSL_SetPKCS11PinArg, Leave, NoFrame, Frame, Running
<1>17. CASE PK11_SetPasswordFunc(t)
  BY <1>17 DEF PK11_SetPasswordFunc, Leave, NoFrame, Frame, Running
<1>18. CASE NssAuthenticates(t)
  <2>1. hookArg[call[t].fd]["auth"] \in held \cup {NoObject}
    BY <1>18 DEF NssAuthenticates, CallHook, Hooked, Handshake, HeldLineage, FrameShape
  <2>2. QED BY <2>1, <1>18 DEF NssAuthenticates, CallHook, Frame
<1>19. CASE NssAsksClient(t)
  <2>1. hookArg[call[t].fd]["client"] \in held \cup {NoObject}
    BY <1>19 DEF NssAsksClient, CallHook, Hooked, Handshake, HeldLineage, FrameShape
  <2>2. QED BY <2>1, <1>19 DEF NssAsksClient, CallHook, Frame
<1>20. CASE NssReports(t)
  <2>1. hookArg[call[t].fd]["handshake"] \in held \cup {NoObject}
    BY <1>20 DEF NssReports, CallHook, Hooked, Handshake, HeldLineage, FrameShape
  <2>2. QED BY <2>1, <1>20 DEF NssReports, CallHook, Frame
<1>21. CASE NssAsksPassword(t)
  BY <1>21 DEF NssAsksPassword, Frame, Handshake
<1>22. CASE NssAccepts(t)
  BY <1>22 DEF NssAccepts, Advance, Handshake
<1>23. CASE NssRefuses(t)
  BY <1>23 DEF NssRefuses, Advance, Handshake
<1>24. CASE NssCompletes(t)
  BY <1>24 DEF NssCompletes, Advance, Handshake
<1>25. CASE EndHandshake(t)
  BY <1>25 DEF EndHandshake, Leave, NoFrame, Frame, Handshake
<1>26. CASE NssTimesOut(t)
  BY <1>26 DEF NssTimesOut, Leave, NoFrame, Frame, Handshake
<1>27. CASE PyGILState_Ensure(t)
  BY <1>27 DEF PyGILState_Ensure, Carrying, Ensured
<1>28. CASE ArgumentsFail(t)
  BY <1>28 DEF ArgumentsFail, PyGILState_Release, HandshakeFrame, Frame,
     Running
<1>29. ASSUME NEW n \in Objects,
             ssl_auth_certificate(t, n)
      PROVE  HeldInUse'
  <2>1. n \notin held /\ call'[t] = Reading(t, n) /\ held' = held
        /\ at'[t] = "python"
    BY <1>29 DEF ssl_auth_certificate, RunCallback, Live
  <2>2. \A u \in Threads \ {t} : at'[u] = at[u] /\ call'[u] = call[u]
    BY <1>29 DEF ssl_auth_certificate, RunCallback
  <2>3. QED BY <2>1, <2>2 DEF Reading, Carrying
<1>30. CASE get_client_auth_data(t)
  BY <1>30 DEF get_client_auth_data, RunCallback, Reading, Carrying, Running
<1>31. CASE ssl_handshake_callback(t)
  BY <1>31 DEF ssl_handshake_callback, RunCallback, Reading, Carrying, Running
<1>32. ASSUME NEW said \in {"true", "false", "raise", "noTruth"},
             HookReturns(t, said)
      PROVE  HeldInUse'
  BY <1>32 DEF HookReturns, PyGILState_Release, HandshakeFrame, ReleaseSocket,
     Frame
<1>33. CASE PasswordUndefined(t)
  BY <1>33 DEF PasswordUndefined, PyGILState_Release, HandshakeFrame, Frame,
     Running
<1>34. CASE PK11_password_callback(t)
  BY <1>34 DEF PK11_password_callback, RunCallback, Running
<1>35. CASE PasswordReturns(t)
  <2>1. PICK next \in {"failed", "wrong", "unlocked"} :
          PyGILState_Release(t, next, "none")
    BY <1>35 DEF PasswordReturns
  <2>2. QED BY <2>1, <1>35 DEF PasswordReturns, PyGILState_Release,
          HandshakeFrame, Frame
<1> QED BY ONLY Step(t), <1>1, <1>2, <1>3, <1>4, <1>5, <1>6, <1>7, <1>8, <1>9,
   <1>10, <1>11, <1>12, <1>13, <1>14, <1>15, <1>16, <1>17, <1>18, <1>19,
   <1>20, <1>21, <1>22, <1>23, <1>24, <1>25, <1>26, <1>27, <1>28, <1>29,
   <1>30, <1>31, <1>32, <1>33, <1>34, <1>35
    DEF Step, Program, Setter, Nss, CalledBack

(* Apart from SetHook and StoreData a step leaves callbacks and user data  *)
(* as they are in the sockets that the program goes on to hold, and new    *)
(* sockets have none.                                                      *)
Undisturbed(t) ==
  /\ \A o \in held \cap held', h \in Hook :
       /\ callback'[o][h] = callback[o][h] /\ data'[o][h] = data[o][h]
       /\ <<o, h>> \in raced' <=> <<o, h>> \in raced
  /\ \A o \in held' \ held, h \in Hook : callback'[o][h] = data'[o][h]
  /\ at'[t] = "hooking" <=> at[t] = "hooking"
  /\ at[t] = "hooking" => call'[t] = call[t]
  /\ \A o \in held \ held', u \in Threads :
       call[u].self # o /\ (at[u] \in Setting => call[u].obj # o)

DataMoved(t) ==
  \/ \E o \in Objects, h \in Hook, new \in Tags : SetHook(t, o, h, new)
  \/ StoreData(t)
  \/ Undisturbed(t)

LEMMA DataMoves ==
  ASSUME "keep" \in Rules, TypeOK, NEW t \in Threads, Step(t)
  PROVE  DataMoved(t)
<1> USE HooksAssumption DEF DataMoved, Undisturbed, Setting, Inside, TypeOK, objVars, nssVars, callVars, pwVars
<1>1. CASE TakeGil(t)
  BY <1>1 DEF TakeGil
<1>2. CASE YieldGil(t)
  BY <1>2 DEF YieldGil
<1>3. ASSUME NEW o \in Objects, NEW d \in Descriptors,
             SSLSocket_init(t, o, d)
      PROVE  DataMoved(t)
  <2>1. CASE SSLSocket_clear(o) /\ o \notin Live
    <3>1. \A h \in Hook : callback'[o][h] = data'[o][h]
      BY <2>1 DEF SSLSocket_clear, Unset
    <3>2. ASSUME NEW x \in held, NEW h \in Hook
          PROVE  /\ callback'[x][h] = callback[x][h] /\ data'[x][h] = data[x][h]
                 /\ <<x, h>> \in raced' <=> <<x, h>> \in raced
      BY <2>1, <3>2 DEF SSLSocket_clear, Live
    <3>3. QED BY <3>1, <3>2, <1>3 DEF SSLSocket_init, Idle
  <2>2. CASE UNCHANGED <<callback, data, pin, raced>> /\ o \in held
    BY <2>2, <1>3 DEF SSLSocket_init, Idle
  <2>3. QED BY ONLY <2>1, <2>2, <1>3 DEF SSLSocket_init
<1>4. ASSUME NEW o \in Objects, NEW n \in Objects, NEW d \in Descriptors,
             SSLSocket_accept(t, o, d, n)
      PROVE  DataMoved(t)
  <2>1. CASE SSLSocket_clear(n) /\ n \notin Live /\ held' = held \cup {n}
    <3>1. \A h \in Hook : callback'[n][h] = data'[n][h]
      BY <2>1 DEF SSLSocket_clear, Unset
    <3>2. ASSUME NEW x \in held, NEW h \in Hook
          PROVE  /\ callback'[x][h] = callback[x][h] /\ data'[x][h] = data[x][h]
                 /\ <<x, h>> \in raced' <=> <<x, h>> \in raced
      BY <2>1, <3>2 DEF SSLSocket_clear, Live
    <3>3. QED BY <2>1, <3>1, <3>2, <1>4 DEF SSLSocket_accept, Idle
  <2>2. CASE UNCHANGED objVars
    BY <2>2, <1>4 DEF SSLSocket_accept, Idle
  <2>3. QED BY ONLY <2>1, <2>2, <1>4 DEF SSLSocket_accept
<1>5. ASSUME NEW o \in Objects,
             Socket_close(t, o)
      PROVE  DataMoved(t)
  BY <1>5 DEF Socket_close, Idle
<1>6. ASSUME NEW o \in Objects,
             SSLSocket_dealloc(t, o)
      PROVE  DataMoved(t)
  <2>1. ASSUME NEW x \in held \ {o}, NEW h \in Hook
        PROVE  /\ callback'[x][h] = callback[x][h] /\ data'[x][h] = data[x][h]
               /\ <<x, h>> \in raced' <=> <<x, h>> \in raced
    BY <2>1, <1>6 DEF SSLSocket_dealloc, SSLSocket_clear
  <2>2. QED BY <2>1, <1>6 DEF SSLSocket_dealloc, MayDrop, Idle
<1>7. ASSUME NEW o \in Objects,
             SSLSocket_force_handshake(t, o)
      PROVE  DataMoved(t)
  BY <1>7 DEF SSLSocket_force_handshake, Idle
<1>8. ASSUME NEW o \in Objects,
             SSLSocket_rehandshake(t, o)
      PROVE  DataMoved(t)
  BY <1>8 DEF SSLSocket_rehandshake, AskAnother, Idle
<1>9. ASSUME NEW o \in Objects,
             SSLSocket_reset_handshake(t, o)
      PROVE  DataMoved(t)
  BY <1>9 DEF SSLSocket_reset_handshake, AskAnother, Idle
<1>10. ASSUME NEW o \in Objects, NEW h \in Hook, NEW new \in Tags,
             SetHook(t, o, h, new)
      PROVE  DataMoved(t)
  BY <1>10
<1>11. ASSUME NEW o \in Objects, NEW p \in Pins,
             SSLSocket_set_pkcs11_pin_arg(t, o, p)
      PROVE  DataMoved(t)
  BY <1>11 DEF SSLSocket_set_pkcs11_pin_arg, Enter, Idle
<1>12. ASSUME NEW c \in Passwords,
             pk11_set_password_callback(t, c)
      PROVE  DataMoved(t)
  BY <1>12 DEF pk11_set_password_callback, Enter, Idle
<1>13. CASE ThreadExit(t)
  BY <1>13 DEF ThreadExit, Idle
<1>14. CASE StoreData(t)
  BY <1>14
<1>15. CASE HookNss(t)
  BY <1>15 DEF HookNss, Leave, Running
<1>16. CASE SSL_SetPKCS11PinArg(t)
  BY <1>16 DEF SSL_SetPKCS11PinArg, Leave, Running
<1>17. CASE PK11_SetPasswordFunc(t)
  BY <1>17 DEF PK11_SetPasswordFunc, Leave, Running
<1>18. CASE NssAuthenticates(t)
  BY <1>18 DEF NssAuthenticates, CallHook, Handshake
<1>19. CASE NssAsksClient(t)
  BY <1>19 DEF NssAsksClient, CallHook, Handshake
<1>20. CASE NssReports(t)
  BY <1>20 DEF NssReports, CallHook, Handshake
<1>21. CASE NssAsksPassword(t)
  BY <1>21 DEF NssAsksPassword, Handshake
<1>22. CASE NssAccepts(t)
  BY <1>22 DEF NssAccepts, Advance, Handshake
<1>23. CASE NssRefuses(t)
  BY <1>23 DEF NssRefuses, Advance, Handshake
<1>24. CASE NssCompletes(t)
  BY <1>24 DEF NssCompletes, Advance, Handshake
<1>25. CASE EndHandshake(t)
  BY <1>25 DEF EndHandshake, Leave, Handshake
<1>26. CASE NssTimesOut(t)
  BY <1>26 DEF NssTimesOut, Leave, Handshake
<1>27. CASE PyGILState_Ensure(t)
  BY <1>27 DEF PyGILState_Ensure, Ensured
<1>28. CASE ArgumentsFail(t)
  BY <1>28 DEF ArgumentsFail, PyGILState_Release, Running
<1>29. ASSUME NEW n \in Objects,
             ssl_auth_certificate(t, n)
      PROVE  DataMoved(t)
  <2>1. n \notin held
    BY <1>29 DEF ssl_auth_certificate, Live
  <2>2. ASSUME NEW x \in held, NEW h \in Hook
        PROVE  /\ callback'[x][h] = callback[x][h] /\ data'[x][h] = data[x][h]
               /\ <<x, h>> \in raced' <=> <<x, h>> \in raced
    BY <2>1, <2>2, <1>29 DEF ssl_auth_certificate, SSLSocket_clear
  <2>3. QED BY <2>2, <1>29 DEF ssl_auth_certificate, RunCallback, Running
<1>30. CASE get_client_auth_data(t)
  BY <1>30 DEF get_client_auth_data, RunCallback, Running
<1>31. CASE ssl_handshake_callback(t)
  BY <1>31 DEF ssl_handshake_callback, RunCallback, Running
<1>32. ASSUME NEW said \in {"true", "false", "raise", "noTruth"},
             HookReturns(t, said)
      PROVE  DataMoved(t)
  BY <1>32 DEF HookReturns, PyGILState_Release, ReleaseSocket, Running
<1>33. CASE PasswordUndefined(t)
  BY <1>33 DEF PasswordUndefined, PyGILState_Release, Running
<1>34. CASE PK11_password_callback(t)
  BY <1>34 DEF PK11_password_callback, RunCallback, Running
<1>35. CASE PasswordReturns(t)
  <2>1. PICK next \in {"failed", "wrong", "unlocked"} :
          PyGILState_Release(t, next, "none")
    BY <1>35 DEF PasswordReturns
  <2>2. QED BY <2>1, <1>35 DEF PasswordReturns, PyGILState_Release, Running
<1> QED BY ONLY Step(t), <1>1, <1>2, <1>3, <1>4, <1>5, <1>6, <1>7, <1>8, <1>9,
   <1>10, <1>11, <1>12, <1>13, <1>14, <1>15, <1>16, <1>17, <1>18, <1>19,
   <1>20, <1>21, <1>22, <1>23, <1>24, <1>25, <1>26, <1>27, <1>28, <1>29,
   <1>30, <1>31, <1>32, <1>33, <1>34, <1>35
    DEF Step, Program, Setter, Nss, CalledBack

(* Where the user data of a call comes from, and the callback it is passed *)
(* to.                                                                     *)
Gathered(t) ==
  LET o == call[t].self
      h == call[t].hook
  IN  /\ \A u \in Threads \ {t} : u \in torn => u \in torn'
      /\ t \notin torn' /\ at'[t] = "build" /\ call'[t].hook \in Hook =>
           \/ at[t] = "build" /\ t \notin torn /\ call'[t] = call[t]
           \/ /\ at[t] = "ensure" /\ UNCHANGED <<data, raced>>
              /\ call'[t].self = o /\ call'[t].hook = h
              /\ call'[t].data = data[o][h] /\ <<o, h>> \notin raced
              /\ \A u \in Threads : ~BeingHooked(u, o, h)
      /\ t \notin torn' /\ at'[t] = "python" /\ call'[t].hook # "password" =>
           \/ at[t] = "python" /\ t \notin torn /\ call'[t] = call[t]
           \/ /\ at[t] = "build" /\ t \notin torn /\ h # "password"
              /\ call'[t].callback = callback[o][h]
              /\ call[t].data = data[o][h] => call'[t].data = data[o][h]

LEMMA Gathering ==
  ASSUME TypeOK, NEW t \in Threads, Step(t)
  PROVE  Gathered(t)
<1> USE DEF Gathered, Inside, TypeOK, objVars, nssVars, callVars, pwVars
<1>1. CASE TakeGil(t)
  BY <1>1 DEF TakeGil
<1>2. CASE YieldGil(t)
  BY <1>2 DEF YieldGil
<1>3. ASSUME NEW o \in Objects, NEW d \in Descriptors,
             SSLSocket_init(t, o, d)
      PROVE  Gathered(t)
  BY <1>3 DEF SSLSocket_init
<1>4. ASSUME NEW o \in Objects, NEW n \in Objects, NEW d \in Descriptors,
             SSLSocket_accept(t, o, d, n)
      PROVE  Gathered(t)
  BY <1>4 DEF SSLSocket_accept
<1>5. ASSUME NEW o \in Objects,
             Socket_close(t, o)
      PROVE  Gathered(t)
  BY <1>5 DEF Socket_close
<1>6. ASSUME NEW o \in Objects,
             SSLSocket_dealloc(t, o)
      PROVE  Gathered(t)
  BY <1>6 DEF SSLSocket_dealloc
<1>7. ASSUME NEW o \in Objects,
             SSLSocket_force_handshake(t, o)
      PROVE  Gathered(t)
  BY <1>7 DEF SSLSocket_force_handshake, Idle
<1>8. ASSUME NEW o \in Objects,
             SSLSocket_rehandshake(t, o)
      PROVE  Gathered(t)
  BY <1>8 DEF SSLSocket_rehandshake, AskAnother, Idle
<1>9. ASSUME NEW o \in Objects,
             SSLSocket_reset_handshake(t, o)
      PROVE  Gathered(t)
  BY <1>9 DEF SSLSocket_reset_handshake, AskAnother, Idle
<1>10. ASSUME NEW o \in Objects, NEW h \in Hook, NEW new \in Tags,
             SetHook(t, o, h, new)
      PROVE  Gathered(t)
  BY <1>10 DEF SetHook, Enter, Idle
<1>11. ASSUME NEW o \in Objects, NEW p \in Pins,
             SSLSocket_set_pkcs11_pin_arg(t, o, p)
      PROVE  Gathered(t)
  BY <1>11 DEF SSLSocket_set_pkcs11_pin_arg, Enter, Idle
<1>12. ASSUME NEW c \in Passwords,
             pk11_set_password_callback(t, c)
      PROVE  Gathered(t)
  BY <1>12 DEF pk11_set_password_callback, Enter, Idle
<1>13. CASE ThreadExit(t)
  BY <1>13 DEF ThreadExit, Idle
<1>14. CASE StoreData(t)
  BY <1>14 DEF StoreData, Running
<1>15. CASE HookNss(t)
  BY <1>15 DEF HookNss, Leave, Running
<1>16. CASE SSL_SetPKCS11PinArg(t)
  BY <1>16 DEF SSL_SetPKCS11PinArg, Leave, Running
<1>17. CASE PK11_SetPasswordFunc(t)
  BY <1>17 DEF PK11_SetPasswordFunc, Leave, Running
<1>18. CASE NssAuthenticates(t)
  BY <1>18 DEF NssAuthenticates, CallHook, Handshake
<1>19. CASE NssAsksClient(t)
  BY <1>19 DEF NssAsksClient, CallHook, Handshake
<1>20. CASE NssReports(t)
  BY <1>20 DEF NssReports, CallHook, Handshake
<1>21. CASE NssAsksPassword(t)
  BY <1>21 DEF NssAsksPassword, Handshake
<1>22. CASE NssAccepts(t)
  BY <1>22 DEF NssAccepts, Advance, Handshake
<1>23. CASE NssRefuses(t)
  BY <1>23 DEF NssRefuses, Advance, Handshake
<1>24. CASE NssCompletes(t)
  BY <1>24 DEF NssCompletes, Advance, Handshake
<1>25. CASE EndHandshake(t)
  BY <1>25 DEF EndHandshake, Leave, Handshake
<1>26. CASE NssTimesOut(t)
  BY <1>26 DEF NssTimesOut, Leave, Handshake
<1>27. CASE PyGILState_Ensure(t)
  <2>1. CASE call[t].hook = "password"
    BY HooksAssumption, <2>1, <1>27 DEF PyGILState_Ensure, Ensured
  <2>2. CASE call[t].hook # "password"
    <3>1. /\ at[t] = "ensure" /\ at'[t] = "build" /\ UNCHANGED <<data, raced>>
          /\ call'[t] = Carrying(call[t], NoTag, data[call[t].self][call[t].hook],
                                 NoObject)
      BY <2>2, <1>27 DEF PyGILState_Ensure, Ensured
    <3>2. t \notin torn' =>
            /\ <<call[t].self, call[t].hook>> \notin raced
            /\ \A u \in Threads : ~BeingHooked(u, call[t].self, call[t].hook)
      BY ONLY <2>2, <1>27 DEF PyGILState_Ensure
    <3>3. /\ call'[t].self = call[t].self /\ call'[t].hook = call[t].hook
          /\ call'[t].data = data[call[t].self][call[t].hook] /\ torn \ {t} = torn' \ {t}
      BY ONLY TypeOK, <2>2, <3>1, <1>27 DEF Carrying, PyGILState_Ensure, TypeOK
    <3>4. QED BY ONLY <3>1, <3>2, <3>3 DEF Gathered
  <2>3. QED BY <2>1, <2>2
<1>28. CASE ArgumentsFail(t)
  BY <1>28 DEF ArgumentsFail, PyGILState_Release
<1>29. ASSUME NEW n \in Objects,
             ssl_auth_certificate(t, n)
      PROVE  Gathered(t)
  <2>1. /\ at[t] = "build" /\ at'[t] = "python" /\ torn' = torn
        /\ call'[t] = Reading(t, n) /\ call[t].hook # "password"
    BY <1>29 DEF ssl_auth_certificate, RunCallback, Running
  <2>2. QED BY <2>1 DEF Reading, Carrying
<1>30. CASE get_client_auth_data(t)
  <2>1. /\ at[t] = "build" /\ at'[t] = "python" /\ torn' = torn
        /\ call'[t] = Reading(t, NoObject) /\ call[t].hook # "password"
    BY <1>30 DEF get_client_auth_data, RunCallback, Running
  <2>2. QED BY <2>1 DEF Reading, Carrying
<1>31. CASE ssl_handshake_callback(t)
  <2>1. /\ at[t] = "build" /\ at'[t] = "python" /\ torn' = torn
        /\ call'[t] = Reading(t, call[t].self) /\ call[t].hook # "password"
    BY <1>31 DEF ssl_handshake_callback, RunCallback, Running
  <2>2. QED BY <2>1 DEF Reading, Carrying
<1>32. ASSUME NEW said \in {"true", "false", "raise", "noTruth"},
             HookReturns(t, said)
      PROVE  Gathered(t)
  BY <1>32 DEF HookReturns, PyGILState_Release
<1>33. CASE PasswordUndefined(t)
  BY <1>33 DEF PasswordUndefined, PyGILState_Release
<1>34. CASE PK11_password_callback(t)
  BY <1>34 DEF PK11_password_callback, RunCallback, Running
<1>35. CASE PasswordReturns(t)
  <2>1. PICK next \in {"failed", "wrong", "unlocked"} :
          PyGILState_Release(t, next, "none")
    BY <1>35 DEF PasswordReturns
  <2>2. QED BY <2>1, <1>35 DEF PasswordReturns, PyGILState_Release, Running
<1> QED BY ONLY Step(t), <1>1, <1>2, <1>3, <1>4, <1>5, <1>6, <1>7, <1>8, <1>9,
   <1>10, <1>11, <1>12, <1>13, <1>14, <1>15, <1>16, <1>17, <1>18, <1>19,
   <1>20, <1>21, <1>22, <1>23, <1>24, <1>25, <1>26, <1>27, <1>28, <1>29,
   <1>30, <1>31, <1>32, <1>33, <1>34, <1>35
    DEF Step, Program, Setter, Nss, CalledBack

(* A thread calls a hook as it gathered callback and user data.            *)
LEMMA OwnStep ==
  ASSUME KeptInv, NEW t \in Threads, Step(t)
  PROVE  OwnDataUnlessTorn'
<1>0. /\ TypeOK /\ FrameShape /\ HeldInUse /\ StoredData /\ CallData
      /\ OwnDataUnlessTorn
  BY DEF KeptInv
<1>1. Moved(t) /\ Gathered(t)
  BY <1>0, Moves, Gathering
<1> SUFFICES ASSUME NEW u \in Threads, u \notin torn', at'[u] = "python",
                    call'[u].hook # "password"
             PROVE  call'[u].callback = call'[u].data
  BY DEF OwnDataUnlessTorn, Calling, WithOwnData
<1>2. CASE at[u] = "python" /\ u \notin torn /\ call'[u] = call[u]
  BY ONLY <1>0, <1>2, call'[u].hook # "password"
     DEF OwnDataUnlessTorn, Calling, WithOwnData
<1>3. CASE u # t
  BY ONLY <1>1, <1>2, <1>3, u \in Threads, u \notin torn', at'[u] = "python"
     DEF Moved, Gathered
<1>4. ASSUME at[u] = "build", u \notin torn, call[u].hook # "password",
             call'[u].callback = callback[call[u].self][call[u].hook],
             call[u].data = data[call[u].self][call[u].hook] =>
               call'[u].data = data[call[u].self][call[u].hook]
      PROVE  call'[u].callback = call'[u].data
  <2> DEFINE o == call[u].self
             h == call[u].hook
  <2>1. h \in Hook /\ o \in Objects
    BY ONLY <1>0, <1>4 DEF FrameShape, Called
  <2>2. o \in held
    BY ONLY <1>0, HooksAssumption, <2>1 DEF HeldInUse
  <2>3. /\ call[u].data = data[o][h] /\ <<o, h>> \notin raced
        /\ \A v \in Threads : ~BeingHooked(v, o, h)
    BY ONLY <1>0, <1>4, <2>1 DEF CallData
  <2>4. callback[o][h] = data[o][h]
    BY ONLY <1>0, <2>1, <2>2, <2>3 DEF StoredData
  <2> QED BY ONLY <1>4, <2>3, <2>4
<1>5. CASE u = t
  BY ONLY <1>1, <1>2, <1>4, <1>5, u \notin torn', at'[u] = "python",
     call'[u].hook # "password" DEF Gathered
<1> QED BY <1>3, <1>5

LEMMA UndisturbedStep ==
  ASSUME KeptInv, NEW t \in Threads, Undisturbed(t), Moved(t), Gathered(t)
  PROVE  SetterData' /\ StoredData' /\ CallData'
<1>0. /\ TypeOK /\ FrameShape /\ HeldInUse /\ SetterData /\ StoredData
      /\ CallData
  BY DEF KeptInv
<1>1. \A u \in Threads :
        /\ at'[u] = "hooking" <=> at[u] = "hooking"
        /\ at[u] = "hooking" => call'[u] = call[u]
  BY DEF Moved, Undisturbed
<1>2. ASSUME NEW u \in Threads, at[u] = "hooking"
      PROVE  call[u].obj \in held \cap held' /\ call[u].hook \in Hook
  <2>1. call[u].obj \in held /\ call[u].hook \in Hook
    BY ONLY <1>0, <1>2 DEF HeldInUse, FrameShape, Setting
  <2>2. call[u].obj \in held'
    BY ONLY <1>2, <2>1, Undisturbed(t) DEF Undisturbed, Setting
  <2> QED BY <2>1, <2>2
<1>3. SetterData'
  <2> SUFFICES ASSUME NEW u \in Threads, (at[u] = "hooking")',
                      (<<call[u].obj, call[u].hook>> \notin raced)'
               PROVE  (/\ callback[call[u].obj][call[u].hook] = call[u].data
                       /\ \A v \in Threads :
                            BeingHooked(v, call[u].obj, call[u].hook) => v = u)'
    BY DEF SetterData
  <2> DEFINE o == call[u].obj
             h == call[u].hook
  <2>1. at[u] = "hooking" /\ call'[u] = call[u]
    BY ONLY <1>1, (at[u] = "hooking")'
  <2>2. o \in held \cap held' /\ h \in Hook
    BY ONLY <1>2, <2>1
  <2>3. callback'[o][h] = callback[o][h] /\ <<o, h>> \notin raced
    BY ONLY <2>1, <2>2, Undisturbed(t), (<<call[u].obj, call[u].hook>> \notin raced)'
       DEF Undisturbed
  <2>4. /\ callback[o][h] = call[u].data
        /\ \A v \in Threads : BeingHooked(v, o, h) => v = u
    BY ONLY <1>0, <2>1, <2>3 DEF SetterData
  <2>5. ASSUME NEW v \in Threads, at'[v] = "hooking",
               call'[v].obj = o, call'[v].hook = h
        PROVE  v = u
    BY ONLY <1>1, <2>4, <2>5 DEF BeingHooked
  <2> QED BY ONLY <2>1, <2>3, <2>4, <2>5 DEF BeingHooked
<1>4. StoredData'
  <2> SUFFICES ASSUME NEW o \in held', NEW h \in Hook
               PROVE  (\/ callback[o][h] = data[o][h] \/ <<o, h>> \in raced
                       \/ \E u \in Threads : BeingHooked(u, o, h))'
    BY DEF StoredData
  <2>1. CASE o \notin held
    BY ONLY <2>1, Undisturbed(t), o \in held', h \in Hook DEF Undisturbed
  <2>2. CASE o \in held
    <3>1. \/ callback[o][h] = data[o][h]
          \/ <<o, h>> \in raced
          \/ \E u \in Threads : BeingHooked(u, o, h)
      BY ONLY <1>0, <2>2, h \in Hook DEF StoredData
    <3>2. /\ callback'[o][h] = callback[o][h] /\ data'[o][h] = data[o][h]
          /\ <<o, h>> \in raced' <=> <<o, h>> \in raced
      BY ONLY <2>2, Undisturbed(t), o \in held', h \in Hook DEF Undisturbed
    <3> QED BY ONLY <1>1, <3>1, <3>2 DEF BeingHooked
  <2> QED BY ONLY <2>1, <2>2
<1>5. CallData'
  <2> SUFFICES ASSUME NEW u \in Threads,
                      (u \notin torn /\ at[u] = "build" /\ call[u].hook \in Hook)'
               PROVE  (LET o == call[u].self
                           h == call[u].hook
                       IN  /\ call[u].data = data[o][h] /\ <<o, h>> \notin raced
                           /\ \A v \in Threads : ~BeingHooked(v, o, h))'
    BY DEF CallData
  <2>0. u \notin torn' /\ at'[u] = "build" /\ call'[u].hook \in Hook
    OBVIOUS
  <2> DEFINE o == call[u].self
             h == call[u].hook
  <2>1. ASSUME at[u] = "build", u \notin torn, call'[u] = call[u]
        PROVE  /\ call'[u].data = data[o][h] /\ <<o, h>> \notin raced
               /\ \A v \in Threads : ~BeingHooked(v, o, h)
               /\ o \in held \cap held'
               /\ call'[u].self = o /\ call'[u].hook = h
    <3>1. o \in held
      BY ONLY <1>0, HooksAssumption, <2>1, <2>0
         DEF HeldInUse, FrameShape, Called
    <3>2. o \in held'
      BY ONLY <3>1, Undisturbed(t), u \in Threads DEF Undisturbed
    <3> QED BY ONLY <1>0, <2>1, <3>1, <3>2, <2>0 DEF CallData
  <2>2. CASE at[u] = "build" /\ u \notin torn /\ call'[u] = call[u]
    <3>1. data'[o][h] = data[o][h] /\ <<o, h>> \notin raced'
      BY ONLY <2>1, <2>2, Undisturbed(t), <2>0 DEF Undisturbed
    <3> QED BY ONLY <1>1, <2>1, <2>2, <3>1 DEF BeingHooked
  <2>3. CASE u # t
    BY ONLY <2>2, <2>3, Moved(t), Gathered(t), <2>0
       DEF Moved, Gathered
  <2>4. CASE u = t
    <3>1. CASE /\ at[t] = "ensure" /\ UNCHANGED <<data, raced>>
               /\ call'[t].self = o /\ call'[t].hook = h
               /\ call'[t].data = data[o][h] /\ <<o, h>> \notin raced
               /\ \A v \in Threads : ~BeingHooked(v, o, h)
      BY ONLY <1>1, <2>4, <3>1 DEF BeingHooked
    <3> QED BY ONLY <2>2, <2>4, <3>1, Gathered(t), <2>0 DEF Gathered
  <2> QED BY ONLY <2>3, <2>4
<1> QED BY <1>3, <1>4, <1>5

LEMMA SetHookStep ==
  ASSUME KeptInv, NEW t \in Threads, NEW o \in Objects, NEW h \in Hook,
         NEW new \in Tags, SetHook(t, o, h, new)
  PROVE  SetterData' /\ StoredData' /\ CallData'
<1>0. /\ TypeOK /\ FrameShape /\ HeldInUse /\ SetterData /\ StoredData
      /\ CallData
  BY DEF KeptInv
<1>1. /\ at[t] = "idle" /\ at'[t] = "hooking"
      /\ call'[t].obj = o /\ call'[t].hook = h /\ call'[t].data = new
      /\ \A u \in Threads \ {t} : at'[u] = at[u] /\ call'[u] = call[u]
  BY ONLY <1>0, SetHook(t, o, h, new) DEF SetHook, Enter, Idle, SetterFrame,
     Carrying, Frame, TypeOK
<1>2. held' = held /\ data' = data
  BY ONLY SetHook(t, o, h, new) DEF SetHook
<1>3. /\ callback'[o][h] = new
      /\ \A x \in Objects, k \in Hook :
           <<x, k>> # <<o, h>> => callback'[x][k] = callback[x][k]
  <2>1. callback' = [callback EXCEPT ![o][h] = new]
    BY ONLY SetHook(t, o, h, new) DEF SetHook
  <2>2. callback \in [Objects -> [Hook -> Tags \cup {NoTag}]]
    BY ONLY <1>0 DEF TypeOK
  <2>3. callback'[o] = [callback[o] EXCEPT ![h] = new]
    BY ONLY <2>1, <2>2
  <2>4. callback[o] \in [Hook -> Tags \cup {NoTag}]
    BY ONLY <2>2
  <2>5. callback'[o][h] = new /\ \A k \in Hook \ {h} : callback'[o][k] = callback[o][k]
    BY ONLY <2>3, <2>4
  <2>6. \A x \in Objects \ {o} : callback'[x] = callback[x]
    BY ONLY <2>1, <2>2
  <2> QED BY ONLY <2>5, <2>6
<1>4. /\ \A x \in Objects, k \in Hook :
           <<x, k>> # <<o, h>> => (<<x, k>> \in raced' <=> <<x, k>> \in raced)
      /\ <<o, h>> \notin raced' => \A u \in Threads : ~BeingHooked(u, o, h)
  BY ONLY SetHook(t, o, h, new) DEF SetHook
<1>5. \A u \in Threads : u \notin torn' =>
        u \notin torn /\ ~(at[u] = "build" /\ call[u].self = o /\ call[u].hook = h)
  BY ONLY SetHook(t, o, h, new) DEF SetHook
<1>6. SetterData'
  <2> SUFFICES ASSUME NEW u \in Threads, (at[u] = "hooking")',
                      (<<call[u].obj, call[u].hook>> \notin raced)'
               PROVE  (/\ callback[call[u].obj][call[u].hook] = call[u].data
                       /\ \A v \in Threads :
                            BeingHooked(v, call[u].obj, call[u].hook) => v = u)'
    BY DEF SetterData
  <2>1. CASE u = t
    <3>1. \A u_1 \in Threads : ~BeingHooked(u_1, o, h)
      BY ONLY <1>1, <1>4, <2>1, (<<call[u].obj, call[u].hook>> \notin raced)'
    <3>2. ASSUME NEW v \in Threads, v # t,
                 (BeingHooked(v, call[u].obj, call[u].hook))'
          PROVE  FALSE
      BY ONLY <1>1, <2>1, <3>1, <3>2 DEF BeingHooked
    <3> QED BY ONLY <1>1, <1>3, <2>1, <3>2
  <2>2. CASE u # t
    <3> DEFINE x == call[u].obj
               k == call[u].hook
    <3>1. at[u] = "hooking" /\ call'[u] = call[u]
      BY ONLY <1>1, <2>2, (at[u] = "hooking")'
    <3>2. x \in Objects /\ k \in Hook
      BY ONLY <1>0, <3>1 DEF FrameShape, Setting
    <3>3. <<x, k>> # <<o, h>>
      BY ONLY <1>4, <3>1, (<<call[u].obj, call[u].hook>> \notin raced)' DEF BeingHooked
    <3>4. callback'[x][k] = callback[x][k] /\ <<x, k>> \notin raced
      BY ONLY <1>3, <1>4, <3>1, <3>2, <3>3, (<<call[u].obj, call[u].hook>> \notin raced)'
    <3>5. /\ callback[x][k] = call[u].data
          /\ \A v \in Threads : BeingHooked(v, x, k) => v = u
      BY ONLY <1>0, <3>1, <3>4 DEF SetterData
    <3>6. ASSUME NEW v \in Threads, at'[v] = "hooking",
                 call'[v].obj = x, call'[v].hook = k
          PROVE  v = u
      BY ONLY <1>1, <3>3, <3>5, <3>6 DEF BeingHooked
    <3> QED BY ONLY <3>1, <3>4, <3>5, <3>6 DEF BeingHooked
  <2> QED BY ONLY <2>1, <2>2
<1>7. StoredData'
  <2> SUFFICES ASSUME NEW x \in held', NEW k \in Hook
               PROVE  (\/ callback[x][k] = data[x][k] \/ <<x, k>> \in raced
                       \/ \E u \in Threads : BeingHooked(u, x, k))'
    BY DEF StoredData
  <2>1. CASE x = o /\ k = h
    BY ONLY <1>1, <2>1, t \in Threads DEF BeingHooked
  <2>2. CASE ~(x = o /\ k = h)
    <3>1. x \in held /\ x \in Objects
      BY ONLY <1>0, <1>2, x \in held' DEF TypeOK
    <3>2. /\ callback'[x][k] = callback[x][k] /\ data'[x][k] = data[x][k]
          /\ <<x, k>> \in raced' <=> <<x, k>> \in raced
      BY ONLY <1>2, <1>3, <1>4, <2>2, <3>1, k \in Hook
    <3>3. \/ callback[x][k] = data[x][k]
          \/ <<x, k>> \in raced
          \/ \E u \in Threads : BeingHooked(u, x, k)
      BY ONLY <1>0, <3>1, k \in Hook DEF StoredData
    <3>4. ASSUME NEW u \in Threads, BeingHooked(u, x, k)
          PROVE  BeingHooked(u, x, k)'
      BY ONLY <1>1, <3>4 DEF BeingHooked
    <3> QED BY ONLY <3>2, <3>3, <3>4
  <2> QED BY ONLY <2>1, <2>2
<1>8. CallData'
  <2> SUFFICES ASSUME NEW u \in Threads,
                      (u \notin torn /\ at[u] = "build" /\ call[u].hook \in Hook)'
               PROVE  (LET x == call[u].self
                           k == call[u].hook
                       IN  /\ call[u].data = data[x][k] /\ <<x, k>> \notin raced
                           /\ \A v \in Threads : ~BeingHooked(v, x, k))'
    BY DEF CallData
  <2>0. u \notin torn' /\ at'[u] = "build" /\ call'[u].hook \in Hook
    OBVIOUS
  <2> DEFINE x == call[u].self
             k == call[u].hook
  <2>1. u # t /\ at[u] = "build" /\ call'[u] = call[u] /\ k \in Hook
    BY ONLY <1>1, <2>0
  <2>2. x \in Objects /\ <<x, k>> # <<o, h>> /\ u \notin torn
    BY ONLY <1>0, <1>5, <2>0, <2>1 DEF FrameShape, Called
  <2>3. /\ call[u].data = data[x][k] /\ <<x, k>> \notin raced
        /\ \A v \in Threads : ~BeingHooked(v, x, k)
    BY ONLY <1>0, <2>1, <2>2 DEF CallData
  <2>4. ASSUME NEW v \in Threads, at'[v] = "hooking",
               call'[v].obj = x, call'[v].hook = k
        PROVE  FALSE
    BY ONLY <1>1, <2>2, <2>3, <2>4 DEF BeingHooked
  <2> QED BY ONLY <1>2, <1>4, <2>1, <2>2, <2>3, <2>4 DEF BeingHooked
<1> QED BY <1>6, <1>7, <1>8

LEMMA StoreDataStep ==
  ASSUME KeptInv, NEW t \in Threads, StoreData(t)
  PROVE  SetterData' /\ StoredData' /\ CallData'
<1> DEFINE o == call[t].obj
           h == call[t].hook
<1>0. /\ TypeOK /\ FrameShape /\ HeldInUse /\ SetterData /\ StoredData
      /\ CallData
  BY DEF KeptInv
<1>1. /\ at[t] = "hooking" /\ at'[t] = "stored"
      /\ \A u \in Threads \ {t} : at'[u] = at[u]
      /\ UNCHANGED <<call, callback, raced, torn, held>>
  BY ONLY <1>0, StoreData(t) DEF StoreData, Running, TypeOK
<1>2. o \in Objects /\ h \in Hook /\ BeingHooked(t, o, h)
  BY ONLY <1>0, <1>1 DEF FrameShape, Setting, BeingHooked
<1>3. /\ data'[o][h] = call[t].data
      /\ \A x \in Objects, k \in Hook :
           <<x, k>> # <<o, h>> => data'[x][k] = data[x][k]
  <2>1. data' = [data EXCEPT ![o][h] = call[t].data]
    BY ONLY StoreData(t) DEF StoreData
  <2>2. data \in [Objects -> [Hook -> Tags \cup {NoTag}]]
    BY ONLY <1>0 DEF TypeOK
  <2>3. data'[o] = [data[o] EXCEPT ![h] = call[t].data]
    BY ONLY <1>2, <2>1, <2>2
  <2>4. data[o] \in [Hook -> Tags \cup {NoTag}]
    BY ONLY <1>2, <2>2
  <2>5. /\ data'[o][h] = call[t].data
        /\ \A k \in Hook \ {h} : data'[o][k] = data[o][k]
    BY ONLY <1>2, <2>3, <2>4
  <2>6. \A x \in Objects \ {o} : data'[x] = data[x]
    BY ONLY <2>1, <2>2
  <2> QED BY ONLY <2>5, <2>6
<1>4. SetterData'
  <2> SUFFICES ASSUME NEW u \in Threads, (at[u] = "hooking")',
                      (<<call[u].obj, call[u].hook>> \notin raced)'
               PROVE  (/\ callback[call[u].obj][call[u].hook] = call[u].data
                       /\ \A v \in Threads :
                            BeingHooked(v, call[u].obj, call[u].hook) => v = u)'
    BY DEF SetterData
  <2>1. at[u] = "hooking" /\ call'[u] = call[u]
    BY ONLY <1>1, (at[u] = "hooking")'
  <2>2. /\ callback[call[u].obj][call[u].hook] = call[u].data
        /\ \A v \in Threads : BeingHooked(v, call[u].obj, call[u].hook) => v = u
    BY ONLY <1>0, <1>1, <2>1, (<<call[u].obj, call[u].hook>> \notin raced)' DEF SetterData
  <2>3. ASSUME NEW v \in Threads, at'[v] = "hooking",
               call'[v].obj = call[u].obj, call'[v].hook = call[u].hook
        PROVE  v = u
    BY ONLY <1>1, <2>2, <2>3 DEF BeingHooked
  <2> QED BY ONLY <1>1, <2>1, <2>2, <2>3 DEF BeingHooked
<1>5. StoredData'
  <2> SUFFICES ASSUME NEW x \in held', NEW k \in Hook
               PROVE  (\/ callback[x][k] = data[x][k] \/ <<x, k>> \in raced
                       \/ \E u \in Threads : BeingHooked(u, x, k))'
    BY DEF StoredData
  <2>1. x \in held /\ x \in Objects
    BY ONLY <1>0, <1>1, x \in held' DEF TypeOK
  <2>2. CASE x = o /\ k = h
    <3>1. <<o, h>> \notin raced => callback[o][h] = call[t].data
      BY ONLY <1>0, <1>1 DEF SetterData
    <3> QED BY ONLY <1>1, <1>3, <2>2, <3>1
  <2>3. CASE ~(x = o /\ k = h)
    <3>1. data'[x][k] = data[x][k]
      BY ONLY <1>3, <2>1, <2>3, k \in Hook
    <3>2. \/ callback[x][k] = data[x][k]
          \/ <<x, k>> \in raced
          \/ \E u \in Threads : BeingHooked(u, x, k)
      BY ONLY <1>0, <2>1, k \in Hook DEF StoredData
    <3>3. ASSUME NEW u \in Threads, BeingHooked(u, x, k)
          PROVE  BeingHooked(u, x, k)'
      BY ONLY <1>1, <2>3, <3>3 DEF BeingHooked
    <3> QED BY ONLY <1>1, <3>1, <3>2, <3>3
  <2> QED BY ONLY <2>2, <2>3
<1>6. CallData'
  <2> SUFFICES ASSUME NEW u \in Threads,
                      (u \notin torn /\ at[u] = "build" /\ call[u].hook \in Hook)'
               PROVE  (LET x == call[u].self
                           k == call[u].hook
                       IN  /\ call[u].data = data[x][k] /\ <<x, k>> \notin raced
                           /\ \A v \in Threads : ~BeingHooked(v, x, k))'
    BY DEF CallData
  <2>0. u \notin torn' /\ at'[u] = "build" /\ call'[u].hook \in Hook
    OBVIOUS
  <2> DEFINE x == call[u].self
             k == call[u].hook
  <2>1. u # t /\ at[u] = "build" /\ u \notin torn /\ k \in Hook
    BY ONLY <1>1, <2>0
  <2>2. /\ call[u].data = data[x][k] /\ <<x, k>> \notin raced
        /\ \A v \in Threads : ~BeingHooked(v, x, k)
    BY ONLY <1>0, <2>1 DEF CallData
  <2>3. x \in Objects /\ <<x, k>> # <<o, h>>
    BY ONLY <1>0, <1>2, <2>1, <2>2 DEF FrameShape, Called
  <2>4. ASSUME NEW v \in Threads, at'[v] = "hooking",
               call'[v].obj = x, call'[v].hook = k
        PROVE  FALSE
    BY ONLY <1>1, <2>2, <2>4 DEF BeingHooked
  <2> QED BY ONLY <1>1, <1>3, <2>1, <2>2, <2>3, <2>4 DEF BeingHooked
<1> QED BY <1>4, <1>5, <1>6

LEMMA KeptStart == Init => KeptInv
<1> SUFFICES ASSUME Init PROVE KeptInv
  OBVIOUS
<1>1. TypeOK /\ FrameShape
  BY AnyStart DEF AnyInv
<1>2. HeldLineage /\ HeldInUse
  BY DEF Init, HeldLineage, HeldInUse, Unset, NoFrame, Frame, Setting
<1>3. SetterData /\ StoredData /\ CallData /\ OwnDataUnlessTorn
  BY DEF Init, SetterData, StoredData, CallData, OwnDataUnlessTorn, Calling
<1> QED BY <1>1, <1>2, <1>3 DEF KeptInv

LEMMA KeptStep ==
  ASSUME "keep" \in Rules, KeptInv, [Next]_vars
  PROVE  KeptInv'
<1>1. CASE UNCHANGED vars
  BY <1>1 DEF KeptInv, vars, objVars, nssVars, callVars, pwVars, TypeOK,
     FrameShape, HeldLineage, HeldInUse, SetterData, StoredData, CallData,
     OwnDataUnlessTorn, BeingHooked, Calling, WithOwnData
<1>2. ASSUME NEW t \in Threads, Step(t)
      PROVE  KeptInv'
  <2>1. TypeOK /\ FrameShape /\ HeldLineage /\ HeldInUse
    BY DEF KeptInv
  <2>2. TypeOK' /\ FrameShape' /\ Moved(t) /\ Gathered(t)
    BY <1>2, <2>1, TypeStep, FrameStep, Moves, Gathering
  <2>3. HeldLineage' /\ HeldInUse'
    BY <1>2, <2>1, HeldLineageStep, HeldInUseStep
  <2>4. SetterData' /\ StoredData' /\ CallData'
    BY <1>2, <2>1, <2>2, DataMoves, SetHookStep, StoreDataStep, UndisturbedStep
       DEF DataMoved
  <2>5. OwnDataUnlessTorn'
    BY <1>2, OwnStep
  <2> QED BY <2>2, <2>3, <2>4, <2>5 DEF KeptInv
<1> QED BY <1>1, <1>2 DEF Next, Step

THEOREM KeptInvariance == "keep" \in Rules => (Spec => []KeptInv)
<1> SUFFICES ASSUME "keep" \in Rules PROVE Spec => []KeptInv
  OBVIOUS
<1>1. KeptInv /\ [Next]_vars => KeptInv'
  BY KeptStep
<1> QED BY <1>1, KeptStart, PTL DEF Spec

(* The pointers NSS keeps to SSLSockets, for any number of sockets,        *)
(* descriptors and threads, lead to objects that exist, whatever hooks     *)
(* other threads set and whatever descriptors they close meanwhile.        *)
THEOREM HooksKeptAlive == "keep" \in Rules => (Spec => []HooksAlive)
<1>1. KeptInv => HooksAlive
  <2> SUFFICES ASSUME KeptInv PROVE HooksAlive
    OBVIOUS
  <2>1. open \subseteq Descriptors /\ HeldLineage /\ HeldInUse
    BY DEF KeptInv, TypeOK
  <2>2. \A d \in open, h \in Hook : hookArg[d][h] \in Live \cup {NoObject}
    BY <2>1 DEF HeldLineage, Live
  <2>3. \A t \in Threads : call[t].self \in Live \cup {NoObject}
    BY <2>1 DEF HeldInUse, Live
  <2> QED BY <2>2, <2>3 DEF HooksAlive
<1> QED BY <1>1, KeptInvariance, PTL

(* A callback gets the user data given with it, whatever hooks other       *)
(* threads set in between, unless two of them were setting this very hook  *)
(* or one was while the call was prepared.                                 *)
THEOREM OwnData == "keep" \in Rules => (Spec => []OwnDataUnlessTorn)
<1>1. KeptInv => OwnDataUnlessTorn
  BY DEF KeptInv
<1> QED BY <1>1, KeptInvariance, PTL

-----------------------------------------------------------------------------
(* What holds for a program that follows both rules.                       *)

Careful == Rules = {"keep", "alone"}

(* Apart from six actions a step leaves the PIN arguments as they are, with *)
(* NSS and in the sockets the program holds; a call for a password gets     *)
(* NSS's.                                                                   *)
PinCalm(t) ==
  /\ UNCHANGED <<held, open, line, pinArg, botched>>
  /\ \A o \in held : pin'[o] = pin[o]
  /\ \A o \in held :
       \/ fdOf'[o] = fdOf[o]
       \/ at[t] = "python" /\ call[t].hook = "auth" /\ o = call[t].sock
  /\ at'[t] = "pinning" <=> at[t] = "pinning"
  /\ at[t] = "pinning" => call'[t] = call[t]
  /\ call'[t].pin # NoPin =>
       \/ at[t] = "pinning"
       \/ call'[t] = call[t] /\ at'[t] = at[t]
       \/ call'[t].pin = call[t].pin /\ at[t] \notin Called
       \/ /\ at'[t] \in Called /\ call'[t].fd = call[t].fd
          /\ \/ at[t] \in Called /\ call'[t].pin = call[t].pin
             \/ call'[t].pin = pinArg[call[t].fd]

PinMoved(t) ==
  \/ \E o \in Objects, d \in Descriptors : SSLSocket_init(t, o, d)
  \/ \E o, n \in Objects, d \in Descriptors : SSLSocket_accept(t, o, d, n)
  \/ \E o \in Objects : Socket_close(t, o) \/ SSLSocket_dealloc(t, o)
  \/ \E o \in Objects, p \in Pins : SSLSocket_set_pkcs11_pin_arg(t, o, p)
  \/ SSL_SetPKCS11PinArg(t)
  \/ PinCalm(t)

LEMMA PinMoves ==
  ASSUME TypeOK, NEW t \in Threads, Step(t)
  PROVE  PinMoved(t)
<1> USE HooksAssumption DEF PinMoved, PinCalm, Setting, Inside, Called, TypeOK,
   objVars, nssVars, callVars, pwVars
<1>1. CASE TakeGil(t)
  BY <1>1 DEF TakeGil
<1>2. CASE YieldGil(t)
  BY <1>2 DEF YieldGil
<1>3. ASSUME NEW o \in Objects, NEW d \in Descriptors,
             SSLSocket_init(t, o, d)
      PROVE  PinMoved(t)
  BY <1>3
<1>4. ASSUME NEW o \in Objects, NEW n \in Objects, NEW d \in Descriptors,
             SSLSocket_accept(t, o, d, n)
      PROVE  PinMoved(t)
  BY <1>4
<1>5. ASSUME NEW o \in Objects,
             Socket_close(t, o)
      PROVE  PinMoved(t)
  BY <1>5
<1>6. ASSUME NEW o \in Objects,
             SSLSocket_dealloc(t, o)
      PROVE  PinMoved(t)
  BY <1>6
<1>7. ASSUME NEW o \in Objects,
             SSLSocket_force_handshake(t, o)
      PROVE  PinMoved(t)
  BY <1>7 DEF SSLSocket_force_handshake, Idle, HandshakeFrame, Frame
<1>8. ASSUME NEW o \in Objects,
             SSLSocket_rehandshake(t, o)
      PROVE  PinMoved(t)
  BY <1>8 DEF SSLSocket_rehandshake, AskAnother, Idle
<1>9. ASSUME NEW o \in Objects,
             SSLSocket_reset_handshake(t, o)
      PROVE  PinMoved(t)
  BY <1>9 DEF SSLSocket_reset_handshake, AskAnother, Idle
<1>10. ASSUME NEW o \in Objects, NEW h \in Hook, NEW new \in Tags,
             SetHook(t, o, h, new)
      PROVE  PinMoved(t)
  BY <1>10 DEF SetHook, Enter, Idle, SetterFrame, Carrying, Frame
<1>11. ASSUME NEW o \in Objects, NEW p \in Pins,
             SSLSocket_set_pkcs11_pin_arg(t, o, p)
      PROVE  PinMoved(t)
  BY <1>11
<1>12. ASSUME NEW c \in Passwords,
             pk11_set_password_callback(t, c)
      PROVE  PinMoved(t)
  BY <1>12 DEF pk11_set_password_callback, Enter, NoFrame, Frame, Idle
<1>13. CASE ThreadExit(t)
  BY <1>13 DEF ThreadExit, Idle
<1>14. CASE StoreData(t)
  BY <1>14 DEF StoreData, Running
<1>15. CASE HookNss(t)
  BY <1>15 DEF HookNss, Leave, NoFrame, Frame, Running
<1>16. CASE SSL_SetPKCS11PinArg(t)
  BY <1>16
<1>17. CASE PK11_SetPasswordFunc(t)
  BY <1>17 DEF PK11_SetPasswordFunc, Leave, NoFrame, Frame, Running
<1>18. CASE NssAuthenticates(t)
  BY <1>18 DEF NssAuthenticates, CallHook, Handshake, Frame
<1>19. CASE NssAsksClient(t)
  BY <1>19 DEF NssAsksClient, CallHook, Handshake, Frame
<1>20. CASE NssReports(t)
  BY <1>20 DEF NssReports, CallHook, Handshake, Frame
<1>21. CASE NssAsksPassword(t)
  BY <1>21 DEF NssAsksPassword, Frame, Handshake
<1>22. CASE NssAccepts(t)
  BY <1>22 DEF NssAccepts, Advance, Handshake
<1>23. CASE NssRefuses(t)
  BY <1>23 DEF NssRefuses, Advance, Handshake
<1>24. CASE NssCompletes(t)
  BY <1>24 DEF NssCompletes, Advance, Handshake
<1>25. CASE EndHandshake(t)
  BY <1>25 DEF EndHandshake, Leave, NoFrame, Frame, Handshake
<1>26. CASE NssTimesOut(t)
  BY <1>26 DEF NssTimesOut, Leave, NoFrame, Frame, Handshake
<1>27. CASE PyGILState_Ensure(t)
  BY <1>27 DEF PyGILState_Ensure, Carrying, Ensured
<1>28. CASE ArgumentsFail(t)
  BY <1>28 DEF ArgumentsFail, PyGILState_Release, HandshakeFrame, Frame,
     Status, Running
<1>29. ASSUME NEW n \in Objects,
             ssl_auth_certificate(t, n)
      PROVE  PinMoved(t)
  <2>1. n \notin held
    BY <1>29 DEF ssl_auth_certificate, Live
  <2>2. \A o \in held : pin'[o] = pin[o] /\ fdOf'[o] = fdOf[o]
    BY <2>1, <1>29 DEF ssl_auth_certificate, SSLSocket_clear
  <2>3. /\ UNCHANGED <<held, open, line, pinArg, botched>>
        /\ at[t] = "build" /\ at'[t] = "python"
        /\ call'[t].pin = call[t].pin /\ call'[t].fd = call[t].fd
    BY <1>29 DEF ssl_auth_certificate, RunCallback, Running, Reading, Carrying
  <2>4. PinCalm(t)
    BY ONLY <2>2, <2>3 DEF PinCalm, Called
  <2>5. QED BY ONLY <2>4
<1>30. CASE get_client_auth_data(t)
  BY <1>30 DEF get_client_auth_data, RunCallback, Reading, Carrying, Running
<1>31. CASE ssl_handshake_callback(t)
  BY <1>31 DEF ssl_handshake_callback, RunCallback, Reading, Carrying, Running
<1>32. ASSUME NEW said \in {"true", "false", "raise", "noTruth"},
             HookReturns(t, said)
      PROVE  PinMoved(t)
  <2>1. /\ UNCHANGED <<held, open, line, pinArg, botched, pin>>
        /\ at[t] = "python" /\ at'[t] = "nss" /\ call'[t].pin = NoPin
    BY <1>32 DEF HookReturns, PyGILState_Release, ReleaseSocket, Running,
       HandshakeFrame, Frame
  <2>2. \/ fdOf' = fdOf
        \/ call[t].hook = "auth" /\ fdOf' = [fdOf EXCEPT ![call[t].sock] = NoFd]
    BY <1>32 DEF HookReturns, ReleaseSocket
  <2>3. held \subseteq Objects /\ fdOf \in [Objects -> Descriptors \cup {NoFd}]
    OBVIOUS
  <2>4. \A o \in held : fdOf'[o] = fdOf[o] \/ (call[t].hook = "auth" /\ o = call[t].sock)
    BY ONLY <2>2, <2>3
  <2>5. PinCalm(t)
    BY ONLY <2>1, <2>4 DEF PinCalm
  <2>6. QED BY ONLY <2>5
<1>33. CASE PasswordUndefined(t)
  BY <1>33 DEF PasswordUndefined, PyGILState_Release, HandshakeFrame, Frame,
     Running
<1>34. CASE PK11_password_callback(t)
  BY <1>34 DEF PK11_password_callback, RunCallback, Running
<1>35. CASE PasswordReturns(t)
  <2>1. PICK next \in {"failed", "wrong", "unlocked"} :
          PyGILState_Release(t, next, "none")
    BY <1>35 DEF PasswordReturns
  <2>2. QED BY <2>1, <1>35 DEF PasswordReturns, PyGILState_Release, Running,
          HandshakeFrame, Frame
<1> QED BY ONLY Step(t), <1>1, <1>2, <1>3, <1>4, <1>5, <1>6, <1>7, <1>8, <1>9,
   <1>10, <1>11, <1>12, <1>13, <1>14, <1>15, <1>16, <1>17, <1>18, <1>19,
   <1>20, <1>21, <1>22, <1>23, <1>24, <1>25, <1>26, <1>27, <1>28, <1>29,
   <1>30, <1>31, <1>32, <1>33, <1>34, <1>35
    DEF Step, Program, Setter, Nss, CalledBack

LEMMA PinCalmStep ==
  ASSUME Careful, IInv, NEW t \in Threads, PinCalm(t), Moved(t)
  PROVE  PinsUndisturbed' /\ PinLineage'
<1>0. /\ TypeOK /\ FrameShape /\ HeldLineage /\ HeldInUse
      /\ PinsUndisturbed /\ PinLineage
  BY DEF IInv, KeptInv
<1>1. /\ held \subseteq Objects /\ open \subseteq Descriptors
      /\ \A d \in open : line[d] \subseteq held
  BY ONLY <1>0 DEF TypeOK, HeldLineage
<1>2. ASSUME NEW u \in Threads, (at[u] = "pinning")'
      PROVE  /\ at[u] = "pinning" /\ call'[u] = call[u] /\ call[u].obj \in held
             /\ pin'[call[u].obj] = pin[call[u].obj]
             /\ fdOf'[call[u].obj] = fdOf[call[u].obj]
  <2>1. at[u] = "pinning" /\ call'[u] = call[u]
    BY ONLY <1>2, PinCalm(t), Moved(t) DEF PinCalm, Moved
  <2>2. call[u].obj \in held
    BY ONLY <1>0, <2>1 DEF HeldInUse, Setting
  <2> QED BY ONLY <1>0, <2>1, <2>2, PinCalm(t), t \in Threads DEF PinCalm, HeldInUse
<1>3. ASSUME NEW u \in Threads, (at[u] \in Inside)'
      PROVE  \/ at[u] \in Inside /\ call'[u].fd = call[u].fd
             \/ \E d \in open : call'[u].fd = d /\ Settled(d)
  BY ONLY <1>3, Moved(t) DEF Moved
<1>4. ASSUME NEW u \in Threads, at[u] = "pinning"
      PROVE  at'[u] = "pinning" /\ call'[u] = call[u]
  BY ONLY <1>4, PinCalm(t), Moved(t) DEF PinCalm, Moved
<1>7. PinsUndisturbed'
  <2>1. ASSUME NEW u \in Threads
        PROVE  (/\ at[u] \in Inside => call[u].fd \in open
                /\ call[u].pin # NoPin =>
                     \/ at[u] = "pinning" /\ call[u].pin = pin[call[u].obj]
                     \/ at[u] \in Called /\ call[u].pin = pinArg[call[u].fd])'
    <3>1. (at[u] \in Inside => call[u].fd \in open)'
      BY ONLY <1>0, <1>3, PinCalm(t), u \in Threads DEF PinCalm, PinsUndisturbed
    <3>2. ASSUME (call[u].pin # NoPin)'
          PROVE  (\/ at[u] = "pinning" /\ call[u].pin = pin[call[u].obj]
                  \/ at[u] \in Called /\ call[u].pin = pinArg[call[u].fd])'
      <4>1. CASE call'[u] = call[u] /\ at'[u] = at[u]
        BY ONLY <1>0, <1>2, <3>2, <4>1, PinCalm(t), u \in Threads
           DEF PinCalm, PinsUndisturbed
      <4>2. CASE u # t
        BY ONLY <4>1, <4>2, Moved(t), u \in Threads DEF Moved
      <4>3. CASE u = t /\ at[t] = "pinning"
        BY ONLY <1>0, <1>2, <1>4, <3>2, <4>3, u \in Threads DEF PinsUndisturbed, Called
      <4>4. CASE u = t /\ at[t] # "pinning"
        <5>1. \/ call'[t] = call[t] /\ at'[t] = at[t]
              \/ /\ at'[t] \in Called /\ call'[t].fd = call[t].fd
                 /\ \/ at[t] \in Called /\ call'[t].pin = call[t].pin
                    \/ call'[t].pin = pinArg[call[t].fd]
          BY ONLY <1>0, <3>2, <4>4, PinCalm(t), t \in Threads
             DEF PinCalm, PinsUndisturbed
        <5>2. CASE at[t] \in Called /\ call'[t].pin = call[t].pin
          BY ONLY <1>0, <3>2, <4>1, <4>4, <5>1, <5>2, PinCalm(t), t \in Threads
             DEF PinCalm, PinsUndisturbed
        <5> QED BY ONLY <4>1, <4>4, <5>1, <5>2, PinCalm(t) DEF PinCalm
      <4> QED BY ONLY <4>2, <4>3, <4>4
    <3> QED BY ONLY <3>1, <3>2
  <2>2. ASSUME NEW v \in Threads, NEW u \in Threads, (at[v] = "pinning")'
        PROVE  (/\ at[u] = "pinning" /\ call[v].obj = call[u].obj => v = u
                /\ at[u] \in Inside => call[v].obj \notin line[call[u].fd]
                /\ \A d \in open : call[v].obj \in line[d] => fdOf[call[v].obj] = d)'
    <3>1. /\ at[v] = "pinning" /\ call'[v] = call[v] /\ call[v].obj \in held
          /\ fdOf'[call[v].obj] = fdOf[call[v].obj]
          /\ UNCHANGED <<open, line>>
      BY ONLY <1>2, <2>2, PinCalm(t) DEF PinCalm
    <3>2. (at[u] = "pinning" /\ call[v].obj = call[u].obj => v = u)'
      BY ONLY <1>0, <1>2, <2>2, <3>1 DEF PinsUndisturbed
    <3>3. (at[u] \in Inside => call[v].obj \notin line[call[u].fd])'
      <4>1. CASE at[u] \in Inside /\ call'[u].fd = call[u].fd
        BY ONLY <1>0, <2>2, <3>1, <4>1 DEF PinsUndisturbed
      <4>2. CASE \E d \in open : call'[u].fd = d /\ Settled(d)
        BY ONLY <2>2, <3>1, <4>2, Careful DEF Settled, BeingPinned, Careful
      <4> QED BY ONLY <1>3, <2>2, <4>1, <4>2
    <3>4. (\A d \in open : call[v].obj \in line[d] => fdOf[call[v].obj] = d)'
      BY ONLY <1>0, <2>2, <3>1 DEF PinsUndisturbed
    <3> QED BY ONLY <3>2, <3>3, <3>4
  <2> QED BY ONLY <2>1, <2>2 DEF PinsUndisturbed
<1>8. PinLineage'
  <2> SUFFICES ASSUME NEW d \in open'
               PROVE  (\/ pinArg[d] = NoPin \/ d \in botched
                       \/ \E o \in line[d] : pin[o] = pinArg[d]
                       \/ \E u \in Threads :
                            /\ at[u] = "pinning"
                            /\ fdOf[call[u].obj] = d /\ call[u].obj \in line[d])'
    BY DEF PinLineage
  <2>1. d \in open /\ UNCHANGED <<open, line, pinArg, botched>>
    BY ONLY PinCalm(t), d \in open' DEF PinCalm
  <2>2. \A o \in line[d] : pin'[o] = pin[o]
    BY ONLY <1>1, <2>1, PinCalm(t) DEF PinCalm
  <2>3. ASSUME NEW u \in Threads, at[u] = "pinning"
        PROVE  /\ at'[u] = "pinning" /\ call'[u] = call[u]
               /\ fdOf'[call[u].obj] = fdOf[call[u].obj]
    BY ONLY <1>2, <1>4, <2>3
  <2> QED BY ONLY <1>0, <2>1, <2>2, <2>3 DEF PinLineage
<1> QED BY <1>7, <1>8

(* No thread moves, and what the handshakes and the setters use stays.     *)
LEMMA StillUndisturbed ==
  ASSUME IInv, UNCHANGED <<at, call>>,
         \A u \in Threads : at[u] \in Inside =>
           /\ call[u].fd \in open' /\ line'[call[u].fd] = line[call[u].fd]
           /\ pinArg'[call[u].fd] = pinArg[call[u].fd],
         \A v \in Threads : at[v] = "pinning" =>
           /\ pin'[call[v].obj] = pin[call[v].obj]
           /\ \A d \in open' :
                call[v].obj \in line'[d] => fdOf'[call[v].obj] = d
  PROVE  PinsUndisturbed'
<1>0. PinsUndisturbed
  BY DEF IInv
<1>1. ASSUME NEW u \in Threads
      PROVE  (/\ at[u] \in Inside => call[u].fd \in open
              /\ call[u].pin # NoPin =>
                   \/ at[u] = "pinning" /\ call[u].pin = pin[call[u].obj]
                   \/ at[u] \in Called /\ call[u].pin = pinArg[call[u].fd])'
  BY <1>0 DEF PinsUndisturbed, Called, Inside
<1>2. ASSUME NEW v \in Threads, NEW u \in Threads, (at[v] = "pinning")'
      PROVE  (/\ at[u] = "pinning" /\ call[v].obj = call[u].obj => v = u
              /\ at[u] \in Inside => call[v].obj \notin line[call[u].fd]
              /\ \A d \in open : call[v].obj \in line[d] => fdOf[call[v].obj] = d)'
  BY <1>0, <1>2 DEF PinsUndisturbed
<1> QED BY ONLY <1>1, <1>2 DEF PinsUndisturbed

LEMMA PinInitStep ==
  ASSUME Careful, IInv, NEW t \in Threads, NEW o \in Objects,
         NEW d \in Descriptors, SSLSocket_init(t, o, d)
  PROVE  PinsUndisturbed' /\ PinLineage'
<1>0. /\ TypeOK /\ FrameShape /\ HeldLineage /\ HeldInUse
      /\ PinsUndisturbed /\ PinLineage
  BY DEF IInv, KeptInv
<1>1. /\ held \subseteq Objects /\ open \subseteq Descriptors
      /\ \A e \in open : line[e] \subseteq held
  BY ONLY <1>0 DEF TypeOK, HeldLineage
<1>2. \A v \in Threads : at[v] = "pinning" => call[v].obj \in held
  BY ONLY <1>0 DEF HeldInUse, Setting
<1>3. /\ \A u \in Threads : at[u] \in Inside => call[u].fd \in open
      /\ \A v \in Threads, e \in open :
           at[v] = "pinning" /\ call[v].obj \in line[e] => fdOf[call[v].obj] = e
  BY ONLY <1>0 DEF PinsUndisturbed
<1>4. \A e \in open :
        \/ pinArg[e] = NoPin \/ e \in botched
        \/ \E x \in line[e] : pin[x] = pinArg[e]
        \/ \E u \in Threads :
             /\ at[u] = "pinning"
             /\ fdOf[call[u].obj] = e /\ call[u].obj \in line[e]
  BY ONLY <1>0 DEF PinLineage
<1>5. d \notin open /\ open' = open \cup {d} /\ UNCHANGED <<at, call>>
  BY ONLY SSLSocket_init(t, o, d) DEF SSLSocket_init, callVars
<1>6. /\ fdOf'[o] = d /\ \A x \in held \ {o} : fdOf'[x] = fdOf[x]
      /\ line'[d] = {o} /\ \A e \in Descriptors \ {d} : line'[e] = line[e]
      /\ pinArg'[d] = NoPin /\ \A e \in Descriptors \ {d} : pinArg'[e] = pinArg[e]
      /\ botched' = botched \ {d}
  BY ONLY <1>0, <1>1, SSLSocket_init(t, o, d), o \in Objects, d \in Descriptors
     DEF SSLSocket_init, Fresh, TypeOK
<1>7. \A x \in held : pin'[x] = pin[x]
  <2>1. CASE SSLSocket_clear(o) /\ o \notin Live
    BY ONLY <1>0, <1>1, <2>1 DEF SSLSocket_clear, Live, TypeOK
  <2>2. CASE UNCHANGED <<callback, data, pin, raced>>
    BY ONLY <2>2
  <2> QED BY ONLY <2>1, <2>2, SSLSocket_init(t, o, d) DEF SSLSocket_init
<1>8. o \in held => fdOf[o] = NoFd
  BY ONLY SSLSocket_init(t, o, d) DEF SSLSocket_init, Live
<1>9. PinsUndisturbed'
  <2>1. ASSUME NEW v \in Threads, at[v] = "pinning", NEW e \in open',
               call[v].obj \in line'[e]
        PROVE  fdOf'[call[v].obj] = e
    <3>1. CASE e = d
      BY ONLY <1>6, <2>1, <3>1
    <3>2. CASE e # d
      <4>1. fdOf[call[v].obj] = e /\ call[v].obj \in held /\ e \in Descriptors
        BY ONLY <1>1, <1>2, <1>3, <1>5, <1>6, <2>1, <3>2
      <4> QED BY ONLY <1>6, <1>8, <4>1, HooksAssumption
    <3> QED BY ONLY <3>1, <3>2
  <2> QED BY ONLY IInv, <1>1, <1>2, <1>3, <1>5, <1>6, <1>7, <2>1, StillUndisturbed
<1>10. PinLineage'
  <2> SUFFICES ASSUME NEW e \in open'
               PROVE  (\/ pinArg[e] = NoPin \/ e \in botched
                       \/ \E x \in line[e] : pin[x] = pinArg[e]
                       \/ \E u \in Threads :
                            /\ at[u] = "pinning"
                            /\ fdOf[call[u].obj] = e /\ call[u].obj \in line[e])'
    BY DEF PinLineage
  <2>1. CASE e = d
    BY ONLY <1>6, <2>1
  <2>2. CASE e # d
    <3>1. /\ e \in open /\ e \in Descriptors /\ line'[e] = line[e]
          /\ pinArg'[e] = pinArg[e] /\ (e \in botched' <=> e \in botched)
          /\ \A x \in line[e] : pin'[x] = pin[x]
      BY ONLY <1>1, <1>5, <1>6, <1>7, <2>2, e \in open'
    <3>2. ASSUME NEW u \in Threads, at[u] = "pinning", fdOf[call[u].obj] = e
          PROVE  at'[u] = "pinning" /\ fdOf'[call'[u].obj] = e /\ call'[u] = call[u]
      BY ONLY <1>2, <1>5, <1>6, <1>8, <3>1, <3>2, HooksAssumption
    <3> QED BY ONLY <1>4, <3>1, <3>2
  <2> QED BY ONLY <2>1, <2>2
<1> QED BY <1>9, <1>10

LEMMA PinAcceptStep ==
  ASSUME Careful, IInv, NEW t \in Threads, NEW o \in Objects, NEW n \in Objects,
         NEW d \in Descriptors, SSLSocket_accept(t, o, d, n)
  PROVE  PinsUndisturbed' /\ PinLineage'
<1>0. /\ TypeOK /\ FrameShape /\ HeldLineage /\ HeldInUse
      /\ PinsUndisturbed /\ PinLineage
  BY DEF IInv, KeptInv
<1>1. /\ held \subseteq Objects /\ open \subseteq Descriptors
      /\ \A e \in open : line[e] \subseteq held
  BY ONLY <1>0 DEF TypeOK, HeldLineage
<1>2. \A v \in Threads : at[v] = "pinning" => call[v].obj \in held
  BY ONLY <1>0 DEF HeldInUse, Setting
<1>3. /\ \A u \in Threads : at[u] \in Inside => call[u].fd \in open
      /\ \A v \in Threads, e \in open :
           at[v] = "pinning" /\ call[v].obj \in line[e] => fdOf[call[v].obj] = e
  BY ONLY <1>0 DEF PinsUndisturbed
<1>4. \A e \in open :
        \/ pinArg[e] = NoPin \/ e \in botched
        \/ \E x \in line[e] : pin[x] = pinArg[e]
        \/ \E u \in Threads :
             /\ at[u] = "pinning"
             /\ fdOf[call[u].obj] = e /\ call[u].obj \in line[e]
  BY ONLY <1>0 DEF PinLineage
<1> DEFINE l == fdOf[o]
<1>5. /\ d \notin open /\ open' = open \cup {d} /\ UNCHANGED <<at, call>>
      /\ l \in open /\ l \in Descriptors /\ n \notin held
      /\ \A x \in line[l] : ~BeingPinned(x)
  BY ONLY <1>1, Careful, SSLSocket_accept(t, o, d, n)
     DEF SSLSocket_accept, callVars, Live, Settled, Careful
<1>6. /\ \A x \in held : fdOf'[x] = fdOf[x] /\ pin'[x] = pin[x]
      /\ line'[d] = line[l] \/ line'[d] = line[l] \cup {n}
      /\ \A e \in Descriptors \ {d} : line'[e] = line[e]
  <2>1. CASE /\ SSLSocket_clear(n)
             /\ fdOf' = [fdOf EXCEPT ![n] = d]
             /\ line' = [line EXCEPT ![d] = line[fdOf[o]] \cup {n}]
    BY ONLY <1>0, <1>1, <1>5, <2>1, d \in Descriptors DEF SSLSocket_clear, TypeOK
  <2>2. CASE line' = [line EXCEPT ![d] = line[fdOf[o]]] /\ UNCHANGED objVars
    BY ONLY <1>0, <1>5, <2>2, d \in Descriptors DEF objVars, TypeOK
  <2> QED BY ONLY <2>1, <2>2, SSLSocket_accept(t, o, d, n) DEF SSLSocket_accept
<1>7. /\ pinArg'[d] = pinArg[l]
      /\ \A e \in Descriptors \ {d} : pinArg'[e] = pinArg[e]
      /\ d \in botched' <=> l \in botched
      /\ \A e \in Descriptors \ {d} : e \in botched' <=> e \in botched
  BY ONLY <1>0, d \in Descriptors, SSLSocket_accept(t, o, d, n)
     DEF SSLSocket_accept, TypeOK
<1>8. ASSUME NEW v \in Threads, at[v] = "pinning"
      PROVE  call[v].obj \notin line'[d] /\ call[v].obj \in held
  BY ONLY <1>2, <1>5, <1>6, <1>8 DEF BeingPinned
<1>9. PinsUndisturbed'
  <2>1. ASSUME NEW v \in Threads, at[v] = "pinning", NEW e \in open',
               call[v].obj \in line'[e]
        PROVE  fdOf'[call[v].obj] = e
    <3>1. e \in open /\ e \in Descriptors \ {d}
      BY ONLY <1>1, <1>5, <1>8, <2>1
    <3> QED BY ONLY <1>2, <1>3, <1>6, <2>1, <3>1
  <2> QED BY ONLY IInv, <1>1, <1>2, <1>3, <1>5, <1>6, <1>7, <2>1, StillUndisturbed
<1>10. PinLineage'
  <2> SUFFICES ASSUME NEW e \in open'
               PROVE  (\/ pinArg[e] = NoPin \/ e \in botched
                       \/ \E x \in line[e] : pin[x] = pinArg[e]
                       \/ \E u \in Threads :
                            /\ at[u] = "pinning"
                            /\ fdOf[call[u].obj] = e /\ call[u].obj \in line[e])'
    BY DEF PinLineage
  <2>1. CASE e = d
    <3>1. ~\E u \in Threads :
            /\ at[u] = "pinning"
            /\ fdOf[call[u].obj] = l /\ call[u].obj \in line[l]
      BY ONLY <1>5 DEF BeingPinned
    <3>2. \A x \in line[l] : x \in line'[d] /\ pin'[x] = pin[x]
      BY ONLY <1>1, <1>5, <1>6
    <3> QED BY ONLY <1>4, <1>5, <1>7, <2>1, <3>1, <3>2
  <2>2. CASE e # d
    <3>1. /\ e \in open /\ e \in Descriptors /\ line'[e] = line[e]
          /\ pinArg'[e] = pinArg[e] /\ (e \in botched' <=> e \in botched)
          /\ \A x \in line[e] : pin'[x] = pin[x]
      BY ONLY <1>1, <1>5, <1>6, <1>7, <2>2, e \in open'
    <3>2. ASSUME NEW u \in Threads, at[u] = "pinning", fdOf[call[u].obj] = e
          PROVE  at'[u] = "pinning" /\ fdOf'[call'[u].obj] = e /\ call'[u] = call[u]
      BY ONLY <1>2, <1>5, <1>6, <3>2
    <3> QED BY ONLY <1>4, <3>1, <3>2
  <2> QED BY ONLY <2>1, <2>2
<1> QED BY <1>9, <1>10

LEMMA PinCloseStep ==
  ASSUME Careful, IInv, NEW t \in Threads, NEW o \in Objects, Socket_close(t, o)
  PROVE  PinsUndisturbed' /\ PinLineage'
<1>0. /\ TypeOK /\ FrameShape /\ HeldLineage /\ HeldInUse
      /\ PinsUndisturbed /\ PinLineage
  BY DEF IInv, KeptInv
<1>1. /\ held \subseteq Objects /\ open \subseteq Descriptors
      /\ \A d \in open : line[d] \subseteq held
  BY ONLY <1>0 DEF TypeOK, HeldLineage
<1>2. \A v \in Threads : at[v] = "pinning" => call[v].obj \in held
  BY ONLY <1>0 DEF HeldInUse, Setting
<1>3. /\ \A u \in Threads : at[u] \in Inside => call[u].fd \in open
      /\ \A v \in Threads, e \in open :
           at[v] = "pinning" /\ call[v].obj \in line[e] => fdOf[call[v].obj] = e
  BY ONLY <1>0 DEF PinsUndisturbed
<1>4. \A e \in open :
        \/ pinArg[e] = NoPin \/ e \in botched
        \/ \E x \in line[e] : pin[x] = pinArg[e]
        \/ \E u \in Threads :
             /\ at[u] = "pinning"
             /\ fdOf[call[u].obj] = e /\ call[u].obj \in line[e]
  BY ONLY <1>0 DEF PinLineage
<1> DEFINE c == fdOf[o]
<1>5. /\ c \in open /\ c \in Descriptors /\ open' = open \ {c}
      /\ UNCHANGED <<at, call, pin>> /\ ~InNss(c)
  BY ONLY <1>1, Careful, Socket_close(t, o)
     DEF Socket_close, callVars, MayClose, Careful
<1>6. /\ \A x \in held \ {o} : fdOf'[x] = fdOf[x]
      /\ \A e \in Descriptors \ {c} : line'[e] = line[e] /\ pinArg'[e] = pinArg[e]
      /\ botched' = botched \ {c}
  BY ONLY <1>0, <1>1, <1>5, Socket_close(t, o) DEF Socket_close, Fresh, TypeOK
<1>7. ASSUME NEW v \in Threads, at[v] = "pinning", NEW e \in open',
             fdOf[call[v].obj] = e
      PROVE  fdOf'[call[v].obj] = e
  BY ONLY <1>2, <1>5, <1>6, <1>7
<1>8. PinsUndisturbed'
  <2>1. ASSUME NEW v \in Threads, at[v] = "pinning", NEW e \in open',
               call[v].obj \in line'[e]
        PROVE  fdOf'[call[v].obj] = e
    <3>1. e \in open /\ e \in Descriptors \ {c}
      BY ONLY <1>1, <1>5, e \in open'
    <3>2. fdOf[call[v].obj] = e
      BY ONLY <1>3, <1>6, <2>1, <3>1
    <3> QED BY ONLY <1>7, <2>1, <3>2
  <2>2. ASSUME NEW u \in Threads, at[u] \in Inside
        PROVE  call[u].fd \in open' /\ call[u].fd \in Descriptors \ {c}
    BY ONLY <1>1, <1>3, <1>5, <2>2 DEF InNss
  <2> QED BY ONLY IInv, <1>5, <1>6, <2>1, <2>2, StillUndisturbed
<1>9. PinLineage'
  <2> SUFFICES ASSUME NEW e \in open'
               PROVE  (\/ pinArg[e] = NoPin \/ e \in botched
                       \/ \E x \in line[e] : pin[x] = pinArg[e]
                       \/ \E u \in Threads :
                            /\ at[u] = "pinning"
                            /\ fdOf[call[u].obj] = e /\ call[u].obj \in line[e])'
    BY DEF PinLineage
  <2>1. /\ e \in open /\ e \in Descriptors /\ line'[e] = line[e]
        /\ pinArg'[e] = pinArg[e] /\ (e \in botched' <=> e \in botched)
    BY ONLY <1>1, <1>5, <1>6, e \in open'
  <2>2. ASSUME NEW u \in Threads, at[u] = "pinning", fdOf[call[u].obj] = e
        PROVE  at'[u] = "pinning" /\ fdOf'[call'[u].obj] = e /\ call'[u] = call[u]
    BY ONLY <1>5, <1>7, <2>2, e \in open'
  <2> QED BY ONLY <1>4, <1>5, <2>1, <2>2
<1> QED BY <1>8, <1>9

LEMMA PinDeallocStep ==
  ASSUME Careful, IInv, NEW t \in Threads, NEW o \in Objects,
         SSLSocket_dealloc(t, o)
  PROVE  PinsUndisturbed' /\ PinLineage'
<1>0. /\ TypeOK /\ FrameShape /\ HeldLineage /\ HeldInUse
      /\ PinsUndisturbed /\ PinLineage
  BY DEF IInv, KeptInv
<1>1. /\ held \subseteq Objects /\ open \subseteq Descriptors
      /\ \A d \in open : line[d] \subseteq held
  BY ONLY <1>0 DEF TypeOK, HeldLineage
<1>2. \A v \in Threads : at[v] = "pinning" => call[v].obj \in held
  BY ONLY <1>0 DEF HeldInUse, Setting
<1>3. /\ \A u \in Threads : at[u] \in Inside => call[u].fd \in open
      /\ \A v \in Threads, e \in open :
           at[v] = "pinning" /\ call[v].obj \in line[e] => fdOf[call[v].obj] = e
  BY ONLY <1>0 DEF PinsUndisturbed
<1>4. \A e \in open :
        \/ pinArg[e] = NoPin \/ e \in botched
        \/ \E x \in line[e] : pin[x] = pinArg[e]
        \/ \E u \in Threads :
             /\ at[u] = "pinning"
             /\ fdOf[call[u].obj] = e /\ call[u].obj \in line[e]
  BY ONLY <1>0 DEF PinLineage
<1>5. /\ UNCHANGED <<at, call, open, line, pinArg, botched>>
      /\ \A e \in open : o \notin line[e]
      /\ \A v \in Threads : call[v].obj # o
  BY ONLY Careful, SSLSocket_dealloc(t, o)
     DEF SSLSocket_dealloc, nssVars, callVars, MayDrop, Heirs, Careful
<1>6. \A x \in held \ {o} : fdOf'[x] = fdOf[x] /\ pin'[x] = pin[x]
  BY ONLY <1>0, <1>1, SSLSocket_dealloc(t, o)
     DEF SSLSocket_dealloc, SSLSocket_clear, TypeOK
<1>7. PinsUndisturbed'
  BY ONLY IInv, <1>2, <1>3, <1>5, <1>6, StillUndisturbed
<1>8. PinLineage'
  <2> SUFFICES ASSUME NEW e \in open'
               PROVE  (\/ pinArg[e] = NoPin \/ e \in botched
                       \/ \E x \in line[e] : pin[x] = pinArg[e]
                       \/ \E u \in Threads :
                            /\ at[u] = "pinning"
                            /\ fdOf[call[u].obj] = e /\ call[u].obj \in line[e])'
    BY DEF PinLineage
  <2>1. \A x \in line[e] : pin'[x] = pin[x]
    BY ONLY <1>1, <1>5, <1>6, e \in open'
  <2>2. ASSUME NEW u \in Threads, at[u] = "pinning"
        PROVE  fdOf'[call[u].obj] = fdOf[call[u].obj]
    BY ONLY <1>2, <1>5, <1>6, <2>2
  <2> QED BY ONLY <1>4, <1>5, <2>1, <2>2, e \in open'
<1> QED BY <1>7, <1>8

LEMMA PinSetStep ==
  ASSUME Careful, IInv, NEW t \in Threads, NEW o \in Objects, NEW p \in Pins,
         SSLSocket_set_pkcs11_pin_arg(t, o, p)
  PROVE  PinsUndisturbed' /\ PinLineage'
<1>0. /\ TypeOK /\ FrameShape /\ HeldLineage /\ HeldInUse
      /\ PinsUndisturbed /\ PinLineage
  BY DEF IInv, KeptInv
<1>1. /\ held \subseteq Objects /\ open \subseteq Descriptors
      /\ \A d \in open : line[d] \subseteq held
  BY ONLY <1>0 DEF TypeOK, HeldLineage
<1>2. \A v \in Threads : at[v] = "pinning" => call[v].obj \in held
  BY ONLY <1>0 DEF HeldInUse, Setting
<1>3. /\ \A u \in Threads : at[u] \in Inside => call[u].fd \in open
      /\ \A v \in Threads, e \in open :
           at[v] = "pinning" /\ call[v].obj \in line[e] => fdOf[call[v].obj] = e
  BY ONLY <1>0 DEF PinsUndisturbed
<1>4. \A e \in open :
        \/ pinArg[e] = NoPin \/ e \in botched
        \/ \E x \in line[e] : pin[x] = pinArg[e]
        \/ \E u \in Threads :
             /\ at[u] = "pinning"
             /\ fdOf[call[u].obj] = e /\ call[u].obj \in line[e]
  BY ONLY <1>0 DEF PinLineage
<1>5. /\ at[t] = "idle" /\ at'[t] = "pinning"
      /\ call'[t].obj = o /\ call'[t].pin = p
      /\ \A u \in Threads \ {t} : at'[u] = at[u] /\ call'[u] = call[u]
  BY ONLY <1>0, SSLSocket_set_pkcs11_pin_arg(t, o, p)
     DEF SSLSocket_set_pkcs11_pin_arg, Enter, Idle, Frame, TypeOK
<1>6. /\ UNCHANGED <<held, fdOf, open, line, pinArg, botched>>
      /\ pin'[o] = p /\ \A x \in Objects \ {o} : pin'[x] = pin[x]
  BY ONLY <1>0, o \in Objects, SSLSocket_set_pkcs11_pin_arg(t, o, p)
     DEF SSLSocket_set_pkcs11_pin_arg, nssVars, TypeOK
<1>7. /\ \A v \in Threads : ~(at[v] = "pinning" /\ call[v].obj = o)
      /\ \A e \in open : o \in line[e] => e = fdOf[o] /\ ~InNss(e)
  BY ONLY Careful, SSLSocket_set_pkcs11_pin_arg(t, o, p)
     DEF SSLSocket_set_pkcs11_pin_arg, MaySetPin, BeingPinned, Heirs, Careful
<1>8. PinsUndisturbed'
  <2>1. ASSUME NEW u \in Threads
        PROVE  (/\ at[u] \in Inside => call[u].fd \in open
                /\ call[u].pin # NoPin =>
                     \/ at[u] = "pinning" /\ call[u].pin = pin[call[u].obj]
                     \/ at[u] \in Called /\ call[u].pin = pinArg[call[u].fd])'
    <3>1. CASE u = t
      BY ONLY <1>5, <1>6, <3>1 DEF Inside
    <3>2. CASE u # t
      <4>1. CASE at[u] = "pinning"
        BY ONLY <1>0, <1>1, <1>2, <1>5, <1>6, <1>7, <3>2, <4>1, u \in Threads
           DEF PinsUndisturbed, Inside, Called
      <4>2. CASE at[u] # "pinning"
        BY ONLY <1>0, <1>5, <1>6, <3>2, <4>2, u \in Threads DEF PinsUndisturbed
      <4> QED BY ONLY <4>1, <4>2
    <3> QED BY ONLY <3>1, <3>2
  <2>2. ASSUME NEW v \in Threads, NEW u \in Threads, (at[v] = "pinning")'
        PROVE  (/\ at[u] = "pinning" /\ call[v].obj = call[u].obj => v = u
                /\ at[u] \in Inside => call[v].obj \notin line[call[u].fd]
                /\ \A d \in open : call[v].obj \in line[d] => fdOf[call[v].obj] = d)'
    <3>1. CASE v = t
      <4>1. (at[u] = "pinning" /\ call[v].obj = call[u].obj => v = u)'
        BY ONLY <1>5, <1>7, <3>1, u \in Threads
      <4>2. (at[u] \in Inside => call[v].obj \notin line[call[u].fd])'
        BY ONLY <1>3, <1>5, <1>6, <1>7, <3>1, u \in Threads DEF InNss, Inside
      <4>3. (\A d \in open : call[v].obj \in line[d] => fdOf[call[v].obj] = d)'
        BY ONLY <1>5, <1>6, <1>7, <3>1
      <4> QED BY ONLY <4>1, <4>2, <4>3
    <3>2. CASE v # t
      <4>1. at[v] = "pinning" /\ call'[v] = call[v]
        BY ONLY <1>5, <2>2, <3>2
      <4>2. CASE u = t
        BY ONLY <1>0, <1>5, <1>6, <1>7, <2>2, <4>1, <4>2 DEF PinsUndisturbed, Inside
      <4>3. CASE u # t
        BY ONLY <1>0, <1>5, <1>6, <2>2, <4>1, <4>3 DEF PinsUndisturbed
      <4> QED BY ONLY <4>2, <4>3
    <3> QED BY ONLY <3>1, <3>2
  <2> QED BY ONLY <2>1, <2>2 DEF PinsUndisturbed
<1>9. PinLineage'
  <2> SUFFICES ASSUME NEW e \in open'
               PROVE  (\/ pinArg[e] = NoPin \/ e \in botched
                       \/ \E x \in line[e] : pin[x] = pinArg[e]
                       \/ \E u \in Threads :
                            /\ at[u] = "pinning"
                            /\ fdOf[call[u].obj] = e /\ call[u].obj \in line[e])'
    BY DEF PinLineage
  <2>1. ASSUME NEW u \in Threads, at[u] = "pinning"
        PROVE  at'[u] = "pinning" /\ call'[u] = call[u]
    BY ONLY <1>5, <2>1
  <2>2. CASE o \in line[e]
    BY ONLY <1>5, <1>6, <1>7, <2>2, e \in open', t \in Threads
  <2>3. CASE o \notin line[e]
    <3>1. \A x \in line[e] : pin'[x] = pin[x]
      BY ONLY <1>1, <1>6, <2>3, e \in open'
    <3> QED BY ONLY <1>4, <1>6, <2>1, <3>1, e \in open'
  <2> QED BY ONLY <2>2, <2>3
<1> QED BY <1>8, <1>9

LEMMA PinGivenStep ==
  ASSUME Careful, IInv, NEW t \in Threads, SSL_SetPKCS11PinArg(t)
  PROVE  PinsUndisturbed' /\ PinLineage'
<1>0. /\ TypeOK /\ FrameShape /\ HeldLineage /\ HeldInUse
      /\ PinsUndisturbed /\ PinLineage
  BY DEF IInv, KeptInv
<1>1. /\ held \subseteq Objects /\ open \subseteq Descriptors
      /\ \A d \in open : line[d] \subseteq held
  BY ONLY <1>0 DEF TypeOK, HeldLineage
<1>2. \A v \in Threads : at[v] = "pinning" => call[v].obj \in held
  BY ONLY <1>0 DEF HeldInUse, Setting
<1>3. /\ \A u \in Threads : at[u] \in Inside => call[u].fd \in open
      /\ \A v \in Threads, e \in open :
           at[v] = "pinning" /\ call[v].obj \in line[e] => fdOf[call[v].obj] = e
  BY ONLY <1>0 DEF PinsUndisturbed
<1>4. \A e \in open :
        \/ pinArg[e] = NoPin \/ e \in botched
        \/ \E x \in line[e] : pin[x] = pinArg[e]
        \/ \E u \in Threads :
             /\ at[u] = "pinning"
             /\ fdOf[call[u].obj] = e /\ call[u].obj \in line[e]
  BY ONLY <1>0 DEF PinLineage
<1> DEFINE o == call[t].obj
           c == fdOf[o]
<1>5. /\ at[t] = "pinning" /\ at'[t] = "idle" /\ call'[t].pin = NoPin
      /\ \A u \in Threads \ {t} : at'[u] = at[u] /\ call'[u] = call[u]
      /\ UNCHANGED <<held, fdOf, open, line>>
  BY ONLY <1>0, SSL_SetPKCS11PinArg(t) DEF SSL_SetPKCS11PinArg, Running, Leave,
     NoFrame, Frame, TypeOK
<1>6. /\ o \in held /\ o \in Objects
      /\ c \in open => c \in Descriptors /\ o \in line[c]
      /\ call[t].pin = NoPin \/ call[t].pin = pin[o]
  <2>1. o \in held /\ o \in Objects
    BY ONLY <1>1, <1>2, <1>5
  <2>2. c \in open => c \in Descriptors /\ o \in line[c]
    BY ONLY <1>0, <1>1, <2>1, HooksAssumption DEF HeldLineage
  <2>3. call[t].pin = NoPin \/ call[t].pin = pin[o]
    BY ONLY <1>0, <1>5 DEF PinsUndisturbed, Called
  <2> QED BY ONLY <2>1, <2>2, <2>3
<1>7. \/ /\ c \in open /\ pin' = pin /\ botched' = botched \ {c}
         /\ pinArg' = [pinArg EXCEPT ![c] = call[t].pin]
      \/ /\ pin' = [pin EXCEPT ![o] = NoPin] /\ pinArg' = pinArg
         /\ botched' = botched \cup ({c} \cap open)
  BY ONLY SSL_SetPKCS11PinArg(t) DEF SSL_SetPKCS11PinArg, PinTaken, PinRefused
<1>8. /\ \A x \in Objects \ {o} : pin'[x] = pin[x]
      /\ \A e \in Descriptors \ {c} : pinArg'[e] = pinArg[e]
      /\ c \notin open => pinArg' = pinArg
  BY ONLY <1>0, <1>6, <1>7 DEF TypeOK
<1>9. ASSUME NEW u \in Threads, u # t, at[u] = "pinning"
      PROVE  call[u].obj # o /\ pin'[call[u].obj] = pin[call[u].obj]
  <2>1. call[u].obj # o
    BY ONLY <1>0, <1>5, <1>9, t \in Threads DEF PinsUndisturbed
  <2> QED BY ONLY <1>1, <1>2, <1>8, <1>9, <2>1
<1>10. ASSUME NEW u \in Threads, at[u] \in Inside
       PROVE  pinArg'[call[u].fd] = pinArg[call[u].fd]
  <2>1. call[u].fd \in open /\ o \notin line[call[u].fd]
    BY ONLY <1>0, <1>5, <1>10, t \in Threads DEF PinsUndisturbed
  <2> QED BY ONLY <1>1, <1>6, <1>8, <2>1
<1>11. PinsUndisturbed'
  <2>1. ASSUME NEW u \in Threads
        PROVE  (/\ at[u] \in Inside => call[u].fd \in open
                /\ call[u].pin # NoPin =>
                     \/ at[u] = "pinning" /\ call[u].pin = pin[call[u].obj]
                     \/ at[u] \in Called /\ call[u].pin = pinArg[call[u].fd])'
    <3>1. CASE u = t
      BY ONLY <1>5, <3>1 DEF Inside
    <3>2. CASE u # t
      <4>1. at'[u] = at[u] /\ call'[u] = call[u]
        BY ONLY <1>5, <3>2
      <4>2. CASE at[u] = "pinning"
        BY ONLY <1>0, <1>5, <1>9, <3>2, <4>1, <4>2 DEF PinsUndisturbed, Inside, Called
      <4>3. CASE at[u] # "pinning"
        BY ONLY <1>0, <1>5, <1>10, <4>1, <4>3, u \in Threads
           DEF PinsUndisturbed, Inside, Called
      <4> QED BY ONLY <4>2, <4>3
    <3> QED BY ONLY <3>1, <3>2
  <2>2. ASSUME NEW v \in Threads, NEW u \in Threads, (at[v] = "pinning")'
        PROVE  (/\ at[u] = "pinning" /\ call[v].obj = call[u].obj => v = u
                /\ at[u] \in Inside => call[v].obj \notin line[call[u].fd]
                /\ \A d \in open : call[v].obj \in line[d] => fdOf[call[v].obj] = d)'
    <3>1. v # t /\ at[v] = "pinning" /\ call'[v] = call[v]
      BY ONLY <1>5, <2>2
    <3>2. CASE u = t
      BY ONLY <1>0, <1>5, <3>1, <3>2, v \in Threads DEF PinsUndisturbed, Inside
    <3>3. CASE u # t
      BY ONLY <1>0, <1>5, <2>2, <3>1, <3>3 DEF PinsUndisturbed
    <3> QED BY ONLY <3>2, <3>3
  <2> QED BY ONLY <2>1, <2>2 DEF PinsUndisturbed
<1>12. PinLineage'
  <2> SUFFICES ASSUME NEW e \in open'
               PROVE  (\/ pinArg[e] = NoPin \/ e \in botched
                       \/ \E x \in line[e] : pin[x] = pinArg[e]
                       \/ \E u \in Threads :
                            /\ at[u] = "pinning"
                            /\ fdOf[call[u].obj] = e /\ call[u].obj \in line[e])'
    BY DEF PinLineage
  <2>1. e \in open /\ e \in Descriptors
    BY ONLY <1>1, <1>5, e \in open'
  <2>2. ASSUME e = c
        PROVE  \/ pinArg'[e] = NoPin \/ e \in botched'
               \/ pin'[o] = pinArg'[e]
    <3>1. pinArg \in [Descriptors -> Pins \cup {NoPin}]
      BY ONLY <1>0 DEF TypeOK
    <3> QED BY ONLY <1>6, <1>7, <2>1, <2>2, <3>1
  <2>3. CASE e = c
    BY ONLY <1>5, <1>6, <2>1, <2>2, <2>3
  <2>4. CASE e # c
    <3>1. o \notin line[e]
      BY ONLY <1>3, <1>5, <2>1, <2>4, t \in Threads
    <3>2. /\ pinArg'[e] = pinArg[e] /\ (e \in botched => e \in botched')
          /\ \A x \in line[e] : pin'[x] = pin[x]
      BY ONLY <1>1, <1>7, <1>8, <2>1, <2>4, <3>1
    <3>3. ASSUME NEW u \in Threads, at[u] = "pinning", fdOf[call[u].obj] = e
          PROVE  at'[u] = "pinning" /\ call'[u] = call[u]
      BY ONLY <1>5, <2>4, <3>3
    <3> QED BY ONLY <1>4, <1>5, <2>1, <3>2, <3>3
  <2> QED BY ONLY <2>3, <2>4
<1> QED BY <1>11, <1>12

(* The invariant is inductive when the program keeps the SSLSockets alive  *)
(* and nobody sets PIN arguments that another thread is using.             *)
THEOREM Invariance == Careful => (Spec => []IInv)
<1> SUFFICES ASSUME Careful PROVE Spec => []IInv
  OBVIOUS
<1>1. Init => IInv
  <2> SUFFICES ASSUME Init PROVE IInv
    OBVIOUS
  <2>1. KeptInv
    BY KeptStart
  <2>2. PinsUndisturbed /\ PinLineage
    BY DEF Init, PinsUndisturbed, PinLineage, Inside, NoFrame, Frame
  <2> QED BY <2>1, <2>2 DEF IInv
<1>2. IInv /\ [Next]_vars => IInv'
  <2> SUFFICES ASSUME IInv, [Next]_vars
               PROVE  IInv'
    OBVIOUS
  <2>1. KeptInv'
    BY KeptStep DEF IInv, Careful
  <2>2. CASE UNCHANGED vars
    <3>1. PinsUndisturbed' /\ PinLineage'
      BY <2>2 DEF IInv, vars, objVars, nssVars, callVars, PinsUndisturbed, PinLineage
    <3> QED BY <2>1, <3>1 DEF IInv
  <2>3. ASSUME NEW t \in Threads, Step(t)
        PROVE  PinsUndisturbed' /\ PinLineage'
    <3>1. TypeOK
      BY DEF IInv, KeptInv
    <3>2. PinMoved(t) /\ Moved(t)
      BY <2>3, <3>1, PinMoves, Moves
    <3> QED BY <3>2, PinCalmStep, PinInitStep, PinAcceptStep, PinCloseStep,
               PinDeallocStep, PinSetStep, PinGivenStep DEF PinMoved
  <2> QED BY <2>1, <2>2, <2>3 DEF Next, Step, IInv
<1> QED BY <1>1, <1>2, PTL DEF Spec

(* The tuple of PIN arguments exists whenever a handshake can use it,      *)
(* unless NSS refused the last ones of the descriptor.                     *)
THEOREM PinsKeptAlive == Careful => (Spec => []PinsAlive)
<1>1. IInv => PinsAlive
  <2> SUFFICES ASSUME IInv PROVE PinsAlive
    OBVIOUS
  <2>1. /\ HeldLineage /\ HeldInUse /\ PinsUndisturbed /\ PinLineage
        /\ open \subseteq Descriptors
    BY DEF IInv, KeptInv, TypeOK
  <2>2. ASSUME NEW d \in open, NEW o \in line[d]
        PROVE  o \in Live
    BY <2>1 DEF HeldLineage, Live
  <2>3. ASSUME NEW d \in open \ botched
        PROVE  \/ PinArgAlive(d)
               \/ ~InNss(d) /\ \E t \in Threads :
                                 at[t] = "pinning" /\ fdOf[call[t].obj] = d
    <3>1. CASE pinArg[d] = NoPin
      BY <3>1 DEF PinArgAlive
    <3>2. CASE \E o \in line[d] : pin[o] = pinArg[d]
      BY <2>2, <3>2 DEF PinArgAlive, PinLive
    <3>3. CASE \E t \in Threads :
                 /\ at[t] = "pinning"
                 /\ fdOf[call[t].obj] = d /\ call[t].obj \in line[d]
      BY <2>1, <3>3 DEF PinsUndisturbed, InNss
    <3> QED BY <2>1, <3>1, <3>2, <3>3 DEF PinLineage
  <2>4. ASSUME NEW t \in Threads
        PROVE  \/ call[t].pin = NoPin \/ PinLive(call[t].pin)
               \/ call[t].fd \in botched
    <3>1. CASE at[t] = "pinning"
      BY <3>1 DEF PinLive
    <3>2. CASE at[t] \in Called /\ call[t].pin = pinArg[call[t].fd]
      <4>1. call[t].fd \in open /\ InNss(call[t].fd)
        BY <2>1, <3>2 DEF PinsUndisturbed, InNss, Inside, Called
      <4> QED BY <2>3, <3>2, <4>1 DEF PinArgAlive
    <3> QED BY <2>1, <3>1, <3>2 DEF PinsUndisturbed
  <2> QED BY <2>3, <2>4 DEF PinsAlive
<1> QED BY <1>1, Invariance, PTL

=============================================================================
