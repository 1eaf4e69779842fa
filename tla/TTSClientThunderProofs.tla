----------------------- MODULE TTSClientThunderProofs -----------------------
(***************************************************************************)
(* The inductive invariant of TTSClientThunder and what follows from it,   *)
(* however many sessions there are.                                        *)
(***************************************************************************)
EXTENDS TTSClientThunder, TLAPS

\* What exists at each step of the worker, and when the library calls back.
Control ==
    /\ client <=> \/ initialized
                  \/ worker \in {"initialized", "destroy", "forget", "delete"}
    /\ worker \in {"arm", "check", "disarm", "create", "store", "query", "speak"}
          => initialized
    /\ worker \in {"initialized", "destroy", "forget", "delete"} => ~initialized
    /\ notifier # "idle" => client
    /\ notifier \in {"connected", "arm"} => connected
    /\ notifier \in {"closed", "disarm"} => ~connected

\* The server's sessions against the id the worker holds or will hold.  An id
\* is stored only where there is none, and so are sessions created.
Known ==
    /\ \A s \in sessions : s = sessionId \/ (worker = "store" /\ s = created)
    /\ \A s, t \in sessions : s = t
    /\ ~connected => sessions = {}
    /\ worker \in {"disarm", "create"} => sessions = {}
    /\ worker \in {"initialized", "arm", "forget", "delete"} => sessions = {}
    /\ worker \in {"initialized", "arm", "disarm", "create", "store", "delete"}
          => sessionId = 0
    /\ ~client => sessionId = 0 /\ sessions = {}
    /\ created # 0 => worker = "store"
    /\ outdated => sessionId # 0

\* While the library's thread is at rest and the server has refused nothing,
\* the worker has a session, gets one, or will find that it has to.
Recovers ==
    /\ initialized /\ ~connected /\ notifier # "closed" /\ ~outdated
          => sessionId = 0
    /\ initialized /\ connected /\ notifier # "idle" /\ ~outdated
          => sessionId = 0 \/ sessionId \in sessions
    /\ initialized /\ connected /\ notifier = "idle" /\ ~refused /\ ~outdated
          => /\ worker \in {"idle", "check", "query", "speak"} => ReadyToSpeak
             /\ worker = "store" /\ created = 0 => shouldCreate

IInv == TypeOK /\ Control /\ Known /\ Recovers

----------------------------------------------------------------------------
\* Every step keeps the invariant.
THEOREM InvariantStep == IInv /\ [Next]_vars => IInv'
<1> SUFFICES ASSUME IInv, [Next]_vars
             PROVE  IInv'
  OBVIOUS
<1> USE IdBoundNatural DEF IInv, TypeOK, workerVars, sessionVars, serverVars,
                           SESSION_ID_INVALID
<1>0. CASE UNCHANGED vars
  <2>1. TypeOK'
    BY <1>0 DEF vars, WorkerOK, SessionOK, FlagsOK
  <2>2. Control' /\ Known' /\ Recovers'
    BY <1>0 DEF vars, Control, Known, Recovers, ReadyToSpeak
  <2> QED
    BY <2>1, <2>2
<1>1. ASSUME Initialize
      PROVE  IInv'
  <2>1. TypeOK'
    <3>1. WorkerOK'
      BY <1>1 DEF Initialize, WorkerOK
    <3>2. SessionOK'
      BY <1>1 DEF Initialize, SessionOK
    <3>3. FlagsOK'
      BY <1>1 DEF Initialize, FlagsOK
    <3> QED
      BY <3>1, <3>2, <3>3
  <2>2. Control'
    BY <1>1 DEF Initialize, WorkerOK, Control
  <2>3. Known'
    BY <1>1 DEF Initialize, SessionOK, Control, Known
  <2>4. Recovers'
    BY <1>1 DEF Initialize, SessionOK, WorkerOK, Control, Known, Recovers, ReadyToSpeak
  <2> QED
    BY <2>1, <2>2, <2>3, <2>4
<1>2. ASSUME SetInitialized
      PROVE  IInv'
  <2>1. TypeOK'
    <3>1. WorkerOK'
      BY <1>2 DEF SetInitialized, WorkerOK
    <3>2. SessionOK'
      BY <1>2 DEF SetInitialized, SessionOK
    <3>3. FlagsOK'
      BY <1>2 DEF SetInitialized, FlagsOK
    <3> QED
      BY <3>1, <3>2, <3>3
  <2>2. Control'
    BY <1>2 DEF SetInitialized, WorkerOK, Control
  <2>3. Known'
    BY <1>2 DEF SetInitialized, SessionOK, Control, Known
  <2>4. Recovers'
    BY <1>2 DEF SetInitialized, SessionOK, WorkerOK, Control, Known, Recovers, ReadyToSpeak
  <2> QED
    BY <2>1, <2>2, <2>3, <2>4
<1>3. ASSUME ArmSession
      PROVE  IInv'
  <2>1. TypeOK'
    <3>1. WorkerOK'
      BY <1>3 DEF ArmSession, WorkerOK
    <3>2. SessionOK'
      BY <1>3 DEF ArmSession, SessionOK
    <3>3. FlagsOK'
      BY <1>3 DEF ArmSession, FlagsOK
    <3> QED
      BY <3>1, <3>2, <3>3
  <2>2. Control'
    BY <1>3 DEF ArmSession, WorkerOK, Control
  <2>3. Known'
    BY <1>3 DEF ArmSession, SessionOK, Control, Known
  <2>4. Recovers'
    BY <1>3 DEF ArmSession, SessionOK, WorkerOK, Control, Known, Recovers, ReadyToSpeak
  <2> QED
    BY <2>1, <2>2, <2>3, <2>4
<1>4. ASSUME CheckSession
      PROVE  IInv'
  <2>1. TypeOK'
    <3>1. WorkerOK'
      BY <1>4 DEF CheckSession, Continue, WorkerOK
    <3>2. SessionOK'
      BY <1>4 DEF CheckSession, SessionOK
    <3>3. FlagsOK'
      BY <1>4 DEF CheckSession, FlagsOK
    <3> QED
      BY <3>1, <3>2, <3>3
  <2>2. Control'
    BY <1>4 DEF CheckSession, Continue, WorkerOK, Control
  <2>3. Known'
    BY <1>4 DEF CheckSession, Continue, SessionOK, Control, Known
  <2>4. Recovers'
    BY <1>4 DEF CheckSession, Continue, SessionOK, WorkerOK, Control, Known, Recovers, ReadyToSpeak
  <2> QED
    BY <2>1, <2>2, <2>3, <2>4
<1>5. ASSUME DisarmSession
      PROVE  IInv'
  <2>1. TypeOK'
    <3>1. WorkerOK'
      BY <1>5 DEF DisarmSession, WorkerOK
    <3>2. SessionOK'
      BY <1>5 DEF DisarmSession, SessionOK
    <3>3. FlagsOK'
      BY <1>5 DEF DisarmSession, FlagsOK
    <3> QED
      BY <3>1, <3>2, <3>3
  <2>2. Control'
    BY <1>5 DEF DisarmSession, WorkerOK, Control
  <2>3. Known'
    BY <1>5 DEF DisarmSession, SessionOK, Control, Known
  <2>4. Recovers'
    BY <1>5 DEF DisarmSession, SessionOK, WorkerOK, Control, Known, Recovers, ReadyToSpeak
  <2> QED
    BY <2>1, <2>2, <2>3, <2>4
<1>6. ASSUME CreateSession
      PROVE  IInv'
  <2>1. TypeOK'
    <3>1. WorkerOK'
      BY <1>6 DEF CreateSession, WorkerOK
    <3>2. SessionOK'
      <4>1. CASE lastId < IdBound /\ lastId' = lastId + 1
                 /\ sessions' = sessions \cup {lastId'} /\ created' = lastId'
        <5>1. lastId + 1 \in 1 .. IdBound
          BY <4>1 DEF SessionOK
        <5> QED
          BY <1>6, <4>1, <5>1 DEF CreateSession, SessionOK
      <4>2. CASE created' = 0 /\ UNCHANGED <<sessions, lastId>>
        BY <1>6, <4>2 DEF CreateSession, SessionOK
      <4> QED
        BY <1>6, <4>1, <4>2 DEF CreateSession
    <3>3. FlagsOK'
      BY <1>6 DEF CreateSession, FlagsOK
    <3> QED
      BY <3>1, <3>2, <3>3
  <2>2. Control'
    BY <1>6 DEF CreateSession, WorkerOK, Control
  <2>3. Known'
    BY <1>6 DEF CreateSession, SessionOK, Control, Known
  <2>4. Recovers'
    BY <1>6 DEF CreateSession, SessionOK, WorkerOK, Control, Known, Recovers, ReadyToSpeak
  <2> QED
    BY <2>1, <2>2, <2>3, <2>4
<1>7. ASSUME StoreSession
      PROVE  IInv'
  <2>1. TypeOK'
    <3>1. WorkerOK'
      BY <1>7 DEF StoreSession, Continue, WorkerOK
    <3>2. SessionOK'
      BY <1>7 DEF StoreSession, SessionOK
    <3>3. FlagsOK'
      BY <1>7 DEF StoreSession, FlagsOK
    <3> QED
      BY <3>1, <3>2, <3>3
  <2>2. Control'
    BY <1>7 DEF StoreSession, Continue, WorkerOK, Control
  <2>3. Known'
    <3>1. /\ sessionId' = created /\ sessions' = sessions /\ created' = 0
          /\ outdated' = (created # 0 /\ created \notin sessions /\ notifier # "closed")
          /\ UNCHANGED <<client, connected>>
          /\ worker = "store" /\ worker' \in {"idle", "query"}
      BY <1>7 DEF StoreSession, Continue, WorkerOK
    <3>2. sessionId = 0 /\ client /\ 0 \notin sessions
      BY <3>1 DEF Known, Control, SessionOK
    <3>3. /\ \A s \in sessions : s = created
          /\ \A s, t \in sessions : s = t
          /\ ~connected => sessions = {}
      BY <3>1, <3>2 DEF Known
    <3> QED
      BY <3>1, <3>2, <3>3 DEF Known
  <2>4. Recovers'
    <3>1. /\ sessionId' = created /\ sessions' = sessions
          /\ outdated' = (created # 0 /\ created \notin sessions /\ notifier # "closed")
          /\ UNCHANGED <<initialized, connected, notifier, refused, shouldCreate>>
          /\ worker = "store" /\ worker' # "store"
      BY <1>7 DEF StoreSession, Continue
    <3>2. ~connected => sessions = {} /\ notifier \notin {"connected", "arm"}
      BY DEF Control, Known
    <3>3. connected => notifier # "closed"
      BY DEF Control
    <3>4. initialized /\ ~connected /\ notifier # "closed" /\ ~outdated' => created = 0
      BY <3>1, <3>2
    <3>5. connected /\ ~outdated' => created = 0 \/ created \in sessions
      BY <3>1, <3>3
    <3>6. ASSUME initialized, connected, notifier = "idle", ~refused, ~outdated'
          PROVE  ReadyToSpeak'
      <4>1. sessionId = 0
        BY <3>1 DEF Known
      <4>2. CASE created \in sessions
        BY <3>1, <4>2 DEF ReadyToSpeak
      <4>3. CASE created = 0
        <5>1. ~outdated => shouldCreate
          BY <3>1, <3>6, <4>3 DEF Recovers
        <5>2. ~outdated
          BY <4>1 DEF Known
        <5> QED
          BY <3>1, <4>3, <5>1, <5>2 DEF ReadyToSpeak
      <4> QED
        BY <3>5, <3>6, <4>2, <4>3
    <3> QED
      BY <3>1, <3>4, <3>5, <3>6 DEF Recovers
  <2> QED
    BY <2>1, <2>2, <2>3, <2>4
<1>8. ASSUME Speak
      PROVE  IInv'
  <2>1. TypeOK'
    <3>1. WorkerOK'
      BY <1>8 DEF Speak, WorkerOK
    <3>2. SessionOK'
      BY <1>8 DEF Speak, SessionOK
    <3>3. FlagsOK'
      BY <1>8 DEF Speak, FlagsOK
    <3> QED
      BY <3>1, <3>2, <3>3
  <2>2. Control'
    BY <1>8 DEF Speak, WorkerOK, Control
  <2>3. Known'
    BY <1>8 DEF Speak, SessionOK, Control, Known
  <2>4. Recovers'
    BY <1>8 DEF Speak, SessionOK, WorkerOK, Control, Known, Recovers, ReadyToSpeak
  <2> QED
    BY <2>1, <2>2, <2>3, <2>4
<1>9. ASSUME QuerySession
      PROVE  IInv'
  <2>1. TypeOK'
    <3>1. WorkerOK'
      BY <1>9 DEF QuerySession, WorkerOK
    <3>2. SessionOK'
      BY <1>9 DEF QuerySession, SessionOK
    <3>3. FlagsOK'
      BY <1>9 DEF QuerySession, FlagsOK
    <3> QED
      BY <3>1, <3>2, <3>3
  <2>2. Control'
    BY <1>9 DEF QuerySession, WorkerOK, Control
  <2>3. Known'
    BY <1>9 DEF QuerySession, SessionOK, Control, Known
  <2>4. Recovers'
    BY <1>9 DEF QuerySession, SessionOK, WorkerOK, Control, Known, Recovers, ReadyToSpeak
  <2> QED
    BY <2>1, <2>2, <2>3, <2>4
<1>10. ASSUME SpeakText
      PROVE  IInv'
  <2>1. TypeOK'
    <3>1. WorkerOK'
      BY <1>10 DEF SpeakText, WorkerOK
    <3>2. SessionOK'
      BY <1>10 DEF SpeakText, SessionOK
    <3>3. FlagsOK'
      BY <1>10 DEF SpeakText, FlagsOK
    <3> QED
      BY <3>1, <3>2, <3>3
  <2>2. Control'
    BY <1>10 DEF SpeakText, WorkerOK, Control
  <2>3. Known'
    BY <1>10 DEF SpeakText, SessionOK, Control, Known
  <2>4. Recovers'
    BY <1>10 DEF SpeakText, SessionOK, WorkerOK, Control, Known, Recovers, ReadyToSpeak
  <2> QED
    BY <2>1, <2>2, <2>3, <2>4
<1>11. ASSUME Uninitialize
      PROVE  IInv'
  <2>1. TypeOK'
    <3>1. WorkerOK'
      BY <1>11 DEF Uninitialize, WorkerOK
    <3>2. SessionOK'
      BY <1>11 DEF Uninitialize, SessionOK
    <3>3. FlagsOK'
      BY <1>11 DEF Uninitialize, FlagsOK
    <3> QED
      BY <3>1, <3>2, <3>3
  <2>2. Control'
    BY <1>11 DEF Uninitialize, WorkerOK, Control
  <2>3. Known'
    BY <1>11 DEF Uninitialize, SessionOK, Control, Known
  <2>4. Recovers'
    BY <1>11 DEF Uninitialize, SessionOK, WorkerOK, Control, Known, Recovers, ReadyToSpeak
  <2> QED
    BY <2>1, <2>2, <2>3, <2>4
<1>12. ASSUME DestroySession
      PROVE  IInv'
  <2>1. TypeOK'
    <3>1. WorkerOK'
      BY <1>12 DEF DestroySession, WorkerOK
    <3>2. SessionOK'
      BY <1>12 DEF DestroySession, SessionOK
    <3>3. FlagsOK'
      BY <1>12 DEF DestroySession, FlagsOK
    <3> QED
      BY <3>1, <3>2, <3>3
  <2>2. Control'
    BY <1>12 DEF DestroySession, WorkerOK, Control
  <2>3. Known'
    BY <1>12 DEF DestroySession, SessionOK, Control, Known
  <2>4. Recovers'
    BY <1>12 DEF DestroySession, SessionOK, WorkerOK, Control, Known, Recovers, ReadyToSpeak
  <2> QED
    BY <2>1, <2>2, <2>3, <2>4
<1>13. ASSUME ForgetSession
      PROVE  IInv'
  <2>1. TypeOK'
    <3>1. WorkerOK'
      BY <1>13 DEF ForgetSession, WorkerOK
    <3>2. SessionOK'
      BY <1>13 DEF ForgetSession, SessionOK
    <3>3. FlagsOK'
      BY <1>13 DEF ForgetSession, FlagsOK
    <3> QED
      BY <3>1, <3>2, <3>3
  <2>2. Control'
    BY <1>13 DEF ForgetSession, WorkerOK, Control
  <2>3. Known'
    BY <1>13 DEF ForgetSession, SessionOK, Control, Known
  <2>4. Recovers'
    BY <1>13 DEF ForgetSession, SessionOK, WorkerOK, Control, Known, Recovers, ReadyToSpeak
  <2> QED
    BY <2>1, <2>2, <2>3, <2>4
<1>14. ASSUME DeleteClient
      PROVE  IInv'
  <2>1. TypeOK'
    <3>1. WorkerOK'
      BY <1>14 DEF DeleteClient, WorkerOK
    <3>2. SessionOK'
      BY <1>14 DEF DeleteClient, SessionOK
    <3>3. FlagsOK'
      BY <1>14 DEF DeleteClient, FlagsOK
    <3> QED
      BY <3>1, <3>2, <3>3
  <2>2. Control'
    BY <1>14 DEF DeleteClient, WorkerOK, Control
  <2>3. Known'
    BY <1>14 DEF DeleteClient, SessionOK, Control, Known
  <2>4. Recovers'
    BY <1>14 DEF DeleteClient, SessionOK, WorkerOK, Control, Known, Recovers, ReadyToSpeak
  <2> QED
    BY <2>1, <2>2, <2>3, <2>4
<1>15. ASSUME ServerConnects
      PROVE  IInv'
  <2>1. TypeOK'
    <3>1. WorkerOK'
      BY <1>15 DEF ServerConnects, WorkerOK
    <3>2. SessionOK'
      BY <1>15 DEF ServerConnects, SessionOK
    <3>3. FlagsOK'
      BY <1>15 DEF ServerConnects, FlagsOK
    <3> QED
      BY <3>1, <3>2, <3>3
  <2>2. Control'
    BY <1>15 DEF ServerConnects, WorkerOK, Control
  <2>3. Known'
    BY <1>15 DEF ServerConnects, SessionOK, Control, Known
  <2>4. Recovers'
    BY <1>15 DEF ServerConnects, SessionOK, WorkerOK, Control, Known, Recovers, ReadyToSpeak
  <2> QED
    BY <2>1, <2>2, <2>3, <2>4
<1>16. ASSUME ServerCloses
      PROVE  IInv'
  <2>1. TypeOK'
    <3>1. WorkerOK'
      BY <1>16 DEF ServerCloses, WorkerOK
    <3>2. SessionOK'
      BY <1>16 DEF ServerCloses, SessionOK
    <3>3. FlagsOK'
      BY <1>16 DEF ServerCloses, FlagsOK
    <3> QED
      BY <3>1, <3>2, <3>3
  <2>2. Control'
    BY <1>16 DEF ServerCloses, WorkerOK, Control
  <2>3. Known'
    BY <1>16 DEF ServerCloses, SessionOK, Control, Known
  <2>4. Recovers'
    BY <1>16 DEF ServerCloses, SessionOK, WorkerOK, Control, Known, Recovers, ReadyToSpeak
  <2> QED
    BY <2>1, <2>2, <2>3, <2>4
<1>17. ASSUME OnTTSServerConnected
      PROVE  IInv'
  <2>1. TypeOK'
    <3>1. WorkerOK'
      BY <1>17 DEF OnTTSServerConnected, WorkerOK
    <3>2. SessionOK'
      BY <1>17 DEF OnTTSServerConnected, SessionOK
    <3>3. FlagsOK'
      BY <1>17 DEF OnTTSServerConnected, FlagsOK
    <3> QED
      BY <3>1, <3>2, <3>3
  <2>2. Control'
    BY <1>17 DEF OnTTSServerConnected, WorkerOK, Control
  <2>3. Known'
    BY <1>17 DEF OnTTSServerConnected, SessionOK, Control, Known
  <2>4. Recovers'
    BY <1>17 DEF OnTTSServerConnected, SessionOK, WorkerOK, Control, Known, Recovers, ReadyToSpeak
  <2> QED
    BY <2>1, <2>2, <2>3, <2>4
<1>18. ASSUME OnTTSServerConnectedArms
      PROVE  IInv'
  <2>1. TypeOK'
    <3>1. WorkerOK'
      BY <1>18 DEF OnTTSServerConnectedArms, WorkerOK
    <3>2. SessionOK'
      BY <1>18 DEF OnTTSServerConnectedArms, SessionOK
    <3>3. FlagsOK'
      BY <1>18 DEF OnTTSServerConnectedArms, FlagsOK
    <3> QED
      BY <3>1, <3>2, <3>3
  <2>2. Control'
    BY <1>18 DEF OnTTSServerConnectedArms, WorkerOK, Control
  <2>3. Known'
    BY <1>18 DEF OnTTSServerConnectedArms, SessionOK, Control, Known
  <2>4. Recovers'
    BY <1>18 DEF OnTTSServerConnectedArms, SessionOK, WorkerOK, Control, Known, Recovers, ReadyToSpeak
  <2> QED
    BY <2>1, <2>2, <2>3, <2>4
<1>19. ASSUME OnTTSServerClosed
      PROVE  IInv'
  <2>1. TypeOK'
    <3>1. WorkerOK'
      BY <1>19 DEF OnTTSServerClosed, WorkerOK
    <3>2. SessionOK'
      BY <1>19 DEF OnTTSServerClosed, SessionOK
    <3>3. FlagsOK'
      BY <1>19 DEF OnTTSServerClosed, FlagsOK
    <3> QED
      BY <3>1, <3>2, <3>3
  <2>2. Control'
    BY <1>19 DEF OnTTSServerClosed, WorkerOK, Control
  <2>3. Known'
    BY <1>19 DEF OnTTSServerClosed, SessionOK, Control, Known
  <2>4. Recovers'
    BY <1>19 DEF OnTTSServerClosed, SessionOK, WorkerOK, Control, Known, Recovers, ReadyToSpeak
  <2> QED
    BY <2>1, <2>2, <2>3, <2>4
<1>20. ASSUME OnTTSServerClosedDisarms
      PROVE  IInv'
  <2>1. TypeOK'
    <3>1. WorkerOK'
      BY <1>20 DEF OnTTSServerClosedDisarms, WorkerOK
    <3>2. SessionOK'
      BY <1>20 DEF OnTTSServerClosedDisarms, SessionOK
    <3>3. FlagsOK'
      BY <1>20 DEF OnTTSServerClosedDisarms, FlagsOK
    <3> QED
      BY <3>1, <3>2, <3>3
  <2>2. Control'
    BY <1>20 DEF OnTTSServerClosedDisarms, WorkerOK, Control
  <2>3. Known'
    BY <1>20 DEF OnTTSServerClosedDisarms, SessionOK, Control, Known
  <2>4. Recovers'
    BY <1>20 DEF OnTTSServerClosedDisarms, SessionOK, WorkerOK, Control, Known, Recovers, ReadyToSpeak
  <2> QED
    BY <2>1, <2>2, <2>3, <2>4
<1> QED
  BY <1>0, <1>1, <1>2, <1>3, <1>4, <1>5, <1>6, <1>7, <1>8, <1>9, <1>10,
     <1>11, <1>12, <1>13, <1>14, <1>15, <1>16, <1>17, <1>18, <1>19,
     <1>20
  DEF Next, Worker, Library

\* The invariant holds in every reachable state.
THEOREM InvariantCorrect == Spec => []IInv
<1>1. Init => IInv
  <2> SUFFICES ASSUME Init
               PROVE  IInv
    OBVIOUS
  <2>1. WorkerOK
    BY DEF Init, WorkerOK
  <2>2. SessionOK
    BY IdBoundNatural DEF Init, SessionOK, SESSION_ID_INVALID
  <2>3. FlagsOK
    BY DEF Init, FlagsOK
  <2>4. Control /\ Known /\ Recovers
    BY DEF Init, Control, Known, Recovers, SESSION_ID_INVALID
  <2> QED
    BY <2>1, <2>2, <2>3, <2>4 DEF IInv, TypeOK
<1> QED
  BY <1>1, InvariantStep, PTL DEF Spec

\* Every variable keeps its type.
THEOREM TypeCorrect == Spec => []TypeOK
<1>1. IInv => TypeOK
  BY DEF IInv
<1> QED
  BY <1>1, InvariantCorrect, PTL

\* No session of the server is forgotten, by any order of the two threads.
THEOREM SessionsKnownCorrect == Spec => []SessionsAreKnown
<1>1. IInv => SessionsAreKnown
  BY DEF IInv, Control, Known, SessionsAreKnown
<1> QED
  BY <1>1, InvariantCorrect, PTL

\* After any number of crashes and reconnections of the server the next speak
\* has a session, except after an id was stored whose session was gone.
THEOREM SpeakRecoversCorrect == Spec => []SpeakRecovers
<1>1. IInv => SpeakRecovers
  BY DEF IInv, Recovers, SpeakRecovers, Quiet
<1> QED
  BY <1>1, InvariantCorrect, PTL

----------------------------------------------------------------------------
\* The steps that are steps of the session; the others leave it alone.
LEMMA PromiseStep ==
    IInv /\ [Next]_vars => [Promise!Next]_(Promise!vars)
<1> SUFFICES ASSUME IInv, [Next]_vars
             PROVE  Promise!Next \/ UNCHANGED Promise!vars
  OBVIOUS
<1> USE DEF workerVars, sessionVars, serverVars, Promise!vars
<1>c. Control /\ Known
  BY DEF IInv
<1>1. CASE UNCHANGED vars
  BY <1>1 DEF vars
<1>2. CASE Initialize
  <2>1. Promise!Want
    BY <1>2 DEF Initialize, Promise!Want
  <2> QED
    BY <2>1 DEF Promise!Next
<1>3. CASE DeleteClient
  <2>1. sessions = {} /\ ~initialized
    BY <1>3, <1>c DEF DeleteClient, Control, Known
  <2>2. Promise!Leave
    BY <1>3, <2>1 DEF DeleteClient, Promise!Leave
  <2> QED
    BY <2>2 DEF Promise!Next
<1>4. CASE ServerConnects
  <2>1. Promise!Connect
    BY <1>4 DEF ServerConnects, Promise!Connect
  <2> QED
    BY <2>1 DEF Promise!Next
<1>5. CASE ServerCloses
  <2>1. Promise!Close
    BY <1>5 DEF ServerCloses, Promise!Close
  <2> QED
    BY <2>1 DEF Promise!Next
<1>6. CASE CreateSession
  <2>1. sessions = {}
    BY <1>6, <1>c DEF CreateSession, Known
  <2>2. CASE created' = 0 /\ sessions' = sessions
    BY <1>6, <2>2 DEF CreateSession
  <2>3. CASE connected /\ lastId < IdBound /\ sessions' = sessions \cup {lastId + 1}
    <3>1. lastId + 1 \in 1 .. IdBound
      BY <2>3, IdBoundNatural DEF IInv, TypeOK, SessionOK
    <3>2. Promise!Open(lastId + 1)
      BY <1>6, <2>1, <2>3 DEF CreateSession, Promise!Open
    <3> QED
      BY <3>1, <3>2 DEF Promise!Next
  <2> QED
    BY <1>6, <2>2, <2>3 DEF CreateSession
<1>7. CASE DestroySession
  <2>1. sessions' = {}
    BY <1>7, <1>c DEF DestroySession, Known
  <2>2. Promise!End
    BY <1>7, <2>1 DEF DestroySession, Promise!End
  <2> QED
    BY <2>2 DEF Promise!Next
<1>8. CASE \/ SetInitialized \/ ArmSession \/ DisarmSession
           \/ Speak \/ Uninitialize \/ ForgetSession
  <2>1. worker' # "idle" /\ (initialized \/ worker # "idle")
    BY <1>8
       DEF SetInitialized, ArmSession, DisarmSession, Speak, Uninitialize, ForgetSession
  <2>2. UNCHANGED <<connected, sessions>>
    BY <1>8
       DEF SetInitialized, ArmSession, DisarmSession, Speak, Uninitialize, ForgetSession
  <2> QED
    BY <2>1, <2>2
<1>9. CASE CheckSession \/ StoreSession \/ QuerySession \/ SpeakText
  <2>1. initialized
    BY <1>9, <1>c DEF CheckSession, StoreSession, QuerySession, SpeakText, Control
  <2>2. UNCHANGED <<initialized, connected, sessions>>
    BY <1>9 DEF CheckSession, StoreSession, QuerySession, SpeakText
  <2> QED
    BY <2>1, <2>2
<1>10. CASE \/ OnTTSServerConnected \/ OnTTSServerConnectedArms
            \/ OnTTSServerClosed \/ OnTTSServerClosedDisarms
  BY <1>10
     DEF OnTTSServerConnected, OnTTSServerConnectedArms, OnTTSServerClosed,
         OnTTSServerClosedDisarms
<1> QED
  BY <1>1, <1>2, <1>3, <1>4, <1>5, <1>6, <1>7, <1>8, <1>9, <1>10
     DEF Next, Worker, Library

\* The client of the AT-SPI2 build implements the session: none is opened twice,
\* without a connection or for nobody, and none is left.
THEOREM KeepsPromiseCorrect == Spec => KeepsPromise
<1>1. Init => Promise!Init
  BY DEF Init, Promise!Init
<1> QED
  BY <1>1, PromiseStep, InvariantCorrect, PTL DEF Spec, KeepsPromise, Promise!Spec
=============================================================================
