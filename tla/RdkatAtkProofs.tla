--------------------------- MODULE RdkatAtkProofs ---------------------------
(***************************************************************************)
(* The inductive invariant of RdkatAtk and what follows from it, however   *)
(* many sessions and utterances there are.                                 *)
(***************************************************************************)
EXTENDS RdkatAtk, TLAPS

\* What is known at each step of the application's thread, and when the
\* library calls back.
Control ==
    /\ main \in {"check", "create", "store", "restore", "abort", "destroy", "forget",
                 "clear", "active", "duck", "lower", "remember", "speak"} => client
    /\ main \in {"create", "store"} => process
    /\ main \in {"restore", "abort", "destroy", "forget"} => ~process
    /\ main \in {"ensure", "enabled", "active", "duck", "lower", "remember", "speak"}
          => handling
    /\ main \in {"arm", "abort session"} => ~handling
    /\ handling => process
    /\ client => attempted
    /\ notifier \in {"connected", "arm"} => client /\ connected
    /\ notifier \in {"closed", "disarm"} => client /\ ~connected

\* The server's sessions against the id the application's thread holds or will
\* hold.
Known ==
    /\ \A s \in sessions : s = sessionId \/ (main = "store" /\ s = created)
    /\ \A s, t \in sessions : s = t
    /\ ~connected => sessions = {}
    /\ ~client => sessions = {} /\ sessionId = 0
    /\ main = "create" => sessions = {}
    /\ main \in {"create", "store"} => sessionId = 0
    /\ main = "forget" => sessions = {}
    /\ ~process /\ main \in {"clear", "abort session", "idle"} => sessions = {}
    /\ created # 0 => main = "store"
    /\ outdated => sessionId # 0

\* While the library's thread is not about to set or clear the request, and the
\* server has refused nothing, there is a session, or a request for one.
Recovers ==
    /\ ~connected /\ notifier # "closed" /\ ~outdated => sessionId = 0
    /\ connected /\ ~outdated /\ main # "forget"
          => sessionId = 0 \/ sessionId \in sessions
    /\ ~client /\ process /\ main # "arm" => shouldCreate
    /\ process /\ client /\ connected /\ ~refused /\ ~outdated /\ ~overwritten
          /\ notifier \notin {"connected", "arm"} /\ main # "arm"
          => ReadyToSpeak \/ (main = "store" /\ created # 0)

\* A lowered volume is remembered, and somebody is there to restore it.
Volume ==
    /\ volume = "low" => volumeUpdated \/ main = "remember"
    /\ main \in {"lower", "remember"} => ~volumeUpdated
    /\ notifier \in {"restore", "clear"} => volumeUpdated
    /\ notifier = "clear" => volume = "full"
    /\ volume = "low" /\ ~unreported
          => \/ utterances > 0
             \/ main \in {"remember", "speak"}
             \/ notifier \in {"reset", "restore", "crashed"}

IInv == TypeOK /\ Control /\ Known /\ Recovers /\ Volume

----------------------------------------------------------------------------
\* The initial state satisfies the invariant.
LEMMA InvariantInit == Init => IInv
<1> SUFFICES ASSUME Init
             PROVE  IInv
  OBVIOUS
<1> USE BoundsNatural DEF Init
<1>1. TypeOK
  <2>1. MainOK /\ OthersOK
    BY DEF MainOK, OthersOK
  <2>2. NumbersOK
    BY DEF NumbersOK
  <2>3. SessionFlagsOK
    BY DEF SessionFlagsOK
  <2>4. OtherFlagsOK
    BY DEF OtherFlagsOK
  <2> QED
    BY <2>1, <2>2, <2>3, <2>4 DEF TypeOK
<1>2. Control /\ Volume
  BY DEF Control, Volume
<1>3. Known /\ Recovers
  BY DEF Known, Recovers
<1> QED
  BY <1>1, <1>2, <1>3 DEF IInv

\* Every step keeps the invariant.
LEMMA InvariantStep == IInv /\ [Next]_vars => IInv'
<1> SUFFICES ASSUME IInv, [Next]_vars
             PROVE  IInv'
  OBVIOUS
<1> USE BoundsNatural, DebuggingBoolean
    DEF IInv, TypeOK, mainVars, sessionVars, clientVars, volumeVars, serverVars, apiVars
<1>0. CASE UNCHANGED vars
  <2>1. TypeOK'
    <3>1. MainOK'
      BY <1>0 DEF vars, MainOK
    <3>5. OthersOK'
      BY <1>0 DEF vars, OthersOK
    <3>4. NumbersOK'
      BY <1>0 DEF vars, NumbersOK
    <3>2. SessionFlagsOK'
      BY <1>0 DEF vars, SessionFlagsOK
    <3>3. OtherFlagsOK'
      BY <1>0 DEF vars, OtherFlagsOK
    <3> QED
      BY <3>1, <3>2, <3>3, <3>4, <3>5
  <2>2. Control' /\ Volume'
    BY <1>0 DEF vars, Control, Volume
  <2>3. Known' /\ Recovers'
    BY <1>0 DEF vars, Known, Recovers, ReadyToSpeak
  <2> QED
    BY <2>1, <2>2, <2>3
<1>1. CASE Api
  <2>1. ASSUME Initialize
       PROVE  IInv'
    <3>1. TypeOK'
      <4>1. MainOK'
        BY <2>1 DEF Initialize, MainOK
      <4>5. OthersOK'
        BY <2>1 DEF Initialize, OthersOK
      <4>2. NumbersOK'
        BY <2>1 DEF Initialize, NumbersOK
      <4>3. SessionFlagsOK'
        BY <2>1 DEF Initialize, SessionFlagsOK
      <4>4. OtherFlagsOK'
        BY <2>1 DEF Initialize, OtherFlagsOK, SessionFlagsOK
      <4> QED
        BY <4>1, <4>2, <4>3, <4>4, <4>5
    <3>2. Control'
      BY <2>1 DEF Initialize, Control
    <3>3. Known'
      BY <2>1 DEF Initialize, NumbersOK, Control, Known
    <3>4. Recovers'
      BY <2>1 DEF Initialize, NumbersOK, Control, Known, Recovers, ReadyToSpeak
    <3>5. Volume'
      BY <2>1 DEF Initialize, NumbersOK, MainOK, OthersOK, Volume
    <3> QED
      BY <3>1, <3>2, <3>3, <3>4, <3>5
  <2>2. ASSUME Uninitialize
       PROVE  IInv'
    <3>1. TypeOK'
      <4>1. MainOK'
        BY <2>2 DEF Uninitialize, MainOK
      <4>5. OthersOK'
        BY <2>2 DEF Uninitialize, OthersOK
      <4>2. NumbersOK'
        BY <2>2 DEF Uninitialize, NumbersOK
      <4>3. SessionFlagsOK'
        BY <2>2 DEF Uninitialize, SessionFlagsOK
      <4>4. OtherFlagsOK'
        BY <2>2 DEF Uninitialize, OtherFlagsOK, SessionFlagsOK
      <4> QED
        BY <4>1, <4>2, <4>3, <4>4, <4>5
    <3>2. Control'
      BY <2>2 DEF Uninitialize, Control
    <3>3. Known'
      BY <2>2 DEF Uninitialize, NumbersOK, Control, Known
    <3>4. Recovers'
      BY <2>2 DEF Uninitialize, NumbersOK, Control, Known, Recovers, ReadyToSpeak
    <3>5. Volume'
      BY <2>2 DEF Uninitialize, NumbersOK, MainOK, OthersOK, Volume
    <3> QED
      BY <3>1, <3>2, <3>3, <3>4, <3>5
  <2>3. ASSUME SetVolumeControlCallback
       PROVE  IInv'
    <3>1. TypeOK'
      <4>1. MainOK'
        BY <2>3 DEF SetVolumeControlCallback, MainOK
      <4>5. OthersOK'
        BY <2>3 DEF SetVolumeControlCallback, OthersOK
      <4>2. NumbersOK'
        BY <2>3 DEF SetVolumeControlCallback, NumbersOK
      <4>3. SessionFlagsOK'
        BY <2>3 DEF SetVolumeControlCallback, SessionFlagsOK
      <4>4. OtherFlagsOK'
        BY <2>3 DEF SetVolumeControlCallback, OtherFlagsOK, SessionFlagsOK
      <4> QED
        BY <4>1, <4>2, <4>3, <4>4, <4>5
    <3>2. Control'
      BY <2>3 DEF SetVolumeControlCallback, Control
    <3>3. Known'
      BY <2>3 DEF SetVolumeControlCallback, NumbersOK, Control, Known
    <3>4. Recovers'
      BY <2>3 DEF SetVolumeControlCallback, NumbersOK, Control, Known, Recovers, ReadyToSpeak
    <3>5. Volume'
      BY <2>3 DEF SetVolumeControlCallback, NumbersOK, MainOK, OthersOK, Volume
    <3> QED
      BY <3>1, <3>2, <3>3, <3>4, <3>5
  <2>4. ASSUME EnableProcessing
       PROVE  IInv'
    <3>1. TypeOK'
      <4>1. MainOK'
        BY <2>4 DEF EnableProcessing, MainOK
      <4>5. OthersOK'
        BY <2>4 DEF EnableProcessing, OthersOK
      <4>2. NumbersOK'
        BY <2>4 DEF EnableProcessing, NumbersOK
      <4>3. SessionFlagsOK'
        BY <2>4 DEF EnableProcessing, SessionFlagsOK
      <4>4. OtherFlagsOK'
        BY <2>4 DEF EnableProcessing, OtherFlagsOK, SessionFlagsOK
      <4> QED
        BY <4>1, <4>2, <4>3, <4>4, <4>5
    <3>2. Control'
      BY <2>4 DEF EnableProcessing, Control
    <3>3. Known'
      BY <2>4 DEF EnableProcessing, NumbersOK, Control, Known
    <3>4. Recovers'
      BY <2>4 DEF EnableProcessing, NumbersOK, Control, Known, Recovers, ReadyToSpeak
    <3>5. Volume'
      BY <2>4 DEF EnableProcessing, NumbersOK, MainOK, OthersOK, Volume
    <3> QED
      BY <3>1, <3>2, <3>3, <3>4, <3>5
  <2>5. ASSUME SetShouldCreate
       PROVE  IInv'
    <3>1. TypeOK'
      <4>1. MainOK'
        BY <2>5 DEF SetShouldCreate, MainOK
      <4>5. OthersOK'
        BY <2>5 DEF SetShouldCreate, OthersOK
      <4>2. NumbersOK'
        BY <2>5 DEF SetShouldCreate, NumbersOK
      <4>3. SessionFlagsOK'
        BY <2>5 DEF SetShouldCreate, SessionFlagsOK
      <4>4. OtherFlagsOK'
        BY <2>5 DEF SetShouldCreate, OtherFlagsOK, SessionFlagsOK
      <4> QED
        BY <4>1, <4>2, <4>3, <4>4, <4>5
    <3>2. Control'
      BY <2>5 DEF SetShouldCreate, Control
    <3>3. Known'
      BY <2>5 DEF SetShouldCreate, NumbersOK, Control, Known
    <3>4. Recovers'
      BY <2>5 DEF SetShouldCreate, NumbersOK, Control, Known, Recovers, ReadyToSpeak
    <3>5. Volume'
      BY <2>5 DEF SetShouldCreate, NumbersOK, MainOK, OthersOK, Volume
    <3> QED
      BY <3>1, <3>2, <3>3, <3>4, <3>5
  <2> QED
    BY <1>1, <2>1, <2>2, <2>3, <2>4, <2>5 DEF Api
<1>2. CASE Event
  <2>1. ASSUME HandleEvent
       PROVE  IInv'
    <3>1. TypeOK'
      <4>1. MainOK'
        BY <2>1 DEF HandleEvent, MainOK
      <4>5. OthersOK'
        BY <2>1 DEF HandleEvent, OthersOK
      <4>2. NumbersOK'
        BY <2>1 DEF HandleEvent, NumbersOK
      <4>3. SessionFlagsOK'
        BY <2>1 DEF HandleEvent, SessionFlagsOK
      <4>4. OtherFlagsOK'
        BY <2>1 DEF HandleEvent, OtherFlagsOK, SessionFlagsOK
      <4> QED
        BY <4>1, <4>2, <4>3, <4>4, <4>5
    <3>2. Control'
      BY <2>1 DEF HandleEvent, Control
    <3>3. Known'
      BY <2>1 DEF HandleEvent, NumbersOK, Control, Known
    <3>4. Recovers'
      BY <2>1 DEF HandleEvent, NumbersOK, Control, Known, Recovers, ReadyToSpeak
    <3>5. Volume'
      BY <2>1 DEF HandleEvent, NumbersOK, MainOK, OthersOK, Volume
    <3> QED
      BY <3>1, <3>2, <3>3, <3>4, <3>5
  <2>2. ASSUME EnsureTTSConnection
       PROVE  IInv'
    <3>1. TypeOK'
      <4>1. MainOK'
        BY <2>2 DEF EnsureTTSConnection, MainOK
      <4>5. OthersOK'
        BY <2>2 DEF EnsureTTSConnection, OthersOK
      <4>2. NumbersOK'
        BY <2>2 DEF EnsureTTSConnection, NumbersOK
      <4>3. SessionFlagsOK'
        BY <2>2 DEF EnsureTTSConnection, SessionFlagsOK
      <4>4. OtherFlagsOK'
        BY <2>2 DEF EnsureTTSConnection, OtherFlagsOK, SessionFlagsOK
      <4> QED
        BY <4>1, <4>2, <4>3, <4>4, <4>5
    <3>2. Control'
      BY <2>2 DEF EnsureTTSConnection, Control
    <3>3. Known'
      BY <2>2 DEF EnsureTTSConnection, NumbersOK, Control, Known
    <3>4. Recovers'
      BY <2>2 DEF EnsureTTSConnection, NumbersOK, Control, Known, Recovers, ReadyToSpeak
    <3>5. Volume'
      BY <2>2 DEF EnsureTTSConnection, NumbersOK, MainOK, OthersOK, Volume
    <3> QED
      BY <3>1, <3>2, <3>3, <3>4, <3>5
  <2>3. ASSUME CheckEnabled
       PROVE  IInv'
    <3>1. TypeOK'
      <4>1. MainOK'
        BY <2>3 DEF CheckEnabled, MainOK
      <4>5. OthersOK'
        BY <2>3 DEF CheckEnabled, OthersOK
      <4>2. NumbersOK'
        BY <2>3 DEF CheckEnabled, NumbersOK
      <4>3. SessionFlagsOK'
        BY <2>3 DEF CheckEnabled, SessionFlagsOK
      <4>4. OtherFlagsOK'
        BY <2>3 DEF CheckEnabled, OtherFlagsOK, SessionFlagsOK
      <4> QED
        BY <4>1, <4>2, <4>3, <4>4, <4>5
    <3>2. Control'
      BY <2>3 DEF CheckEnabled, Control
    <3>3. Known'
      BY <2>3 DEF CheckEnabled, NumbersOK, Control, Known
    <3>4. Recovers'
      BY <2>3 DEF CheckEnabled, NumbersOK, Control, Known, Recovers, ReadyToSpeak
    <3>5. Volume'
      BY <2>3 DEF CheckEnabled, NumbersOK, MainOK, OthersOK, Volume
    <3> QED
      BY <3>1, <3>2, <3>3, <3>4, <3>5
  <2>4. ASSUME IsActiveSession
       PROVE  IInv'
    <3>1. TypeOK'
      <4>1. MainOK'
        BY <2>4 DEF IsActiveSession, MainOK
      <4>5. OthersOK'
        BY <2>4 DEF IsActiveSession, OthersOK
      <4>2. NumbersOK'
        BY <2>4 DEF IsActiveSession, NumbersOK
      <4>3. SessionFlagsOK'
        BY <2>4 DEF IsActiveSession, SessionFlagsOK
      <4>4. OtherFlagsOK'
        BY <2>4 DEF IsActiveSession, OtherFlagsOK, SessionFlagsOK
      <4> QED
        BY <4>1, <4>2, <4>3, <4>4, <4>5
    <3>2. Control'
      BY <2>4 DEF IsActiveSession, Control
    <3>3. Known'
      BY <2>4 DEF IsActiveSession, NumbersOK, Control, Known
    <3>4. Recovers'
      BY <2>4 DEF IsActiveSession, NumbersOK, Control, Known, Recovers, ReadyToSpeak
    <3>5. Volume'
      BY <2>4 DEF IsActiveSession, NumbersOK, MainOK, OthersOK, Volume
    <3> QED
      BY <3>1, <3>2, <3>3, <3>4, <3>5
  <2>5. ASSUME CheckVolume
       PROVE  IInv'
    <3>1. TypeOK'
      <4>1. MainOK'
        BY <2>5 DEF CheckVolume, MainOK
      <4>5. OthersOK'
        BY <2>5 DEF CheckVolume, OthersOK
      <4>2. NumbersOK'
        BY <2>5 DEF CheckVolume, NumbersOK
      <4>3. SessionFlagsOK'
        BY <2>5 DEF CheckVolume, SessionFlagsOK
      <4>4. OtherFlagsOK'
        BY <2>5 DEF CheckVolume, OtherFlagsOK, SessionFlagsOK
      <4> QED
        BY <4>1, <4>2, <4>3, <4>4, <4>5
    <3>2. Control'
      BY <2>5 DEF CheckVolume, Control
    <3>3. Known'
      BY <2>5 DEF CheckVolume, NumbersOK, Control, Known
    <3>4. Recovers'
      BY <2>5 DEF CheckVolume, NumbersOK, Control, Known, Recovers, ReadyToSpeak
    <3>5. Volume'
      BY <2>5 DEF CheckVolume, NumbersOK, MainOK, OthersOK, Volume
    <3> QED
      BY <3>1, <3>2, <3>3, <3>4, <3>5
  <2>6. ASSUME LowerVolume
       PROVE  IInv'
    <3>1. TypeOK'
      <4>1. MainOK'
        BY <2>6 DEF LowerVolume, MainOK
      <4>5. OthersOK'
        BY <2>6 DEF LowerVolume, OthersOK
      <4>2. NumbersOK'
        BY <2>6 DEF LowerVolume, NumbersOK
      <4>3. SessionFlagsOK'
        BY <2>6 DEF LowerVolume, SessionFlagsOK
      <4>4. OtherFlagsOK'
        BY <2>6 DEF LowerVolume, OtherFlagsOK, SessionFlagsOK
      <4> QED
        BY <4>1, <4>2, <4>3, <4>4, <4>5
    <3>2. Control'
      BY <2>6 DEF LowerVolume, Control
    <3>3. Known'
      BY <2>6 DEF LowerVolume, NumbersOK, Control, Known
    <3>4. Recovers'
      BY <2>6 DEF LowerVolume, NumbersOK, Control, Known, Recovers, ReadyToSpeak
    <3>5. Volume'
      BY <2>6 DEF LowerVolume, NumbersOK, MainOK, OthersOK, Volume
    <3> QED
      BY <3>1, <3>2, <3>3, <3>4, <3>5
  <2>7. ASSUME RememberVolume
       PROVE  IInv'
    <3>1. TypeOK'
      <4>1. MainOK'
        BY <2>7 DEF RememberVolume, MainOK
      <4>5. OthersOK'
        BY <2>7 DEF RememberVolume, OthersOK
      <4>2. NumbersOK'
        BY <2>7 DEF RememberVolume, NumbersOK
      <4>3. SessionFlagsOK'
        BY <2>7 DEF RememberVolume, SessionFlagsOK
      <4>4. OtherFlagsOK'
        BY <2>7 DEF RememberVolume, OtherFlagsOK, SessionFlagsOK
      <4> QED
        BY <4>1, <4>2, <4>3, <4>4, <4>5
    <3>2. Control'
      BY <2>7 DEF RememberVolume, Control
    <3>3. Known'
      BY <2>7 DEF RememberVolume, NumbersOK, Control, Known
    <3>4. Recovers'
      BY <2>7 DEF RememberVolume, NumbersOK, Control, Known, Recovers, ReadyToSpeak
    <3>5. Volume'
      BY <2>7 DEF RememberVolume, NumbersOK, MainOK, OthersOK, Volume
    <3> QED
      BY <3>1, <3>2, <3>3, <3>4, <3>5
  <2>8. ASSUME Speak
       PROVE  IInv'
    <3>1. TypeOK'
      <4>1. MainOK'
        BY <2>8 DEF Speak, MainOK
      <4>5. OthersOK'
        BY <2>8 DEF Speak, OthersOK
      <4>2. NumbersOK'
        BY <2>8 DEF Speak, NumbersOK
      <4>3. SessionFlagsOK'
        BY <2>8 DEF Speak, SessionFlagsOK
      <4>4. OtherFlagsOK'
        BY <2>8 DEF Speak, OtherFlagsOK, SessionFlagsOK
      <4> QED
        BY <4>1, <4>2, <4>3, <4>4, <4>5
    <3>2. Control'
      BY <2>8 DEF Speak, Control
    <3>3. Known'
      BY <2>8 DEF Speak, NumbersOK, Control, Known
    <3>4. Recovers'
      BY <2>8 DEF Speak, NumbersOK, Control, Known, Recovers, ReadyToSpeak
    <3>5. Volume'
      BY <2>8 DEF Speak, NumbersOK, MainOK, OthersOK, Volume
    <3> QED
      BY <3>1, <3>2, <3>3, <3>4, <3>5
  <2> QED
    BY <1>2, <2>1, <2>2, <2>3, <2>4, <2>5, <2>6, <2>7, <2>8 DEF Event
<1>3. CASE Session
  <2>1. ASSUME CheckSession
       PROVE  IInv'
    <3>1. TypeOK'
      <4>1. MainOK'
        BY <2>1 DEF CheckSession, MainOK
      <4>5. OthersOK'
        BY <2>1 DEF CheckSession, OthersOK
      <4>2. NumbersOK'
        BY <2>1 DEF CheckSession, NumbersOK
      <4>3. SessionFlagsOK'
        BY <2>1 DEF CheckSession, SessionFlagsOK
      <4>4. OtherFlagsOK'
        BY <2>1 DEF CheckSession, OtherFlagsOK, SessionFlagsOK
      <4> QED
        BY <4>1, <4>2, <4>3, <4>4, <4>5
    <3>2. Control'
      BY <2>1 DEF CheckSession, Control
    <3>3. Known'
      BY <2>1 DEF CheckSession, NumbersOK, Control, Known
    <3>4. Recovers'
      BY <2>1 DEF CheckSession, NumbersOK, Control, Known, Recovers, ReadyToSpeak
    <3>5. Volume'
      BY <2>1 DEF CheckSession, NumbersOK, MainOK, OthersOK, Volume
    <3> QED
      BY <3>1, <3>2, <3>3, <3>4, <3>5
  <2>2. ASSUME CreateSession
       PROVE  IInv'
    <3>1. TypeOK'
      <4>1. MainOK'
        BY <2>2 DEF CreateSession, MainOK
      <4>5. OthersOK'
        BY <2>2 DEF CreateSession, OthersOK
      <4>2. NumbersOK'
        <5>1. /\ lastId' \in 0 .. IdBound /\ created' \in 0 .. IdBound
              /\ sessions' \in SUBSET (1 .. IdBound)
          <6>1. CASE connected /\ lastId < IdBound /\ lastId' = lastId + 1
                     /\ sessions' = sessions \cup {lastId'} /\ created' = lastId'
            <7>1. lastId' \in 1 .. IdBound
              BY <6>1 DEF NumbersOK
            <7> QED
              BY <6>1, <7>1 DEF NumbersOK
          <6>2. CASE created' = 0 /\ UNCHANGED <<sessions, lastId>>
            BY <6>2 DEF NumbersOK
          <6> QED
            BY <2>2, <6>1, <6>2 DEF CreateSession
        <5>2. sessionId' \in 0 .. IdBound /\ utterances' \in 0 .. SpeechBound
          BY <2>2 DEF CreateSession, NumbersOK
        <5> QED
          BY <5>1, <5>2 DEF NumbersOK
      <4>3. SessionFlagsOK'
        BY <2>2 DEF CreateSession, SessionFlagsOK
      <4>4. OtherFlagsOK'
        BY <2>2 DEF CreateSession, OtherFlagsOK, SessionFlagsOK
      <4> QED
        BY <4>1, <4>2, <4>3, <4>4, <4>5
    <3>2. Control'
      BY <2>2 DEF CreateSession, Control
    <3>3. Known'
      BY <2>2 DEF CreateSession, NumbersOK, Control, Known
    <3>4. Recovers'
      BY <2>2 DEF CreateSession, NumbersOK, Control, Known, Recovers, ReadyToSpeak
    <3>5. Volume'
      BY <2>2 DEF CreateSession, NumbersOK, MainOK, OthersOK, Volume
    <3> QED
      BY <3>1, <3>2, <3>3, <3>4, <3>5
  <2>3. ASSUME StoreSession
       PROVE  IInv'
    <3>1. TypeOK'
      <4>1. MainOK'
        BY <2>3 DEF StoreSession, MainOK
      <4>5. OthersOK'
        BY <2>3 DEF StoreSession, OthersOK
      <4>2. NumbersOK'
        BY <2>3 DEF StoreSession, NumbersOK
      <4>3. SessionFlagsOK'
        BY <2>3 DEF StoreSession, SessionFlagsOK
      <4>4. OtherFlagsOK'
        BY <2>3 DEF StoreSession, OtherFlagsOK, SessionFlagsOK
      <4> QED
        BY <4>1, <4>2, <4>3, <4>4, <4>5
    <3>2. Control'
      BY <2>3 DEF StoreSession, Control
    <3>3. Known'
      <4>1. sessionId' = created /\ created' = 0 /\ sessions' = sessions /\ main' = "clear"
        BY <2>3 DEF StoreSession
      <4>2. /\ \A s \in sessions' : s = sessionId'
            /\ process /\ process' = process
        BY <2>3, <4>1 DEF StoreSession, NumbersOK, Control, Known
      <4>3. outdated' => created # 0
        BY <2>3 DEF StoreSession
      <4>4. connected' = connected /\ client' = client /\ client
        BY <2>3 DEF StoreSession, Control
      <4> QED
        BY <4>1, <4>2, <4>3, <4>4 DEF Known
    <3>4. Recovers'
      BY <2>3 DEF StoreSession, NumbersOK, Control, Known, Recovers, ReadyToSpeak
    <3>5. Volume'
      BY <2>3 DEF StoreSession, NumbersOK, MainOK, OthersOK, Volume
    <3> QED
      BY <3>1, <3>2, <3>3, <3>4, <3>5
  <2>4. ASSUME RestoreVolume
       PROVE  IInv'
    <3>1. TypeOK'
      <4>1. MainOK'
        BY <2>4 DEF RestoreVolume, MainOK
      <4>5. OthersOK'
        BY <2>4 DEF RestoreVolume, OthersOK
      <4>2. NumbersOK'
        BY <2>4 DEF RestoreVolume, NumbersOK
      <4>3. SessionFlagsOK'
        BY <2>4 DEF RestoreVolume, SessionFlagsOK
      <4>4. OtherFlagsOK'
        BY <2>4 DEF RestoreVolume, OtherFlagsOK, SessionFlagsOK
      <4> QED
        BY <4>1, <4>2, <4>3, <4>4, <4>5
    <3>2. Control'
      BY <2>4 DEF RestoreVolume, Control
    <3>3. Known'
      BY <2>4 DEF RestoreVolume, NumbersOK, Control, Known
    <3>4. Recovers'
      BY <2>4 DEF RestoreVolume, NumbersOK, Control, Known, Recovers, ReadyToSpeak
    <3>5. Volume'
      BY <2>4 DEF RestoreVolume, NumbersOK, MainOK, OthersOK, Volume
    <3> QED
      BY <3>1, <3>2, <3>3, <3>4, <3>5
  <2>5. ASSUME AbortToDestroy
       PROVE  IInv'
    <3>1. TypeOK'
      <4>1. MainOK'
        BY <2>5 DEF AbortToDestroy, Silence, MainOK
      <4>5. OthersOK'
        BY <2>5 DEF AbortToDestroy, Silence, OthersOK
      <4>2. NumbersOK'
        <5>1. utterances' = 0 \/ utterances' = utterances
          BY <2>5 DEF AbortToDestroy, Silence
        <5>2. /\ created' \in 0 .. IdBound /\ sessionId' \in 0 .. IdBound
              /\ lastId' \in 0 .. IdBound /\ sessions' \in SUBSET (1 .. IdBound)
          BY <2>5 DEF AbortToDestroy, NumbersOK
        <5>3. utterances' \in 0 .. SpeechBound
          BY <5>1 DEF NumbersOK
        <5> QED
          BY <5>2, <5>3 DEF NumbersOK
      <4>3. SessionFlagsOK'
        BY <2>5 DEF AbortToDestroy, Silence, SessionFlagsOK
      <4>4. OtherFlagsOK'
        BY <2>5 DEF AbortToDestroy, Silence, OtherFlagsOK, SessionFlagsOK
      <4> QED
        BY <4>1, <4>2, <4>3, <4>4, <4>5
    <3>2. Control'
      BY <2>5 DEF AbortToDestroy, Silence, Control
    <3>3. Known'
      BY <2>5 DEF AbortToDestroy, Silence, NumbersOK, Control, Known
    <3>4. Recovers'
      BY <2>5 DEF AbortToDestroy, Silence, NumbersOK, Control, Known, Recovers, ReadyToSpeak
    <3>5. Volume'
      BY <2>5 DEF AbortToDestroy, Silence, NumbersOK, MainOK, OthersOK, Volume
    <3> QED
      BY <3>1, <3>2, <3>3, <3>4, <3>5
  <2>6. ASSUME DestroySession
       PROVE  IInv'
    <3>1. TypeOK'
      <4>1. MainOK'
        BY <2>6 DEF DestroySession, MainOK
      <4>5. OthersOK'
        BY <2>6 DEF DestroySession, OthersOK
      <4>2. NumbersOK'
        BY <2>6 DEF DestroySession, NumbersOK
      <4>3. SessionFlagsOK'
        BY <2>6 DEF DestroySession, SessionFlagsOK
      <4>4. OtherFlagsOK'
        BY <2>6 DEF DestroySession, OtherFlagsOK, SessionFlagsOK
      <4> QED
        BY <4>1, <4>2, <4>3, <4>4, <4>5
    <3>2. Control'
      BY <2>6 DEF DestroySession, Control
    <3>3. Known'
      BY <2>6 DEF DestroySession, NumbersOK, Control, Known
    <3>4. Recovers'
      BY <2>6 DEF DestroySession, NumbersOK, Control, Known, Recovers, ReadyToSpeak
    <3>5. Volume'
      BY <2>6 DEF DestroySession, NumbersOK, MainOK, OthersOK, Volume
    <3> QED
      BY <3>1, <3>2, <3>3, <3>4, <3>5
  <2>7. ASSUME ForgetSession
       PROVE  IInv'
    <3>1. TypeOK'
      <4>1. MainOK'
        BY <2>7 DEF ForgetSession, MainOK
      <4>5. OthersOK'
        BY <2>7 DEF ForgetSession, OthersOK
      <4>2. NumbersOK'
        BY <2>7 DEF ForgetSession, NumbersOK
      <4>3. SessionFlagsOK'
        BY <2>7 DEF ForgetSession, SessionFlagsOK
      <4>4. OtherFlagsOK'
        BY <2>7 DEF ForgetSession, OtherFlagsOK, SessionFlagsOK
      <4> QED
        BY <4>1, <4>2, <4>3, <4>4, <4>5
    <3>2. Control'
      BY <2>7 DEF ForgetSession, Control
    <3>3. Known'
      BY <2>7 DEF ForgetSession, NumbersOK, Control, Known
    <3>4. Recovers'
      BY <2>7 DEF ForgetSession, NumbersOK, Control, Known, Recovers, ReadyToSpeak
    <3>5. Volume'
      BY <2>7 DEF ForgetSession, NumbersOK, MainOK, OthersOK, Volume
    <3> QED
      BY <3>1, <3>2, <3>3, <3>4, <3>5
  <2>8. ASSUME ClearShouldCreate
       PROVE  IInv'
    <3>1. TypeOK'
      <4>1. MainOK'
        BY <2>8 DEF ClearShouldCreate, MainOK
      <4>5. OthersOK'
        BY <2>8 DEF ClearShouldCreate, OthersOK
      <4>2. NumbersOK'
        BY <2>8 DEF ClearShouldCreate, NumbersOK
      <4>3. SessionFlagsOK'
        BY <2>8 DEF ClearShouldCreate, SessionFlagsOK
      <4>4. OtherFlagsOK'
        BY <2>8 DEF ClearShouldCreate, OtherFlagsOK, SessionFlagsOK
      <4> QED
        BY <4>1, <4>2, <4>3, <4>4, <4>5
    <3>2. Control'
      BY <2>8 DEF ClearShouldCreate, Control
    <3>3. Known'
      BY <2>8 DEF ClearShouldCreate, NumbersOK, Control, Known
    <3>4. Recovers'
      BY <2>8 DEF ClearShouldCreate, NumbersOK, Control, Known, Recovers, ReadyToSpeak
    <3>5. Volume'
      BY <2>8 DEF ClearShouldCreate, NumbersOK, MainOK, OthersOK, Volume
    <3> QED
      BY <3>1, <3>2, <3>3, <3>4, <3>5
  <2>9. ASSUME AbortSession
       PROVE  IInv'
    <3>1. TypeOK'
      <4>1. MainOK'
        BY <2>9 DEF AbortSession, Silence, MainOK
      <4>5. OthersOK'
        BY <2>9 DEF AbortSession, Silence, OthersOK
      <4>2. NumbersOK'
        <5>1. utterances' = 0 \/ utterances' = utterances
          BY <2>9 DEF AbortSession, Silence
        <5>2. /\ created' \in 0 .. IdBound /\ sessionId' \in 0 .. IdBound
              /\ lastId' \in 0 .. IdBound /\ sessions' \in SUBSET (1 .. IdBound)
          BY <2>9 DEF AbortSession, NumbersOK
        <5>3. utterances' \in 0 .. SpeechBound
          BY <5>1 DEF NumbersOK
        <5> QED
          BY <5>2, <5>3 DEF NumbersOK
      <4>3. SessionFlagsOK'
        BY <2>9 DEF AbortSession, Silence, SessionFlagsOK
      <4>4. OtherFlagsOK'
        BY <2>9 DEF AbortSession, Silence, OtherFlagsOK, SessionFlagsOK
      <4> QED
        BY <4>1, <4>2, <4>3, <4>4, <4>5
    <3>2. Control'
      BY <2>9 DEF AbortSession, Silence, Control
    <3>3. Known'
      BY <2>9 DEF AbortSession, Silence, NumbersOK, Control, Known
    <3>4. Recovers'
      BY <2>9 DEF AbortSession, Silence, NumbersOK, Control, Known, Recovers, ReadyToSpeak
    <3>5. Volume'
      BY <2>9 DEF AbortSession, Silence, NumbersOK, MainOK, OthersOK, Volume
    <3> QED
      BY <3>1, <3>2, <3>3, <3>4, <3>5
  <2> QED
    BY <1>3, <2>1, <2>2, <2>3, <2>4, <2>5, <2>6, <2>7, <2>8, <2>9 DEF Session
<1>4. CASE Connection
  <2>1. ASSUME ServerConnects
       PROVE  IInv'
    <3>1. TypeOK'
      <4>1. MainOK'
        BY <2>1 DEF ServerConnects, MainOK
      <4>5. OthersOK'
        BY <2>1 DEF ServerConnects, OthersOK
      <4>2. NumbersOK'
        BY <2>1 DEF ServerConnects, NumbersOK
      <4>3. SessionFlagsOK'
        BY <2>1 DEF ServerConnects, SessionFlagsOK
      <4>4. OtherFlagsOK'
        BY <2>1 DEF ServerConnects, OtherFlagsOK, SessionFlagsOK
      <4> QED
        BY <4>1, <4>2, <4>3, <4>4, <4>5
    <3>2. Control'
      BY <2>1 DEF ServerConnects, Control
    <3>3. Known'
      BY <2>1 DEF ServerConnects, NumbersOK, Control, Known
    <3>4. Recovers'
      BY <2>1 DEF ServerConnects, NumbersOK, Control, Known, Recovers, ReadyToSpeak
    <3>5. Volume'
      BY <2>1 DEF ServerConnects, NumbersOK, MainOK, OthersOK, Volume
    <3> QED
      BY <3>1, <3>2, <3>3, <3>4, <3>5
  <2>2. ASSUME ServerCloses
       PROVE  IInv'
    <3>1. TypeOK'
      <4>1. MainOK'
        BY <2>2 DEF ServerCloses, Silence, MainOK
      <4>5. OthersOK'
        BY <2>2 DEF ServerCloses, Silence, OthersOK
      <4>2. NumbersOK'
        <5>1. utterances' = 0 \/ utterances' = utterances
          BY <2>2 DEF ServerCloses, Silence
        <5>2. /\ created' \in 0 .. IdBound /\ sessionId' \in 0 .. IdBound
              /\ lastId' \in 0 .. IdBound /\ sessions' \in SUBSET (1 .. IdBound)
          BY <2>2 DEF ServerCloses, NumbersOK
        <5>3. utterances' \in 0 .. SpeechBound
          BY <5>1 DEF NumbersOK
        <5> QED
          BY <5>2, <5>3 DEF NumbersOK
      <4>3. SessionFlagsOK'
        BY <2>2 DEF ServerCloses, Silence, SessionFlagsOK
      <4>4. OtherFlagsOK'
        BY <2>2 DEF ServerCloses, Silence, OtherFlagsOK, SessionFlagsOK
      <4> QED
        BY <4>1, <4>2, <4>3, <4>4, <4>5
    <3>2. Control'
      BY <2>2 DEF ServerCloses, Silence, Control
    <3>3. Known'
      BY <2>2 DEF ServerCloses, Silence, NumbersOK, Control, Known
    <3>4. Recovers'
      BY <2>2 DEF ServerCloses, Silence, NumbersOK, Control, Known, Recovers, ReadyToSpeak
    <3>5. Volume'
      BY <2>2 DEF ServerCloses, Silence, NumbersOK, MainOK, OthersOK, Volume
    <3> QED
      BY <3>1, <3>2, <3>3, <3>4, <3>5
  <2>3. ASSUME OnTTSServerConnected
       PROVE  IInv'
    <3>1. TypeOK'
      <4>1. MainOK'
        BY <2>3 DEF OnTTSServerConnected, MainOK
      <4>5. OthersOK'
        BY <2>3 DEF OnTTSServerConnected, OthersOK
      <4>2. NumbersOK'
        BY <2>3 DEF OnTTSServerConnected, NumbersOK
      <4>3. SessionFlagsOK'
        BY <2>3 DEF OnTTSServerConnected, SessionFlagsOK
      <4>4. OtherFlagsOK'
        BY <2>3 DEF OnTTSServerConnected, OtherFlagsOK, SessionFlagsOK
      <4> QED
        BY <4>1, <4>2, <4>3, <4>4, <4>5
    <3>2. Control'
      BY <2>3 DEF OnTTSServerConnected, Control
    <3>3. Known'
      BY <2>3 DEF OnTTSServerConnected, NumbersOK, Control, Known
    <3>4. Recovers'
      BY <2>3 DEF OnTTSServerConnected, NumbersOK, Control, Known, Recovers, ReadyToSpeak
    <3>5. Volume'
      BY <2>3 DEF OnTTSServerConnected, NumbersOK, MainOK, OthersOK, Volume
    <3> QED
      BY <3>1, <3>2, <3>3, <3>4, <3>5
  <2>4. ASSUME OnTTSServerConnectedArms
       PROVE  IInv'
    <3>1. TypeOK'
      <4>1. MainOK'
        BY <2>4 DEF OnTTSServerConnectedArms, MainOK
      <4>5. OthersOK'
        BY <2>4 DEF OnTTSServerConnectedArms, OthersOK
      <4>2. NumbersOK'
        BY <2>4 DEF OnTTSServerConnectedArms, NumbersOK
      <4>3. SessionFlagsOK'
        BY <2>4 DEF OnTTSServerConnectedArms, SessionFlagsOK
      <4>4. OtherFlagsOK'
        BY <2>4 DEF OnTTSServerConnectedArms, OtherFlagsOK, SessionFlagsOK
      <4> QED
        BY <4>1, <4>2, <4>3, <4>4, <4>5
    <3>2. Control'
      BY <2>4 DEF OnTTSServerConnectedArms, Control
    <3>3. Known'
      BY <2>4 DEF OnTTSServerConnectedArms, NumbersOK, Control, Known
    <3>4. Recovers'
      BY <2>4 DEF OnTTSServerConnectedArms, NumbersOK, Control, Known, Recovers, ReadyToSpeak
    <3>5. Volume'
      BY <2>4 DEF OnTTSServerConnectedArms, NumbersOK, MainOK, OthersOK, Volume
    <3> QED
      BY <3>1, <3>2, <3>3, <3>4, <3>5
  <2>5. ASSUME OnTTSServerClosed
       PROVE  IInv'
    <3>1. TypeOK'
      <4>1. MainOK'
        BY <2>5 DEF OnTTSServerClosed, MainOK
      <4>5. OthersOK'
        BY <2>5 DEF OnTTSServerClosed, OthersOK
      <4>2. NumbersOK'
        BY <2>5 DEF OnTTSServerClosed, NumbersOK
      <4>3. SessionFlagsOK'
        BY <2>5 DEF OnTTSServerClosed, SessionFlagsOK
      <4>4. OtherFlagsOK'
        BY <2>5 DEF OnTTSServerClosed, OtherFlagsOK, SessionFlagsOK
      <4> QED
        BY <4>1, <4>2, <4>3, <4>4, <4>5
    <3>2. Control'
      BY <2>5 DEF OnTTSServerClosed, Control
    <3>3. Known'
      BY <2>5 DEF OnTTSServerClosed, NumbersOK, Control, Known
    <3>4. Recovers'
      BY <2>5 DEF OnTTSServerClosed, NumbersOK, Control, Known, Recovers, ReadyToSpeak
    <3>5. Volume'
      BY <2>5 DEF OnTTSServerClosed, NumbersOK, MainOK, OthersOK, Volume
    <3> QED
      BY <3>1, <3>2, <3>3, <3>4, <3>5
  <2>6. ASSUME OnTTSServerClosedDisarms
       PROVE  IInv'
    <3>1. TypeOK'
      <4>1. MainOK'
        BY <2>6 DEF OnTTSServerClosedDisarms, MainOK
      <4>5. OthersOK'
        BY <2>6 DEF OnTTSServerClosedDisarms, OthersOK
      <4>2. NumbersOK'
        BY <2>6 DEF OnTTSServerClosedDisarms, NumbersOK
      <4>3. SessionFlagsOK'
        BY <2>6 DEF OnTTSServerClosedDisarms, SessionFlagsOK
      <4>4. OtherFlagsOK'
        BY <2>6 DEF OnTTSServerClosedDisarms, OtherFlagsOK, SessionFlagsOK
      <4> QED
        BY <4>1, <4>2, <4>3, <4>4, <4>5
    <3>2. Control'
      BY <2>6 DEF OnTTSServerClosedDisarms, Control
    <3>3. Known'
      BY <2>6 DEF OnTTSServerClosedDisarms, NumbersOK, Control, Known
    <3>4. Recovers'
      BY <2>6 DEF OnTTSServerClosedDisarms, NumbersOK, Control, Known, Recovers, ReadyToSpeak
    <3>5. Volume'
      BY <2>6 DEF OnTTSServerClosedDisarms, NumbersOK, MainOK, OthersOK, Volume
    <3> QED
      BY <3>1, <3>2, <3>3, <3>4, <3>5
  <2>7. ASSUME OnTTSStateChanged
       PROVE  IInv'
    <3>1. TypeOK'
      <4>1. MainOK'
        BY <2>7 DEF OnTTSStateChanged, MainOK
      <4>5. OthersOK'
        BY <2>7 DEF OnTTSStateChanged, OthersOK
      <4>2. NumbersOK'
        BY <2>7 DEF OnTTSStateChanged, NumbersOK
      <4>3. SessionFlagsOK'
        BY <2>7 DEF OnTTSStateChanged, SessionFlagsOK
      <4>4. OtherFlagsOK'
        BY <2>7 DEF OnTTSStateChanged, OtherFlagsOK, SessionFlagsOK
      <4> QED
        BY <4>1, <4>2, <4>3, <4>4, <4>5
    <3>2. Control'
      BY <2>7 DEF OnTTSStateChanged, Control
    <3>3. Known'
      BY <2>7 DEF OnTTSStateChanged, NumbersOK, Control, Known
    <3>4. Recovers'
      BY <2>7 DEF OnTTSStateChanged, NumbersOK, Control, Known, Recovers, ReadyToSpeak
    <3>5. Volume'
      BY <2>7 DEF OnTTSStateChanged, NumbersOK, MainOK, OthersOK, Volume
    <3> QED
      BY <3>1, <3>2, <3>3, <3>4, <3>5
  <2> QED
    BY <1>4, <2>1, <2>2, <2>3, <2>4, <2>5, <2>6, <2>7 DEF Connection
<1>5. CASE Speech
  <2>1. ASSUME SpeechEnds
       PROVE  IInv'
    <3>1. TypeOK'
      <4>1. MainOK'
        BY <2>1 DEF SpeechEnds, MainOK
      <4>5. OthersOK'
        BY <2>1 DEF SpeechEnds, OthersOK
      <4>2. NumbersOK'
        BY <2>1 DEF SpeechEnds, NumbersOK
      <4>3. SessionFlagsOK'
        BY <2>1 DEF SpeechEnds, SessionFlagsOK
      <4>4. OtherFlagsOK'
        BY <2>1 DEF SpeechEnds, OtherFlagsOK, SessionFlagsOK
      <4> QED
        BY <4>1, <4>2, <4>3, <4>4, <4>5
    <3>2. Control'
      BY <2>1 DEF SpeechEnds, Control
    <3>3. Known'
      BY <2>1 DEF SpeechEnds, NumbersOK, Control, Known
    <3>4. Recovers'
      BY <2>1 DEF SpeechEnds, NumbersOK, Control, Known, Recovers, ReadyToSpeak
    <3>5. Volume'
      BY <2>1 DEF SpeechEnds, NumbersOK, MainOK, OthersOK, Volume
    <3> QED
      BY <3>1, <3>2, <3>3, <3>4, <3>5
  <2>2. ASSUME SpeechIsCut
       PROVE  IInv'
    <3>1. TypeOK'
      <4>1. MainOK'
        BY <2>2 DEF SpeechIsCut, MainOK
      <4>5. OthersOK'
        BY <2>2 DEF SpeechIsCut, OthersOK
      <4>2. NumbersOK'
        BY <2>2 DEF SpeechIsCut, NumbersOK
      <4>3. SessionFlagsOK'
        BY <2>2 DEF SpeechIsCut, SessionFlagsOK
      <4>4. OtherFlagsOK'
        BY <2>2 DEF SpeechIsCut, OtherFlagsOK, SessionFlagsOK
      <4> QED
        BY <4>1, <4>2, <4>3, <4>4, <4>5
    <3>2. Control'
      BY <2>2 DEF SpeechIsCut, Control
    <3>3. Known'
      BY <2>2 DEF SpeechIsCut, NumbersOK, Control, Known
    <3>4. Recovers'
      BY <2>2 DEF SpeechIsCut, NumbersOK, Control, Known, Recovers, ReadyToSpeak
    <3>5. Volume'
      BY <2>2 DEF SpeechIsCut, NumbersOK, MainOK, OthersOK, Volume
    <3> QED
      BY <3>1, <3>2, <3>3, <3>4, <3>5
  <2>3. ASSUME CheckUpdated
       PROVE  IInv'
    <3>1. TypeOK'
      <4>1. MainOK'
        BY <2>3 DEF CheckUpdated, MainOK
      <4>5. OthersOK'
        BY <2>3 DEF CheckUpdated, OthersOK
      <4>2. NumbersOK'
        BY <2>3 DEF CheckUpdated, NumbersOK
      <4>3. SessionFlagsOK'
        BY <2>3 DEF CheckUpdated, SessionFlagsOK
      <4>4. OtherFlagsOK'
        BY <2>3 DEF CheckUpdated, OtherFlagsOK, SessionFlagsOK
      <4> QED
        BY <4>1, <4>2, <4>3, <4>4, <4>5
    <3>2. Control'
      BY <2>3 DEF CheckUpdated, Control
    <3>3. Known'
      BY <2>3 DEF CheckUpdated, NumbersOK, Control, Known
    <3>4. Recovers'
      BY <2>3 DEF CheckUpdated, NumbersOK, Control, Known, Recovers, ReadyToSpeak
    <3>5. Volume'
      BY <2>3 DEF CheckUpdated, NumbersOK, MainOK, OthersOK, Volume
    <3> QED
      BY <3>1, <3>2, <3>3, <3>4, <3>5
  <2>4. ASSUME ResetVolume
       PROVE  IInv'
    <3>1. TypeOK'
      <4>1. MainOK'
        BY <2>4 DEF ResetVolume, MainOK
      <4>5. OthersOK'
        BY <2>4 DEF ResetVolume, OthersOK
      <4>2. NumbersOK'
        BY <2>4 DEF ResetVolume, NumbersOK
      <4>3. SessionFlagsOK'
        BY <2>4 DEF ResetVolume, SessionFlagsOK
      <4>4. OtherFlagsOK'
        BY <2>4 DEF ResetVolume, OtherFlagsOK, SessionFlagsOK
      <4> QED
        BY <4>1, <4>2, <4>3, <4>4, <4>5
    <3>2. Control'
      BY <2>4 DEF ResetVolume, Control
    <3>3. Known'
      BY <2>4 DEF ResetVolume, NumbersOK, Control, Known
    <3>4. Recovers'
      BY <2>4 DEF ResetVolume, NumbersOK, Control, Known, Recovers, ReadyToSpeak
    <3>5. Volume'
      BY <2>4 DEF ResetVolume, NumbersOK, MainOK, OthersOK, Volume
    <3> QED
      BY <3>1, <3>2, <3>3, <3>4, <3>5
  <2>5. ASSUME ForgetVolume
       PROVE  IInv'
    <3>1. TypeOK'
      <4>1. MainOK'
        BY <2>5 DEF ForgetVolume, MainOK
      <4>5. OthersOK'
        BY <2>5 DEF ForgetVolume, OthersOK
      <4>2. NumbersOK'
        BY <2>5 DEF ForgetVolume, NumbersOK
      <4>3. SessionFlagsOK'
        BY <2>5 DEF ForgetVolume, SessionFlagsOK
      <4>4. OtherFlagsOK'
        BY <2>5 DEF ForgetVolume, OtherFlagsOK, SessionFlagsOK
      <4> QED
        BY <4>1, <4>2, <4>3, <4>4, <4>5
    <3>2. Control'
      BY <2>5 DEF ForgetVolume, Control
    <3>3. Known'
      BY <2>5 DEF ForgetVolume, NumbersOK, Control, Known
    <3>4. Recovers'
      BY <2>5 DEF ForgetVolume, NumbersOK, Control, Known, Recovers, ReadyToSpeak
    <3>5. Volume'
      BY <2>5 DEF ForgetVolume, NumbersOK, MainOK, OthersOK, Volume
    <3> QED
      BY <3>1, <3>2, <3>3, <3>4, <3>5
  <2> QED
    BY <1>5, <2>1, <2>2, <2>3, <2>4, <2>5 DEF Speech
<1> QED
  BY <1>0, <1>1, <1>2, <1>3, <1>4, <1>5 DEF Next, Running, Crashed

\* The invariant holds in every reachable state.
LEMMA InvariantHolds == Spec => []IInv
  BY InvariantInit, InvariantStep, PTL DEF Spec

----------------------------------------------------------------------------
\* Every variable of the ATK build keeps its type.
THEOREM TypeCorrect == Spec => []TypeOK
<1>1. IInv => TypeOK
  BY DEF IInv
<1> QED
  BY <1>1, InvariantHolds, PTL

\* The server has one session at most, and createOrDestroySession loses none.
THEOREM SessionsKnownCorrect == Spec => []SessionsAreKnown
<1>1. IInv => SessionsAreKnown
  BY DEF IInv, Known, SessionsAreKnown
<1> QED
  BY <1>1, InvariantHolds, PTL

\* A crash and reconnection of the server is survived, save for the two races.
THEOREM SpeechRecoversCorrect == Spec => []SpeechRecovers
<1>1. IInv => SpeechRecovers
  BY DEF IInv, Recovers, SpeechRecovers, Quiet
<1> QED
  BY <1>1, InvariantHolds, PTL

\* The volume is back when every utterance has ended with a callback that
\* restores it.
THEOREM VolumeRestoredCorrect == Spec => []VolumeIsRestored
<1>1. IInv => VolumeIsRestored
  BY DEF IInv, TypeOK, OthersOK, NumbersOK, Volume, VolumeIsRestored
<1> QED
  BY <1>1, InvariantHolds, PTL

----------------------------------------------------------------------------
\* The steps that are steps of the session; the others leave it alone.
LEMMA PromiseStep ==
    IInv /\ [Next]_vars => [Promise!Next]_(Promise!vars)
<1> SUFFICES ASSUME IInv, [Next]_vars
             PROVE  Promise!Next \/ UNCHANGED Promise!vars
  OBVIOUS
<1> USE DEF mainVars, sessionVars, clientVars, volumeVars, serverVars, apiVars, Promise!vars
<1>c. Control /\ Known
  BY DEF IInv
<1>1. CASE UNCHANGED vars
  BY <1>1 DEF vars
<1>2. CASE EnableProcessing
  <2>1. CASE process
    <3>1. (process' \/ main' # "idle") /\ UNCHANGED <<connected, sessions>>
      BY <1>2 DEF EnableProcessing
    <3> QED
      BY <2>1, <3>1
  <2>2. CASE ~process
    <3>1. Promise!Want
      BY <1>2, <2>2 DEF EnableProcessing, Promise!Want
    <3> QED
      BY <3>1 DEF Promise!Next
  <2> QED
    BY <2>1, <2>2
<1>3. CASE AbortSession
  <2>1. CASE process
    <3>1. process' = process /\ UNCHANGED <<connected, sessions>>
      BY <1>3 DEF AbortSession, Silence
    <3> QED
      BY <2>1, <3>1
  <2>2. CASE ~process
    <3>1. sessions = {}
      BY <1>3, <1>c, <2>2 DEF AbortSession, Known
    <3>2. /\ main = "abort session" /\ main' = "idle"
          /\ UNCHANGED <<process, connected, sessions>>
      BY <1>3 DEF AbortSession, Silence
    <3>3. Promise!Leave
      BY <2>2, <3>1, <3>2 DEF Promise!Leave
    <3> QED
      BY <3>3 DEF Promise!Next
  <2> QED
    BY <2>1, <2>2
<1>4. CASE ServerConnects
  <2>1. Promise!Connect
    BY <1>4 DEF ServerConnects, Promise!Connect
  <2> QED
    BY <2>1 DEF Promise!Next
<1>5. CASE ServerCloses
  <2>1. /\ connected /\ connected' = FALSE /\ sessions' = {}
        /\ UNCHANGED <<process, main>>
    BY <1>5 DEF ServerCloses, Silence
  <2>2. Promise!Close
    BY <2>1 DEF Promise!Close
  <2> QED
    BY <2>2 DEF Promise!Next
<1>6. CASE CreateSession
  <2>1. sessions = {}
    BY <1>6, <1>c DEF CreateSession, Known
  <2>2. /\ process' = process /\ connected' = connected
        /\ main # "idle" /\ main' # "idle"
    BY <1>6 DEF CreateSession
  <2>3. CASE sessions' = sessions
    BY <2>2, <2>3
  <2>4. CASE connected /\ lastId < IdBound /\ sessions' = sessions \cup {lastId + 1}
    <3>1. lastId + 1 \in 1 .. IdBound
      BY <2>4, BoundsNatural DEF IInv, TypeOK, NumbersOK
    <3>2. Promise!Open(lastId + 1)
      BY <2>1, <2>2, <2>4 DEF Promise!Open
    <3> QED
      BY <3>1, <3>2 DEF Promise!Next
  <2> QED
    BY <1>6, <2>3, <2>4 DEF CreateSession
<1>7. CASE DestroySession
  <2>1. sessions' = {}
    BY <1>7, <1>c DEF DestroySession, Known
  <2>2. Promise!End
    BY <1>7, <2>1 DEF DestroySession, Promise!End
  <2> QED
    BY <2>2 DEF Promise!Next
<1>8. CASE \/ SetShouldCreate \/ CheckSession \/ StoreSession \/ RestoreVolume
           \/ AbortToDestroy \/ ForgetSession \/ ClearShouldCreate
  <2>1. main # "idle" /\ main' # "idle"
    BY <1>8
       DEF SetShouldCreate, CheckSession, StoreSession, RestoreVolume, AbortToDestroy,
           ForgetSession, ClearShouldCreate
  <2>2. UNCHANGED <<connected, sessions>>
    BY <1>8
       DEF SetShouldCreate, CheckSession, StoreSession, RestoreVolume, AbortToDestroy,
           ForgetSession, ClearShouldCreate, Silence
  <2> QED
    BY <2>1, <2>2
<1>9. CASE Event
  <2>1. process
    BY <1>9, <1>c
       DEF Event, HandleEvent, EnsureTTSConnection, CheckEnabled, IsActiveSession,
           CheckVolume, LowerVolume, RememberVolume, Speak, Control
  <2>2. UNCHANGED <<process, connected, sessions>>
    BY <1>9
       DEF Event, HandleEvent, EnsureTTSConnection, CheckEnabled, IsActiveSession,
           CheckVolume, LowerVolume, RememberVolume, Speak
  <2> QED
    BY <2>1, <2>2
<1>10. CASE Initialize \/ Uninitialize \/ SetVolumeControlCallback
  BY <1>10 DEF Initialize, Uninitialize, SetVolumeControlCallback
<1>11. CASE \/ OnTTSServerConnected \/ OnTTSServerConnectedArms \/ OnTTSServerClosed
            \/ OnTTSServerClosedDisarms \/ OnTTSStateChanged \/ Speech
  BY <1>11
     DEF OnTTSServerConnected, OnTTSServerConnectedArms, OnTTSServerClosed,
         OnTTSServerClosedDisarms, OnTTSStateChanged, Speech, SpeechEnds, SpeechIsCut,
         CheckUpdated, ResetVolume, ForgetVolume
<1> QED
  BY <1>1, <1>2, <1>3, <1>4, <1>5, <1>6, <1>7, <1>8, <1>9, <1>10, <1>11
     DEF Next, Running, Crashed, Api, Session, Connection

\* The ATK build implements the session: none is opened twice, without a
\* connection or for nobody, and disabling leaves none.
THEOREM KeepsPromiseCorrect == Spec => KeepsPromise
<1>1. Init => Promise!Init
  BY DEF Init, Promise!Init
<1> QED
  BY <1>1, PromiseStep, InvariantHolds, PTL DEF Spec, KeepsPromise, Promise!Spec
=============================================================================
