------------------------------ MODULE RdkatAtk ------------------------------
(***************************************************************************)
(* The ATK build: the session and the media volume of class RDKAt.         *)
(*                                                                         *)
(* The application's thread calls the API and, when ATK emits an event,    *)
(* HandleEvent; the TTS library's thread runs the callbacks.  They share   *)
(* the members of the one object without a lock: each access that the      *)
(* other thread can tell apart is a step.  AtkEvents models what an event  *)
(* makes the program say.                                                  *)
(*                                                                         *)
(* Assumed of the library, which is not in the repository: as in           *)
(* TTSClientThunder; a callback for an utterance comes after speak took    *)
(* it, and one that was aborted, cancelled or interrupted ends with a      *)
(* callback that RDKAt does not override, or with none.                    *)
(***************************************************************************)
EXTENDS Integers

CONSTANTS
    IdBound,            \* the server makes at most so many sessions
    SpeechBound,        \* utterances under way at most when one is added
    Debugging           \* ENABLE_RDKAT_DEBUGGING is in the environment

ASSUME BoundsNatural == IdBound \in Nat /\ SpeechBound \in Nat
ASSUME DebuggingBoolean == Debugging \in BOOLEAN

VARIABLES
    main,               \* what the application's thread is about to do
    handling,           \* it is in HandleEvent, not in enableProcessing
    created,            \* its local: what the library's createSession gave
    listening,          \* m_initialized and m_listenerIds
    process,            \* m_process
    shouldCreate,       \* m_shouldCreateSession
    sessionId,          \* m_sessionId
    client,             \* m_ttsClient # NULL
    attempted,          \* m_connectionAttempt > 0
    ttsEnabled,         \* m_ttsEnabled
    callback,           \* m_mediaVolumeControlCB: none, or alone ("plain"), or with
                        \* its data ("data"), or the data without it ("bare")
    volumeUpdated,      \* m_mediaVolumeUpdated
    notifier,           \* where the library's thread is in a callback
    connected,          \* library: there is a connection to the server
    sessions,           \* server: the sessions that exist
    lastId,             \* server: the id of the last one made
    utterances,         \* server: how many it has to report the end of
    volume,             \* application: the media volume
    refused,            \* history: the server refused a session since it connected
    outdated,           \* history: the stored session was gone when it was stored
    overwritten,        \* history: the last request for a session was overwritten
    unreported          \* history: an utterance ended without a callback that
                        \* restores the volume, and none has come since

mainVars == <<main, handling, created>>
sessionVars == <<shouldCreate, sessionId, outdated, overwritten>>
clientVars == <<client, attempted>>
volumeVars == <<volume, unreported>>
serverVars == <<connected, sessions, lastId, refused>>
apiVars == <<listening, process, callback>>
vars == <<mainVars, sessionVars, clientVars, volumeVars, serverVars, apiVars,
          ttsEnabled, volumeUpdated, notifier, utterances>>

HasCallback == callback \in {"plain", "data"}

MainOK ==
    main \in {"idle", "arm", "ensure", "check", "create", "store", "restore", "abort",
              "destroy", "forget", "clear", "abort session", "enabled", "active",
              "duck", "lower", "remember", "speak", "crashed"}

OthersOK ==
    /\ notifier \in {"idle", "connected", "arm", "closed", "disarm", "reset", "restore",
                     "clear", "crashed"}
    /\ listening \in {"never", "yes", "no"}
    /\ callback \in {"none", "plain", "data", "bare"}
    /\ volume \in {"full", "low"}

NumbersOK ==
    /\ created \in 0 .. IdBound
    /\ sessionId \in 0 .. IdBound
    /\ lastId \in 0 .. IdBound
    /\ sessions \in SUBSET (1 .. IdBound)
    /\ utterances \in 0 .. SpeechBound

SessionFlagsOK ==
    /\ process \in BOOLEAN
    /\ shouldCreate \in BOOLEAN
    /\ client \in BOOLEAN
    /\ attempted \in BOOLEAN
    /\ connected \in BOOLEAN
    /\ refused \in BOOLEAN

OtherFlagsOK ==
    /\ ttsEnabled \in BOOLEAN
    /\ volumeUpdated \in BOOLEAN
    /\ outdated \in BOOLEAN
    /\ overwritten \in BOOLEAN
    /\ unreported \in BOOLEAN
    /\ handling \in BOOLEAN

TypeOK == MainOK /\ OthersOK /\ NumbersOK /\ SessionFlagsOK /\ OtherFlagsOK

Init ==
    /\ main = "idle"
    /\ handling = FALSE
    /\ created = 0
    /\ listening = "never"
    /\ process = FALSE
    /\ shouldCreate = FALSE
    /\ sessionId = 0
    /\ client = FALSE
    /\ attempted = FALSE
    /\ ttsEnabled = FALSE
    /\ callback = "none"
    /\ volumeUpdated = FALSE
    /\ notifier = "idle"
    /\ connected \in BOOLEAN
    /\ sessions = {}
    /\ lastId = 0
    /\ utterances = 0
    /\ volume = "full"
    /\ refused = FALSE
    /\ outdated = FALSE
    /\ overwritten = FALSE
    /\ unreported = FALSE

----------------------------------------------------------------------------
(* Initialize, Uninitialize, SetVolumeControlCallback.  uninitialize leaves *)
(* m_initialized set, so that only the first Initialize adds listeners.    *)

Initialize ==
    /\ main = "idle"
    /\ listening = "never"
    /\ listening' = "yes"
    /\ UNCHANGED <<mainVars, process, callback, sessionVars, clientVars, volumeVars,
                   serverVars, ttsEnabled, volumeUpdated, notifier, utterances>>

Uninitialize ==
    /\ main = "idle"
    /\ listening = "yes"
    /\ listening' = "no"
    /\ UNCHANGED <<mainVars, process, callback, sessionVars, clientVars, volumeVars,
                   serverVars, ttsEnabled, volumeUpdated, notifier, utterances>>

SetVolumeControlCallback ==
    /\ main = "idle"
    /\ callback' \in {"none", "plain", "data", "bare"}
    /\ UNCHANGED <<mainVars, listening, process, sessionVars, clientVars, volumeVars,
                   serverVars, ttsEnabled, volumeUpdated, notifier, utterances>>

----------------------------------------------------------------------------
(* enableProcessing, and HandleEvent up to createOrDestroySession.         *)

EnableProcessing ==
    /\ main = "idle"
    /\ process' \in BOOLEAN
    /\ handling' = FALSE
    /\ main' = "arm"
    /\ UNCHANGED <<created, listening, callback, sessionVars, clientVars, volumeVars,
                   serverVars, ttsEnabled, volumeUpdated, notifier, utterances>>

\* Mutant: only a call that enables goes on to createOrDestroySession.
SetShouldCreate_EnablesOnly ==
    /\ main = "arm"
    /\ shouldCreate' = process
    /\ overwritten' = FALSE
    /\ main' = IF client /\ process THEN "check" ELSE "abort session"
    /\ UNCHANGED <<handling, created, sessionId, outdated, apiVars, clientVars, volumeVars,
                   serverVars, ttsEnabled, volumeUpdated, notifier, utterances>>

SetShouldCreate ==
    /\ main = "arm"
    /\ shouldCreate' = process
    /\ overwritten' = FALSE
    /\ main' = IF client THEN "check" ELSE "abort session"
    /\ UNCHANGED <<handling, created, sessionId, outdated, apiVars, clientVars, volumeVars,
                   serverVars, ttsEnabled, volumeUpdated, notifier, utterances>>

\* The process is enabled by a flag and by the absence of DISABLE_RDKAT.
HandleEvent ==
    /\ main = "idle"
    /\ listening = "yes"
    /\ process
    /\ handling' = TRUE
    /\ main' = "ensure"
    /\ UNCHANGED <<created, apiVars, sessionVars, clientVars, volumeVars, serverVars,
                   ttsEnabled, volumeUpdated, notifier, utterances>>

\* Only one attempt is made, and the library may give no client.
EnsureTTSConnection ==
    /\ main = "ensure"
    /\ attempted' = TRUE
    /\ client' \in IF attempted THEN {client} ELSE BOOLEAN
    /\ main' = IF client' THEN "check" ELSE "enabled"
    /\ UNCHANGED <<handling, created, apiVars, sessionVars, volumeVars, serverVars,
                   ttsEnabled, volumeUpdated, notifier, utterances>>

----------------------------------------------------------------------------
(* createOrDestroySession.                                                 *)

\* Mutant: m_sessionId is not checked.
CheckSession_IdNotChecked ==
    /\ main = "check"
    /\ main' = IF process
               THEN IF shouldCreate THEN "create" ELSE "clear"
               ELSE IF sessionId # 0 THEN "restore" ELSE "clear"
    /\ UNCHANGED <<handling, created, apiVars, sessionVars, clientVars, volumeVars,
                   serverVars, ttsEnabled, volumeUpdated, notifier, utterances>>

CheckSession ==
    /\ main = "check"
    /\ main' = IF process
               THEN IF sessionId = 0 /\ shouldCreate THEN "create" ELSE "clear"
               ELSE IF sessionId # 0 THEN "restore" ELSE "clear"
    /\ UNCHANGED <<handling, created, apiVars, sessionVars, clientVars, volumeVars,
                   serverVars, ttsEnabled, volumeUpdated, notifier, utterances>>

\* The library's createSession fails without a connection, and may with one.
CreateSession ==
    /\ main = "create"
    /\ \/ /\ connected
          /\ lastId < IdBound
          /\ lastId' = lastId + 1
          /\ sessions' = sessions \cup {lastId'}
          /\ created' = lastId'
          /\ UNCHANGED refused
       \/ /\ created' = 0
          /\ refused' = connected
          /\ UNCHANGED <<sessions, lastId>>
    /\ main' = "store"
    /\ UNCHANGED <<handling, apiVars, sessionVars, clientVars, volumeVars, connected,
                   ttsEnabled, volumeUpdated, notifier, utterances>>

StoreSession ==
    /\ main = "store"
    /\ sessionId' = created
    /\ outdated' = (created # 0 /\ created \notin sessions /\ notifier # "closed")
    /\ created' = 0
    /\ main' = "clear"
    /\ UNCHANGED <<handling, shouldCreate, overwritten, apiVars, clientVars, volumeVars,
                   serverVars, ttsEnabled, volumeUpdated, notifier, utterances>>

\* Disabling restores the volume first.  It asks for the callback's data, and
\* then calls the callback without asking for it.
RestoreVolume ==
    /\ main = "restore"
    /\ main' = IF callback = "bare" THEN "crashed" ELSE "abort"
    /\ IF callback = "data"
       THEN volume' = "full" /\ unreported' = FALSE
       ELSE UNCHANGED volumeVars
    /\ UNCHANGED <<handling, created, apiVars, sessionVars, clientVars, serverVars,
                   ttsEnabled, volumeUpdated, notifier, utterances>>

\* The utterances of a session that was current end, and nobody is told.
Silence ==
    /\ utterances' = 0
    /\ unreported' = (unreported \/ utterances > 0)
    /\ UNCHANGED volume

AbortToDestroy ==
    /\ main = "abort"
    /\ main' = "destroy"
    /\ IF sessionId \in sessions THEN Silence ELSE UNCHANGED <<volumeVars, utterances>>
    /\ UNCHANGED <<handling, created, apiVars, sessionVars, clientVars, serverVars,
                   ttsEnabled, volumeUpdated, notifier>>

DestroySession ==
    /\ main = "destroy"
    /\ sessions' = sessions \ {sessionId}
    /\ main' = "forget"
    /\ UNCHANGED <<handling, created, apiVars, sessionVars, clientVars, volumeVars,
                   connected, lastId, refused, ttsEnabled, volumeUpdated, notifier,
                   utterances>>

ForgetSession ==
    /\ main = "forget"
    /\ sessionId' = 0
    /\ outdated' = FALSE
    /\ main' = "clear"
    /\ UNCHANGED <<handling, created, shouldCreate, overwritten, apiVars, clientVars,
                   volumeVars, serverVars, ttsEnabled, volumeUpdated, notifier, utterances>>

\* m_shouldCreateSession is cleared whatever was done.
ClearShouldCreate ==
    /\ main = "clear"
    /\ shouldCreate' = FALSE
    /\ overwritten' = (overwritten \/ (shouldCreate /\ sessionId \notin sessions))
    /\ main' = IF handling THEN "enabled" ELSE "abort session"
    /\ UNCHANGED <<handling, created, sessionId, outdated, apiVars, clientVars, volumeVars,
                   serverVars, ttsEnabled, volumeUpdated, notifier, utterances>>

\* The end of enableProcessing, for TRUE too.
AbortSession ==
    /\ main = "abort session"
    /\ main' = "idle"
    /\ IF sessionId \in sessions THEN Silence ELSE UNCHANGED <<volumeVars, utterances>>
    /\ UNCHANGED <<handling, created, apiVars, sessionVars, clientVars, serverVars,
                   ttsEnabled, volumeUpdated, notifier>>

----------------------------------------------------------------------------
(* The rest of HandleEvent.                                                *)

\* There may be nothing to say, or no client to say it to.
CheckEnabled ==
    /\ main = "enabled"
    /\ \/ main' = "idle"
       \/ (ttsEnabled \/ Debugging) /\ client /\ main' = "active"
    /\ UNCHANGED <<handling, created, apiVars, sessionVars, clientVars, volumeVars,
                   serverVars, ttsEnabled, volumeUpdated, notifier, utterances>>

IsActiveSession ==
    /\ main = "active"
    /\ main' = IF sessionId \in sessions THEN "duck" ELSE "idle"
    /\ UNCHANGED <<handling, created, apiVars, sessionVars, clientVars, volumeVars,
                   serverVars, ttsEnabled, volumeUpdated, notifier, utterances>>

\* Mutant: m_mediaVolumeUpdated is not checked.
CheckVolume_FlagNotChecked ==
    /\ main = "duck"
    /\ main' = IF HasCallback THEN "lower" ELSE "speak"
    /\ UNCHANGED <<handling, created, apiVars, sessionVars, clientVars, volumeVars,
                   serverVars, ttsEnabled, volumeUpdated, notifier, utterances>>

CheckVolume ==
    /\ main = "duck"
    /\ main' = IF ~volumeUpdated /\ HasCallback THEN "lower" ELSE "speak"
    /\ UNCHANGED <<handling, created, apiVars, sessionVars, clientVars, volumeVars,
                   serverVars, ttsEnabled, volumeUpdated, notifier, utterances>>

LowerVolume ==
    /\ main = "lower"
    /\ volume' = "low"
    /\ main' = "remember"
    /\ UNCHANGED <<handling, created, apiVars, sessionVars, clientVars, unreported,
                   serverVars, ttsEnabled, volumeUpdated, notifier, utterances>>

\* Mutant: that the volume was lowered is not remembered.
RememberVolume_Forgotten ==
    /\ main = "remember"
    /\ main' = "speak"
    /\ UNCHANGED <<handling, created, apiVars, sessionVars, clientVars, volumeVars,
                   serverVars, ttsEnabled, volumeUpdated, notifier, utterances>>

RememberVolume ==
    /\ main = "remember"
    /\ volumeUpdated' = TRUE
    /\ main' = "speak"
    /\ UNCHANGED <<handling, created, apiVars, sessionVars, clientVars, volumeVars,
                   serverVars, ttsEnabled, notifier, utterances>>

\* A session that went since it was checked speaks nothing.
Speak ==
    /\ main = "speak"
    /\ main' = "idle"
    /\ IF sessionId \in sessions
       THEN utterances < SpeechBound /\ utterances' = utterances + 1 /\ UNCHANGED unreported
       ELSE unreported' = TRUE /\ UNCHANGED utterances
    /\ UNCHANGED <<handling, created, apiVars, sessionVars, clientVars, volume, serverVars,
                   ttsEnabled, volumeUpdated, notifier>>

----------------------------------------------------------------------------
(* The TTS library's thread: the connection.                               *)

ServerConnects ==
    /\ notifier = "idle"
    /\ ~connected
    /\ connected' = TRUE
    /\ refused' = FALSE
    /\ notifier' = IF client THEN "connected" ELSE "idle"
    /\ UNCHANGED <<mainVars, apiVars, sessionVars, clientVars, volumeVars, sessions, lastId,
                   ttsEnabled, volumeUpdated, utterances>>

ServerCloses ==
    /\ notifier = "idle"
    /\ connected
    /\ connected' = FALSE
    /\ sessions' = {}
    /\ Silence
    /\ notifier' = IF client THEN "closed" ELSE "idle"
    /\ UNCHANGED <<mainVars, apiVars, sessionVars, clientVars, lastId, refused, ttsEnabled,
                   volumeUpdated>>

OnTTSServerConnected ==
    /\ notifier = "connected"
    /\ notifier' = IF process THEN "arm" ELSE "idle"
    /\ UNCHANGED <<mainVars, apiVars, sessionVars, clientVars, volumeVars, serverVars,
                   ttsEnabled, volumeUpdated, utterances>>

\* Mutant: the reconnection is not handled.
OnTTSServerConnectedArms_NoReconnect ==
    /\ notifier = "arm"
    /\ notifier' = "idle"
    /\ UNCHANGED <<mainVars, apiVars, sessionVars, clientVars, volumeVars, serverVars,
                   ttsEnabled, volumeUpdated, utterances>>

OnTTSServerConnectedArms ==
    /\ notifier = "arm"
    /\ shouldCreate' = TRUE
    /\ overwritten' = FALSE
    /\ notifier' = "idle"
    /\ UNCHANGED <<mainVars, apiVars, sessionId, outdated, clientVars, volumeVars,
                   serverVars, ttsEnabled, volumeUpdated, utterances>>

\* Mutant: not the value createOrDestroySession takes for no session.
OnTTSServerClosed_MinusOne ==
    /\ notifier = "closed"
    /\ sessionId' = -1
    /\ outdated' = FALSE
    /\ notifier' = "disarm"
    /\ UNCHANGED <<mainVars, apiVars, shouldCreate, overwritten, clientVars, volumeVars,
                   serverVars, ttsEnabled, volumeUpdated, utterances>>

OnTTSServerClosed ==
    /\ notifier = "closed"
    /\ sessionId' = 0
    /\ outdated' = FALSE
    /\ notifier' = "disarm"
    /\ UNCHANGED <<mainVars, apiVars, shouldCreate, overwritten, clientVars, volumeVars,
                   serverVars, ttsEnabled, volumeUpdated, utterances>>

OnTTSServerClosedDisarms ==
    /\ notifier = "disarm"
    /\ shouldCreate' = FALSE
    /\ notifier' = "idle"
    /\ UNCHANGED <<mainVars, apiVars, sessionId, outdated, overwritten, clientVars,
                   volumeVars, serverVars, ttsEnabled, volumeUpdated, utterances>>

OnTTSStateChanged ==
    /\ notifier = "idle"
    /\ client
    /\ ttsEnabled' = ~ttsEnabled
    /\ UNCHANGED <<mainVars, apiVars, sessionVars, clientVars, volumeVars, serverVars,
                   volumeUpdated, notifier, utterances>>

----------------------------------------------------------------------------
(* The TTS library's thread: the utterances.                               *)

\* onSpeechComplete, onNetworkError and onPlaybackError call resetMediaVolume.
SpeechEnds ==
    /\ notifier = "idle"
    /\ utterances > 0
    /\ utterances' = utterances - 1
    /\ notifier' = "reset"
    /\ UNCHANGED <<mainVars, apiVars, sessionVars, clientVars, volumeVars, serverVars,
                   ttsEnabled, volumeUpdated>>

\* onSpeechCancelled and onSpeechInterrupted are not overridden.
SpeechIsCut ==
    /\ notifier = "idle"
    /\ utterances > 0
    /\ utterances' = utterances - 1
    /\ unreported' = TRUE
    /\ UNCHANGED <<mainVars, apiVars, sessionVars, clientVars, volume, serverVars,
                   ttsEnabled, volumeUpdated, notifier>>

\* resetMediaVolume.
CheckUpdated ==
    /\ notifier = "reset"
    /\ notifier' = IF volumeUpdated /\ HasCallback THEN "restore" ELSE "idle"
    /\ unreported' = (unreported \/ (volumeUpdated /\ ~HasCallback))
    /\ UNCHANGED <<mainVars, apiVars, sessionVars, clientVars, volume, serverVars,
                   ttsEnabled, volumeUpdated, utterances>>

\* The application may have taken its callback away since it was checked.
ResetVolume ==
    /\ notifier = "restore"
    /\ IF ~HasCallback
       THEN notifier' = "crashed" /\ UNCHANGED volumeVars
       ELSE notifier' = "clear" /\ volume' = "full" /\ unreported' = FALSE
    /\ UNCHANGED <<mainVars, apiVars, sessionVars, clientVars, serverVars, ttsEnabled,
                   volumeUpdated, utterances>>

ForgetVolume ==
    /\ notifier = "clear"
    /\ volumeUpdated' = FALSE
    /\ notifier' = "idle"
    /\ UNCHANGED <<mainVars, apiVars, sessionVars, clientVars, volumeVars, serverVars,
                   ttsEnabled, utterances>>

----------------------------------------------------------------------------
Api ==
    \/ Initialize
    \/ Uninitialize
    \/ SetVolumeControlCallback
    \/ EnableProcessing
    \/ SetShouldCreate

Event ==
    \/ HandleEvent
    \/ EnsureTTSConnection
    \/ CheckEnabled
    \/ IsActiveSession
    \/ CheckVolume
    \/ LowerVolume
    \/ RememberVolume
    \/ Speak

Session ==
    \/ CheckSession
    \/ CreateSession
    \/ StoreSession
    \/ RestoreVolume
    \/ AbortToDestroy
    \/ DestroySession
    \/ ForgetSession
    \/ ClearShouldCreate
    \/ AbortSession

Connection ==
    \/ ServerConnects
    \/ ServerCloses
    \/ OnTTSServerConnected
    \/ OnTTSServerConnectedArms
    \/ OnTTSServerClosed
    \/ OnTTSServerClosedDisarms
    \/ OnTTSStateChanged

Speech ==
    \/ SpeechEnds
    \/ SpeechIsCut
    \/ CheckUpdated
    \/ ResetVolume
    \/ ForgetVolume

Running == Api \/ Event \/ Session \/ Connection \/ Speech

\* A callback that is NULL was called.
IsCrashed == "crashed" \in {main, notifier}

Crashed == IsCrashed /\ UNCHANGED vars

Next == (~IsCrashed /\ Running) \/ Crashed

\* A thread that is in a call or in a callback goes on, and the server ends
\* what it was given to speak.  Nothing is assumed of the application or of ATK.
Fairness ==
    /\ WF_vars(~IsCrashed /\ main # "idle" /\ (Api \/ Event \/ Session))
    /\ WF_vars(~IsCrashed /\ notifier # "idle" /\ (Connection \/ Speech))
    /\ WF_vars(~IsCrashed /\ (SpeechEnds \/ SpeechIsCut))

Spec == Init /\ [][Next]_vars /\ Fairness

----------------------------------------------------------------------------
(* Properties.                                                             *)

\* Wherever createOrDestroySession meets onTTSServerConnected and
\* onTTSServerClosed, the server has at most one session, whose id is in
\* m_sessionId or about to be stored there, and none once disabled.
SessionsAreKnown ==
    /\ \A s \in sessions : s = sessionId \/ (main = "store" /\ s = created)
    /\ \A s, t \in sessions : s = t
    /\ main = "idle" /\ ~process => sessions = {}

\* Nothing is going on, processing is enabled, and the server, which is there,
\* refused no session.
Quiet ==
    /\ main = "idle"
    /\ notifier = "idle"
    /\ process
    /\ client
    /\ connected
    /\ ~refused

ReadyToSpeak ==
    \/ sessionId \in sessions
    \/ sessionId = 0 /\ shouldCreate

\* A crash and reconnection of the server is survived, wherever it meets the
\* steps of enableProcessing and HandleEvent, except where an id or a FALSE
\* that was on its way is stored over what the callbacks stored.
SpeechRecovers ==
    Quiet /\ ~outdated /\ ~overwritten => ReadyToSpeak

\* When every utterance has ended, and none without a callback that restores
\* the volume, the volume is back, however resetMediaVolume on the library's
\* thread met the check and the two assignments in HandleEvent.
VolumeIsRestored ==
    main = "idle" /\ notifier = "idle" /\ utterances = 0 /\ ~unreported
       => volume = "full"

\* A lowered volume comes back, whatever both threads do meanwhile, unless an
\* utterance ended without a callback that restores it (HandleEvent,
\* resetMediaVolume).
LoweredVolumeComesBack ==
    volume = "low" ~> (volume = "full" \/ unreported \/ IsCrashed)

\* RDKAt is the user of a session while processing is enabled, and until the
\* call that disables it returns.
Promise == INSTANCE SpeechSession WITH
    Ids <- 1 .. IdBound,
    wanted <- process \/ main # "idle"

\* The steps of both threads amount to those of one session: none is opened
\* twice, without a connection or for nobody, and enableProcessing(false)
\* leaves none.
KeepsPromise == Promise!Spec
=============================================================================
