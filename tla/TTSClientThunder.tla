-------------------------- MODULE TTSClientThunder --------------------------
(***************************************************************************)
(* The session of CTTSClientThunder with the TTS server.                   *)
(*                                                                         *)
(* The worker calls initialize, speak and uninitialize; the TTS library's  *)
(* thread calls onTTSServerConnected and onTTSServerClosed.  Both write    *)
(* m_session_id and m_should_create_session, without a lock: each access   *)
(* is a step.  ScreenReader models the enabled state and the listener.     *)
(*                                                                         *)
(* Assumed of the library, which is not in the repository: it tells of one *)
(* change of the connection after the other, a session lives as long as    *)
(* the connection it was made over, and deleting the client waits for the  *)
(* callback that runs.                                                     *)
(***************************************************************************)
EXTENDS Integers

CONSTANT IdBound        \* the server makes at most so many sessions

ASSUME IdBoundNatural == IdBound \in Nat

VARIABLES
    worker,             \* what the worker is about to do
    speaking,           \* the worker is in speak, not in initialize
    created,            \* worker's local: what the library's createSession gave
    initialized,        \* m_initialized
    client,             \* m_tts_client # NULL
    sessionId,          \* m_session_id
    shouldCreate,       \* m_should_create_session
    notifier,           \* where the library's thread is in a callback
    connected,          \* library: there is a connection to the server
    sessions,           \* server: the sessions that exist
    lastId,             \* server: the id of the last one made
    refused,            \* history: the server refused one since it connected
    outdated            \* history: the stored session was gone when it was stored

workerVars == <<worker, speaking, created>>
sessionVars == <<sessionId, shouldCreate, outdated>>
serverVars == <<connected, sessions, lastId, refused>>
vars == <<workerVars, initialized, client, sessionVars, notifier, serverVars>>

\* Mutant: not the value the library and onTTSServerClosed use.
SESSION_ID_INVALID_MinusOne == -1

SESSION_ID_INVALID == 0

WorkerOK ==
    /\ worker \in {"idle", "initialized", "arm", "check", "disarm", "create",
                   "store", "query", "speak", "destroy", "forget", "delete"}
    /\ notifier \in {"idle", "connected", "arm", "closed", "disarm"}
    /\ speaking \in BOOLEAN
    /\ initialized \in BOOLEAN
    /\ client \in BOOLEAN

SessionOK ==
    /\ created \in 0 .. IdBound
    /\ sessionId \in 0 .. IdBound
    /\ lastId \in 0 .. IdBound
    /\ sessions \in SUBSET (1 .. IdBound)

FlagsOK ==
    /\ shouldCreate \in BOOLEAN
    /\ connected \in BOOLEAN
    /\ refused \in BOOLEAN
    /\ outdated \in BOOLEAN

TypeOK == WorkerOK /\ SessionOK /\ FlagsOK

Init ==
    /\ worker = "idle"
    /\ speaking = FALSE
    /\ created = 0
    /\ initialized = FALSE
    /\ client = FALSE
    /\ sessionId = SESSION_ID_INVALID
    /\ shouldCreate = FALSE
    /\ notifier = "idle"
    /\ connected \in BOOLEAN
    /\ sessions = {}
    /\ lastId = 0
    /\ refused = FALSE
    /\ outdated = FALSE

----------------------------------------------------------------------------
(* initialize.  A call that finds the client initialized, or gets none from *)
(* the library, changes nothing.                                            *)

Initialize ==
    /\ worker = "idle"
    /\ ~initialized
    /\ client' = TRUE
    /\ speaking' = FALSE
    /\ worker' = "initialized"
    /\ UNCHANGED <<created, initialized, sessionVars, notifier, serverVars>>

SetInitialized ==
    /\ worker = "initialized"
    /\ initialized' = TRUE
    /\ worker' = "arm"
    /\ UNCHANGED <<speaking, created, client, sessionVars, notifier, serverVars>>

ArmSession ==
    /\ worker = "arm"
    /\ shouldCreate' = TRUE
    /\ worker' = "check"
    /\ UNCHANGED <<speaking, created, initialized, client, sessionId, outdated, notifier,
                   serverVars>>

----------------------------------------------------------------------------
(* createSession, called by initialize and by speak.                       *)

\* After createSession: speak goes on, initialize returns.
Continue == worker' = IF speaking THEN "query" ELSE "idle"

\* Mutant: only m_should_create_session is checked.
CheckSession_IdNotChecked ==
    /\ worker = "check"
    /\ IF ~shouldCreate THEN Continue ELSE worker' = "disarm"
    /\ UNCHANGED <<speaking, created, initialized, client, sessionVars, notifier,
                   serverVars>>

CheckSession ==
    /\ worker = "check"
    /\ IF sessionId # SESSION_ID_INVALID \/ ~shouldCreate
       THEN Continue
       ELSE worker' = "disarm"
    /\ UNCHANGED <<speaking, created, initialized, client, sessionVars, notifier,
                   serverVars>>

DisarmSession ==
    /\ worker = "disarm"
    /\ shouldCreate' = FALSE
    /\ worker' = "create"
    /\ UNCHANGED <<speaking, created, initialized, client, sessionId, outdated, notifier,
                   serverVars>>

\* The library's createSession fails without a connection, and may with one.
CreateSession ==
    /\ worker = "create"
    /\ \/ /\ connected
          /\ lastId < IdBound
          /\ lastId' = lastId + 1
          /\ sessions' = sessions \cup {lastId'}
          /\ created' = lastId'
          /\ UNCHANGED refused
       \/ /\ created' = 0
          /\ refused' = connected
          /\ UNCHANGED <<sessions, lastId>>
    /\ worker' = "store"
    /\ UNCHANGED <<speaking, initialized, client, sessionVars, notifier, connected>>

StoreSession ==
    /\ worker = "store"
    /\ sessionId' = created
    /\ outdated' = (created # 0 /\ created \notin sessions /\ notifier # "closed")
    /\ created' = 0
    /\ Continue
    /\ UNCHANGED <<speaking, initialized, client, shouldCreate, notifier, serverVars>>

----------------------------------------------------------------------------
(* speak, which does nothing before initialize.                            *)

Speak ==
    /\ worker = "idle"
    /\ initialized
    /\ speaking' = TRUE
    /\ worker' = "check"
    /\ UNCHANGED <<created, initialized, client, sessionVars, notifier, serverVars>>

QuerySession ==
    /\ worker = "query"
    /\ worker' = IF sessionId \in sessions THEN "speak" ELSE "idle"
    /\ UNCHANGED <<speaking, created, initialized, client, sessionVars, notifier,
                   serverVars>>

\* The utterance is handed over with m_session_id as it is by now.
SpeakText ==
    /\ worker = "speak"
    /\ worker' = "idle"
    /\ UNCHANGED <<speaking, created, initialized, client, sessionVars, notifier,
                   serverVars>>

----------------------------------------------------------------------------
(* uninitialize and destroySession.                                        *)

\* Mutant: the session is not destroyed.
Uninitialize_SessionLeft ==
    /\ worker = "idle"
    /\ initialized
    /\ initialized' = FALSE
    /\ worker' = "delete"
    /\ UNCHANGED <<speaking, created, client, sessionVars, notifier, serverVars>>

Uninitialize ==
    /\ worker = "idle"
    /\ initialized
    /\ initialized' = FALSE
    /\ worker' = IF sessionId = SESSION_ID_INVALID THEN "delete" ELSE "destroy"
    /\ UNCHANGED <<speaking, created, client, sessionVars, notifier, serverVars>>

DestroySession ==
    /\ worker = "destroy"
    /\ sessions' = sessions \ {sessionId}
    /\ worker' = "forget"
    /\ UNCHANGED <<speaking, created, initialized, client, sessionVars, notifier,
                   connected, lastId, refused>>

ForgetSession ==
    /\ worker = "forget"
    /\ sessionId' = SESSION_ID_INVALID
    /\ outdated' = FALSE
    /\ worker' = "delete"
    /\ UNCHANGED <<speaking, created, initialized, client, shouldCreate, notifier,
                   serverVars>>

DeleteClient ==
    /\ worker = "delete"
    /\ notifier = "idle"
    /\ client' = FALSE
    /\ worker' = "idle"
    /\ UNCHANGED <<speaking, created, initialized, sessionVars, notifier, serverVars>>

----------------------------------------------------------------------------
(* The TTS library's thread.                                               *)

ServerConnects ==
    /\ notifier = "idle"
    /\ ~connected
    /\ connected' = TRUE
    /\ refused' = FALSE
    /\ notifier' = IF client THEN "connected" ELSE "idle"
    /\ UNCHANGED <<workerVars, initialized, client, sessionVars, sessions, lastId>>

ServerCloses ==
    /\ notifier = "idle"
    /\ connected
    /\ connected' = FALSE
    /\ sessions' = {}
    /\ notifier' = IF client THEN "closed" ELSE "idle"
    /\ UNCHANGED <<workerVars, initialized, client, sessionVars, lastId, refused>>

\* onTTSServerConnected: m_initialized, then m_should_create_session.
OnTTSServerConnected ==
    /\ notifier = "connected"
    /\ notifier' = IF initialized THEN "arm" ELSE "idle"
    /\ UNCHANGED <<workerVars, initialized, client, sessionVars, serverVars>>

\* Mutant: the reconnection is not handled.
OnTTSServerConnectedArms_NoReconnect ==
    /\ notifier = "arm"
    /\ notifier' = "idle"
    /\ UNCHANGED <<workerVars, initialized, client, sessionVars, serverVars>>

OnTTSServerConnectedArms ==
    /\ notifier = "arm"
    /\ shouldCreate' = TRUE
    /\ notifier' = "idle"
    /\ UNCHANGED <<workerVars, initialized, client, sessionId, outdated, serverVars>>

\* onTTSServerClosed: m_session_id, then m_should_create_session.
OnTTSServerClosed ==
    /\ notifier = "closed"
    /\ sessionId' = 0
    /\ outdated' = FALSE
    /\ notifier' = "disarm"
    /\ UNCHANGED <<workerVars, initialized, client, shouldCreate, serverVars>>

OnTTSServerClosedDisarms ==
    /\ notifier = "disarm"
    /\ shouldCreate' = FALSE
    /\ notifier' = "idle"
    /\ UNCHANGED <<workerVars, initialized, client, sessionId, outdated, serverVars>>

----------------------------------------------------------------------------
Worker ==
    \/ Initialize
    \/ SetInitialized
    \/ ArmSession
    \/ CheckSession
    \/ DisarmSession
    \/ CreateSession
    \/ StoreSession
    \/ Speak
    \/ QuerySession
    \/ SpeakText
    \/ Uninitialize
    \/ DestroySession
    \/ ForgetSession
    \/ DeleteClient

Library ==
    \/ ServerConnects
    \/ ServerCloses
    \/ OnTTSServerConnected
    \/ OnTTSServerConnectedArms
    \/ OnTTSServerClosed
    \/ OnTTSServerClosedDisarms

Next == Worker \/ Library

Spec == Init /\ [][Next]_vars

----------------------------------------------------------------------------
(* Properties.                                                             *)

\* No session of the server is forgotten: at every moment of both threads its
\* id is in m_session_id or about to be stored there, there is one at most,
\* and none is left when uninitialize returns (createSession, destroySession
\* and onTTSServerClosed, whatever the order in which they meet).
SessionsAreKnown ==
    /\ \A s \in sessions : s = sessionId \/ (worker = "store" /\ s = created)
    /\ \A s, t \in sessions : s = t
    /\ worker = "idle" /\ ~initialized => sessions = {}

\* Neither thread is in a call, and the server, which is there, refused no
\* session.
Quiet ==
    /\ worker = "idle"
    /\ notifier = "idle"
    /\ initialized
    /\ connected
    /\ ~refused

\* The next speak has a session to speak on.
ReadyToSpeak ==
    \/ sessionId \in sessions
    \/ sessionId = SESSION_ID_INVALID /\ shouldCreate

\* A crash and reconnection of the server is survived, wherever it meets
\* initialize, createSession and speak, except after a session that went while
\* its id was on the way to m_session_id.
SpeakRecovers ==
    Quiet /\ ~outdated => ReadyToSpeak

\* From its first step to the return of uninitialize, the client is the user of
\* a session.
Promise == INSTANCE SpeechSession WITH
    Ids <- 1 .. IdBound,
    wanted <- initialized \/ worker # "idle"

\* The steps of the worker and of the library's thread, in any order, amount to
\* those of one session: none is opened twice, without a connection or for
\* nobody, and uninitialize leaves none.
KeepsPromise == Promise!Spec
=============================================================================
