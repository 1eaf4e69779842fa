---------------------------- MODULE ScreenReader ----------------------------
(***************************************************************************)
(* CScreenReader's life cycle with the part of CTTSClientThunder that      *)
(* tells it whether text-to-speech is enabled.                             *)
(*                                                                         *)
(* Three threads take part.  The main thread calls initialize and          *)
(* uninitialize, and in each waits for a task it posted to the worker      *)
(* thread.  The worker runs the main loop of m_worker_context.  The TTS    *)
(* library's own thread calls onTTSStateChanged, whose listener posts to   *)
(* that context.  Nothing in CTTSClientThunder takes a lock, so that each  *)
(* read and write of a member the last two threads share is a step.        *)
(*                                                                         *)
(* A main loop's iteration collects all sources that are ready, `batch`,   *)
(* and dispatches every one of them, also after g_main_loop_quit; sources  *)
(* attached later, `tasks`, wait for the next iteration, and are destroyed *)
(* with the context when there is none.                                    *)
(*                                                                         *)
(* The service and the library's sessions appear only by the calls that    *)
(* start, stop, create and delete them (RegistryService models the first). *)
(***************************************************************************)
EXTENDS Naturals, Sequences

CONSTANTS
    TaskBound,      \* TTS changes state only while fewer tasks wait
    AbandonBound    \* worker threads a failed initialize may leave behind

ASSUME BoundsNatural == TaskBound \in Nat /\ AbandonBound \in Nat

VARIABLES
    main,           \* what the main thread does
    worker,         \* the worker thread: gone, in its loop, or in which task
    batch,          \* sources of the current iteration not dispatched yet
    tasks,          \* sources attached to the context since
    quit,           \* g_main_loop_quit was called
    syncDone,       \* m_sync_task_done
    initialized,    \* CScreenReader::m_initialized
    enabled,        \* CScreenReader::m_enabled
    registrations,  \* how often the two events are registered at the service
    serviceActive,  \* the registry service is started
    abandoned,      \* workers whose context and loop were overwritten
    client,         \* CTTSClientThunder::m_tts_client, and its m_initialized
    ttsEnabled,     \* CTTSClientThunder::m_tts_enabled
    listener,       \* CTTSClientThunder::m_listener is not empty
    answer,         \* worker's local: what isTTSEnabled() returned
    ttsState,       \* TTS library: text-to-speech is enabled
    notifier,       \* TTS library: where its thread is in onTTSStateChanged
    fault,          \* an empty std::function was called
    released,       \* history: uninitialize returned after all initializes
    overwritten     \* history: initialize assigned an out-of-date ttsEnabled

mainVars == <<main, syncDone, abandoned, released>>
contextVars == <<batch, tasks, quit>>
readerVars == <<initialized, enabled, registrations, serviceActive>>
clientVars == <<client, ttsEnabled, listener, answer, overwritten>>
libraryVars == <<ttsState, notifier>>
vars == <<mainVars, worker, contextVars, readerVars, clientVars, libraryVars,
          fault>>

TTSTasks == {"ttsEnabled", "ttsDisabled"}
Tasks == TTSTasks \cup {"initialize", "uninitialize"}

InitSteps == {"create", "query", "assign", "register", "notify", "check", "start"}
UninitSteps == {"stop", "unregister", "delete", "deleting", "quit"}

ThreadsOK ==
    /\ main \in {"idle", "initWait", "uninitWait", "join"}
    /\ worker \in {"none", "loop", "exited"} \cup InitSteps \cup UninitSteps
    /\ syncDone \in BOOLEAN
    /\ abandoned \in Nat
    /\ released \in BOOLEAN

ContextOK ==
    /\ batch \in Seq(Tasks)
    /\ tasks \in Seq(Tasks)
    /\ quit \in BOOLEAN

ReaderOK ==
    /\ initialized \in BOOLEAN
    /\ enabled \in BOOLEAN
    /\ registrations \in {0, 1}
    /\ serviceActive \in BOOLEAN

ClientOK ==
    /\ client \in BOOLEAN
    /\ ttsEnabled \in BOOLEAN
    /\ listener \in BOOLEAN
    /\ answer \in BOOLEAN
    /\ overwritten \in BOOLEAN

LibraryOK ==
    /\ ttsState \in BOOLEAN
    /\ notifier \in {"idle", "changed", "check", "call"}
    /\ fault \in BOOLEAN

TypeOK == ThreadsOK /\ ContextOK /\ ReaderOK /\ ClientOK /\ LibraryOK

Init ==
    /\ main = "idle"
    /\ worker = "none"
    /\ batch = <<>>
    /\ tasks = <<>>
    /\ quit = FALSE
    /\ syncDone = FALSE
    /\ initialized = FALSE
    /\ enabled = FALSE
    /\ registrations = 0
    /\ serviceActive = FALSE
    /\ abandoned = 0
    /\ client = FALSE
    /\ ttsEnabled = FALSE
    /\ listener = FALSE
    /\ answer = FALSE
    /\ ttsState \in BOOLEAN
    /\ notifier = "idle"
    /\ fault = FALSE
    /\ released = FALSE
    /\ overwritten = FALSE

----------------------------------------------------------------------------
(* The main thread.                                                        *)

\* A new context and thread each time.  Those of an initialize that failed are
\* still there, and nothing refers to them any more.
Initialize ==
    /\ main = "idle"
    /\ ~initialized
    /\ worker = "loop" => abandoned < AbandonBound
    /\ abandoned' = IF worker = "loop" THEN abandoned + 1 ELSE abandoned
    /\ main' = "initWait"
    /\ worker' = "loop"
    /\ batch' = <<>>
    /\ tasks' = <<"initialize">>
    /\ quit' = FALSE
    /\ syncDone' = FALSE
    /\ released' = FALSE
    /\ UNCHANGED <<readerVars, clientVars, libraryVars, fault>>

\* Mutant: `if` for `while` around g_cond_wait.
InitializeReturns_SpuriousWakeup ==
    /\ main = "initWait"
    /\ syncDone' = FALSE
    /\ main' = "idle"
    /\ UNCHANGED <<abandoned, released, worker, contextVars, readerVars,
                   clientVars, libraryVars, fault>>

\* waitSyncTaskDone, in initialize.
InitializeReturns ==
    /\ main = "initWait"
    /\ syncDone
    /\ syncDone' = FALSE
    /\ main' = "idle"
    /\ UNCHANGED <<abandoned, released, worker, contextVars, readerVars,
                   clientVars, libraryVars, fault>>

\* The early return of uninitialize.
UninitializeIgnored ==
    /\ main = "idle"
    /\ ~initialized
    /\ released' = TRUE
    /\ UNCHANGED <<main, syncDone, abandoned, worker, contextVars, readerVars,
                   clientVars, libraryVars, fault>>

Uninitialize ==
    /\ main = "idle"
    /\ initialized
    /\ main' = "uninitWait"
    /\ syncDone' = FALSE
    /\ tasks' = Append(tasks, "uninitialize")
    /\ UNCHANGED <<abandoned, released, worker, batch, quit, readerVars,
                   clientVars, libraryVars, fault>>

\* waitSyncTaskDone, in uninitialize.
UninitializeJoins ==
    /\ main = "uninitWait"
    /\ syncDone
    /\ syncDone' = FALSE
    /\ main' = "join"
    /\ UNCHANGED <<abandoned, released, worker, contextVars, readerVars,
                   clientVars, libraryVars, fault>>

\* g_thread_join returns; the context goes, with the sources left in it.
UninitializeReturns ==
    /\ main = "join"
    /\ worker = "exited"
    /\ main' = "idle"
    /\ worker' = "none"
    /\ tasks' = <<>>
    /\ released' = TRUE
    /\ UNCHANGED <<syncDone, abandoned, batch, quit, readerVars, clientVars,
                   libraryVars, fault>>

----------------------------------------------------------------------------
(* The worker: its loop and the handlers of TTS state changes.             *)

\* Mutant: m_enabled is not checked.
TTSEnabledFromWorkerThread_NotChecked ==
    /\ enabled' = TRUE
    /\ registrations' = registrations + 1

TTSEnabledFromWorkerThread ==
    \/ enabled /\ UNCHANGED <<enabled, registrations>>
    \/ ~enabled /\ enabled' = TRUE /\ registrations' = registrations + 1

TTSDisabledFromWorkerThread ==
    \/ ~enabled /\ UNCHANGED <<enabled, registrations>>
    \/ enabled /\ enabled' = FALSE /\ registrations' = registrations - 1

\* The listener when the worker itself calls it: invoke runs it in place.
HandleTTSState(state) ==
    \/ state /\ TTSEnabledFromWorkerThread
    \/ ~state /\ TTSDisabledFromWorkerThread

\* g_main_context_iteration collects what is ready.
Iterate ==
    /\ worker = "loop"
    /\ batch = <<>>
    /\ ~quit
    /\ tasks # <<>>
    /\ batch' = tasks
    /\ tasks' = <<>>
    /\ UNCHANGED <<mainVars, worker, quit, readerVars, clientVars, libraryVars,
                   fault>>

Dispatches(task) ==
    /\ worker = "loop"
    /\ batch # <<>>
    /\ Head(batch) = task
    /\ batch' = Tail(batch)
    /\ UNCHANGED <<mainVars, tasks, quit, clientVars, libraryVars, fault>>

DispatchTTSTask ==
    /\ \/ Dispatches("ttsEnabled") /\ TTSEnabledFromWorkerThread
       \/ Dispatches("ttsDisabled") /\ TTSDisabledFromWorkerThread
    /\ UNCHANGED <<worker, initialized, serviceActive>>

DispatchSyncTask ==
    /\ \/ Dispatches("initialize") /\ worker' = "create"
       \/ Dispatches("uninitialize") /\ worker' = "stop"
    /\ UNCHANGED readerVars

\* g_main_loop_run returns and the thread ends.
ThreadEnds ==
    /\ worker = "loop"
    /\ batch = <<>>
    /\ quit
    /\ worker' = "exited"
    /\ UNCHANGED <<mainVars, contextVars, readerVars, clientVars, libraryVars,
                   fault>>

----------------------------------------------------------------------------
(* initializeFromWorkerThread.                                             *)

\* Mutant: the early return forgets the thread that waits.
InitFails_NoSignal ==
    /\ worker = "create"
    /\ worker' = "loop"
    /\ UNCHANGED <<main, syncDone, abandoned, released, contextVars, readerVars,
                   clientVars, libraryVars, fault>>

\* TTS::TTSClient::create returns no client.
InitFails ==
    /\ worker = "create"
    /\ syncDone' = TRUE
    /\ worker' = "loop"
    /\ UNCHANGED <<main, abandoned, released, contextVars, readerVars,
                   clientVars, libraryVars, fault>>

\* From here on the library may call onTTSStateChanged.
InitCreatesClient ==
    /\ worker = "create"
    /\ client' = TRUE
    /\ worker' = "query"
    /\ UNCHANGED <<mainVars, contextVars, readerVars, ttsEnabled, listener,
                   answer, overwritten, libraryVars, fault>>

\* m_tts_enabled = isTTSEnabled(): the call, and the assignment.
InitQueriesState ==
    /\ worker = "query"
    /\ answer' = ttsState
    /\ worker' = "assign"
    /\ UNCHANGED <<mainVars, contextVars, readerVars, client, ttsEnabled,
                   listener, overwritten, libraryVars, fault>>

InitAssignsState ==
    /\ worker = "assign"
    /\ ttsEnabled' = answer
    /\ overwritten' = (answer # ttsState /\ notifier # "changed")
    /\ answer' = FALSE
    /\ worker' = "register"
    /\ UNCHANGED <<mainVars, contextVars, readerVars, client, listener,
                   libraryVars, fault>>

\* registerListener: the assignment, then the call with the current state.
InitRegistersListener ==
    /\ worker = "register"
    /\ listener' = TRUE
    /\ worker' = "notify"
    /\ UNCHANGED <<mainVars, contextVars, readerVars, client, ttsEnabled,
                   answer, overwritten, libraryVars, fault>>

InitNotifiesListener ==
    /\ worker = "notify"
    /\ HandleTTSState(ttsEnabled)
    /\ worker' = "check"
    /\ UNCHANGED <<mainVars, contextVars, initialized, serviceActive, clientVars,
                   libraryVars, fault>>

\* The reader asks isEnabled() on its own as well.
InitChecksEnabled ==
    /\ worker = "check"
    /\ \/ ttsEnabled /\ TTSEnabledFromWorkerThread
       \/ ~ttsEnabled /\ UNCHANGED <<enabled, registrations>>
    /\ worker' = "start"
    /\ UNCHANGED <<mainVars, contextVars, initialized, serviceActive, clientVars,
                   libraryVars, fault>>

\* start() may fail, when the address cannot be bound, and does not say so.
InitStartsService ==
    /\ worker = "start"
    /\ serviceActive' \in BOOLEAN
    /\ initialized' = TRUE
    /\ syncDone' = TRUE
    /\ worker' = "loop"
    /\ UNCHANGED <<main, abandoned, released, contextVars, enabled,
                   registrations, clientVars, libraryVars, fault>>

----------------------------------------------------------------------------
(* uninitializeFromWorkerThread.  Its own check of m_initialized never     *)
(* finds FALSE: uninitialize checked it and only this task resets it.      *)

UninitStopsService ==
    /\ worker = "stop"
    /\ serviceActive' = FALSE
    /\ TTSDisabledFromWorkerThread
    /\ worker' = "unregister"
    /\ UNCHANGED <<mainVars, contextVars, initialized, clientVars, libraryVars,
                   fault>>

UninitUnregistersListener ==
    /\ worker = "unregister"
    /\ listener' = FALSE
    /\ worker' = "delete"
    /\ UNCHANGED <<mainVars, contextVars, readerVars, client, ttsEnabled,
                   answer, overwritten, libraryVars, fault>>

\* Deleting the library's client ends the notifications and waits for the
\* callback that runs: an assumption on code that is not in the repository.
UninitDeletesClient ==
    /\ worker = "delete"
    /\ client' = FALSE
    /\ worker' = "deleting"
    /\ UNCHANGED <<mainVars, contextVars, readerVars, ttsEnabled, listener,
                   answer, overwritten, libraryVars, fault>>

UninitClientDeleted ==
    /\ worker = "deleting"
    /\ notifier = "idle"
    /\ worker' = "quit"
    /\ UNCHANGED <<mainVars, contextVars, readerVars, clientVars, libraryVars,
                   fault>>

\* Mutant: m_initialized is not reset.
UninitQuitsLoop_StaysInitialized ==
    /\ worker = "quit"
    /\ quit' = TRUE
    /\ syncDone' = TRUE
    /\ worker' = "loop"
    /\ UNCHANGED <<main, abandoned, released, batch, tasks, readerVars, clientVars,
                   libraryVars, fault>>

UninitQuitsLoop ==
    /\ worker = "quit"
    /\ initialized' = FALSE
    /\ quit' = TRUE
    /\ syncDone' = TRUE
    /\ worker' = "loop"
    /\ UNCHANGED <<main, abandoned, released, batch, tasks, enabled,
                   registrations, serviceActive, clientVars, libraryVars, fault>>

----------------------------------------------------------------------------
(* The TTS library's thread.                                               *)

\* The user turns text-to-speech on or off; a client is told.
TTSStateChanges ==
    /\ notifier = "idle"
    /\ Len(tasks) < TaskBound
    /\ ttsState' = ~ttsState
    /\ notifier' = IF client THEN "changed" ELSE "idle"
    /\ UNCHANGED <<mainVars, worker, contextVars, readerVars, clientVars, fault>>

\* onTTSStateChanged: m_tts_enabled, the check of m_listener, the call.
NotifierStoresState ==
    /\ notifier = "changed"
    /\ ttsEnabled' = ttsState
    /\ overwritten' = FALSE
    /\ notifier' = "check"
    /\ UNCHANGED <<mainVars, worker, contextVars, readerVars, client, listener,
                   answer, ttsState, fault>>

NotifierChecksListener ==
    /\ notifier = "check"
    /\ notifier' = IF listener THEN "call" ELSE "idle"
    /\ UNCHANGED <<mainVars, worker, contextVars, readerVars, clientVars,
                   ttsState, fault>>

\* Mutant: only what is enabled goes through the worker's context.
NotifierCallsListener_DisablesInPlace ==
    /\ notifier = "call"
    /\ notifier' = "idle"
    /\ fault' = ~listener
    /\ \/ /\ listener /\ ttsState
          /\ tasks' = Append(tasks, "ttsEnabled")
          /\ UNCHANGED <<enabled, registrations>>
       \/ /\ listener /\ ~ttsState
          /\ TTSDisabledFromWorkerThread
          /\ UNCHANGED tasks
       \/ ~listener /\ UNCHANGED <<tasks, enabled, registrations>>
    /\ UNCHANGED <<mainVars, worker, batch, quit, initialized, serviceActive,
                   clientVars, ttsState>>

NotifierCallsListener ==
    /\ notifier = "call"
    /\ notifier' = "idle"
    /\ fault' = ~listener
    /\ tasks' = IF listener
                THEN Append(tasks, IF ttsState THEN "ttsEnabled" ELSE "ttsDisabled")
                ELSE tasks
    /\ UNCHANGED <<mainVars, worker, batch, quit, readerVars, clientVars,
                   ttsState>>

----------------------------------------------------------------------------
Main ==
    \/ Initialize
    \/ InitializeReturns
    \/ UninitializeIgnored
    \/ Uninitialize
    \/ UninitializeJoins
    \/ UninitializeReturns

Worker ==
    \/ Iterate
    \/ DispatchTTSTask
    \/ DispatchSyncTask
    \/ ThreadEnds
    \/ InitFails
    \/ InitCreatesClient
    \/ InitQueriesState
    \/ InitAssignsState
    \/ InitRegistersListener
    \/ InitNotifiesListener
    \/ InitChecksEnabled
    \/ InitStartsService
    \/ UninitStopsService
    \/ UninitUnregistersListener
    \/ UninitDeletesClient
    \/ UninitClientDeleted
    \/ UninitQuitsLoop

Callback ==
    \/ NotifierStoresState
    \/ NotifierChecksListener
    \/ NotifierCallsListener

\* The exception nobody catches ends the process.
Terminated ==
    /\ fault
    /\ UNCHANGED vars

Next ==
    \/ ~fault /\ (Main \/ Worker \/ Callback \/ TTSStateChanges)
    \/ Terminated

\* The three threads are scheduled; the calls of initialize and uninitialize
\* and the changes of TTS are the environment's, and owed to nobody.
Spec ==
    /\ Init
    /\ [][Next]_vars
    /\ WF_vars(~fault /\ Worker)
    /\ WF_vars(~fault /\ Callback)
    /\ WF_vars(~fault /\ (InitializeReturns \/ UninitializeJoins \/ UninitializeReturns))

----------------------------------------------------------------------------
(* Properties.                                                             *)

\* initialize and uninitialize return only when the task they posted is done,
\* all of it: what they started runs, what they stopped is gone, and no
\* worker is left inside either task (the wait/signal of the sync task).
CallsReturnCompleted ==
    main = "idle" =>
        /\ worker \in {"none", "loop"}
        /\ serviceActive => initialized
        /\ client = initialized
        /\ listener = initialized
        /\ initialized => worker = "loop" /\ ~quit

\* Nothing is under way that could still enable or disable the reader.
Quiet ==
    /\ initialized
    /\ main = "idle"
    /\ notifier = "idle"
    /\ batch = <<>>
    /\ tasks = <<>>

\* No change of the TTS state is dropped, duplicated or overtaken on its way
\* from the library's thread to the worker, also while initialize runs: once
\* all is quiet, the reader listens for events, each registered once, if and
\* only if TTS is enabled.  The exception is a change between isTTSEnabled()
\* and the assignment of what it returned, until the next change.
ReaderFollowsChanges ==
    Quiet /\ ~overwritten
        => /\ enabled = ttsState
           /\ registrations = (IF ttsState THEN 1 ELSE 0)

\* initialize and uninitialize return: the task signals on every path, also
\* when there is no TTS client, and the loop ends for the join.
CallsReturn ==
    main # "idle" ~> (main = "idle" \/ fault)

\* CScreenReader.h: after uninitialize no events are processed any more.
NotEnabledAfterUninitialize ==
    released => ~enabled /\ registrations = 0

\* The call main is in, and where it is: waiting for its task, in it, or after.
Call ==
    CASE main = "idle" -> "none"
      [] main = "initWait" -> "initialize"
      [] OTHER -> "uninitialize"

Progress ==
    CASE main = "idle" -> "none"
      [] main = "join" \/ (main # "idle" /\ syncDone) -> "done"
      [] main \in {"initWait", "uninitWait"} /\ ~syncDone /\ worker # "loop" -> "begun"
      [] OTHER -> "asked"

Promise == INSTANCE Reader WITH
    call <- Call,
    progress <- Progress,
    serving <- serviceActive,
    ended <- fault

\* To its caller the reader looks as if there were no worker: every call is
\* carried out exactly once, whole, and before it returns, and each returns
\* (initialize, uninitialize, the tasks they post and waitSyncTaskDone).
KeepsPromise == Promise!Spec
============================================================================
