# TLA+ specifications of rdkat

rdkat is the accessibility component of RDK: it listens to the accessibility events of applications and
speaks them through a text-to-speech (TTS) service. It is built in one of two ways: for AT-SPI2, where
applications connect over D-Bus to a registry that a screen reader runs on a worker thread, and for
ATK, the older build, where the events come from the application's own process. This directory models
both.

    tlc -workers 2 -config RegistryService.cfg MCRegistryService
    tlapm RegistryServiceProofs.tla

## The system

| Component | State | Operations | Interacts with |
|---|---|---|---|
| `CAtspiRegistryService` | `m_dbus_server`, `m_dbus_context`, `m_event_listeners`, two maps of interface registration ids | `start`, `stop`, `registerEventListener`, `unregisterEventListener`, the D-Bus method handlers, the callbacks for new and closed connections and for signals | GDBus (sources on the worker's and on the default context), the client table, the screen reader's listeners |
| `CDBusClientRegistry` | static table of clients: connection, id, name; a static counter | `add`, `remove`, look-ups, `execute`, `clear` | used only by the registry service |
| `CScreenReader` | `m_initialized`, `m_enabled`, the worker's context, loop and thread, the sync task, the last utterance | `initialize`, `uninitialize`, tasks on the worker, two event handlers | calls the service and the TTS client on the worker; the TTS client calls its listener on any thread |
| `CTTSClientThunder` | the library's client, session id, `m_tts_enabled`, `m_should_create_session`, the listener | `initialize`, `uninitialize`, `registerListener`, `speak`, callbacks of the TTS library | TTS library (external), whose thread runs the callbacks |
| `CTTSClientStub` | a flag | the same interface, always disabled | |
| `CAtspiAccessibleObject` | caches of an object's properties; static cell, table and row last announced | getters, `cellDescription`, which asks the client synchronously | the client over D-Bus, from the event handlers |
| `CContext`, `CContextSignalEmitter` | what a posted source carries, with a reference to the connection | | |
| `rdkat-atspi2.cpp`, `CFactory` | the three objects; the static address | `RDKAT_Initialize`, `RDKAT_Uninitialize` | the host, which passes the address on |
| `rdkat.cpp` | one object and the static variables of the ATK build | API, listeners, `HandleEvent`, sessions, media volume | ATK on the application's thread, TTS library on its own |
| `logger` | | formatting | |

Three threads run in the AT-SPI2 build: the caller's main thread, which also runs the default main
context; the worker, which runs `m_worker_context` and everything of the service; and the TTS
library's. In the ATK build there are two, the application's and the library's. What makes the system
hard:

- **two contexts.** GDBus emits `closed` on the default context, the handler posts to the worker's;
  `start` and `stop` happen in between. `g_main_context_invoke` runs in place, or posts, depending on
  who calls it, and with a NULL context means the default one.
- **sources that outlive their reason.** `stop()` and `unregisterEventListener` do not remove what is
  already attached to a context; a loop that was told to quit finishes its iteration.
- **unlocked members.** `CTTSClientThunder` is called by the worker and by the library's thread, `RDKAt`
  by the application's and by the library's.
- **one thread waiting for another.** `initialize` and `uninitialize` sleep until the worker signals; the
  handler of an event asks a client that may be waiting for the registry.
- **what was said is remembered** in static variables and members that survive disabling, other clients,
  failed calls and a session that was not there.

What makes each component correct: the service's tables agree with each other, with GDBus and with
what the clients were told; a call of the reader returns, and only when its task is over; no TTS
change is lost, doubled or overtaken; one session exists whenever TTS can speak; a lowered volume comes
back; ids and names have one owner; who has the focus in a cell has heard of its table and row, though
both are said only when they change. `PROJECT.json` lists the hazards line by line, with the properties
that would catch each one.

## The modules

| Module | Models | Uses, or refines |
|---|---|---|
| `RegistryService` | `CAtspiRegistryService` with the keys of the client table, two threads | |
| `ScreenReader` | `CScreenReader`'s life cycle with the enabled state and listener of `CTTSClientThunder`, three threads | refines `Reader` |
| `TTSClientThunder` | the session of `CTTSClientThunder` with the TTS server, two threads | refines `SpeechSession` |
| `SpeechEvents` | the two event handlers of `CScreenReader` and `CAtspiAccessibleObject` | uses `ObjectTree` |
| `DBusClientRegistry` | ids, names and the handlers that answer from the client table | |
| `RdkatAtspi2` | `RDKAT_Initialize`, `RDKAT_Uninitialize`, `CFactory`, the applications | extends `DBusClientRegistry` |
| `RdkatAtk` | API, session and media volume of `rdkat.cpp`, two threads | refines `SpeechSession` |
| `AtkEvents` | listeners and `HandleEvent` of `rdkat.cpp` | uses `ObjectTree` |
| `Reader` | abstract: what `IScreenReader` promises its caller | |
| `SpeechSession` | abstract: what both builds promise the TTS server | |
| `ObjectTree` | reference: the table and the row of a cell | |
| `MC...` | values of the constants, symmetry | |
| `ObjectTreeProofs` | lemmas on ancestors, tables and rows | used by `AtkEventsProofs`, `SpeechEventsProofs` |
| `...Proofs` | inductive invariants and theorems | |

### RegistryService

`active` stands for `m_dbus_server` and `m_dbus_context`, which the code sets and clears together.
`eventListeners`, `clients`, `dbusRegistrationId` and `registryRegistrationId` are the keys of the maps
of the same names; `registrationIds` is the field of each event's `EventListenerInfo`. `queue` and
`mainQueue` are the sources attached to the worker's and to the default context. The rest is GDBus:
each connection object's life (`conn`), whether its `closed` handler is connected (`watched`), the
subscriptions (`subscribed`); and the clients: who asked for the registered events, and the listeners
each knows of (`asked`, `told`). A listener is known by the bus it is said to be on and its event, as in
the messages: the reply of `GetRegisteredEvents` names the asking client's own id (`OWN_ID`), the signals
`EventListenerRegistered` and `EventListenerDeregistered` the server's (`SERVER_ID`). So a signal never
takes back what a reply listed.

Each action of the worker is one dispatch, or one call, whole: `Stop` includes what `clear()` runs for
every client, `RegisterEventListener` the subscription of all clients and the signal to each. The
external half follows the documented behaviour of GLib and GDBus: sources are dispatched in the order
they were attached; an unsubscribed or unregistered handler turns a pending source into a no-op that
still holds its reference (`"dead"`); a connection object lives while something refers to it. A failed
`g_assert` and a use of a null client set `fault`, after which nothing happens.

`onClosedConnectionWrapper` reads `m_dbus_context` on the main thread. If it is NULL the handler runs
in place, on that thread, and may find that `start()` ran meanwhile. From there it goes on beside the
worker, without a lock: the check of `active()`, `unsubscribeSignalsActive`, the two `unregister...Interfaces`
and `remove` are an action each (`OnClosedConnectionInPlace`, `UnsubscribeSignalsActive`,
`UnregisterRegistryInterfaces`, `UnregisterDBusInterfaces`, `Remove`), and the worker may accept clients,
register listeners, stop or start between any two. Where the main thread is, is the kind of the first
source of `mainQueue`. The worker's calls are not split: two threads inside one container at the same
time, which the language leaves undefined, are not modelled. What the split shows is in
`SubscriptionsMatchListeners`: a listener registered in the middle subscribes the connection again, and
its record stays behind when the client is removed (`resubscribed`); `unregisterEventListener` then
unsubscribes a connection that may be gone (fault `"unsubscribeSignal"`).

### ScreenReader

`main`, `worker` and `notifier` say where each of the three threads is. The two tasks on the worker
(`initializeFromWorkerThread`, `uninitializeFromWorkerThread`) are one action per access to what the
library's thread can see or change; `onTTSStateChanged` is three (store, check, call), because
`m_tts_enabled` and `m_listener` are not locked. `batch` and `tasks` are the sources of the current
iteration of the worker's loop and those attached since. The event listeners are counted
(`registrations`), since `registerEventListener` asserts that an event is registered once.

`InitFails` is `TTSClient::create` returning no client; `InitStartsService` takes both outcomes of
`start()`, which does not report a failure. An `initialize` after a failed one makes a new context and
thread and forgets the old ones (`abandoned`). An empty `std::function` that is called sets `fault`.

External, and assumed: the TTS library calls `onTTSStateChanged` from one thread, one call at a time,
and deleting its client ends the calls and waits for one that runs.

### TTSClientThunder

`sessionId` and `shouldCreate` are `m_session_id` and `m_should_create_session`, which the worker and the
library's thread both write without a lock: `createSession` takes four steps (check, disarm, create,
store), `onTTSServerConnected` and `onTTSServerClosed` two each. `sessions` is what the server has. The
server may refuse a session (`refused`), since the code handles that, and `outdated` remembers that an
id was stored when its session had already gone.

External, and assumed: the library tells of one change of the connection after the other; a session
lives as long as the connection it was made over; deleting the client waits for the running callback.
The two modules meet at `m_initialized` and the client object, which only the worker writes and which
both have; nothing in the code lets the session and the enabled state influence each other.

### SpeechSession and Reader

`SpeechSession` is a session as one would draw it: opened for a user, over a connection, where there is
none; gone with the connection, or ended; and no user leaves while one is open. `TTSClientThunder` and
`RdkatAtk` take several unlocked steps of two threads for each of these. The refinement maps `wanted` to
"initialized, or a call is under way" and "processing is enabled, or a call is under way".

`Reader` is `IScreenReader` without a worker: a call is asked for, begun, done, and returns; it is carried
out once, as a whole. `ScreenReader` implements it with a task, a condition variable and two flags; the
refinement maps the places of main thread and worker to `progress`. Its `Spec` has fairness, and the run
checks that the implementation's fairness gives it.

### SpeechEvents

A handler of an event is a sequence of synchronous calls to the client, each an action with two
outcomes: an answer, or a failure (an error, a connection that is closed, the timeout), after which the
output keeps its empty value. `local` holds the handler's variables, `at` the next call. In between
clients emit events, toggle check boxes, or call the registry and wait (`Blocked`); a blocked client does not
answer, so that the call to it times out. All clients show the same tree under the same paths, which is
what tells a variable kept per client from one shared by all. `StopListeners` leaves of a signal that
waits a `Dead` source, because the subscription goes with the listener: GDBus takes it from the queue in
its turn and calls nobody (`DropSignal`), also when a listener is there again.

The texts are records of their parts: `caption`, `row`, `name`, `status`, `description`; the code joins
them to one string and compares the strings. The history variables hold what the user heard: the
table and row named last, the status of each check box said last; and for whom what is remembered was
said (`locationBy`, `textBy`).

`m_enabled` changes only between handlers, on the same thread, so its check in the handlers never
fails. An object is made for one event, so its caches are never read.

### DBusClientRegistry and RdkatAtspi2

A client's id `:1.n` is the number `n`, `IdSpan` the number of values of the `uint32_t` it is made from. `told`
holds pairs of a bus id and an event: `GetRegisteredEvents` writes the asking client's id, the signals the
server's. `RdkatAtspi2` adds the host: `AT_SPI_BUS_ADDRESS`, the directories `mkdtemp` makes, the static
`address`, and the applications, which connect to the address they were started with. Calls of the reader
are one step there; the steps between are in `ScreenReader` and `RegistryService`.

### RdkatAtk and AtkEvents

`main` is the application's thread in `enableProcessing` or `HandleEvent`, `notifier` the library's in a
callback, one action per access to what both write: `m_sessionId`, `m_shouldCreateSession`,
`m_mediaVolumeUpdated`, the volume itself. `utterances` are those the server will report the end of;
`unreported` remembers that one ended without a callback that restores the volume. A volume callback that
is NULL when it is called ends the process (`"crashed"`).

`AtkEvents` has one operator per listener, which gives the event it passes on, and `HandleEvent` as one
action, since all of it runs on the application's thread. `Walk` is the loop of `getCellDescription` as a
recursive function. The session is there, wanted or missing, as `RdkatAtk` has it. Signals arrive in any
order; that of a checked box comes some time after the change, with the state at the time it is emitted.

## What the runs check

| Run | Bounds | Result |
|---|---|---|
| `registry_service` | two connections, two events, `QueueBound` 2, `MessageBound` 1, `MainBound` 3, symmetric | `TypeOK`, `RegistrationsMatchClients`, `SubscriptionsMatchListeners`, `DispatchedSourcesAreExpected`, `ClientsKnowTheEvents`, `ClientsLeaveWhenClosed` hold |
| `registry_service_liveness` | two connections, one event, all three bounds 2 | `ClosedClientsAreForgotten` holds |
| `registry_service_stale_closed` | the same | `ClosedConnectionsAreRegistered` is violated |
| `screen_reader` | up to 3 waiting sources when TTS changes, up to 2 abandoned workers | `TypeOK`, `CallsReturnCompleted`, `ReaderFollowsChanges`, `CallsReturn`, `KeepsPromise` hold |
| `screen_reader_enabled` | the same | `NotEnabledAfterUninitialize` is violated |
| `tts_client` | up to 4 sessions made by the server | `TypeOK`, `SessionsAreKnown`, `SpeakRecovers`, `KeepsPromise` hold |
| `rdkat_atk` | up to 3 sessions, 2 utterances | `TypeOK`, `SessionsAreKnown`, `SpeechRecovers`, `VolumeIsRestored`, `LoweredVolumeComesBack`, `KeepsPromise` hold |
| `atk_events` | 12 objects: a table within a table, a row within a row, a check box, a document | `TypeOK`, `WalkFindsLocation`, `LocationIsHeard`, `StatusIsHeard` hold |
| `speech_events` | two clients, symmetric, 6 objects, one waiting source | `TypeOK`, `LocationIsWhole`, `StatusIsHeard` hold |
| `speech_events_tables` | one client, 9 objects: two cells in different rows, one within a row, a check box, a web document | `LocationIsHeard`, `CallsAreAnswered` hold |
| `rdkat_atspi2` | two connections, three names, ids of 3 values, 4 clients made, 2 directories, 2 given addresses | `TypeOK`, `IdsAreDistinct`, `NamesHaveOneOwner`, `StaleListenersAreOwn`, `AddressIsServed` hold |
| `rdkat_atspi2_address` | the same | `ReturnsItsAddress` is violated |

**Bounds.** Two connections let one be closed, stale or late while the other is served, and let an
object be reused after its last reference is gone; two events let one be registered while the other is
not. `QueueBound`, `MessageBound` and `MainBound` limit what the environment adds, never what the code
posts, except that `emitSignal` without a context needs room for all clients: two connections announced
at once, or a message behind another source, a close and a signal to each of two clients. The main run
lets a message arrive only at an empty queue (`MessageBound` 1), where it waits while listeners come and
go, the service stops and starts and connections and closes are added behind it; the other two runs let
it arrive behind another source too. In `ScreenReader`, three waiting sources hold the initialize or
uninitialize task with a change before and after it. In `TTSClientThunder`, four
sessions are one more than a session lost while it is stored, one made after the reconnection, and one
made after another initialize; in `RdkatAtk` three, as there is one call less that makes any. Two
utterances are one that ends while the other one lowers the volume. In `SpeechEvents` one waiting source
is an event behind the one that is handled; with the handler's steps in between it may be newer or older
than what the handler was told. Ids of three values with four clients let the counter wrap onto the
server's id and onto one in use. No operation of the code is bounded; the theorems below do not depend
on the bounds.

**The violations.** `ClosedConnectionsAreRegistered`: a client
connects and closes, the service stops and starts, and the notice of the close fails an assertion. In
this program the screen reader stops and starts the service only across `uninitialize` and
`initialize`; the service's interface allows it at any time. `NotEnabledAfterUninitialize`: a TTS-enabled
source follows the uninitialize task in one iteration of the loop, and enables the reader again.
`ReturnsItsAddress`: without `AT_SPI_BUS_ADDRESS` every service gets a directory of its own, but the
address returned is kept from the first call. `PROJECT.json` gives the lines and quotes the statements
they contradict.

**What the properties leave out.** Some weaknesses are in the models, and the properties state what holds
beside them; the hazards of `PROJECT.json` say for each which property catches it and which only excepts
it. `SubscriptionsMatchListeners` excepts the records of connections subscribed again while
`onClosedConnection` runs (`resubscribed`), `ClientsKnowTheEvents` a client that is sent a signal while an
older one still waits for it on the default context (`overtaken`); and neither says that entries under a
client's own id are ever taken back, which they are not. `ReaderFollowsChanges` excepts a TTS change between `isTTSEnabled()` and the assignment of
its result (`overwritten`); `SpeakRecovers` and `SpeechRecovers` a session that closes before its id is
stored (`outdated`), and in the ATK build a request for a session that `createOrDestroySession` clears;
`VolumeIsRestored` an utterance cut without a callback. An `initialize` that fails leaves its worker
behind (`abandoned`). A listener or a volume callback may be taken away between its check and its call,
which ends the process (`fault`, `"crashed"`), as does the data of a volume callback without the callback. A service that was stopped may still take on a client that
was announced before. `LocationIsHeard` and `StatusIsHeard` are about what was spoken: they except what
was skipped or lost because there was no session, and, in `SpeechEvents`, what was saved for one client
and found by another (`locationBy`, `textBy`) and what a failed call did not bring (`lost`). With two clients
`LocationIsHeard` would except nearly everything that the second client adds; that run checks
`LocationIsWhole` instead, which has no exception: whatever fails and whoever comes next, the cell, table
and row that are remembered belong together, and a text names no other object's. After a walk that fails,
`LocationIsHeard` speaks of the cell before, which is the one remembered.

**Fairness.** `RegistryService` assumes weak fairness of what the worker dispatches and of what the main
thread dispatches: both threads run a main loop, which takes the next source whenever there is one.
`ScreenReader` assumes weak fairness of the worker thread, of a callback of the library that has begun,
and of the main thread returning from a wait that is over. `SpeechEvents` assumes that the worker runs its
loop and that a synchronous call ends, by the default timeout of GDBus if not by an answer: `CallsAreAnswered`
holds since no step waits for ever, also when client and worker wait for each other. `RdkatAtk` assumes that a thread in a call or a callback goes
on, and that the server ends, with or without a callback, what it was given to speak. Nothing is assumed
of callers, clients, the user, or of connections that are made or lost. `RegistryService` and `ScreenReader`
take the client of a synchronous D-Bus call to answer; GDBus bounds the wait.

`TTSClientThunder`, `AtkEvents` and `RdkatAtspi2` state safety only, and assume none.

**Deadlock** is checked everywhere. A process that aborted stutters (`Aborted`, `Terminated`, `Crashed`).

## What is proved

For every finite set of connections, every set of events, names and objects, every width of the counter
and every value of the bounds:

| Theorem | Statement |
|---|---|
| `RegistryServiceProofs!TypeCorrect` | `Spec => []TypeOK` |
| `RegistryServiceProofs!RegistrationsCorrect` | `Spec => []RegistrationsMatchClients` |
| `RegistryServiceProofs!SubscriptionsCorrect` | `Spec => []SubscriptionsMatchListeners` |
| `RegistryServiceProofs!DispatchCorrect` | `Spec => []DispatchedSourcesAreExpected` |
| `RegistryServiceProofs!ClientsKnowTheEventsCorrect` | `Spec => []ClientsKnowTheEvents` |
| `RegistryServiceProofs!ClientsLeaveCorrect` | `Spec => ClientsLeaveWhenClosed` |
| `ScreenReaderProofs!TypeCorrect` | `Spec => []TypeOK` |
| `ScreenReaderProofs!CallsCorrect` | `Spec => []CallsReturnCompleted` |
| `ScreenReaderProofs!ReaderFollowsCorrect` | `Spec => []ReaderFollowsChanges` |
| `ScreenReaderProofs!StepsKeepPromise` | `Spec => Promise!Safe` |
| `TTSClientThunderProofs!TypeCorrect` | `Spec => []TypeOK` |
| `TTSClientThunderProofs!SessionsKnownCorrect` | `Spec => []SessionsAreKnown` |
| `TTSClientThunderProofs!SpeakRecoversCorrect` | `Spec => []SpeakRecovers` |
| `TTSClientThunderProofs!KeepsPromiseCorrect` | `Spec => KeepsPromise` |
| `RdkatAtkProofs!TypeCorrect` | `Spec => []TypeOK` |
| `RdkatAtkProofs!SessionsKnownCorrect` | `Spec => []SessionsAreKnown` |
| `RdkatAtkProofs!SpeechRecoversCorrect` | `Spec => []SpeechRecovers` |
| `RdkatAtkProofs!VolumeRestoredCorrect` | `Spec => []VolumeIsRestored` |
| `RdkatAtkProofs!KeepsPromiseCorrect` | `Spec => KeepsPromise` |
| `AtkEventsProofs!TypeCorrect` | `Spec => []TypeOK` |
| `AtkEventsProofs!WalkCorrect` | `Spec => []WalkFindsLocation` |
| `AtkEventsProofs!LocationCorrect` | `Spec => []LocationIsHeard` |
| `AtkEventsProofs!StatusCorrect` | `Spec => []StatusIsHeard` |
| `SpeechEventsProofs!TypeCorrect` | `Spec => []TypeOK` |
| `SpeechEventsProofs!LocationCorrect` | `Spec => []LocationIsHeard` |
| `SpeechEventsProofs!LocationWholeCorrect` | `Spec => []LocationIsWhole` |
| `SpeechEventsProofs!StatusCorrect` | `Spec => []StatusIsHeard` |
| `RdkatAtspi2Proofs!TypeCorrect` | `Spec => []TypeOK` |
| `RdkatAtspi2Proofs!IdsDistinctCorrect` | `Spec => []IdsAreDistinct` |
| `RdkatAtspi2Proofs!NamesCorrect` | `Spec => []NamesHaveOneOwner` |
| `RdkatAtspi2Proofs!StaleListenersCorrect` | `Spec => []StaleListenersAreOwn` |
| `RdkatAtspi2Proofs!AddressCorrect` | `Spec => []AddressIsServed` |

The assumptions are `ConnectionsFinite`, `BoundsNatural`, `IdBoundNatural`, `DebuggingBoolean`,
`NamesAssumption`, `IdSpanAssumption`, `AddressesAssumption`, `QueueBoundNatural`, `NoClientIsNone`,
`TreeAssumption` and `ParentsEnd`. The last one says that the parents of an object come to an end, as they
do in a tree of widgets: every set of objects has one whose parent is not in it. The code does not check
it. With a cycle of parents and without a table on it, neither build's walk would end.

*RegistryService.* None of the invariants is inductive alone: a "signal" source may be dispatched only
because unregistering turned the others into dead ones, and `ClientsKnowTheEvents` survives a restart
only because signals that wait on the default context are for clients accepted late. The inductive
invariant adds, for each kind of source, what its presence says of the tables. `QueueInv`: each queued signal
is for a subscribed client, each queued call for a registered object, a connection is announced once, by a
source or by its entry in the table, and a `closed` source has a connection that is closed. `MainInv`: an
`onClosedConnection` under way is the first source of the default context, and what it has done with has
left no live source on the worker's (`Drained`); a waiting signal is for a client accepted late, or for
nobody. `SubscriptionInv`, `ClientInv` and `WatchedInv` relate subscriptions, clients and handlers to the
connections' states.

*ScreenReader.* `Control` relates the places of the two threads to each other and to what exists at each
step; `Sources` says that the task main waits for is attached once, and is the only one; `Follows` says
that the last source attached, or without sources the reader, has the library's state. `Follows` is
what makes `ReaderFollowsChanges` inductive: it accounts for every change still on its way. Under the
same invariant every step is a step of `Reader` or leaves its variables alone.

*TTSClientThunder, RdkatAtk.* `Known` says at which steps there is no session and no id, so that one is
created only where there is none; `Recovers` says, step by step, why a missing session will be found
missing; `Volume` (ATK) that a lowered volume is remembered or about to be, and that an utterance or a
callback under way will restore it. The refinement of `SpeechSession` needs `Known`: only with it is the
library's `createSession` a step that opens the first session.

*RdkatAtspi2.* `Counting` says that until the counter wraps every id is at most the number of clients
made, and the counter one more; `Strangers` that what is not in the table has no name; `Origin` where
the address of each service comes from.

*ObjectTree.* `Ancestors` and `AtkEvents`'s `Walk` are recursive functions, so that what they are is a
theorem and no definition: a function that satisfies the equation has to exist. `AncestorsEquation` gives
one without recursion (above an object is what every set has that is closed under parents and holds the
object's own), `WalkEquation` the table and the row themselves. Everything else about the tree is proved from a least
counterexample: were the objects of which a statement fails not none, `ParentsEnd` gives one of them
whose parent satisfies it, and one step of the equation contradicts that. In this way the ancestors of an
object are a chain without the object, the nearest table and the outermost row in it are one each, and
`TableStep` and `RowStep` say what both are in terms of the parent's.

*AtkEvents.* `Remembered` says that the static variables hold where the last cell is; `OldLocation` and
`OldStatus` that the text skipped as a duplicate names what was heard last, unless it was not spoken.
With them a part of the location that is not said is one that was said, for the cell before or in the
text before. `WalkIsLocation` says that the loop, started at any object, finds the nearest table and the
outermost row in it; the argument for the location does not need it, as it leaves `Location` unexpanded.

*SpeechEvents.* `Walking` says the same of a walk that is a call at a time: at each of them the row found so
far and the rest of the walk give what the whole would give. Two more arguments go through the whole of a handler. For the location,
`Located` says that what the static variables hold was heard when a handler begins, and `Locating` that, at
every call of `getCellDescription` and until the text is spoken, a part that is not in the text is the part
that was saved before, or was lost in a call that failed; `SavedText` that a duplicate names what was heard. `Naming`, which only two steps can disturb, gives
`LocationIsWhole` together with `SavedLocation` and `Walking`. For the status of a check box, `Tells` (a
part of `Waiting`) says that the last event of a box in the queue tells what the box is; `Asked` and `Said` that what a handler has asked or was told, and what was said, is the
box's status unless an event of the box waits. None of `Asked`, `Said` and `Tells` is inductive alone: the
answer to `GetState` is newer than the events waiting, which the handler of the last one puts right. TLC
checked the invariant on both runs' constants, and on a queue of three, before it was proved.

The liveness properties `ClosedClientsAreForgotten`, `CallsReturn`, `CallsAreAnswered`,
`LoweredVolumeComesBack` and the liveness half of `ScreenReader`'s `KeepsPromise` are model-checked only,
the prover having no means for fairness. So are, naturally, the violations. Every other property of the runs
is proved.

## Not modelled

The logger, the stub client (always disabled), the stateless D-Bus methods (`AddMatch`, `RemoveMatch`,
`StartServiceByName`), the contents of messages, introspection data and the file system are left out:
no state of the system depends on them. Nor are replies of a client that have the wrong type or an empty
array, which fail assertions in `CAtspiAccessibleObject`. `CContext` is modelled as far as it keeps a
connection alive. The events of `RegistryService` and the handlers of `SpeechEvents` are not composed:
they meet at `OnSignal`, which both have, and share no variable but the listeners.
