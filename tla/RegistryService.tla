-------------------------- MODULE RegistryService --------------------------
(***************************************************************************)
(* CAtspiRegistryService with the client table of CDBusClientRegistry: the *)
(* D-Bus server the screen reader's worker thread runs, the event          *)
(* listeners the screen reader registers, and the clients that connect.    *)
(*                                                                         *)
(* Two threads take part.  The worker owns the D-Bus context: it calls     *)
(* start, stop, registerEventListener and unregisterEventListener and      *)
(* dispatches, one at a time and in order, the sources in `queue`.  The    *)
(* main thread dispatches the sources in `mainQueue`, the default context: *)
(* GDBus emits "closed" there, and emitSignal lands there while the        *)
(* service has no context of its own.  The clients and GDBus's own thread  *)
(* only change `conn` and append to the queues.                            *)
(*                                                                         *)
(* Nothing is locked.  What the worker does in one call is one step here;  *)
(* onClosedConnection, where the main thread runs it, is a step for each   *)
(* call it makes, with whatever the worker does in between.                *)
(*                                                                         *)
(* m_dbus_server and m_dbus_context are set and cleared together by the    *)
(* worker; `active` stands for both.  A call that start or stop rejects    *)
(* changes nothing and has no action.                                      *)
(***************************************************************************)
EXTENDS Naturals, Sequences, FiniteSets

CONSTANTS
    Connections,    \* the GDBusConnection objects
    Events,         \* the events a listener can be registered for
    QueueBound,     \* no connection is accepted on a longer D-Bus context
    MessageBound,   \* no client's message reaches a longer one
    MainBound       \* nothing is added to a longer default context

ASSUME ConnectionsFinite == IsFiniteSet(Connections)

VARIABLES
    active,                     \* m_dbus_server # nullptr
    eventListeners,             \* the keys of m_event_listeners
    registrationIds,            \* their EventListenerInfo::registration_ids
    clients,                    \* the keys of CDBusClientRegistry::clients
    dbusRegistrationId,         \* the keys of m_dbus_registration_id
    registryRegistrationId,     \* the keys of m_registry_registration_id
    fault,                      \* the assertion that aborted the process
    queue,                      \* sources attached to the D-Bus context
    mainQueue,                  \* sources attached to the default context
    conn,                       \* GDBus: the connection objects' life cycle
    watched,                    \* GDBus: connections with a "closed" handler
    subscribed,                 \* GDBus: signal subscriptions, by event
    \* the clients in the table that are connected
    asked,                      \* those that called GetRegisteredEvents
    told,                       \* the listeners each knows of: bus and event
    \* history
    late,                       \* clients accepted while not active
    overtaken,                  \* sent a signal before one that waited for them
    resubscribed                \* subscribed while onClosedConnection forgot them

serviceVars == <<active, eventListeners, registrationIds, clients,
                 dbusRegistrationId, registryRegistrationId, fault>>
gdbusVars == <<queue, mainQueue, conn, watched, subscribed>>
clientVars == <<asked, told>>
historyVars == <<late, overtaken, resubscribed>>
vars == <<serviceVars, gdbusVars, clientVars, historyVars>>

NoFault == "none"
\* The place where the process aborts: unregisterInterface's assertion on the
\* registration id, the count() == 0 assertion of registrationIDFor...(),
\* onSignal's on the listener, the client looked up by connection and used
\* without a check, by a method handler or by emitSignal, and a connection
\* that is gone when unregisterEventListener unsubscribes it.
Faults == {"unregisterInterface", "registrationID", "onSignal",
           "getByConnection", "emitSignal", "unsubscribeSignal"}

\* What a source does when dispatched.  A "dead" one finds its subscription
\* or object gone and does nothing, but still holds its connection.
CallKinds == {"hello", "getEvents"}
HandlerKinds == CallKinds \cup {"signal"}
EmitKinds == {"registered", "deregistered"}
NoEvent == "no event"

\* A close on the default context: the signal, then onClosedConnection run at
\* once, named for the call that this thread makes next.
Forgotten == {"unregisterRegistryInterfaces", "unregisterDBusInterfaces",
              "remove"}
InPlaceKinds == {"closedNow", "unsubscribeSignalsActive"} \cup Forgotten
CloseKinds == {"closedSignal"} \cup InPlaceKinds

\* Whose name a listener is known under: GetRegisteredEvents gives the id of
\* the client that asks, the signals the server's.
OWN_ID == "own"
SERVER_ID == "server"

Source(kind, c, e) == [kind |-> kind, conn |-> c, event |-> e]

Sources(kinds, events) ==
    [kind : kinds, conn : Connections, event : events]

QueueSources ==
    Sources({"signal"}, Events)
        \cup Sources(CallKinds \cup {"new", "closed", "dead"}, {NoEvent})

MainSources == Sources(EmitKinds, Events) \cup Sources(CloseKinds, {NoEvent})

TypeOK ==
    /\ active \in BOOLEAN
    /\ eventListeners \in SUBSET Events
    /\ registrationIds \in [Events -> SUBSET Connections]
    /\ clients \in SUBSET Connections
    /\ dbusRegistrationId \in SUBSET Connections
    /\ registryRegistrationId \in SUBSET Connections
    /\ fault \in Faults \cup {NoFault}
    /\ queue \in Seq(QueueSources)
    /\ mainQueue \in Seq(MainSources)
    /\ conn \in [Connections -> {"none", "open", "closed"}]
    /\ watched \in SUBSET Connections
    /\ subscribed \in [Events -> SUBSET Connections]
    /\ asked \in SUBSET Connections
    /\ told \in [Connections -> SUBSET ({OWN_ID, SERVER_ID} \X Events)]
    /\ late \in SUBSET Connections
    /\ overtaken \in SUBSET Connections
    /\ resubscribed \in SUBSET Connections

Init ==
    /\ active = FALSE
    /\ eventListeners = {}
    /\ registrationIds = [e \in Events |-> {}]
    /\ clients = {}
    /\ dbusRegistrationId = {}
    /\ registryRegistrationId = {}
    /\ fault = NoFault
    /\ queue = <<>>
    /\ mainQueue = <<>>
    /\ conn = [c \in Connections |-> "none"]
    /\ watched = {}
    /\ subscribed = [e \in Events |-> {}]
    /\ asked = {}
    /\ told = [c \in Connections |-> {}]
    /\ late = {}
    /\ overtaken = {}
    /\ resubscribed = {}

----------------------------------------------------------------------------
(* GDBus.                                                                  *)

\* A client, or a source still attached to a context, keeps the object alive.
Referenced(c) ==
    \/ c \in clients
    \/ \E i \in DOMAIN queue : queue[i].conn = c
    \/ \E i \in DOMAIN mainQueue : mainQueue[i].conn = c

\* Unregistering objects of the connections cs, or their subscription to e,
\* leaves the sources already attached to the context without a handler.
CancelSources(q, kinds, cs) ==
    [i \in DOMAIN q |-> IF q[i].kind \in kinds /\ q[i].conn \in cs
                        THEN Source("dead", q[i].conn, NoEvent)
                        ELSE q[i]]

CancelSignal(q, cs, e) ==
    [i \in DOMAIN q |-> IF /\ q[i].kind = "signal" /\ q[i].event = e
                           /\ q[i].conn \in cs
                        THEN Source("dead", q[i].conn, NoEvent)
                        ELSE q[i]]

\* The server accepts a connection and attaches the "new-connection" source.
Connect(c) ==
    /\ fault = NoFault
    /\ active
    /\ conn[c] = "none"
    /\ Len(queue) < QueueBound
    /\ conn' = [conn EXCEPT ![c] = "open"]
    /\ queue' = Append(queue, Source("new", c, NoEvent))
    /\ UNCHANGED <<serviceVars, mainQueue, watched, subscribed, clientVars,
                   historyVars>>

\* The connections cs are nobody's clients any more.
ForgetKnowledge(cs) ==
    /\ asked' = asked \ cs
    /\ told' = [c \in Connections |-> IF c \in cs THEN {} ELSE told[c]]
    /\ overtaken' = overtaken \ cs

\* The peer goes away.  GDBus notices even before the connection was
\* announced, and emits "closed" on the context it was built in: the default.
PeerCloses(c) ==
    /\ fault = NoFault
    /\ conn[c] = "open"
    /\ Referenced(c)
    /\ Len(mainQueue) < MainBound
    /\ conn' = [conn EXCEPT ![c] = "closed"]
    /\ mainQueue' = Append(mainQueue, Source("closedSignal", c, NoEvent))
    /\ ForgetKnowledge({c})
    /\ UNCHANGED <<serviceVars, queue, watched, subscribed, late, resubscribed>>

\* The last reference to a connection object is gone, and with it its handler
\* and its subscriptions.
Finalize(c) ==
    /\ fault = NoFault
    /\ conn[c] # "none"
    /\ ~Referenced(c)
    /\ conn' = [conn EXCEPT ![c] = "none"]
    /\ watched' = watched \ {c}
    /\ subscribed' = [e \in Events |-> subscribed[e] \ {c}]
    /\ UNCHANGED <<serviceVars, queue, mainQueue, clientVars, historyVars>>

\* A message of the client reaches GDBus's thread, which attaches a source for
\* a signal that is subscribed to, or a call to an object that is exported.
SignalArrives(c, e) ==
    /\ fault = NoFault
    /\ conn[c] = "open"
    /\ c \in subscribed[e]
    /\ Len(queue) < MessageBound
    /\ queue' = Append(queue, Source("signal", c, e))
    /\ UNCHANGED <<serviceVars, mainQueue, conn, watched, subscribed,
                   clientVars, historyVars>>

CallArrives(c) ==
    /\ fault = NoFault
    /\ conn[c] = "open"
    /\ Len(queue) < MessageBound
    /\ \/ /\ c \in dbusRegistrationId
          /\ queue' = Append(queue, Source("hello", c, NoEvent))
       \/ /\ c \in registryRegistrationId
          /\ queue' = Append(queue, Source("getEvents", c, NoEvent))
    /\ UNCHANGED <<serviceVars, mainQueue, conn, watched, subscribed,
                   clientVars, historyVars>>

----------------------------------------------------------------------------
(* The service's helpers.                                                  *)

\* Mutant: the emitted signal carries no event name.
Hears_NoName(kind, known, e) ==
    known \cup {<<SERVER_ID, NoEvent>>}

\* What a client makes of an EventListener(De)Registered signal: it puts in and
\* takes out what the signal names, the server's listener for the event.
Hears(kind, known, e) ==
    IF kind = "registered" THEN known \cup {<<SERVER_ID, e>>}
                           ELSE known \ {<<SERVER_ID, e>>}

\* There is a registration id for the connection, under some event.
Recorded(c) == \E e \in Events : c \in registrationIds[e]

\* Every order in which execute() may visit the clients of an unordered_map.
Visits(cs) ==
    {order \in [1..Cardinality(cs) -> cs] :
        \A c \in cs : \E i \in DOMAIN order : order[i] = c}

\* The connections a signal waits for on the default context.
Waiting ==
    {mainQueue[i].conn : i \in {j \in DOMAIN mainQueue :
                                   mainQueue[j].kind \in EmitKinds}}

\* Mutant: unregisterEventListener does not tell the clients.
EmitSignals_RegisteredOnly(kind, e) ==
    /\ told' = [c \in Connections |->
                  IF c \in clients /\ kind = "registered"
                  THEN told[c] \cup {<<SERVER_ID, e>>}
                  ELSE told[c]]
    /\ UNCHANGED <<mainQueue, overtaken>>

\* emitSignal for every client.  The worker owns the D-Bus context, so that
\* the signals leave at once; without that context they wait on the default
\* one.  A signal for a connection that is closed already is lost.
EmitSignals(kind, e) ==
    \/ /\ active
       /\ told' = [c \in Connections |->
                     IF c \in clients /\ conn[c] = "open"
                     THEN Hears(kind, told[c], e)
                     ELSE told[c]]
       /\ overtaken' = overtaken \cup
                          {c \in clients \cap Waiting : conn[c] = "open"}
       /\ UNCHANGED mainQueue
    \/ /\ ~active
       /\ Len(mainQueue) + Cardinality(clients) <= MainBound
       /\ \E order \in Visits(clients) :
             mainQueue' = mainQueue \o
                          [i \in DOMAIN order |-> Source(kind, order[i], e)]
       /\ UNCHANGED <<told, overtaken>>

\* The connections the main thread is forgetting, by the call it makes next.
InPlace(calls) ==
    {mainQueue[i].conn : i \in {j \in DOMAIN mainQueue :
                                   mainQueue[j].kind \in calls}}

\* Mutant: nothing is subscribed while the service is not running.
SubscribeSignalsPending_RunningOnly(listeners, ids, cs) ==
    LET wanted == IF active THEN listeners ELSE {}
    IN  /\ registrationIds' = [e \in Events |->
                                 IF e \in wanted THEN ids[e] \cup cs
                                               ELSE ids[e]]
        /\ subscribed' = [e \in Events |->
                            IF e \in wanted THEN subscribed[e] \cup cs
                                          ELSE subscribed[e]]
        /\ UNCHANGED resubscribed

\* Subscribe every client to every registered event it is not subscribed to.
SubscribeSignalsPending(listeners, ids, cs) ==
    /\ registrationIds' = [e \in Events |->
                             IF e \in listeners THEN ids[e] \cup cs
                                                ELSE ids[e]]
    /\ subscribed' = [e \in Events |->
                        IF e \in listeners THEN subscribed[e] \cup (cs \ ids[e])
                                           ELSE subscribed[e]]
    /\ resubscribed' = IF listeners = {} THEN resubscribed
                       ELSE resubscribed \cup (cs \cap InPlace(Forgotten))

\* Mutant: unregisterDBusInterfaces is forgotten.
ForgetConnections_DBusInterfacesLeft(cs, q) ==
    /\ registrationIds' = [e \in Events |-> registrationIds[e] \ cs]
    /\ subscribed' = [e \in Events |->
                        subscribed[e] \ (registrationIds[e] \cap cs)]
    /\ registryRegistrationId' = registryRegistrationId \ cs
    /\ queue' = CancelSources(q, HandlerKinds, cs)
    /\ fault' = IF cs \subseteq registryRegistrationId
                THEN fault ELSE "unregisterInterface"
    /\ UNCHANGED dbusRegistrationId

\* onClosedConnection for the connections cs, up to the registry's update, with
\* q the sources that stay attached: unsubscribe the recorded signals, then
\* unregister both interfaces, which asserts that each was registered.
ForgetConnections(cs, q) ==
    /\ registrationIds' = [e \in Events |-> registrationIds[e] \ cs]
    /\ subscribed' = [e \in Events |->
                        subscribed[e] \ (registrationIds[e] \cap cs)]
    /\ registryRegistrationId' = registryRegistrationId \ cs
    /\ dbusRegistrationId' = dbusRegistrationId \ cs
    /\ queue' = CancelSources(q, HandlerKinds, cs)
    /\ fault' = IF cs \subseteq registryRegistrationId \cap dbusRegistrationId
                THEN fault ELSE "unregisterInterface"

\* Mutant: clear() is called where remove(connection) is meant.
OnClosedConnection_ClearsRegistry(c, q) ==
    \/ /\ ~active
       /\ queue' = q
       /\ UNCHANGED <<clients, registrationIds, subscribed,
                      registryRegistrationId, dbusRegistrationId, fault, late>>
    \/ /\ active
       /\ ForgetConnections(clients, q)
       /\ clients' = {}
       /\ late' = {}

\* Mutant: update_registry defaults to false.
OnClosedConnection_KeepsClient(c, q) ==
    \/ /\ ~active
       /\ queue' = q
       /\ UNCHANGED <<clients, registrationIds, subscribed,
                      registryRegistrationId, dbusRegistrationId, fault, late>>
    \/ /\ active
       /\ ForgetConnections({c}, q)
       /\ UNCHANGED <<clients, late>>

\* onClosedConnection(connection), on the worker.
OnClosedConnection(c, q) ==
    \/ /\ ~active
       /\ queue' = q
       /\ UNCHANGED <<clients, registrationIds, subscribed,
                      registryRegistrationId, dbusRegistrationId, fault, late>>
    \/ /\ active
       /\ ForgetConnections({c}, q)
       /\ clients' = clients \ {c}
       /\ late' = late \ {c}

----------------------------------------------------------------------------
(* The public operations, called by the worker.                            *)

Start ==
    /\ fault = NoFault
    /\ ~active
    /\ active' = TRUE
    /\ UNCHANGED <<eventListeners, registrationIds, clients,
                   dbusRegistrationId, registryRegistrationId, fault,
                   gdbusVars, clientVars, historyVars>>

\* clear() runs onClosedConnection(connection, false) for each client before
\* it drops the client; m_event_listeners stays as it is.
Stop ==
    /\ fault = NoFault
    /\ active
    /\ active' = FALSE
    /\ ForgetConnections(clients, queue)
    /\ clients' = {}
    /\ late' = {}
    /\ ForgetKnowledge(clients)
    /\ resubscribed' = {c \in resubscribed : Recorded(c)'}
    /\ UNCHANGED <<eventListeners, mainQueue, conn, watched>>

\* The caller registers an event once: m_enabled guards it in CScreenReader.
RegisterEventListener(e) ==
    /\ fault = NoFault
    /\ e \notin eventListeners
    /\ eventListeners' = eventListeners \cup {e}
    /\ SubscribeSignalsPending(eventListeners', registrationIds, clients)
    /\ EmitSignals("registered", e)
    /\ UNCHANGED <<active, clients, dbusRegistrationId, registryRegistrationId,
                   fault, queue, conn, watched, asked, late>>

\* Mutant: the subscriptions recorded for the event are not ended.
UnregisterEventListener_StaysSubscribed(e) ==
    /\ fault = NoFault
    /\ e \in eventListeners
    /\ eventListeners' = eventListeners \ {e}
    /\ registrationIds' = [registrationIds EXCEPT ![e] = {}]
    /\ EmitSignals("deregistered", e)
    /\ UNCHANGED <<active, clients, dbusRegistrationId, registryRegistrationId,
                   fault, queue, subscribed, conn, watched, asked, late,
                   resubscribed>>

\* What was subscribed behind onClosedConnection's back is recorded for a
\* connection that may be gone, and then anything can follow.
UnregisterEventListener(e) ==
    /\ fault = NoFault
    /\ e \in eventListeners
    /\ eventListeners' = eventListeners \ {e}
    /\ registrationIds' = [registrationIds EXCEPT ![e] = {}]
    /\ subscribed' = [subscribed EXCEPT ![e] = @ \ registrationIds[e]]
    /\ queue' = CancelSignal(queue, registrationIds[e], e)
    /\ EmitSignals("deregistered", e)
    /\ \/ UNCHANGED fault
       \/ /\ \E c \in registrationIds[e] : conn[c] = "none"
          /\ fault' = "unsubscribeSignal"
    /\ resubscribed' = {c \in resubscribed : Recorded(c)'}
    /\ UNCHANGED <<active, clients, dbusRegistrationId, registryRegistrationId,
                   conn, watched, asked, late>>

----------------------------------------------------------------------------
(* What the worker dispatches from the D-Bus context.                      *)

\* The source the worker takes next, when it is of that kind.
Dispatches(kind) ==
    /\ fault = NoFault
    /\ queue # <<>>
    /\ Head(queue).kind = kind

OnNewConnection ==
    /\ Dispatches("new")
    /\ LET c == Head(queue).conn
       IN  /\ watched' = watched \cup {c}
           /\ clients' = clients \cup {c}
           /\ dbusRegistrationId' = dbusRegistrationId \cup {c}
           /\ registryRegistrationId' = registryRegistrationId \cup {c}
           /\ fault' = IF c \in dbusRegistrationId \cup registryRegistrationId
                       THEN "registrationID" ELSE fault
           /\ SubscribeSignalsPending(eventListeners, registrationIds, clients')
           /\ late' = IF active THEN late \ {c} ELSE late \cup {c}
    /\ queue' = Tail(queue)
    /\ UNCHANGED <<active, eventListeners, mainQueue, conn, clientVars,
                   overtaken>>

OnClosedConnectionPosted ==
    /\ Dispatches("closed")
    /\ OnClosedConnection(Head(queue).conn, Tail(queue))
    /\ UNCHANGED <<active, eventListeners, mainQueue, conn, watched, clientVars,
                   overtaken, resubscribed>>

\* Hello answers with the id of the client it looks up.
HandleDBusHello ==
    /\ Dispatches("hello")
    /\ fault' = IF Head(queue).conn \in clients THEN fault
                ELSE "getByConnection"
    /\ queue' = Tail(queue)
    /\ UNCHANGED <<active, eventListeners, registrationIds, clients,
                   dbusRegistrationId, registryRegistrationId, mainQueue, conn,
                   watched, subscribed, clientVars, historyVars>>

\* The reply lists every event under the id of the client that asks.
HandleAtspi2GetRegisteredEvents ==
    /\ Dispatches("getEvents")
    /\ LET c == Head(queue).conn
       IN  /\ fault' = IF c \in clients THEN fault ELSE "getByConnection"
           /\ \/ /\ conn[c] = "open"
                 /\ told' = [told EXCEPT ![c] = @ \cup ({OWN_ID} \X eventListeners)]
                 /\ asked' = asked \cup {c}
              \/ conn[c] # "open" /\ UNCHANGED clientVars
    /\ queue' = Tail(queue)
    /\ UNCHANGED <<active, eventListeners, registrationIds, clients,
                   dbusRegistrationId, registryRegistrationId, mainQueue, conn,
                   watched, subscribed, historyVars>>

\* The listener itself is the screen reader's: it changes nothing here.
OnSignal ==
    /\ Dispatches("signal")
    /\ fault' = IF Head(queue).event \in eventListeners THEN fault
                ELSE "onSignal"
    /\ queue' = Tail(queue)
    /\ UNCHANGED <<active, eventListeners, registrationIds, clients,
                   dbusRegistrationId, registryRegistrationId, mainQueue, conn,
                   watched, subscribed, clientVars, historyVars>>

\* GDBus finds that the handler of this source is gone.
DropCancelled ==
    /\ Dispatches("dead")
    /\ queue' = Tail(queue)
    /\ UNCHANGED <<serviceVars, mainQueue, conn, watched, subscribed,
                   clientVars, historyVars>>

----------------------------------------------------------------------------
(* What the main thread dispatches from the default context.               *)

NextMain(kinds) ==
    /\ fault = NoFault
    /\ mainQueue # <<>>
    /\ Head(mainQueue).kind \in kinds

\* The wrapper reads m_dbus_context: with one, it posts to the worker; with
\* none, invoke means the default context, which this thread owns, and
\* onClosedConnection follows at once, before any other source.
OnClosedConnectionWrapper ==
    /\ NextMain({"closedSignal"})
    /\ LET c == Head(mainQueue).conn
       IN  \/ /\ c \notin watched
              /\ mainQueue' = Tail(mainQueue)
              /\ UNCHANGED queue
           \/ /\ c \in watched /\ active
              /\ queue' = Append(queue, Source("closed", c, NoEvent))
              /\ mainQueue' = Tail(mainQueue)
           \/ /\ c \in watched /\ ~active
              /\ mainQueue' = [mainQueue EXCEPT ![1] = Source("closedNow", c, NoEvent)]
              /\ UNCHANGED queue
    /\ UNCHANGED <<serviceVars, conn, watched, subscribed, clientVars,
                   historyVars>>

\* This thread is at the call, and makes `next` after it.
InPlaceCall(call, next) ==
    /\ NextMain({call})
    /\ mainQueue' = [mainQueue EXCEPT
                        ![1] = Source(next, Head(mainQueue).conn, NoEvent)]

\* The service may have been started since the wrapper found no context.
OnClosedConnectionInPlace ==
    /\ \/ active /\ InPlaceCall("closedNow", "unsubscribeSignalsActive")
       \/ ~active /\ NextMain({"closedNow"}) /\ mainQueue' = Tail(mainQueue)
    /\ UNCHANGED <<serviceVars, queue, conn, watched, subscribed, clientVars,
                   historyVars>>

UnsubscribeSignalsActive ==
    /\ InPlaceCall("unsubscribeSignalsActive", "unregisterRegistryInterfaces")
    /\ LET c == Head(mainQueue).conn
       IN  /\ registrationIds' = [e \in Events |-> registrationIds[e] \ {c}]
           /\ subscribed' = [e \in Events |->
                               subscribed[e] \ (registrationIds[e] \cap {c})]
           /\ queue' = CancelSources(queue, {"signal"}, {c})
    /\ UNCHANGED <<active, eventListeners, clients, dbusRegistrationId,
                   registryRegistrationId, fault, conn, watched, clientVars,
                   historyVars>>

UnregisterRegistryInterfaces ==
    /\ InPlaceCall("unregisterRegistryInterfaces", "unregisterDBusInterfaces")
    /\ LET c == Head(mainQueue).conn
       IN  /\ registryRegistrationId' = registryRegistrationId \ {c}
           /\ queue' = CancelSources(queue, {"getEvents"}, {c})
           /\ fault' = IF c \in registryRegistrationId
                       THEN fault ELSE "unregisterInterface"
    /\ UNCHANGED <<active, eventListeners, registrationIds, clients,
                   dbusRegistrationId, conn, watched, subscribed, clientVars,
                   historyVars>>

UnregisterDBusInterfaces ==
    /\ InPlaceCall("unregisterDBusInterfaces", "remove")
    /\ LET c == Head(mainQueue).conn
       IN  /\ dbusRegistrationId' = dbusRegistrationId \ {c}
           /\ queue' = CancelSources(queue, {"hello"}, {c})
           /\ fault' = IF c \in dbusRegistrationId
                       THEN fault ELSE "unregisterInterface"
    /\ UNCHANGED <<active, eventListeners, registrationIds, clients,
                   registryRegistrationId, conn, watched, subscribed,
                   clientVars, historyVars>>

Remove ==
    /\ NextMain({"remove"})
    /\ clients' = clients \ {Head(mainQueue).conn}
    /\ late' = late \ {Head(mainQueue).conn}
    /\ mainQueue' = Tail(mainQueue)
    /\ UNCHANGED <<active, eventListeners, registrationIds, dbusRegistrationId,
                   registryRegistrationId, fault, queue, conn, watched,
                   subscribed, clientVars, overtaken, resubscribed>>

\* A signal emitted while there was no D-Bus context.  Its destination is the
\* id of a client that may have been dropped since.
EmitSignalLater ==
    /\ NextMain(EmitKinds)
    /\ LET s == Head(mainQueue)
       IN  /\ fault' = IF s.conn \in clients THEN fault ELSE "emitSignal"
           /\ told' = IF s.conn \in clients /\ conn[s.conn] = "open"
                      THEN [told EXCEPT ![s.conn] = Hears(s.kind, @, s.event)]
                      ELSE told
    /\ mainQueue' = Tail(mainQueue)
    /\ UNCHANGED <<active, eventListeners, registrationIds, clients,
                   dbusRegistrationId, registryRegistrationId, queue, conn,
                   watched, subscribed, asked, historyVars>>

----------------------------------------------------------------------------
Operations ==
    \/ Start
    \/ Stop
    \/ \E e \in Events : RegisterEventListener(e) \/ UnregisterEventListener(e)

WorkerDispatch ==
    \/ OnNewConnection
    \/ OnClosedConnectionPosted
    \/ HandleDBusHello
    \/ HandleAtspi2GetRegisteredEvents
    \/ OnSignal
    \/ DropCancelled

MainDispatch ==
    \/ OnClosedConnectionWrapper
    \/ OnClosedConnectionInPlace
    \/ UnsubscribeSignalsActive
    \/ UnregisterRegistryInterfaces
    \/ UnregisterDBusInterfaces
    \/ Remove
    \/ EmitSignalLater

Environment ==
    \E c \in Connections :
        \/ Connect(c)
        \/ PeerCloses(c)
        \/ Finalize(c)
        \/ CallArrives(c)
        \/ \E e \in Events : SignalArrives(c, e)

\* A failed g_assert, or a member read through a null pointer, ends the process.
Aborted ==
    /\ fault # NoFault
    /\ UNCHANGED vars

Next ==
    \/ Operations
    \/ WorkerDispatch
    \/ MainDispatch
    \/ Environment
    \/ Aborted

\* Both threads run a main loop, which dispatches what is attached to it.
Spec ==
    /\ Init
    /\ [][Next]_vars
    /\ WF_vars(WorkerDispatch)
    /\ WF_vars(MainDispatch)

----------------------------------------------------------------------------
(* Properties.                                                             *)

\* Both registration maps hold exactly the connections of the client table,
\* through accepts, closes, stops and restarts, but for the one that the main
\* thread is forgetting, whatever the worker does meanwhile: a client is not
\* left behind without its interfaces, nor an interface without its client.
RegistrationsMatchClients ==
    /\ dbusRegistrationId = clients \ InPlace({"remove"})
    /\ registryRegistrationId =
          clients \ InPlace({"unregisterDBusInterfaces", "remove"})

\* Every client is subscribed, once, to every registered event and to nothing
\* else, whether it connected before or after the listener was registered and
\* whether or not the service was running then (subscribeSignalsPending).  Only
\* for a connection that the worker subscribed while the main thread was about
\* to remove it, records may stay behind; but for it too, whatever is
\* subscribed is recorded, so that unregisterEventListener ends it.
SubscriptionsMatchListeners ==
    \A e \in Events :
       /\ e \notin eventListeners => registrationIds[e] = {}
       /\ subscribed[e] \subseteq registrationIds[e]
       /\ \A c \in Connections \ resubscribed :
             /\ c \in registrationIds[e] => c \in subscribed[e]
             /\ c \in subscribed[e] <=>
                   /\ e \in eventListeners
                   /\ c \in clients \ InPlace(Forgotten)

\* The assertion that a delivered signal has a listener, those that a
\* connection is registered once, and the unchecked look-ups of the method
\* handlers hold, although sources attached before a stop or an
\* unregisterEventListener are dispatched after it.
DispatchedSourcesAreExpected ==
    fault \notin {"onSignal", "registrationID", "getByConnection"}

\* Whether a client knows of the server's listener for e once the signals that
\* wait for it on the default context have reached it.
WillKnow(c, e) ==
    \/ /\ <<SERVER_ID, e>> \in told[c]
       /\ \A i \in DOMAIN mainQueue :
             mainQueue[i] # Source("deregistered", c, e)
    \/ \E i \in DOMAIN mainQueue :
          /\ mainQueue[i] = Source("registered", c, e)
          /\ \A j \in DOMAIN mainQueue :
                j > i => mainQueue[j] # Source("deregistered", c, e)

\* A client that asked for the registered events misses none of them from then
\* on: it knows each under its own id, from the reply, or under the server's,
\* from a signal; and what it knows under the server's id is still registered.
\* This holds too for clients that are sent signals while the service is
\* stopped, which wait on the default context, unless one sent after the next
\* start overtakes them there.  What the reply listed under the client's own id
\* is never taken back: EventListenerDeregistered names the server.
ClientsKnowTheEvents ==
    \A c \in clients \ overtaken, e \in Events :
        conn[c] = "open" =>
           /\ WillKnow(c, e) => e \in eventListeners
           /\ c \in asked /\ e \in eventListeners
                 => WillKnow(c, e) \/ <<OWN_ID, e>> \in told[c]

\* Nothing drops a client whose connection is open except stop(): a close is
\* charged to the connection it came from, also when objects are reused.
ClientsLeaveWhenClosed ==
    [][\A c \in clients \ clients' : active' => conn[c] = "closed"]_vars

\* The notice of a close travels from the default context to the worker; a
\* client it was emitted for is forgotten, by that or by a stop in between.
ClosedClientsAreForgotten ==
    \A c \in Connections :
        (/\ c \in clients \ late
         /\ \E i \in DOMAIN mainQueue : mainQueue[i] = Source("closedSignal", c, NoEvent))
            ~> (c \notin clients \/ fault # NoFault)

\* unregisterInterface asserts that the connection it is called for is still
\* registered.
ClosedConnectionsAreRegistered ==
    fault # "unregisterInterface"
============================================================================
