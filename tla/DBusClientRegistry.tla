------------------------- MODULE DBusClientRegistry -------------------------
(***************************************************************************)
(* CDBusClientRegistry, the static table of the clients of the private     *)
(* D-Bus server, and the handlers of CAtspiRegistryService that answer     *)
(* from it: ids, names and the list of registered events.                  *)
(*                                                                         *)
(* A client is found by its connection.  Its id is ":1.<minor id>", written *)
(* here as the minor id, a uint32_t that starts at 1 and wraps.  All this   *)
(* is done on the worker, one handler at a time; when connections come and *)
(* go is for the module that uses this one.                                *)
(***************************************************************************)
EXTENDS Naturals

CONSTANTS
    Connections,        \* the GDBusConnection objects
    Names,              \* the names clients ask for
    NoName,             \* "", the name of a client that was given none
    RegistryName,       \* "org.a11y.atspi.Registry"
    Events,             \* the events of the screen reader's listeners
    IdSpan              \* 2^32, the number of values of a uint32_t

ASSUME NamesAssumption == NoName \in Names /\ RegistryName \in Names /\ NoName # RegistryName

ASSUME IdSpanAssumption == IdSpan \in Nat /\ IdSpan > 1

VARIABLES
    clients,            \* the keys of CDBusClientRegistry::clients
    id,                 \* CDBusClient::m_id, of those in the table
    name,               \* CDBusClient::m_name
    minorId,            \* the static minor_id of CDBusClient()
    eventListeners,     \* the keys of m_event_listeners
    \* the clients
    told,               \* the listeners each knows of: the bus id and the event
    granted,            \* the names each was told it is the primary owner of
    \* history
    made                \* the clients made so far

tableVars == <<clients, id, name, minorId, made>>
knowledgeVars == <<told, granted>>
registryVars == <<tableVars, eventListeners, knowledgeVars>>

SERVER_ID == 0

Ids == 0 .. IdSpan - 1

RegistryTypeOK ==
    /\ clients \in SUBSET Connections
    /\ id \in [Connections -> Ids]
    /\ name \in [Connections -> Names]
    /\ minorId \in Ids
    /\ eventListeners \in SUBSET Events
    /\ told \in [Connections -> SUBSET (Ids \X Events)]
    /\ granted \in [Connections -> SUBSET Names]
    /\ made \in Nat

RegistryInit ==
    /\ clients = {}
    /\ id = [c \in Connections |-> SERVER_ID]
    /\ name = [c \in Connections |-> NoName]
    /\ minorId = 1
    /\ eventListeners = {}
    /\ told = [c \in Connections |-> {}]
    /\ granted = [c \in Connections |-> {}]
    /\ made = 0

----------------------------------------------------------------------------
(* The table.                                                              *)

\* Mutants: the counter stays where it is; it is wider than a uint32_t.
NextMinorId_NotAdvanced == minorId

NextMinorId_Wider == minorId + 1

NextMinorId == (minorId + 1) % IdSpan

\* The new client has no name.
Add(c) ==
    /\ c \notin clients
    /\ clients' = clients \cup {c}
    /\ id' = [id EXCEPT ![c] = minorId]
    /\ minorId' = NextMinorId
    /\ made' = made + 1
    /\ UNCHANGED <<name, eventListeners, knowledgeVars>>

\* The clients cs are deleted, and with them what they know.
Forget(cs) ==
    /\ clients' = clients \ cs
    /\ id' = [c \in Connections |-> IF c \in cs THEN SERVER_ID ELSE id[c]]
    /\ name' = [c \in Connections |-> IF c \in cs THEN NoName ELSE name[c]]
    /\ told' = [c \in Connections |-> IF c \in cs THEN {} ELSE told[c]]
    /\ granted' = [c \in Connections |-> IF c \in cs THEN {} ELSE granted[c]]
    /\ UNCHANGED <<minorId, made>>

Remove(c) == c \in clients /\ Forget({c}) /\ UNCHANGED eventListeners

Clear == Forget(clients)

\* Mutant: the registry's name is nobody's.
HasName_NotRegistry(n) == n # RegistryName /\ \E c \in clients : name[c] = n

\* Whether getByName finds a client.  One without a name has the empty one.
HasName(n) == \E c \in clients : name[c] = n

----------------------------------------------------------------------------
(* The handlers.                                                           *)

\* Hello answers id[c], and GetNameOwner knows one name, taken or not.
GetNameOwner(n) == IF n = RegistryName THEN {SERVER_ID} ELSE {}

\* A name that a client has is refused, to that client too.  The one that a
\* client had before is given up without a word.
RequestName(c, n) ==
    /\ c \in clients
    /\ ~HasName(n)
    /\ name' = [name EXCEPT ![c] = n]
    /\ granted' = [granted EXCEPT ![c] = @ \cup {n}]
    /\ UNCHANGED <<clients, id, minorId, made, eventListeners, told>>

\* The listener's bus is the id of the client that asks.
GetRegisteredEvents(c) ==
    /\ c \in clients
    /\ told' = [told EXCEPT ![c] = @ \cup ({id[c]} \X eventListeners)]
    /\ UNCHANGED <<tableVars, eventListeners, granted>>

\* The signals name the server.  Clients take out what they put in.
RegisterEventListener(e) ==
    /\ e \notin eventListeners
    /\ eventListeners' = eventListeners \cup {e}
    /\ told' = [c \in Connections |->
                   IF c \in clients THEN told[c] \cup {<<SERVER_ID, e>>} ELSE told[c]]
    /\ UNCHANGED <<tableVars, granted>>

\* Mutant: the signal names the client's id, as GetRegisteredEvents does.
UnregisterEventListener_OwnId(e) ==
    /\ e \in eventListeners
    /\ eventListeners' = eventListeners \ {e}
    /\ told' = [c \in Connections |->
                   IF c \in clients THEN told[c] \ {<<id[c], e>>} ELSE told[c]]
    /\ UNCHANGED <<tableVars, granted>>

UnregisterEventListener(e) ==
    /\ e \in eventListeners
    /\ eventListeners' = eventListeners \ {e}
    /\ told' = [c \in Connections |->
                   IF c \in clients THEN told[c] \ {<<SERVER_ID, e>>} ELSE told[c]]
    /\ UNCHANGED <<tableVars, granted>>

----------------------------------------------------------------------------
(* Properties.                                                             *)

\* Until the counter wraps, clients have ids of their own, none of them the
\* server's, which GetNameOwner gives for the registry and which the signals are
\* sent from: through clients that leave, a service that is stopped and one that
\* is made anew (the static minor_id of CDBusClient()).
IdsAreDistinct ==
    made < IdSpan =>
       \A c \in clients :
          /\ id[c] \notin GetNameOwner(RegistryName)
          /\ \A d \in clients : id[c] = id[d] => c = d

\* Two clients never have a name at the same time, and a client has a name it was
\* told it owns: of two clients told they own a name, one was granted another
\* since (handleDBusRequestName), or has left.
NamesHaveOneOwner ==
    \A c \in clients :
       /\ name[c] \in granted[c] \cup {NoName}
       /\ \A d \in clients : name[c] = name[d] /\ name[c] # NoName => c = d

\* A listener that a client knows of by the server's id is there.  Only those
\* that GetRegisteredEvents told it of, under its own id, no
\* EventListenerDeregistered takes back.
StaleListenersAreOwn ==
    \A c \in clients, e \in Events :
       <<SERVER_ID, e>> \in told[c] /\ made < IdSpan => e \in eventListeners
=============================================================================
