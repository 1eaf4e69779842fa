-------------------------- MODULE RdkatAtspi2Proofs --------------------------
(***************************************************************************)
(* The inductive invariant of RdkatAtspi2 with the table of clients, and   *)
(* what follows from it, however many connections, names, services and     *)
(* values of the counter there are.                                        *)
(***************************************************************************)
EXTENDS RdkatAtspi2, TLAPS

\* The counter is one ahead of the clients made until it wraps, so that an id
\* is the number of its client.
Counting ==
    /\ made + 1 < IdSpan => minorId = made + 1
    /\ made < IdSpan => \A c \in clients : id[c] \in 1 .. made

\* What is not in the table has no name and knows nothing.
Strangers ==
    \A c \in Connections \ clients :
       name[c] = NoName /\ told[c] = {}

Unique == made < IdSpan => \A c, d \in clients : id[c] = id[d] => c = d

\* Where the address of a service comes from.
Origin ==
    /\ service # NoAddress => returned # NoAddress
    /\ service = NoAddress => clients = {} /\ ~listening /\ ~initialized
    /\ isFixed /\ returned # NoAddress /\ environment # NoAddress
          => returned = environment
    /\ isFixed /\ service # NoAddress /\ environment # NoAddress
          => service = environment
    /\ isFirst /\ service # NoAddress => returned = service

IInv ==
    /\ TypeOK
    /\ Counting
    /\ Unique
    /\ Strangers
    /\ Origin
    /\ NamesHaveOneOwner
    /\ StaleListenersAreOwn

TableInv == Counting /\ Unique /\ Strangers /\ NamesHaveOneOwner /\ StaleListenersAreOwn

----------------------------------------------------------------------------
\* The counter, as long as it has not wrapped, and in general.
LEMMA Advance ==
    /\ minorId \in Ids => NextMinorId \in Ids
    /\ minorId \in Ids /\ minorId + 1 < IdSpan => NextMinorId = minorId + 1
BY IdSpanAssumption DEF NextMinorId, Ids

\* Clients that leave take their ids, names and what they know with them.
LEMMA ForgetKeeps ==
    ASSUME RegistryTypeOK, TableInv, NEW cs \in SUBSET Connections, Forget(cs),
           eventListeners' = eventListeners \/ clients' = {},
           eventListeners' \in SUBSET Events
    PROVE  RegistryTypeOK' /\ TableInv'
<1>1. RegistryTypeOK'
  BY IdSpanAssumption, NamesAssumption DEF Forget, RegistryTypeOK, Ids, SERVER_ID
<1>2. Counting' /\ Unique'
  BY DEF Forget, RegistryTypeOK, TableInv, Counting, Unique
<1>3. Strangers'
  BY DEF Forget, RegistryTypeOK, TableInv, Strangers
<1>4. NamesHaveOneOwner'
  BY DEF Forget, RegistryTypeOK, TableInv, NamesHaveOneOwner
<1>5. StaleListenersAreOwn'
  BY DEF Forget, RegistryTypeOK, TableInv, StaleListenersAreOwn
<1> QED
  BY <1>1, <1>2, <1>3, <1>4, <1>5 DEF TableInv

LEMMA AddKeeps ==
    ASSUME RegistryTypeOK, TableInv, NEW c \in Connections, Add(c)
    PROVE  RegistryTypeOK' /\ TableInv'
<1> USE DEF registryVars, tableVars, knowledgeVars
<1>1. RegistryTypeOK'
  BY Advance DEF Add, RegistryTypeOK
<1>2. Counting' /\ Unique'
  <2>1. ASSUME made + 1 < IdSpan
        PROVE  /\ minorId = made + 1
               /\ \A d \in clients : id'[d] = id[d] /\ id[d] \in 1 .. made
               /\ id'[c] = made + 1
    BY <2>1, IdSpanAssumption DEF Add, RegistryTypeOK, TableInv, Counting
  <2>2. made' + 1 < IdSpan => minorId' = made' + 1
    BY <2>1, Advance, IdSpanAssumption DEF Add, RegistryTypeOK
  <2>3. ASSUME made' < IdSpan, NEW d \in clients'
        PROVE  id'[d] \in 1 .. made'
    BY <2>1, <2>3, IdSpanAssumption DEF Add, RegistryTypeOK
  <2>4. ASSUME made' < IdSpan, NEW d \in clients', NEW e \in clients', id'[d] = id'[e]
        PROVE  d = e
    BY <2>1, <2>4, IdSpanAssumption DEF Add, RegistryTypeOK, TableInv, Unique
  <2> QED
    BY <2>2, <2>3, <2>4 DEF Counting, Unique
<1>3. Strangers'
  BY DEF Add, RegistryTypeOK, TableInv, Strangers
<1>4. NamesHaveOneOwner'
  BY DEF Add, RegistryTypeOK, TableInv, Strangers, NamesHaveOneOwner
<1>5. StaleListenersAreOwn'
  BY IdSpanAssumption
     DEF Add, RegistryTypeOK, TableInv, Strangers, StaleListenersAreOwn
<1> QED
  BY <1>1, <1>2, <1>3, <1>4, <1>5 DEF TableInv

LEMMA RequestNameKeeps ==
    ASSUME RegistryTypeOK, TableInv, NEW c \in Connections, NEW n \in Names,
           RequestName(c, n)
    PROVE  RegistryTypeOK' /\ TableInv'
<1>1. RegistryTypeOK'
  BY DEF RequestName, RegistryTypeOK
<1>2. Counting' /\ Unique' /\ StaleListenersAreOwn'
  BY DEF RequestName, TableInv, Counting, Unique, StaleListenersAreOwn
<1>3. Strangers'
  BY DEF RequestName, RegistryTypeOK, TableInv, Strangers
<1>4. NamesHaveOneOwner'
  BY DEF RequestName, HasName, RegistryTypeOK, TableInv, NamesHaveOneOwner
<1> QED
  BY <1>1, <1>2, <1>3, <1>4 DEF TableInv

\* An id that GetRegisteredEvents writes is not the server's.
LEMMA GetRegisteredEventsKeeps ==
    ASSUME RegistryTypeOK, TableInv, NEW c \in Connections, GetRegisteredEvents(c)
    PROVE  RegistryTypeOK' /\ TableInv'
<1> USE DEF tableVars
<1>1. RegistryTypeOK'
  BY DEF GetRegisteredEvents, RegistryTypeOK
<1>2. Counting' /\ Unique' /\ NamesHaveOneOwner'
  BY DEF GetRegisteredEvents, TableInv, Counting, Unique, NamesHaveOneOwner
<1>3. Strangers'
  BY DEF GetRegisteredEvents, RegistryTypeOK, TableInv, Strangers
<1>4. StaleListenersAreOwn'
  <2>1. made < IdSpan => id[c] # SERVER_ID
    BY DEF GetRegisteredEvents, RegistryTypeOK, TableInv, Counting, SERVER_ID
  <2> QED
    BY <2>1 DEF GetRegisteredEvents, RegistryTypeOK, TableInv, StaleListenersAreOwn
<1> QED
  BY <1>1, <1>2, <1>3, <1>4 DEF TableInv

LEMMA ListenersKeep ==
    ASSUME RegistryTypeOK, TableInv, NEW e \in Events,
           RegisterEventListener(e) \/ UnregisterEventListener(e)
    PROVE  RegistryTypeOK' /\ TableInv'
<1> USE DEF tableVars
<1>0. SERVER_ID \in Ids
  BY IdSpanAssumption DEF SERVER_ID, Ids
<1>1. RegistryTypeOK'
  BY <1>0 DEF RegisterEventListener, UnregisterEventListener, RegistryTypeOK
<1>2. Counting' /\ Unique' /\ NamesHaveOneOwner'
  BY DEF RegisterEventListener, UnregisterEventListener, TableInv, Counting, Unique,
         NamesHaveOneOwner
<1>3. Strangers'
  BY DEF RegisterEventListener, UnregisterEventListener, RegistryTypeOK, TableInv, Strangers
<1>4. StaleListenersAreOwn'
  BY DEF RegisterEventListener, UnregisterEventListener, RegistryTypeOK, TableInv,
         StaleListenersAreOwn
<1> QED
  BY <1>1, <1>2, <1>3, <1>4 DEF TableInv

----------------------------------------------------------------------------
\* Every step keeps the invariant.
LEMMA InvariantStep == IInv /\ [Next]_vars => IInv'
<1> SUFFICES ASSUME IInv, [Next]_vars
             PROVE  IInv'
  OBVIOUS
<1> USE DEF registryVars, hostVars, historyVars, knowledgeVars
<1> DEFINE HostTypeOK ==
              /\ environment \in Given \cup {NoAddress}
              /\ dirs \in 0 .. DirBound
              /\ service \in Addresses /\ returned \in Addresses
              /\ initialized \in BOOLEAN
              /\ listening \in BOOLEAN
              /\ known \in [Connections -> Addresses]
              /\ isFirst \in BOOLEAN
              /\ isFixed \in BOOLEAN
<1>t. RegistryTypeOK /\ HostTypeOK /\ TableInv /\ Origin
  BY DEF IInv, TypeOK, TableInv
<1>i. ASSUME RegistryTypeOK', HostTypeOK', TableInv', Origin'
      PROVE  IInv'
  BY <1>i DEF IInv, TypeOK, TableInv
<1> HIDE DEF HostTypeOK
<1>0. CASE UNCHANGED vars
  <2>1. RegistryTypeOK' /\ TableInv'
    BY <1>0, <1>t
       DEF vars, tableVars, RegistryTypeOK, TableInv, Counting, Unique, Strangers,
           NamesHaveOneOwner, StaleListenersAreOwn
  <2>2. HostTypeOK' /\ Origin'
    BY <1>0, <1>t DEF vars, tableVars, HostTypeOK, Origin
  <2> QED
    BY <1>i, <2>1, <2>2
<1>1. CASE RDKAT_Initialize
  <2>1. /\ UNCHANGED tableVars /\ UNCHANGED knowledgeVars /\ clients = {}
        /\ eventListeners' \in SUBSET Events
    BY <1>1, <1>t DEF RDKAT_Initialize, InitializeReader, Origin, RegistryTypeOK
  <2>2. RegistryTypeOK' /\ TableInv'
    BY <1>t, <2>1
       DEF tableVars, RegistryTypeOK, TableInv, Counting, Unique, Strangers,
           NamesHaveOneOwner, StaleListenersAreOwn
  <2>3. /\ service' \in Addresses /\ service' # NoAddress /\ dirs' \in 0 .. DirBound
        /\ environment # NoAddress => service' = environment
    BY <1>1, <1>t, AddressesAssumption
       DEF RDKAT_Initialize, CreateAtspiRegistryService, HostTypeOK, Addresses
  <2>4. /\ returned' = (IF returned = NoAddress THEN service' ELSE returned)
        /\ isFirst' = (returned = NoAddress)
        /\ UNCHANGED <<environment, known, isFixed>>
        /\ initialized' \in BOOLEAN /\ listening' \in BOOLEAN
    BY <1>1 DEF RDKAT_Initialize, Address, InitializeReader
  <2>5. HostTypeOK'
    BY <1>t, <2>3, <2>4 DEF HostTypeOK
  <2>6. Origin'
    BY <1>t, <2>3, <2>4 DEF HostTypeOK, Origin
  <2> QED
    BY <1>i, <2>2, <2>5, <2>6
<1>2. CASE RDKAT_Uninitialize
  <2>1. /\ Forget(clients) /\ clients \in SUBSET Connections
        /\ clients' = {} /\ eventListeners' \in SUBSET Events
    BY <1>2, <1>t DEF RDKAT_Uninitialize, Clear, Forget, RegistryTypeOK
  <2>2. RegistryTypeOK' /\ TableInv'
    BY <1>t, <2>1, ForgetKeeps
  <2>3. HostTypeOK' /\ Origin'
    BY <1>2, <1>t, <2>1 DEF RDKAT_Uninitialize, HostTypeOK, Origin, Addresses
  <2> QED
    BY <1>i, <2>2, <2>3
<1>3. CASE SetEnvironment
  <2>1. RegistryTypeOK' /\ TableInv'
    BY <1>3, <1>t
       DEF SetEnvironment, tableVars, RegistryTypeOK, TableInv, Counting, Unique,
           Strangers, NamesHaveOneOwner, StaleListenersAreOwn
  <2>2. HostTypeOK'
    BY <1>3, <1>t DEF SetEnvironment, tableVars, HostTypeOK
  <2>3. Origin'
    BY <1>3, <1>t DEF SetEnvironment, tableVars, HostTypeOK, Origin
  <2> QED
    BY <1>i, <2>1, <2>2, <2>3
<1>4. CASE TTSEnabled \/ TTSDisabled
  <2>1. PICK e \in Events : RegisterEventListener(e) \/ UnregisterEventListener(e)
    BY <1>4 DEF TTSEnabled, TTSDisabled
  <2>2. RegistryTypeOK' /\ TableInv'
    BY <1>t, <2>1, ListenersKeep
  <2>3. HostTypeOK' /\ Origin'
    BY <1>4, <1>t, <2>1
       DEF TTSEnabled, TTSDisabled, RegisterEventListener, UnregisterEventListener,
           tableVars, HostTypeOK, Origin
  <2> QED
    BY <1>i, <2>2, <2>3
<1>5. ASSUME NEW c \in Connections, Launch(c)
      PROVE  IInv'
  <2>1. RegistryTypeOK' /\ TableInv'
    BY <1>5, <1>t
       DEF Launch, tableVars, RegistryTypeOK, TableInv, Counting, Unique,
           Strangers, NamesHaveOneOwner, StaleListenersAreOwn
  <2>2. HostTypeOK' /\ Origin'
    BY <1>5, <1>t DEF Launch, tableVars, HostTypeOK, Origin
  <2> QED
    BY <1>i, <2>1, <2>2
<1>6. ASSUME NEW c \in Connections, OnNewConnection(c)
      PROVE  IInv'
  <2>1. RegistryTypeOK' /\ TableInv'
    BY <1>6, <1>t, AddKeeps DEF OnNewConnection
  <2>2. service # NoAddress
    BY <1>6, <1>t DEF OnNewConnection, Origin
  <2>3. HostTypeOK' /\ Origin'
    BY <1>6, <1>t, <2>2 DEF OnNewConnection, HostTypeOK, Origin
  <2> QED
    BY <1>i, <2>1, <2>3
<1>7. ASSUME NEW c \in Connections, OnClosedConnection(c)
      PROVE  IInv'
  <2>1. /\ c \in clients /\ Forget({c}) /\ {c} \in SUBSET Connections
        /\ eventListeners' = eventListeners /\ eventListeners' \in SUBSET Events
    BY <1>7, <1>t DEF OnClosedConnection, Remove, RegistryTypeOK
  <2>2. RegistryTypeOK' /\ TableInv'
    BY <1>t, <2>1, ForgetKeeps
  <2>3. service # NoAddress
    BY <1>t, <2>1 DEF Origin
  <2>4. HostTypeOK' /\ Origin'
    BY <1>7, <1>t, <2>3 DEF OnClosedConnection, HostTypeOK, Origin
  <2> QED
    BY <1>i, <2>2, <2>4
<1>8. ASSUME NEW c \in Connections, HandleRequestName(c)
      PROVE  IInv'
  <2>1. PICK n \in Names : RequestName(c, n)
    BY <1>8 DEF HandleRequestName
  <2>2. RegistryTypeOK' /\ TableInv'
    BY <1>t, <2>1, RequestNameKeeps
  <2>3. HostTypeOK' /\ Origin'
    BY <1>8, <1>t, <2>1 DEF HandleRequestName, RequestName, HostTypeOK, Origin
  <2> QED
    BY <1>i, <2>2, <2>3
<1>9. ASSUME NEW c \in Connections, HandleGetRegisteredEvents(c)
      PROVE  IInv'
  <2>1. RegistryTypeOK' /\ TableInv'
    BY <1>9, <1>t, GetRegisteredEventsKeeps DEF HandleGetRegisteredEvents
  <2>2. HostTypeOK' /\ Origin'
    BY <1>9, <1>t
       DEF HandleGetRegisteredEvents, GetRegisteredEvents, tableVars, HostTypeOK, Origin
  <2> QED
    BY <1>i, <2>1, <2>2
<1> QED
  BY <1>0, <1>1, <1>2, <1>3, <1>4, <1>5, <1>6, <1>7, <1>8, <1>9 DEF Next

\* The invariant holds in every reachable state.
LEMMA InvariantHolds == Spec => []IInv
<1>1. Init => IInv
  <2> SUFFICES ASSUME Init
               PROVE  IInv
    OBVIOUS
  <2>1. RegistryTypeOK
    BY IdSpanAssumption, NamesAssumption
       DEF Init, RegistryInit, RegistryTypeOK, Ids, SERVER_ID
  <2>2. TypeOK
    <3>1. NoAddress \in Addresses /\ 0 \in 0 .. DirBound
      BY AddressesAssumption DEF Addresses
    <3>2. known \in [Connections -> Addresses]
      BY <3>1 DEF Init
    <3> QED
      BY <2>1, <3>1, <3>2 DEF Init, TypeOK
  <2>3. Counting /\ Unique /\ Strangers /\ NamesHaveOneOwner /\ StaleListenersAreOwn
    BY DEF Init, RegistryInit, Counting, Unique, Strangers, NamesHaveOneOwner,
           StaleListenersAreOwn
  <2>4. Origin
    BY DEF Init, RegistryInit, Origin
  <2> QED
    BY <2>2, <2>3, <2>4 DEF IInv
<1> QED
  BY <1>1, InvariantStep, PTL DEF Spec

----------------------------------------------------------------------------
\* The table, the counter and the host's variables keep their types.
THEOREM TypeCorrect == Spec => []TypeOK
<1>1. IInv => TypeOK
  BY DEF IInv
<1> QED
  BY <1>1, InvariantHolds, PTL

\* Until 2^32 - 1 clients have been made, through every service there was, no two
\* clients in the table have the same id, and none has the server's.
THEOREM IdsDistinctCorrect == Spec => []IdsAreDistinct
<1>1. IInv => IdsAreDistinct
  <2> SUFFICES ASSUME IInv, made < IdSpan, NEW c \in clients
               PROVE  /\ id[c] \notin GetNameOwner(RegistryName)
                      /\ \A d \in clients : id[c] = id[d] => c = d
    BY DEF IdsAreDistinct
  <2>1. id[c] # SERVER_ID
    BY DEF IInv, TypeOK, RegistryTypeOK, Counting, SERVER_ID
  <2> QED
    BY <2>1 DEF IInv, Unique, GetNameOwner
<1> QED
  BY <1>1, InvariantHolds, PTL

\* However names are asked for, given up and asked for again, a name has one
\* owner at most, and that owner was told that it is.
THEOREM NamesCorrect == Spec => []NamesHaveOneOwner
<1>1. IInv => NamesHaveOneOwner
  BY DEF IInv
<1> QED
  BY <1>1, InvariantHolds, PTL

\* The listeners that clients know of by the server's id are the registered
\* ones.
THEOREM StaleListenersCorrect == Spec => []StaleListenersAreOwn
<1>1. IInv => StaleListenersAreOwn
  BY DEF IInv
<1> QED
  BY <1>1, InvariantHolds, PTL

\* The address returned is served by the first service, and by all if the
\* environment gives it and is left alone.
THEOREM AddressCorrect == Spec => []AddressIsServed
<1>1. IInv => AddressIsServed
  <2> SUFFICES ASSUME Origin, service # NoAddress,
                      isFirst \/ (isFixed /\ environment # NoAddress)
               PROVE  returned = service
    BY DEF IInv, AddressIsServed
  <2> QED
    BY DEF Origin
<1> QED
  BY <1>1, InvariantHolds, PTL
=============================================================================
