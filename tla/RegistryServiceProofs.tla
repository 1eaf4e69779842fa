----------------------- MODULE RegistryServiceProofs -----------------------
(***************************************************************************)
(* Proofs about RegistryService, for any number of connections, events,    *)
(* starts and stops, and for contexts of any length.                       *)
(*                                                                         *)
(* The safety invariants are not inductive by themselves: what a handler   *)
(* finds depends on the sources attached before it.  IInv adds what holds  *)
(* of those sources: a connection is announced once, a call or signal that *)
(* still has its handler comes from a client, a close from a closed        *)
(* connection, a signal that had to wait is for a client accepted late, at *)
(* most the first source of the default context is an onClosedConnection   *)
(* under way, and what that has forgotten has no source left.              *)
(***************************************************************************)
EXTENDS RegistryService, SequenceTheorems, FiniteSetTheorems, TLAPS

\* The sources q of the D-Bus context, given the clients cs, the registered
\* events ls and the connections' states cn.
QueueInv(q, cs, ls, cn) ==
    /\ \A i \in DOMAIN q :
          /\ cn[q[i].conn] # "none"
          /\ q[i].kind = "new" => q[i].conn \notin cs
          /\ q[i].kind \in HandlerKinds => q[i].conn \in cs
          /\ q[i].kind = "signal" => q[i].event \in ls
          /\ q[i].kind = "closed" => cn[q[i].conn] = "closed"
    /\ \A i, j \in DOMAIN q :
          i # j /\ q[i].kind = "new" /\ q[j].kind = "new"
             => q[i].conn # q[j].conn

\* No source of q announces c.
NotAnnounced(q, c) ==
    \A i \in DOMAIN q : q[i].kind = "new" => q[i].conn # c

\* No source of q is what onClosedConnection, at the call, has done with for c.
Drained(q, c, call) ==
    \A i \in DOMAIN q : q[i].conn = c =>
        /\ q[i].kind # "new"
        /\ call \in Forgotten => q[i].kind # "signal"
        /\ call \in {"unregisterDBusInterfaces", "remove"}
              => q[i].kind # "getEvents"
        /\ call = "remove" => q[i].kind # "hello"

\* Every source of q2 that these two speak of is one of q.
Fewer(q, q2) ==
    \A i \in DOMAIN q2 :
        q2[i].kind \in HandlerKinds \cup {"new"}
           => \E j \in DOMAIN q : q2[i] = q[j]

\* The sources mq of the default context, given also those of the D-Bus
\* context and the clients lt that were accepted late.
MainInv(mq, q, cs, lt, cn) ==
    \A i \in DOMAIN mq :
        /\ cn[mq[i].conn] # "none"
        /\ mq[i].kind \in CloseKinds
              => cn[mq[i].conn] = "closed"
        /\ mq[i].kind \in EmitKinds
              => \/ mq[i].conn \in lt
                 \/ mq[i].conn \notin cs /\ NotAnnounced(q, mq[i].conn)
        /\ mq[i].kind \in InPlaceKinds
              => i = 1 /\ Drained(q, mq[i].conn, mq[i].kind)

ClientInv ==
    /\ late \subseteq clients
    /\ ~active => clients = late
    /\ \A c \in clients : conn[c] # "none"
    /\ \A c \in Connections :
          c \in asked \/ told[c] # {} => c \in clients /\ conn[c] = "open"

\* A connection that has a "closed" handler was announced.
WatchedInv ==
    \A c \in watched : conn[c] # "none" /\ NotAnnounced(queue, c)

SubscriptionInv ==
    /\ SubscriptionsMatchListeners
    /\ \A e \in eventListeners : clients \ InPlace(Forgotten) \subseteq registrationIds[e]
    /\ \A e \in Events : \A c \in subscribed[e] :
          conn[c] # "none" /\ (conn[c] = "open" => c \in clients)

IInv ==
    /\ TypeOK
    /\ RegistrationsMatchClients
    /\ SubscriptionInv
    /\ DispatchedSourcesAreExpected
    /\ ClientsKnowTheEvents
    /\ ClientInv
    /\ QueueInv(queue, clients, eventListeners, conn)
    /\ MainInv(mainQueue, queue, clients, late, conn)
    /\ WatchedInv

----------------------------------------------------------------------------
(* Sequences of sources.                                                   *)

\* Dispatching the first source leaves the others, in order.
LEMMA TailElements ==
    ASSUME NEW S, NEW q \in Seq(S), q # <<>>
    PROVE  /\ Head(q) \in S
           /\ 1 \in DOMAIN q /\ Head(q) = q[1]
           /\ Tail(q) \in Seq(S)
           /\ \A i \in DOMAIN Tail(q) :
                 i + 1 \in DOMAIN q /\ i + 1 # 1 /\ Tail(q)[i] = q[i + 1]
           /\ \A i, j \in DOMAIN Tail(q) : i # j => i + 1 # j + 1
<1>1. Head(q) \in S /\ Tail(q) \in Seq(S) /\ Len(q) \in Nat /\ Len(q) > 0
      /\ Len(Tail(q)) = Len(q) - 1
  BY HeadTailProperties, EmptySeq, LenProperties
<1>2. DOMAIN q = 1 .. Len(q) /\ DOMAIN Tail(q) = 1 .. Len(q) - 1
  BY <1>1, LenProperties
<1>3. Head(q) = q[1]
  OBVIOUS
<1>4. \A i \in 1 .. Len(Tail(q)) : Tail(q)[i] = q[i + 1]
  BY HeadTailProperties
<1> QED
  BY <1>1, <1>2, <1>3, <1>4

\* Where the sources behind the first one are afterwards.
LEMMA TailPlaces ==
    ASSUME NEW S, NEW q \in Seq(S), q # <<>>
    PROVE  /\ \A i \in DOMAIN Tail(q) : i \in Nat /\ i # 0
           /\ \A i \in DOMAIN q : i \in Nat /\ (i = 1 \/ i - 1 \in DOMAIN Tail(q))
<1>1. /\ Tail(q) \in Seq(S) /\ Len(q) \in Nat
      /\ Len(Tail(q)) = Len(q) - 1
  BY HeadTailProperties, EmptySeq, LenProperties
<1>2. DOMAIN q = 1 .. Len(q) /\ DOMAIN Tail(q) = 1 .. Len(q) - 1
  BY <1>1, LenProperties
<1> QED
  BY <1>1, <1>2

\* Attaching a source adds it behind the others.
LEMMA AppendElements ==
    ASSUME NEW S, NEW q \in Seq(S), NEW x \in S
    PROVE  /\ Append(q, x) \in Seq(S)
           /\ \A i \in DOMAIN Append(q, x) :
                 \/ i \in DOMAIN q /\ Append(q, x)[i] = q[i]
                 \/ i = Len(q) + 1 /\ i \notin DOMAIN q /\ Append(q, x)[i] = x
<1>1. /\ Append(q, x) \in Seq(S)
      /\ Len(Append(q, x)) = Len(q) + 1 /\ Len(q) \in Nat
      /\ \A i \in 1 .. Len(q) : Append(q, x)[i] = q[i]
      /\ Append(q, x)[Len(q) + 1] = x
  BY AppendProperties, LenProperties
<1>2. DOMAIN q = 1 .. Len(q) /\ DOMAIN Append(q, x) = 1 .. Len(q) + 1
  BY <1>1, LenProperties
<1> QED
  BY <1>1, <1>2

\* A source takes the place of the first.
LEMMA ReplaceFirst ==
    ASSUME NEW S, NEW q \in Seq(S), q # <<>>, NEW x \in S
    PROVE  /\ [q EXCEPT ![1] = x] \in Seq(S)
           /\ DOMAIN [q EXCEPT ![1] = x] = DOMAIN q
           /\ [q EXCEPT ![1] = x][1] = x
           /\ \A i \in DOMAIN q : i # 1 => [q EXCEPT ![1] = x][i] = q[i]
<1>1. /\ Len(q) \in Nat /\ DOMAIN q = 1 .. Len(q) /\ 1 \in DOMAIN q
      /\ \A i \in 1 .. Len(q) : q[i] \in S
  BY TailElements, LenProperties, ElementOfSeq
<1>2. [q EXCEPT ![1] = x] \in [1 .. Len(q) -> S]
  BY <1>1
<1>3. [q EXCEPT ![1] = x] \in Seq(S)
  BY <1>1, <1>2, SeqDef
<1> QED
  BY <1>1, <1>2, <1>3

\* A concatenation holds the elements of its parts.
LEMMA ConcatElements ==
    ASSUME NEW S, NEW s \in Seq(S), NEW t \in Seq(S)
    PROVE  /\ s \o t \in Seq(S)
           /\ \A i \in DOMAIN (s \o t) :
                 \/ i \in DOMAIN s /\ (s \o t)[i] = s[i]
                 \/ \E j \in DOMAIN t : (s \o t)[i] = t[j]
<1>1. /\ s \o t \in Seq(S)
      /\ Len(s \o t) = Len(s) + Len(t)
      /\ \A i \in 1 .. Len(s) + Len(t) :
            (s \o t)[i] = IF i <= Len(s) THEN s[i] ELSE t[i - Len(s)]
  BY ConcatProperties
<1>2. /\ Len(s) \in Nat /\ DOMAIN s = 1 .. Len(s)
      /\ Len(t) \in Nat /\ DOMAIN t = 1 .. Len(t)
      /\ DOMAIN (s \o t) = 1 .. Len(s) + Len(t)
  BY <1>1, LenProperties
<1>3. ASSUME NEW i \in DOMAIN (s \o t), ~(i <= Len(s))
      PROVE  i - Len(s) \in DOMAIN t /\ (s \o t)[i] = t[i - Len(s)]
  BY <1>1, <1>2, <1>3
<1>4. ASSUME NEW i \in DOMAIN (s \o t), i <= Len(s)
      PROVE  i \in DOMAIN s /\ (s \o t)[i] = s[i]
  BY <1>1, <1>2, <1>4
<1> QED
  BY <1>1, <1>3, <1>4

\* Cancelling keeps every source in its place and with its connection.
LEMMA CancelSourcesElements ==
    ASSUME NEW q \in Seq(QueueSources), NEW kinds, NEW cs
    PROVE  /\ CancelSources(q, kinds, cs) \in Seq(QueueSources)
           /\ DOMAIN CancelSources(q, kinds, cs) = DOMAIN q
           /\ \A i \in DOMAIN q :
                 \/ /\ q[i].kind \in kinds /\ q[i].conn \in cs
                    /\ CancelSources(q, kinds, cs)[i].kind = "dead"
                    /\ CancelSources(q, kinds, cs)[i].conn = q[i].conn
                 \/ /\ ~(q[i].kind \in kinds /\ q[i].conn \in cs)
                    /\ CancelSources(q, kinds, cs)[i] = q[i]
<1>1. Len(q) \in Nat /\ DOMAIN q = 1 .. Len(q)
      /\ \A i \in 1 .. Len(q) : q[i] \in QueueSources
  BY LenProperties, ElementOfSeq
<1>2. \A i \in 1 .. Len(q) :
         Source("dead", q[i].conn, NoEvent) \in QueueSources
  BY <1>1 DEF Source, Sources, QueueSources
<1>3. CancelSources(q, kinds, cs) \in [1 .. Len(q) -> QueueSources]
  BY <1>1, <1>2 DEF CancelSources
<1>4. CancelSources(q, kinds, cs) \in Seq(QueueSources)
  BY <1>1, <1>3, SeqDef
<1> QED
  BY <1>1, <1>3, <1>4 DEF CancelSources, Source

LEMMA CancelSignalElements ==
    ASSUME NEW q \in Seq(QueueSources), NEW cs, NEW e
    PROVE  /\ CancelSignal(q, cs, e) \in Seq(QueueSources)
           /\ DOMAIN CancelSignal(q, cs, e) = DOMAIN q
           /\ \A i \in DOMAIN q :
                 \/ /\ q[i].kind = "signal" /\ q[i].event = e /\ q[i].conn \in cs
                    /\ CancelSignal(q, cs, e)[i].kind = "dead"
                    /\ CancelSignal(q, cs, e)[i].conn = q[i].conn
                 \/ /\ ~(q[i].kind = "signal" /\ q[i].event = e /\ q[i].conn \in cs)
                    /\ CancelSignal(q, cs, e)[i] = q[i]
<1>1. Len(q) \in Nat /\ DOMAIN q = 1 .. Len(q)
      /\ \A i \in 1 .. Len(q) : q[i] \in QueueSources
  BY LenProperties, ElementOfSeq
<1>2. \A i \in 1 .. Len(q) :
         Source("dead", q[i].conn, NoEvent) \in QueueSources
  BY <1>1 DEF Source, Sources, QueueSources
<1>3. CancelSignal(q, cs, e) \in [1 .. Len(q) -> QueueSources]
  BY <1>1, <1>2 DEF CancelSignal
<1>4. CancelSignal(q, cs, e) \in Seq(QueueSources)
  BY <1>1, <1>3, SeqDef
<1> QED
  BY <1>1, <1>3, <1>4 DEF CancelSignal, Source

----------------------------------------------------------------------------
(* How each change of the D-Bus context keeps QueueInv.                    *)

LEMMA QueueInvTail ==
    ASSUME NEW S, NEW q \in Seq(S), q # <<>>,
           NEW cs, NEW ls, NEW cn, QueueInv(q, cs, ls, cn)
    PROVE  QueueInv(Tail(q), cs, ls, cn)
<1>1. /\ \A i \in DOMAIN Tail(q) :
            i + 1 \in DOMAIN q /\ Tail(q)[i] = q[i + 1]
      /\ \A i, j \in DOMAIN Tail(q) : i # j => i + 1 # j + 1
  BY TailElements
<1> DEFINE r == Tail(q)
<1> HIDE DEF r
<1>2. ASSUME NEW i \in DOMAIN r
      PROVE  \E k \in DOMAIN q : r[i] = q[k]
  BY <1>1 DEF r
<1>3. ASSUME NEW i \in DOMAIN r, NEW j \in DOMAIN r, i # j,
             r[i].kind = "new", r[j].kind = "new"
      PROVE  r[i].conn # r[j].conn
  <2>1. PICK k \in DOMAIN q, l \in DOMAIN q : k # l /\ r[i] = q[k] /\ r[j] = q[l]
    BY <1>1, <1>3 DEF r
  <2> QED
    BY <2>1, <1>3 DEF QueueInv
<1>4. ASSUME NEW i \in DOMAIN r
      PROVE  /\ cn[r[i].conn] # "none"
             /\ r[i].kind = "new" => r[i].conn \notin cs
             /\ r[i].kind \in HandlerKinds => r[i].conn \in cs
             /\ r[i].kind = "signal" => r[i].event \in ls
             /\ r[i].kind = "closed" => cn[r[i].conn] = "closed"
  <2>1. PICK k \in DOMAIN q : r[i] = q[k]
    BY <1>2
  <2> QED
    BY <2>1 DEF QueueInv
<1>5. QueueInv(r, cs, ls, cn)
  BY <1>3, <1>4 DEF QueueInv
<1> QED
  BY <1>5 DEF r

LEMMA QueueInvAppend ==
    ASSUME NEW S, NEW q \in Seq(S), NEW x \in S,
           NEW cs, NEW ls, NEW cn, QueueInv(q, cs, ls, cn),
           cn[x.conn] # "none",
           x.kind = "new" => x.conn \notin cs /\ NotAnnounced(q, x.conn),
           x.kind \in HandlerKinds => x.conn \in cs,
           x.kind = "signal" => x.event \in ls,
           x.kind = "closed" => cn[x.conn] = "closed"
    PROVE  QueueInv(Append(q, x), cs, ls, cn)
<1>1. \A i \in DOMAIN Append(q, x) :
         \/ i \in DOMAIN q /\ Append(q, x)[i] = q[i]
         \/ i = Len(q) + 1 /\ i \notin DOMAIN q /\ Append(q, x)[i] = x
  BY AppendElements
<1> DEFINE r == Append(q, x)
<1> HIDE DEF r
<1>2. ASSUME NEW i \in DOMAIN r, NEW j \in DOMAIN r, i # j,
             r[i].kind = "new", r[j].kind = "new"
      PROVE  r[i].conn # r[j].conn
  <2>1. CASE i \in DOMAIN q /\ j \in DOMAIN q
    BY <1>1, <1>2, <2>1 DEF QueueInv, r
  <2>2. CASE i \notin DOMAIN q
    BY <1>1, <1>2, <2>2 DEF NotAnnounced, r
  <2>3. CASE j \notin DOMAIN q
    BY <1>1, <1>2, <2>3 DEF NotAnnounced, r
  <2> QED
    BY <2>1, <2>2, <2>3
<1>3. QueueInv(r, cs, ls, cn)
  BY <1>1, <1>2 DEF QueueInv, r
<1> QED
  BY <1>3 DEF r

LEMMA QueueInvCancelSources ==
    ASSUME NEW q \in Seq(QueueSources), NEW kinds, NEW X,
           NEW cs, NEW ls, NEW cn, QueueInv(q, cs, ls, cn),
           NEW cs2 \in SUBSET cs,
           \A i \in DOMAIN q : q[i].kind \in HandlerKinds /\ q[i].conn \notin cs2
                                 => q[i].kind \in kinds /\ q[i].conn \in X
    PROVE  QueueInv(CancelSources(q, kinds, X), cs2, ls, cn)
<1> DEFINE r == CancelSources(q, kinds, X)
<1>1. /\ DOMAIN r = DOMAIN q
      /\ \A i \in DOMAIN q :
            \/ /\ q[i].kind \in kinds /\ q[i].conn \in X
               /\ r[i].kind = "dead" /\ r[i].conn = q[i].conn
            \/ ~(q[i].kind \in kinds /\ q[i].conn \in X) /\ r[i] = q[i]
  BY CancelSourcesElements
<1> HIDE DEF r
<1>2. ASSUME NEW i \in DOMAIN r
      PROVE  /\ cn[r[i].conn] # "none"
             /\ r[i].kind = "new" => r[i].conn \notin cs2
             /\ r[i].kind \in HandlerKinds => r[i].conn \in cs2
             /\ r[i].kind = "signal" => r[i].event \in ls
             /\ r[i].kind = "closed" => cn[r[i].conn] = "closed"
  BY <1>1 DEF QueueInv, HandlerKinds, CallKinds
<1>3. ASSUME NEW i \in DOMAIN r, NEW j \in DOMAIN r, i # j,
             r[i].kind = "new", r[j].kind = "new"
      PROVE  r[i].conn # r[j].conn
  <2>1. r[i] = q[i] /\ r[j] = q[j] /\ i \in DOMAIN q /\ j \in DOMAIN q
    BY <1>1, <1>3
  <2> QED
    BY <1>3, <2>1 DEF QueueInv
<1>4. QueueInv(r, cs2, ls, cn)
  BY <1>2, <1>3 DEF QueueInv
<1> QED
  BY <1>4 DEF r

LEMMA QueueInvCancelSignal ==
    ASSUME NEW q \in Seq(QueueSources), NEW X, NEW e,
           NEW cs, NEW ls, NEW cn, QueueInv(q, cs, ls, cn),
           \A i \in DOMAIN q :
              q[i].kind = "signal" /\ q[i].event = e => q[i].conn \in X
    PROVE  QueueInv(CancelSignal(q, X, e), cs, ls \ {e}, cn)
<1> DEFINE r == CancelSignal(q, X, e)
<1>1. /\ DOMAIN r = DOMAIN q
      /\ \A i \in DOMAIN q :
            \/ /\ q[i].kind = "signal" /\ q[i].event = e /\ q[i].conn \in X
               /\ r[i].kind = "dead" /\ r[i].conn = q[i].conn
            \/ /\ ~(q[i].kind = "signal" /\ q[i].event = e /\ q[i].conn \in X)
               /\ r[i] = q[i]
  BY CancelSignalElements
<1> HIDE DEF r
<1>2. ASSUME NEW i \in DOMAIN r
      PROVE  /\ cn[r[i].conn] # "none"
             /\ r[i].kind = "new" => r[i].conn \notin cs
             /\ r[i].kind \in HandlerKinds => r[i].conn \in cs
             /\ r[i].kind = "signal" => r[i].event \in ls \ {e}
             /\ r[i].kind = "closed" => cn[r[i].conn] = "closed"
  BY <1>1 DEF QueueInv, HandlerKinds, CallKinds
<1>3. ASSUME NEW i \in DOMAIN r, NEW j \in DOMAIN r, i # j,
             r[i].kind = "new", r[j].kind = "new"
      PROVE  r[i].conn # r[j].conn
  <2>1. r[i] = q[i] /\ r[j] = q[j] /\ i \in DOMAIN q /\ j \in DOMAIN q
    BY <1>1, <1>3
  <2> QED
    BY <1>3, <2>1 DEF QueueInv
<1>4. QueueInv(r, cs, ls \ {e}, cn)
  BY <1>2, <1>3 DEF QueueInv
<1> QED
  BY <1>4 DEF r

----------------------------------------------------------------------------
(* Type correctness.                                                       *)

\* The sources emitSignal leaves on the default context, one for each client.
LEMMA EmittedSources ==
    ASSUME TypeOK, NEW kind \in EmitKinds, NEW e \in Events,
           NEW order \in Visits(clients)
    PROVE  LET new == [i \in DOMAIN order |-> Source(kind, order[i], e)]
           IN  /\ new \in Seq(MainSources)
               /\ \A i \in DOMAIN new : \E c \in clients : new[i] = Source(kind, c, e)
               /\ \A c \in clients : \E i \in DOMAIN new : new[i] = Source(kind, c, e)
<1>1. IsFiniteSet(clients) /\ Cardinality(clients) \in Nat
  BY ConnectionsFinite, FS_Subset, FS_CardinalityType DEF TypeOK
<1>2. order \in [1 .. Cardinality(clients) -> clients]
  BY DEF Visits
<1>3. \A i \in DOMAIN order : Source(kind, order[i], e) \in MainSources
  BY <1>2 DEF Source, Sources, MainSources, TypeOK
<1>4. [i \in DOMAIN order |-> Source(kind, order[i], e)]
         \in [1 .. Cardinality(clients) -> MainSources]
  BY <1>2, <1>3
<1>5. [i \in DOMAIN order |-> Source(kind, order[i], e)]
         \in Seq(MainSources)
  BY <1>1, <1>4, SeqDef
<1>6. \A i \in DOMAIN order : order[i] \in clients
  BY <1>2
<1>7. \A c \in clients : \E i \in DOMAIN order : order[i] = c
  BY DEF Visits
<1> QED
  BY <1>5, <1>6, <1>7

LEMMA EmitSignalsType ==
    ASSUME TypeOK, NEW kind \in EmitKinds,
           NEW e \in Events, EmitSignals(kind, e)
    PROVE  /\ told' \in [Connections -> SUBSET ({OWN_ID, SERVER_ID} \X Events)]
           /\ mainQueue' \in Seq(MainSources)
           /\ overtaken' \in SUBSET Connections
<1>1. CASE active
  BY <1>1 DEF EmitSignals, TypeOK, Hears
<1>2. CASE ~active
  <2>1. PICK order \in Visits(clients) :
           mainQueue' = mainQueue \o
                        [i \in DOMAIN order |-> Source(kind, order[i], e)]
    BY <1>2 DEF EmitSignals
  <2>2. [i \in DOMAIN order |-> Source(kind, order[i], e)]
           \in Seq(MainSources)
    BY EmittedSources
  <2>3. mainQueue' \in Seq(MainSources)
    BY <2>1, <2>2, ConcatElements DEF TypeOK
  <2> QED
    BY <1>2, <2>3 DEF EmitSignals, TypeOK
<1> QED
  BY <1>1, <1>2

LEMMA ForgetConnectionsType ==
    ASSUME TypeOK, NEW cs \in SUBSET Connections,
           NEW q \in Seq(QueueSources), ForgetConnections(cs, q)
    PROVE  /\ registrationIds' \in [Events -> SUBSET Connections]
           /\ subscribed' \in [Events -> SUBSET Connections]
           /\ registryRegistrationId' \in SUBSET Connections
           /\ dbusRegistrationId' \in SUBSET Connections
           /\ queue' \in Seq(QueueSources)
           /\ fault' \in Faults \cup {NoFault}
<1>1. queue' \in Seq(QueueSources)
  BY CancelSourcesElements DEF ForgetConnections
<1> QED
  BY <1>1 DEF ForgetConnections, TypeOK, Faults

LEMMA OnClosedConnectionType ==
    ASSUME TypeOK, NEW c \in Connections, NEW q \in Seq(QueueSources),
           OnClosedConnection(c, q)
    PROVE  /\ registrationIds' \in [Events -> SUBSET Connections]
           /\ subscribed' \in [Events -> SUBSET Connections]
           /\ registryRegistrationId' \in SUBSET Connections
           /\ dbusRegistrationId' \in SUBSET Connections
           /\ queue' \in Seq(QueueSources)
           /\ fault' \in Faults \cup {NoFault}
           /\ clients' \in SUBSET Connections
           /\ late' \in SUBSET Connections
<1>1. CASE ~active
  BY <1>1 DEF OnClosedConnection, TypeOK
<1>2. CASE active
  <2>1. ForgetConnections({c}, q) /\ clients' = clients \ {c}
        /\ late' = late \ {c}
    BY <1>2 DEF OnClosedConnection
  <2> QED
    BY <2>1, ForgetConnectionsType DEF TypeOK
<1> QED
  BY <1>1, <1>2

\* Every reachable state has its type: also the sources that wait in the
\* contexts are well formed, whatever the handlers before them did.
THEOREM TypeCorrect == Spec => []TypeOK
<1>1. Init => TypeOK
  BY EmptySeq DEF Init, TypeOK, Faults
<1>2. TypeOK /\ [Next]_vars => TypeOK'
  <2> SUFFICES ASSUME TypeOK, [Next]_vars
               PROVE  TypeOK'
    OBVIOUS
  <2>1. ASSUME UNCHANGED vars
        PROVE  TypeOK'
    BY <2>1 DEF vars, serviceVars, gdbusVars, clientVars, historyVars, TypeOK
  <2>2. ASSUME Start
        PROVE  TypeOK'
    BY <2>2 DEF Start, gdbusVars, clientVars, historyVars, TypeOK
  <2>3. ASSUME Stop
        PROVE  TypeOK'
    <3>1. ForgetConnections(clients, queue) /\ clients \in SUBSET Connections
          /\ queue \in Seq(QueueSources)
      BY <2>3 DEF Stop, TypeOK
    <3>2. /\ registrationIds' \in [Events -> SUBSET Connections]
          /\ subscribed' \in [Events -> SUBSET Connections]
          /\ registryRegistrationId' \in SUBSET Connections
          /\ dbusRegistrationId' \in SUBSET Connections
          /\ queue' \in Seq(QueueSources)
          /\ fault' \in Faults \cup {NoFault}
      BY <3>1, ForgetConnectionsType
    <3> QED
      BY <2>3, <3>2 DEF Stop, ForgetKnowledge, TypeOK
  <2>4. ASSUME NEW e \in Events, RegisterEventListener(e)
        PROVE  TypeOK'
    <3>0. "registered" \in EmitKinds /\ EmitSignals("registered", e)
      BY <2>4 DEF RegisterEventListener, EmitKinds
    <3>1. told' \in [Connections -> SUBSET ({OWN_ID, SERVER_ID} \X Events)]
          /\ mainQueue' \in Seq(MainSources)
          /\ overtaken' \in SUBSET Connections
      BY <3>0, EmitSignalsType
    <3>2. /\ registrationIds' \in [Events -> SUBSET Connections]
          /\ subscribed' \in [Events -> SUBSET Connections]
          /\ resubscribed' \in SUBSET Connections
      BY <2>4 DEF RegisterEventListener, SubscribeSignalsPending, TypeOK
    <3> QED
      BY <2>4, <3>1, <3>2 DEF RegisterEventListener, TypeOK
  <2>5. ASSUME NEW e \in Events, UnregisterEventListener(e)
        PROVE  TypeOK'
    <3>0. "deregistered" \in EmitKinds /\ EmitSignals("deregistered", e)
      BY <2>5 DEF UnregisterEventListener, EmitKinds
    <3>1. told' \in [Connections -> SUBSET ({OWN_ID, SERVER_ID} \X Events)]
          /\ mainQueue' \in Seq(MainSources)
          /\ overtaken' \in SUBSET Connections
      BY <3>0, EmitSignalsType
    <3>2. queue' \in Seq(QueueSources)
      BY <2>5, CancelSignalElements DEF UnregisterEventListener, TypeOK
    <3>3. /\ registrationIds' \in [Events -> SUBSET Connections]
          /\ subscribed' \in [Events -> SUBSET Connections]
          /\ resubscribed' \in SUBSET Connections
          /\ eventListeners' \in SUBSET Events
      BY <2>5 DEF UnregisterEventListener, TypeOK
    <3>4. fault' \in Faults \cup {NoFault}
      BY <2>5 DEF UnregisterEventListener, TypeOK, Faults
    <3> QED
      BY <2>5, <3>1, <3>2, <3>3, <3>4 DEF UnregisterEventListener, TypeOK
  <2>6. ASSUME queue # <<>>
        PROVE  /\ Head(queue) \in QueueSources
               /\ Tail(queue) \in Seq(QueueSources)
               /\ Head(queue).conn \in Connections
    <3>1. Head(queue) \in QueueSources
          /\ Tail(queue) \in Seq(QueueSources)
      BY <2>6, TailElements DEF TypeOK
    <3> QED
      BY <3>1 DEF Sources, QueueSources, MainSources
  <2>7. ASSUME OnNewConnection
        PROVE  TypeOK'
    <3>1. queue # <<>> /\ Head(queue).conn \in Connections
          /\ Tail(queue) \in Seq(QueueSources)
      BY <2>6, <2>7 DEF OnNewConnection, Dispatches
    <3>2. /\ clients' \in SUBSET Connections
          /\ late' \in SUBSET Connections
          /\ watched' \in SUBSET Connections
          /\ dbusRegistrationId' \in SUBSET Connections
          /\ registryRegistrationId' \in SUBSET Connections
          /\ fault' \in Faults \cup {NoFault}
      BY <2>7, <3>1 DEF OnNewConnection, TypeOK, Faults
    <3>3. /\ registrationIds' \in [Events -> SUBSET Connections]
          /\ subscribed' \in [Events -> SUBSET Connections]
          /\ resubscribed' \in SUBSET Connections
      BY <2>7, <3>2 DEF OnNewConnection, SubscribeSignalsPending, TypeOK
    <3> QED
      BY <2>7, <3>1, <3>2, <3>3 DEF OnNewConnection, TypeOK, clientVars
  <2>8. ASSUME OnClosedConnectionPosted
        PROVE  TypeOK'
    <3>1. OnClosedConnection(Head(queue).conn, Tail(queue))
          /\ Head(queue).conn \in Connections
          /\ Tail(queue) \in Seq(QueueSources)
      BY <2>6, <2>8 DEF OnClosedConnectionPosted, Dispatches
    <3> QED
      BY <2>8, <3>1, OnClosedConnectionType DEF OnClosedConnectionPosted, TypeOK,
                                                         clientVars
  <2>9. ASSUME HandleDBusHello
        PROVE  TypeOK'
    BY <2>6, <2>9 DEF HandleDBusHello, Dispatches, TypeOK, Faults, clientVars, historyVars
  <2>10. ASSUME HandleAtspi2GetRegisteredEvents
         PROVE  TypeOK'
    <3>1. queue # <<>> /\ Head(queue).conn \in Connections
          /\ Tail(queue) \in Seq(QueueSources)
      BY <2>6, <2>10 DEF HandleAtspi2GetRegisteredEvents, Dispatches
    <3>2. fault' \in Faults \cup {NoFault} /\ asked' \in SUBSET Connections
      BY <2>10, <3>1 DEF HandleAtspi2GetRegisteredEvents, TypeOK, Faults, clientVars
    <3>3. {OWN_ID} \X eventListeners \subseteq {OWN_ID, SERVER_ID} \X Events
      BY DEF TypeOK
    <3>4. told' \in [Connections -> SUBSET ({OWN_ID, SERVER_ID} \X Events)]
      BY <2>10, <3>1, <3>3 DEF HandleAtspi2GetRegisteredEvents, TypeOK, clientVars
    <3> QED
      BY <2>10, <3>1, <3>2, <3>4 DEF HandleAtspi2GetRegisteredEvents, TypeOK,
                                     historyVars
  <2>11. ASSUME OnSignal
         PROVE  TypeOK'
    BY <2>6, <2>11 DEF OnSignal, Dispatches, TypeOK, Faults, clientVars, historyVars
  <2>12. ASSUME DropCancelled
         PROVE  TypeOK'
    BY <2>6, <2>12 DEF DropCancelled, Dispatches, TypeOK, serviceVars,
                       clientVars, historyVars
  <2>13. ASSUME mainQueue # <<>>
         PROVE  /\ Head(mainQueue) \in MainSources
                /\ Tail(mainQueue) \in Seq(MainSources)
                /\ Head(mainQueue).conn \in Connections
    <3>1. Head(mainQueue) \in MainSources
          /\ Tail(mainQueue) \in Seq(MainSources)
      BY <2>13, TailElements DEF TypeOK
    <3> QED
      BY <3>1 DEF Sources, QueueSources, MainSources
  <2>14. ASSUME OnClosedConnectionWrapper
         PROVE  TypeOK'
    <3> DEFINE c == Head(mainQueue).conn
    <3>1. mainQueue # <<>> /\ c \in Connections /\ Tail(mainQueue) \in Seq(MainSources)
      BY <2>13, <2>14 DEF OnClosedConnectionWrapper, NextMain
    <3>2. Source("closed", c, NoEvent) \in QueueSources
          /\ Source("closedNow", c, NoEvent) \in MainSources
      BY <3>1 DEF Source, Sources, QueueSources, MainSources, CloseKinds, InPlaceKinds
    <3>3. Append(queue, Source("closed", c, NoEvent))
             \in Seq(QueueSources)
      BY <3>2, AppendElements DEF TypeOK
    <3>4. [mainQueue EXCEPT ![1] = Source("closedNow", c, NoEvent)]
             \in Seq(MainSources)
      BY <3>1, <3>2, ReplaceFirst DEF TypeOK
    <3>5. queue' \in Seq(QueueSources)
          /\ mainQueue' \in Seq(MainSources)
      BY <2>14, <3>1, <3>3, <3>4 DEF OnClosedConnectionWrapper, TypeOK
    <3> QED
      BY <2>14, <3>5 DEF OnClosedConnectionWrapper, TypeOK, serviceVars,
                         clientVars, historyVars
  <2>15a. ASSUME NEW call, NEW next \in InPlaceKinds, InPlaceCall(call, next)
          PROVE  /\ mainQueue' \in Seq(MainSources)
                 /\ Head(mainQueue).conn \in Connections
    <3>1. mainQueue # <<>> /\ Head(mainQueue).conn \in Connections
      BY <2>13, <2>15a DEF InPlaceCall, NextMain
    <3>2. Source(next, Head(mainQueue).conn, NoEvent) \in MainSources
      BY <3>1 DEF Source, Sources, MainSources, CloseKinds
    <3> QED
      BY <2>15a, <3>1, <3>2, ReplaceFirst DEF InPlaceCall, TypeOK
  <2>15b. InPlaceKinds = {"closedNow", "unsubscribeSignalsActive",
                          "unregisterRegistryInterfaces",
                          "unregisterDBusInterfaces", "remove"}
    BY DEF InPlaceKinds, Forgotten
  <2>15. ASSUME OnClosedConnectionInPlace
         PROVE  TypeOK'
    <3>1. mainQueue' \in Seq(MainSources)
      BY <2>13, <2>15, <2>15a, <2>15b DEF OnClosedConnectionInPlace, NextMain
    <3> QED
      BY <2>15, <3>1 DEF OnClosedConnectionInPlace, TypeOK, serviceVars,
                         clientVars, historyVars
  <2>15c. ASSUME UnsubscribeSignalsActive
          PROVE  TypeOK'
    <3>1. mainQueue' \in Seq(MainSources)
      BY <2>15a, <2>15b, <2>15c DEF UnsubscribeSignalsActive
    <3>2. queue' \in Seq(QueueSources)
      BY <2>15c, CancelSourcesElements DEF UnsubscribeSignalsActive, TypeOK
    <3> QED
      BY <2>15c, <3>1, <3>2 DEF UnsubscribeSignalsActive, TypeOK, clientVars,
                                historyVars
  <2>15d. ASSUME UnregisterRegistryInterfaces
          PROVE  TypeOK'
    <3>1. mainQueue' \in Seq(MainSources)
      BY <2>15a, <2>15b, <2>15d DEF UnregisterRegistryInterfaces
    <3>2. queue' \in Seq(QueueSources)
      BY <2>15d, CancelSourcesElements DEF UnregisterRegistryInterfaces, TypeOK
    <3> QED
      BY <2>15d, <3>1, <3>2 DEF UnregisterRegistryInterfaces, TypeOK, Faults,
                                clientVars, historyVars
  <2>15e. ASSUME UnregisterDBusInterfaces
          PROVE  TypeOK'
    <3>1. mainQueue' \in Seq(MainSources)
      BY <2>15a, <2>15b, <2>15e DEF UnregisterDBusInterfaces
    <3>2. queue' \in Seq(QueueSources)
      BY <2>15e, CancelSourcesElements DEF UnregisterDBusInterfaces, TypeOK
    <3> QED
      BY <2>15e, <3>1, <3>2 DEF UnregisterDBusInterfaces, TypeOK, Faults,
                                clientVars, historyVars
  <2>15f. ASSUME Remove
          PROVE  TypeOK'
    BY <2>13, <2>15f DEF Remove, NextMain, TypeOK, clientVars, historyVars
  <2>16. ASSUME EmitSignalLater
         PROVE  TypeOK'
    <3> DEFINE s == Head(mainQueue)
    <3>1. s \in MainSources /\ s.kind \in EmitKinds
          /\ Tail(mainQueue) \in Seq(MainSources)
      BY <2>13, <2>16 DEF EmitSignalLater, NextMain
    <3>2. s.event \in Events /\ s.conn \in Connections
      BY <3>1 DEF MainSources, Sources, EmitKinds, CloseKinds, InPlaceKinds,
                  Forgotten
    <3>3. told' \in [Connections -> SUBSET ({OWN_ID, SERVER_ID} \X Events)]
      BY <2>16, <3>2 DEF EmitSignalLater, Hears, TypeOK
    <3> QED
      BY <2>16, <3>1, <3>3 DEF EmitSignalLater, TypeOK, Faults, historyVars
  <2>17. ASSUME NEW c \in Connections, Connect(c)
         PROVE  TypeOK'
    <3>1. Source("new", c, NoEvent) \in QueueSources
      BY DEF Source, Sources, QueueSources
    <3>2. queue' \in Seq(QueueSources)
      BY <2>17, <3>1, AppendElements DEF Connect, TypeOK
    <3> QED
      BY <2>17, <3>2 DEF Connect, TypeOK, serviceVars, clientVars, historyVars
  <2>18. ASSUME NEW c \in Connections, PeerCloses(c)
         PROVE  TypeOK'
    <3>1. Source("closedSignal", c, NoEvent) \in MainSources
      BY DEF Source, Sources, MainSources, CloseKinds
    <3>2. mainQueue' \in Seq(MainSources)
      BY <2>18, <3>1, AppendElements DEF PeerCloses, TypeOK
    <3> QED
      BY <2>18, <3>2 DEF PeerCloses, ForgetKnowledge, TypeOK, serviceVars
  <2>19. ASSUME NEW c \in Connections, Finalize(c)
         PROVE  TypeOK'
    BY <2>19 DEF Finalize, TypeOK, serviceVars, clientVars, historyVars
  <2>20. ASSUME NEW c \in Connections, CallArrives(c)
         PROVE  TypeOK'
    <3>1. Source("hello", c, NoEvent) \in QueueSources
          /\ Source("getEvents", c, NoEvent) \in QueueSources
      BY DEF Source, Sources, QueueSources, CallKinds
    <3>2. CASE queue' = Append(queue, Source("hello", c, NoEvent))
      BY <2>20, <3>1, <3>2, AppendElements DEF CallArrives, TypeOK, serviceVars,
                                               clientVars, historyVars
    <3>3. CASE queue' = Append(queue, Source("getEvents", c, NoEvent))
      BY <2>20, <3>1, <3>3, AppendElements DEF CallArrives, TypeOK, serviceVars,
                                               clientVars, historyVars
    <3> QED
      BY <2>20, <3>2, <3>3 DEF CallArrives
  <2>21. ASSUME NEW c \in Connections, NEW e \in Events, SignalArrives(c, e)
         PROVE  TypeOK'
    <3>1. Source("signal", c, e) \in QueueSources
      BY DEF Source, Sources, QueueSources, CallKinds
    <3>2. queue' \in Seq(QueueSources)
      BY <2>21, <3>1, AppendElements DEF SignalArrives, TypeOK
    <3> QED
      BY <2>21, <3>2 DEF SignalArrives, TypeOK, serviceVars, clientVars, historyVars
  <2> QED
    BY <2>1, <2>2, <2>3, <2>4, <2>5, <2>7, <2>8, <2>9, <2>10, <2>11, <2>12,
       <2>14, <2>15, <2>15c, <2>15d, <2>15e, <2>15f, <2>16, <2>17, <2>18, <2>19, <2>20, <2>21
       DEF Next, Operations, WorkerDispatch, MainDispatch, Environment, Aborted
<1> QED
  BY <1>1, <1>2, PTL DEF Spec

----------------------------------------------------------------------------
(* The default context.                                                    *)

\* InPlace and WillKnow, of any default context mq.
CallOf(mq, calls) ==
    {mq[i].conn : i \in {j \in DOMAIN mq : mq[j].kind \in calls}}

KnowsOf(mq, tl, c, e) ==
    \/ /\ <<SERVER_ID, e>> \in tl[c]
       /\ \A i \in DOMAIN mq : mq[i] # Source("deregistered", c, e)
    \/ \E i \in DOMAIN mq :
          /\ mq[i] = Source("registered", c, e)
          /\ \A j \in DOMAIN mq :
                j > i => mq[j] # Source("deregistered", c, e)

\* mq2 has the sources of mq in their places and others behind them.
Grown(mq, mq2) ==
    /\ \A i \in DOMAIN mq : i \in DOMAIN mq2 /\ mq2[i] = mq[i]
    /\ \A i \in DOMAIN mq, j \in DOMAIN mq2 \ DOMAIN mq : i < j

\* The main thread is where it was in onClosedConnection.
SameInPlace == \A calls \in SUBSET Forgotten : InPlace(calls)' = InPlace(calls)

LEMMA InPlaceIsCallOf ==
    /\ \A calls : InPlace(calls) = CallOf(mainQueue, calls)
    /\ \A calls : InPlace(calls)' = CallOf(mainQueue', calls)
BY DEF InPlace, CallOf

LEMMA WillKnowIsKnowsOf ==
    /\ \A c, e : WillKnow(c, e) <=> KnowsOf(mainQueue, told, c, e)
    /\ \A c, e : WillKnow(c, e)' <=> KnowsOf(mainQueue', told', c, e)
BY DEF WillKnow, KnowsOf

\* Only the first source can be an onClosedConnection under way.
LEMMA CallOfFirst ==
    ASSUME NEW mq, 1 \in DOMAIN mq,
           \A i \in DOMAIN mq : mq[i].kind \in InPlaceKinds => i = 1,
           NEW calls \in SUBSET InPlaceKinds
    PROVE  CallOf(mq, calls) = IF mq[1].kind \in calls THEN {mq[1].conn} ELSE {}
BY DEF CallOf

LEMMA CallOfTail ==
    ASSUME NEW S, NEW mq \in Seq(S), mq # <<>>,
           \A i \in DOMAIN mq : mq[i].kind \in InPlaceKinds => i = 1,
           NEW calls \in SUBSET InPlaceKinds
    PROVE  CallOf(Tail(mq), calls) = {}
<1>1. \A i \in DOMAIN Tail(mq) :
         i + 1 \in DOMAIN mq /\ i + 1 # 1 /\ Tail(mq)[i] = mq[i + 1]
  BY TailElements
<1>2. \A i \in DOMAIN Tail(mq) : Tail(mq)[i].kind \notin calls
  BY <1>1
<1> QED
  BY <1>2 DEF CallOf

LEMMA CallOfGrown ==
    ASSUME NEW mq, NEW mq2, Grown(mq, mq2), NEW calls,
           \A j \in DOMAIN mq2 \ DOMAIN mq : mq2[j].kind \notin calls
    PROVE  CallOf(mq2, calls) = CallOf(mq, calls)
<1>1. {j \in DOMAIN mq2 : mq2[j].kind \in calls}
         = {j \in DOMAIN mq : mq[j].kind \in calls}
  BY DEF Grown
<1> QED
  BY <1>1 DEF CallOf, Grown

\* A signal for another client or event, and any other source, may come and go.
LEMMA KnowsGrown ==
    ASSUME NEW mq, NEW mq2, Grown(mq, mq2), NEW tl, NEW c, NEW e,
           \A j \in DOMAIN mq2 \ DOMAIN mq :
              /\ mq2[j] # Source("registered", c, e)
              /\ mq2[j] # Source("deregistered", c, e)
    PROVE  KnowsOf(mq2, tl, c, e) <=> KnowsOf(mq, tl, c, e)
<1>1. ASSUME KnowsOf(mq2, tl, c, e)
      PROVE  KnowsOf(mq, tl, c, e)
  BY <1>1 DEF KnowsOf, Grown
<1>2. ASSUME KnowsOf(mq, tl, c, e)
      PROVE  KnowsOf(mq2, tl, c, e)
  BY <1>2 DEF KnowsOf, Grown
<1> QED
  BY <1>1, <1>2

LEMMA KnowsRegistered ==
    ASSUME NEW mq, NEW mq2, Grown(mq, mq2), NEW tl, NEW c, NEW e,
           \A j \in DOMAIN mq2 \ DOMAIN mq : mq2[j] # Source("deregistered", c, e),
           NEW k \in DOMAIN mq2 \ DOMAIN mq, mq2[k] = Source("registered", c, e),
           DOMAIN mq2 \subseteq Nat
    PROVE  KnowsOf(mq2, tl, c, e)
<1>1. \A j \in DOMAIN mq2 : j > k => j \notin DOMAIN mq
  BY DEF Grown
<1> QED
  BY <1>1 DEF KnowsOf

LEMMA KnowsDeregistered ==
    ASSUME NEW mq, NEW mq2, Grown(mq, mq2), NEW tl, NEW c, NEW e,
           \A j \in DOMAIN mq2 \ DOMAIN mq : mq2[j] # Source("registered", c, e),
           NEW k \in DOMAIN mq2 \ DOMAIN mq, mq2[k] = Source("deregistered", c, e)
    PROVE  ~KnowsOf(mq2, tl, c, e)
<1>1. ASSUME NEW i \in DOMAIN mq2, mq2[i] = Source("registered", c, e)
      PROVE  k > i
  BY <1>1 DEF Grown
<1> QED
  BY <1>1 DEF KnowsOf

LEMMA KnowsTail ==
    ASSUME NEW S, NEW mq \in Seq(S), mq # <<>>, NEW tl, NEW tl2, NEW c, NEW e,
           <<SERVER_ID, e>> \in tl2[c] <=> <<SERVER_ID, e>> \in tl[c],
           Head(mq) # Source("registered", c, e),
           Head(mq) # Source("deregistered", c, e)
    PROVE  KnowsOf(Tail(mq), tl2, c, e) <=> KnowsOf(mq, tl, c, e)
<1> DEFINE r == Tail(mq)
<1>1. /\ \A i \in DOMAIN r : i \in Nat /\ i + 1 \in DOMAIN mq /\ r[i] = mq[i + 1]
      /\ \A i \in DOMAIN mq : i \in Nat /\ (i = 1 \/ i - 1 \in DOMAIN r)
      /\ mq[1] = Head(mq)
  BY TailElements, TailPlaces
<1> HIDE DEF r
<1>2. \A i \in DOMAIN mq : i # 1 => i - 1 \in DOMAIN r /\ r[i - 1] = mq[i]
  BY <1>1
<1>3. (\A i \in DOMAIN r : r[i] # Source("deregistered", c, e))
         <=> (\A i \in DOMAIN mq : mq[i] # Source("deregistered", c, e))
  BY <1>1, <1>2
<1>4. ASSUME NEW i \in DOMAIN r, r[i] = Source("registered", c, e),
             \A j \in DOMAIN r : j > i => r[j] # Source("deregistered", c, e)
      PROVE  /\ i + 1 \in DOMAIN mq /\ mq[i + 1] = Source("registered", c, e)
             /\ \A j \in DOMAIN mq : j > i + 1 => mq[j] # Source("deregistered", c, e)
  <2>1. ASSUME NEW j \in DOMAIN mq, j > i + 1
        PROVE  mq[j] # Source("deregistered", c, e)
    <3>1. j # 1 /\ j - 1 > i
      BY <1>1, <2>1
    <3> QED
      BY <1>2, <1>4, <3>1
  <2> QED
    BY <1>1, <1>4, <2>1
<1>5. ASSUME NEW i \in DOMAIN mq, mq[i] = Source("registered", c, e),
             \A j \in DOMAIN mq : j > i => mq[j] # Source("deregistered", c, e)
      PROVE  /\ i - 1 \in DOMAIN r /\ r[i - 1] = Source("registered", c, e)
             /\ \A j \in DOMAIN r : j > i - 1 => r[j] # Source("deregistered", c, e)
  <2>1. i # 1
    BY <1>1, <1>5
  <2> QED
    BY <1>1, <1>2, <1>5, <2>1
<1>6. KnowsOf(r, tl2, c, e) <=> KnowsOf(mq, tl, c, e)
  BY <1>3, <1>4, <1>5 DEF KnowsOf
<1> QED
  BY <1>6 DEF r

\* The client hears the first of the signals that wait for it.
LEMMA KnowsHeard ==
    ASSUME NEW S, NEW mq \in Seq(S), mq # <<>>, NEW tl, NEW tl2, NEW c, NEW e,
           NEW kind \in EmitKinds, Head(mq) = Source(kind, c, e),
           <<SERVER_ID, e>> \in tl2[c] <=> kind = "registered"
    PROVE  KnowsOf(Tail(mq), tl2, c, e) <=> KnowsOf(mq, tl, c, e)
<1> DEFINE r == Tail(mq)
           on == Source("registered", c, e)
           off == Source("deregistered", c, e)
<1>1. /\ \A i \in DOMAIN r : i \in Nat /\ i # 0 /\ i + 1 \in DOMAIN mq /\ r[i] = mq[i + 1]
      /\ \A i \in DOMAIN mq : i \in Nat /\ (i = 1 \/ i - 1 \in DOMAIN r)
      /\ mq[1] = Head(mq) /\ 1 \in DOMAIN mq
  BY TailElements, TailPlaces
<1>2. on # off
  BY DEF Source
<1>3. kind = "registered" \/ kind = "deregistered"
  BY DEF EmitKinds
<1> HIDE DEF r, on, off
<1>4. ASSUME NEW i \in DOMAIN mq, i # 1
      PROVE  i - 1 \in DOMAIN r /\ r[i - 1] = mq[i] /\ i > 1
  <2>1. i \in Nat /\ i - 1 \in DOMAIN r
    BY <1>1, <1>4
  <2>2. i - 1 # 0 /\ i - 1 \in Nat /\ r[i - 1] = mq[(i - 1) + 1]
    BY <1>1, <2>1
  <2> QED
    BY <2>1, <2>2
<1>5. CASE kind = "registered"
  <2>1. mq[1] = on /\ <<SERVER_ID, e>> \in tl2[c]
    BY <1>1, <1>5 DEF on
  <2>2. (\A i \in DOMAIN r : r[i] # off)
           <=> (\A j \in DOMAIN mq : j > 1 => mq[j] # off)
    BY <1>1, <1>4
  <2>3. ASSUME NEW i \in DOMAIN r, r[i] = on, \A j \in DOMAIN r : j > i => r[j] # off
        PROVE  /\ i + 1 \in DOMAIN mq /\ mq[i + 1] = on
               /\ \A j \in DOMAIN mq : j > i + 1 => mq[j] # off
    BY <1>1, <1>4, <2>3
  <2>4. ASSUME NEW i \in DOMAIN mq, i # 1, mq[i] = on,
               \A j \in DOMAIN mq : j > i => mq[j] # off
        PROVE  /\ i - 1 \in DOMAIN r /\ r[i - 1] = on
               /\ \A j \in DOMAIN r : j > i - 1 => r[j] # off
    <3>1. ASSUME NEW j \in DOMAIN r, j > i - 1
          PROVE  r[j] # off
      <4>1. j + 1 \in DOMAIN mq /\ j + 1 > i /\ r[j] = mq[j + 1]
        BY <1>1, <3>1
      <4> QED
        BY <2>4, <4>1
    <3> QED
      BY <1>4, <2>4, <3>1
  <2>5. ASSUME KnowsOf(r, tl2, c, e)
        PROVE  KnowsOf(mq, tl, c, e)
    BY <1>1, <2>1, <2>2, <2>3, <2>5 DEF KnowsOf, on, off
  <2>6. ASSUME KnowsOf(mq, tl, c, e)
        PROVE  KnowsOf(r, tl2, c, e)
    <3>1. CASE \A i \in DOMAIN mq : mq[i] # off
      BY <2>1, <2>2, <3>1 DEF KnowsOf, on, off
    <3>2. CASE \E i \in DOMAIN mq : mq[i] = on /\ \A j \in DOMAIN mq : j > i => mq[j] # off
      BY <2>1, <2>2, <2>4, <3>2 DEF KnowsOf, on, off
    <3> QED
      BY <2>6, <3>1, <3>2 DEF KnowsOf, on, off
  <2> QED
    BY <2>5, <2>6 DEF r
<1>6. CASE kind = "deregistered"
  <2>1. mq[1] = off /\ mq[1] # on /\ <<SERVER_ID, e>> \notin tl2[c]
    BY <1>1, <1>2, <1>6 DEF off
  <2>2. ASSUME NEW i \in DOMAIN r, r[i] = on, \A j \in DOMAIN r : j > i => r[j] # off
        PROVE  /\ i + 1 \in DOMAIN mq /\ mq[i + 1] = on
               /\ \A j \in DOMAIN mq : j > i + 1 => mq[j] # off
    BY <1>1, <1>4, <2>2
  <2>3. ASSUME NEW i \in DOMAIN mq, mq[i] = on,
               \A j \in DOMAIN mq : j > i => mq[j] # off
        PROVE  /\ i - 1 \in DOMAIN r /\ r[i - 1] = on
               /\ \A j \in DOMAIN r : j > i - 1 => r[j] # off
    <3>1. i # 1
      BY <2>1, <2>3
    <3>2. ASSUME NEW j \in DOMAIN r, j > i - 1
          PROVE  r[j] # off
      <4>1. j + 1 \in DOMAIN mq /\ j + 1 > i /\ r[j] = mq[j + 1]
        BY <1>1, <3>2
      <4> QED
        BY <2>3, <4>1
    <3> QED
      BY <1>4, <2>3, <3>1, <3>2
  <2>4. KnowsOf(r, tl2, c, e)
           <=> \E i \in DOMAIN r : r[i] = on /\ \A j \in DOMAIN r : j > i => r[j] # off
    BY <2>1 DEF KnowsOf, on, off
  <2>5. KnowsOf(mq, tl, c, e)
           <=> \E i \in DOMAIN mq : mq[i] = on /\ \A j \in DOMAIN mq : j > i => mq[j] # off
    BY <1>1, <2>1 DEF KnowsOf, on, off
  <2>6. KnowsOf(r, tl2, c, e) <=> KnowsOf(mq, tl, c, e)
    BY <2>2, <2>3, <2>4, <2>5
  <2> QED
    BY <2>6 DEF r
<1> QED
  BY <1>3, <1>5, <1>6

\* A source that is no signal takes the place of another.
LEMMA KnowsReplaced ==
    ASSUME NEW S, NEW mq \in Seq(S), mq # <<>>, NEW x \in S, NEW tl, NEW c, NEW e,
           mq[1].kind \notin EmitKinds, x.kind \notin EmitKinds
    PROVE  KnowsOf([mq EXCEPT ![1] = x], tl, c, e) <=> KnowsOf(mq, tl, c, e)
<1> DEFINE r == [mq EXCEPT ![1] = x]
           on == Source("registered", c, e)
           off == Source("deregistered", c, e)
<1>1. /\ DOMAIN r = DOMAIN mq /\ r[1] = x
      /\ \A i \in DOMAIN mq : i # 1 => r[i] = mq[i]
  BY ReplaceFirst
<1>2. /\ mq[1] # on /\ mq[1] # off /\ x # on /\ x # off
  BY DEF Source, EmitKinds
<1> HIDE DEF r, on, off
<1>3. \A i \in DOMAIN mq : (r[i] = on <=> mq[i] = on) /\ (r[i] = off <=> mq[i] = off)
  BY <1>1, <1>2
<1>4. KnowsOf(r, tl, c, e) <=> KnowsOf(mq, tl, c, e)
  BY <1>1, <1>3 DEF KnowsOf, on, off
<1> QED
  BY <1>4 DEF r


LEMMA GrownByOne ==
    ASSUME NEW S, NEW q \in Seq(S), NEW x \in S
    PROVE  /\ Grown(q, Append(q, x))
           /\ \A j \in DOMAIN Append(q, x) \ DOMAIN q : Append(q, x)[j] = x
<1>1. /\ Append(q, x) \in Seq(S)
      /\ Len(Append(q, x)) = Len(q) + 1 /\ Len(q) \in Nat
      /\ \A i \in 1 .. Len(q) : Append(q, x)[i] = q[i]
      /\ Append(q, x)[Len(q) + 1] = x
  BY AppendProperties, LenProperties
<1>2. DOMAIN q = 1 .. Len(q) /\ DOMAIN Append(q, x) = 1 .. Len(q) + 1
  BY <1>1, LenProperties
<1> QED
  BY <1>1, <1>2 DEF Grown

LEMMA GrownByMany ==
    ASSUME NEW S, NEW s \in Seq(S), NEW t \in Seq(S)
    PROVE  /\ Grown(s, s \o t) /\ DOMAIN (s \o t) \subseteq Nat
           /\ \A j \in DOMAIN (s \o t) \ DOMAIN s :
                 \E k \in DOMAIN t : (s \o t)[j] = t[k]
           /\ \A k \in DOMAIN t :
                 \E j \in DOMAIN (s \o t) \ DOMAIN s : (s \o t)[j] = t[k]
<1>1. /\ s \o t \in Seq(S)
      /\ Len(s \o t) = Len(s) + Len(t)
      /\ \A i \in 1 .. Len(s) + Len(t) :
            (s \o t)[i] = IF i <= Len(s) THEN s[i] ELSE t[i - Len(s)]
  BY ConcatProperties
<1>2. /\ Len(s) \in Nat /\ DOMAIN s = 1 .. Len(s)
      /\ Len(t) \in Nat /\ DOMAIN t = 1 .. Len(t)
      /\ DOMAIN (s \o t) = 1 .. Len(s) + Len(t)
  BY <1>1, LenProperties
<1>3. Grown(s, s \o t) /\ DOMAIN (s \o t) \subseteq Nat
  BY <1>1, <1>2 DEF Grown
<1>4. ASSUME NEW j \in DOMAIN (s \o t) \ DOMAIN s
      PROVE  \E k \in DOMAIN t : (s \o t)[j] = t[k]
  <2>1. j - Len(s) \in DOMAIN t /\ (s \o t)[j] = t[j - Len(s)]
    BY <1>1, <1>2
  <2> QED
    BY <2>1
<1>5. ASSUME NEW k \in DOMAIN t
      PROVE  \E j \in DOMAIN (s \o t) \ DOMAIN s : (s \o t)[j] = t[k]
  <2> DEFINE j == k + Len(s)
  <2>1. j \in 1 .. Len(s) + Len(t) /\ ~(j <= Len(s)) /\ j - Len(s) = k
    BY <1>2
  <2>2. (s \o t)[j] = t[k]
    BY <1>1, <2>1
  <2>3. j \in DOMAIN (s \o t) \ DOMAIN s
    BY <1>2, <2>1
  <2> QED
    BY <2>2, <2>3
<1> QED
  BY <1>3, <1>4, <1>5

----------------------------------------------------------------------------
(* How a step of either thread or of GDBus keeps the parts of the          *)
(* invariant it does not aim at.                                           *)

\* What the default context holds.
LEMMA MainElements ==
    ASSUME TypeOK
    PROVE  /\ mainQueue \in Seq(MainSources)
           /\ \A i \in DOMAIN mainQueue :
                 /\ mainQueue[i] \in MainSources
                 /\ mainQueue[i].conn \in Connections
                 /\ mainQueue[i].kind \in EmitKinds \cup CloseKinds
           /\ mainQueue # <<>> =>
                 /\ 1 \in DOMAIN mainQueue /\ Head(mainQueue) = mainQueue[1]
                 /\ Tail(mainQueue) \in Seq(MainSources)
<1>1. mainQueue \in Seq(MainSources)
  BY DEF TypeOK
<1>2. \A i \in DOMAIN mainQueue : mainQueue[i] \in MainSources
  BY <1>1, LenProperties, ElementOfSeq
<1>3. \A i \in DOMAIN mainQueue :
         /\ mainQueue[i].conn \in Connections
         /\ mainQueue[i].kind \in EmitKinds \cup CloseKinds
  BY <1>2 DEF MainSources, Sources
<1>4. mainQueue # <<>> =>
         /\ 1 \in DOMAIN mainQueue /\ Head(mainQueue) = mainQueue[1]
         /\ Tail(mainQueue) \in Seq(MainSources)
  BY <1>1, TailElements
<1> QED
  BY <1>1, <1>2, <1>3, <1>4

LEMMA KindsDiffer ==
    /\ EmitKinds \cap CloseKinds = {}
    /\ EmitKinds \cap InPlaceKinds = {}
    /\ Forgotten \subseteq InPlaceKinds
    /\ InPlaceKinds \subseteq CloseKinds
    /\ "closedSignal" \in CloseKinds \ InPlaceKinds
BY DEF EmitKinds, CloseKinds, InPlaceKinds, Forgotten

LEMMA FewerKeeps ==
    ASSUME NEW q, NEW q2, Fewer(q, q2)
    PROVE  /\ \A c : NotAnnounced(q, c) => NotAnnounced(q2, c)
           /\ \A c, call : Drained(q, c, call) => Drained(q2, c, call)
<1>1. \A c : NotAnnounced(q, c) => NotAnnounced(q2, c)
  BY DEF Fewer, NotAnnounced
<1>2. ASSUME NEW c, NEW call, Drained(q, c, call)
      PROVE  Drained(q2, c, call)
  BY <1>2 DEF Fewer, Drained, HandlerKinds, CallKinds
<1> QED
  BY <1>1, <1>2

LEMMA FewerTail ==
    ASSUME NEW S, NEW q \in Seq(S), q # <<>>
    PROVE  Fewer(q, Tail(q))
<1>1. \A i \in DOMAIN Tail(q) : i + 1 \in DOMAIN q /\ Tail(q)[i] = q[i + 1]
  BY TailElements
<1> QED
  BY <1>1 DEF Fewer

LEMMA FewerCancelled ==
    ASSUME NEW q \in Seq(QueueSources)
    PROVE  /\ \A kinds, X : Fewer(q, CancelSources(q, kinds, X))
           /\ \A X, e : Fewer(q, CancelSignal(q, X, e))
<1>1. "dead" \notin HandlerKinds \cup {"new"}
  BY DEF HandlerKinds, CallKinds
<1>2. ASSUME NEW kinds, NEW X
      PROVE  Fewer(q, CancelSources(q, kinds, X))
  <2>1. \A i \in DOMAIN CancelSources(q, kinds, X) :
           i \in DOMAIN q /\ (\/ CancelSources(q, kinds, X)[i].kind = "dead"
                              \/ CancelSources(q, kinds, X)[i] = q[i])
    BY CancelSourcesElements
  <2> QED
    BY <1>1, <2>1 DEF Fewer
<1>3. ASSUME NEW X, NEW e
      PROVE  Fewer(q, CancelSignal(q, X, e))
  <2>1. \A i \in DOMAIN CancelSignal(q, X, e) :
           i \in DOMAIN q /\ (\/ CancelSignal(q, X, e)[i].kind = "dead"
                              \/ CancelSignal(q, X, e)[i] = q[i])
    BY CancelSignalElements
  <2> QED
    BY <1>1, <2>1 DEF Fewer
<1> QED
  BY <1>2, <1>3

LEMMA FewerTransitive ==
    ASSUME NEW q, NEW q2, NEW q3, Fewer(q, q2), Fewer(q2, q3)
    PROVE  Fewer(q, q3)
BY DEF Fewer

\* A source that has no handler, or one of another connection, is added.
LEMMA AppendKeeps ==
    ASSUME NEW S, NEW q \in Seq(S), NEW x \in S
    PROVE  /\ \A c : (x.kind = "new" => x.conn # c) /\ NotAnnounced(q, c)
                        => NotAnnounced(Append(q, x), c)
           /\ \A c, call :
                 (x.conn # c \/ x.kind \notin HandlerKinds \cup {"new"})
                    /\ Drained(q, c, call) => Drained(Append(q, x), c, call)
<1> DEFINE r == Append(q, x)
<1>1. \A i \in DOMAIN r : (i \in DOMAIN q /\ r[i] = q[i]) \/ r[i] = x
  BY AppendElements
<1> HIDE DEF r
<1>2. \A c : (x.kind = "new" => x.conn # c) /\ NotAnnounced(q, c)
                => NotAnnounced(r, c)
  BY <1>1 DEF NotAnnounced
<1>3. ASSUME NEW c, NEW call, Drained(q, c, call),
             x.conn # c \/ x.kind \notin HandlerKinds \cup {"new"}
      PROVE  Drained(r, c, call)
  BY <1>1, <1>3 DEF Drained, HandlerKinds, CallKinds
<1> QED
  BY <1>2, <1>3 DEF r

\* The default context loses its first source.
LEMMA MainInvTail ==
    ASSUME NEW S, NEW mq \in Seq(S), mq # <<>>,
           NEW q, NEW cs, NEW lt, NEW cn, MainInv(mq, q, cs, lt, cn)
    PROVE  MainInv(Tail(mq), q, cs, lt, cn)
<1> DEFINE r == Tail(mq)
<1>1. \A i \in DOMAIN r : i + 1 \in DOMAIN mq /\ i + 1 # 1 /\ r[i] = mq[i + 1]
  BY TailElements
<1> HIDE DEF r
<1>2. \A i \in DOMAIN r : \E k \in DOMAIN mq : k # 1 /\ r[i] = mq[k]
  BY <1>1
<1>3. MainInv(r, q, cs, lt, cn)
  BY <1>2 DEF MainInv
<1> QED
  BY <1>3 DEF r

\* The default context stays and what its sources are judged by changes.
LEMMA MainInvChange ==
    ASSUME NEW mq, NEW q, NEW cs, NEW lt, NEW cn, MainInv(mq, q, cs, lt, cn),
           NEW q2, NEW cs2, NEW lt2, NEW cn2,
           \A c : cn[c] # "none" => cn2[c] # "none",
           \A c : cn[c] = "closed" => cn2[c] = "closed",
           \A c : cn[c] # "none" /\ (c \in lt \/ (c \notin cs /\ NotAnnounced(q, c)))
                     => c \in lt2 \/ (c \notin cs2 /\ NotAnnounced(q2, c)),
           \A c, call : cn[c] = "closed" /\ Drained(q, c, call)
                           => Drained(q2, c, call)
    PROVE  MainInv(mq, q2, cs2, lt2, cn2)
<1>1. \A i \in DOMAIN mq : mq[i].kind \in InPlaceKinds => cn[mq[i].conn] = "closed"
  BY KindsDiffer DEF MainInv
<1> QED
  BY <1>1 DEF MainInv

\* The tables and what they are compared with stay as they are.
LEMMA ServiceFrame ==
    ASSUME IInv, SameInPlace,
           UNCHANGED <<eventListeners, registrationIds, clients,
                       dbusRegistrationId, registryRegistrationId, subscribed,
                       resubscribed>>,
           \A c \in Connections :
              conn[c] # "none" => conn'[c] # "none" /\ (conn'[c] = "open" => conn[c] = "open")
    PROVE  RegistrationsMatchClients' /\ SubscriptionInv'
<1>1. /\ InPlace({"remove"})' = InPlace({"remove"})
      /\ InPlace({"unregisterDBusInterfaces", "remove"})'
            = InPlace({"unregisterDBusInterfaces", "remove"})
      /\ InPlace(Forgotten)' = InPlace(Forgotten)
  BY DEF SameInPlace, Forgotten
<1>2. RegistrationsMatchClients'
  BY <1>1 DEF IInv, RegistrationsMatchClients
<1>3. SubscriptionsMatchListeners'
  BY <1>1 DEF IInv, SubscriptionInv, SubscriptionsMatchListeners
<1>4. \A e \in Events : \A c \in subscribed'[e] :
         conn'[c] # "none" /\ (conn'[c] = "open" => c \in clients')
  BY DEF IInv, SubscriptionInv, TypeOK
<1> QED
  BY <1>1, <1>2, <1>3, <1>4 DEF IInv, SubscriptionInv

\* Nothing reaches the clients that are left.
LEMMA KnowledgeFrame ==
    ASSUME IInv, eventListeners' = eventListeners,
           \A c \in clients' \ overtaken' : conn'[c] = "open" =>
              /\ c \in clients \ overtaken /\ conn[c] = "open"
              /\ c \in asked' => c \in asked
              /\ \A e \in Events :
                    /\ KnowsOf(mainQueue', told', c, e) <=> KnowsOf(mainQueue, told, c, e)
                    /\ <<OWN_ID, e>> \in told[c] => <<OWN_ID, e>> \in told'[c]
    PROVE  ClientsKnowTheEvents'
<1>1. \A c \in clients \ overtaken, e \in Events :
         conn[c] = "open" =>
            /\ KnowsOf(mainQueue, told, c, e) => e \in eventListeners
            /\ c \in asked /\ e \in eventListeners
                  => KnowsOf(mainQueue, told, c, e) \/ <<OWN_ID, e>> \in told[c]
  BY WillKnowIsKnowsOf DEF IInv, ClientsKnowTheEvents
<1>2. \A c \in clients' \ overtaken', e \in Events :
         conn'[c] = "open" =>
            /\ KnowsOf(mainQueue', told', c, e) => e \in eventListeners'
            /\ c \in asked' /\ e \in eventListeners'
                  => KnowsOf(mainQueue', told', c, e) \/ <<OWN_ID, e>> \in told'[c]
  BY <1>1
<1> QED
  BY <1>2, WillKnowIsKnowsOf DEF ClientsKnowTheEvents

\* A step that leaves the default context and the clients alone, and attaches
\* nothing that onClosedConnection has done with.
LEMMA ContextFrame ==
    ASSUME IInv, UNCHANGED <<mainQueue, clients, late>>,
           \A c \in Connections : conn[c] # "none" =>
              /\ conn'[c] = conn[c]
              /\ NotAnnounced(queue, c) => NotAnnounced(queue', c)
              /\ \A call : conn[c] = "closed" /\ Drained(queue, c, call)
                              => Drained(queue', c, call)
    PROVE  MainInv(mainQueue', queue', clients', late', conn') /\ SameInPlace
<1>1. MainInv(mainQueue, queue, clients, late, conn) /\ TypeOK
  BY DEF IInv
<1>2. \A i \in DOMAIN mainQueue :
         mainQueue[i].conn \in Connections
         /\ (mainQueue[i].kind \in InPlaceKinds => conn[mainQueue[i].conn] = "closed")
  BY <1>1, MainElements, KindsDiffer DEF MainInv
<1>3. MainInv(mainQueue, queue', clients, late, conn')
  BY <1>1, <1>2 DEF MainInv
<1>4. SameInPlace
  BY DEF SameInPlace, InPlace
<1> QED
  BY <1>3, <1>4

\* The first source of the default context, whose turn it is.
LEMMA MainHead ==
    ASSUME IInv, mainQueue # <<>>
    PROVE  /\ 1 \in DOMAIN mainQueue /\ Head(mainQueue) = mainQueue[1]
           /\ mainQueue \in Seq(MainSources)
           /\ Head(mainQueue).conn \in Connections
           /\ \A i \in DOMAIN mainQueue : mainQueue[i].kind \in InPlaceKinds => i = 1
           /\ Head(mainQueue).kind \in CloseKinds
                 => conn[Head(mainQueue).conn] = "closed"
           /\ Head(mainQueue).kind \in InPlaceKinds
                 => Drained(queue, Head(mainQueue).conn, Head(mainQueue).kind)
<1>1. TypeOK /\ MainInv(mainQueue, queue, clients, late, conn)
  BY DEF IInv
<1> QED
  BY <1>1, MainElements DEF MainInv

\* The first source of the D-Bus context, whose turn it is.
LEMMA QueueHead ==
    ASSUME IInv, queue # <<>>
    PROVE  /\ 1 \in DOMAIN queue /\ Head(queue) = queue[1]
           /\ queue \in Seq(QueueSources)
           /\ Head(queue).conn \in Connections
           /\ Tail(queue) \in Seq(QueueSources)
           /\ QueueInv(Tail(queue), clients, eventListeners, conn)
           /\ Fewer(queue, Tail(queue))
           /\ \A c : NotAnnounced(queue, c) => NotAnnounced(Tail(queue), c)
           /\ \A c, call : Drained(queue, c, call) => Drained(Tail(queue), c, call)
<1>1. queue \in Seq(QueueSources) /\ QueueInv(queue, clients, eventListeners, conn)
  BY DEF IInv, TypeOK
<1>2. /\ Head(queue) \in QueueSources /\ Tail(queue) \in Seq(QueueSources)
      /\ 1 \in DOMAIN queue /\ Head(queue) = queue[1]
  BY <1>1, TailElements
<1>3. QueueInv(Tail(queue), clients, eventListeners, conn)
  BY <1>1, QueueInvTail
<1>4. Fewer(queue, Tail(queue))
  BY <1>1, FewerTail
<1>5. Head(queue).conn \in Connections
  BY <1>2 DEF QueueSources, Sources
<1> QED
  BY <1>1, <1>2, <1>3, <1>4, <1>5, FewerKeeps

\* A handler that only takes its source off the D-Bus context.
LEMMA HandlerFrame ==
    ASSUME IInv, TypeOK', queue # <<>>, queue' = Tail(queue),
           UNCHANGED <<active, eventListeners, registrationIds, clients,
                       dbusRegistrationId, registryRegistrationId, mainQueue,
                       conn, watched, subscribed, historyVars>>,
           \A c \in Connections :
              conn[c] # "open" \/ c \notin clients => told'[c] = told[c] /\ (c \in asked' => c \in asked),
           DispatchedSourcesAreExpected', ClientsKnowTheEvents'
    PROVE  IInv'
<1>1. MainInv(mainQueue', queue', clients', late', conn') /\ SameInPlace
  BY QueueHead, ContextFrame DEF historyVars
<1>2. RegistrationsMatchClients' /\ SubscriptionInv'
  BY <1>1, ServiceFrame DEF historyVars
<1>3. ClientInv'
  BY DEF IInv, ClientInv, historyVars
<1>4. WatchedInv'
  BY QueueHead DEF IInv, WatchedInv
<1>5. QueueInv(queue', clients', eventListeners', conn')
  BY QueueHead
<1> QED
  BY <1>1, <1>2, <1>3, <1>4, <1>5 DEF IInv

\* The main thread makes one call of onClosedConnection and is at the next.
LEMMA InPlaceFrame ==
    ASSUME IInv, TypeOK', NEW call \in InPlaceKinds, NEW next \in InPlaceKinds,
           InPlaceCall(call, next), Fewer(queue, queue'),
           Drained(queue, Head(mainQueue).conn, call)
              => Drained(queue', Head(mainQueue).conn, next),
           UNCHANGED <<active, eventListeners, clients, conn, watched,
                       clientVars, late, overtaken>>
    PROVE  /\ Head(mainQueue).conn \in Connections
           /\ conn[Head(mainQueue).conn] = "closed"
           /\ \A calls \in SUBSET InPlaceKinds :
                 InPlace(calls) = IF call \in calls THEN {Head(mainQueue).conn} ELSE {}
           /\ \A calls \in SUBSET InPlaceKinds :
                 InPlace(calls)' = IF next \in calls THEN {Head(mainQueue).conn} ELSE {}
           /\ MainInv(mainQueue', queue', clients', late', conn')
           /\ ClientsKnowTheEvents' /\ ClientInv' /\ WatchedInv'
<1> DEFINE c == Head(mainQueue).conn
           x == Source(next, c, NoEvent)
<1>1. /\ mainQueue # <<>> /\ Head(mainQueue).kind = call
      /\ mainQueue' = [mainQueue EXCEPT ![1] = x]
  BY DEF InPlaceCall, NextMain
<1>2. /\ 1 \in DOMAIN mainQueue /\ Head(mainQueue) = mainQueue[1]
      /\ mainQueue \in Seq(MainSources)
      /\ c \in Connections
      /\ \A i \in DOMAIN mainQueue : mainQueue[i].kind \in InPlaceKinds => i = 1
      /\ conn[c] = "closed"
      /\ Drained(queue, c, call)
  BY <1>1, MainHead, KindsDiffer
<1>3. x.kind = next /\ x.conn = c /\ x \in MainSources
  <2>1. x.kind = next /\ x.conn = c
    BY DEF Source
  <2>2. x \in MainSources
    BY <1>2, KindsDiffer DEF Source, Sources, MainSources
  <2> QED
    BY <2>1, <2>2
<1> HIDE DEF x
<1>4. /\ DOMAIN mainQueue' = DOMAIN mainQueue /\ mainQueue'[1] = x
      /\ \A i \in DOMAIN mainQueue : i # 1 => mainQueue'[i] = mainQueue[i]
  BY <1>1, <1>2, <1>3, ReplaceFirst
<1>5. \A calls \in SUBSET InPlaceKinds :
         InPlace(calls) = IF call \in calls THEN {c} ELSE {}
  BY <1>1, <1>2, CallOfFirst, InPlaceIsCallOf
<1>6. \A calls \in SUBSET InPlaceKinds :
         InPlace(calls)' = IF next \in calls THEN {c} ELSE {}
  <2>1. \A i \in DOMAIN mainQueue' : mainQueue'[i].kind \in InPlaceKinds => i = 1
    BY <1>2, <1>4
  <2>2. 1 \in DOMAIN mainQueue'
    BY <1>2, <1>4
  <2> QED
    BY <1>3, <1>4, <2>1, <2>2, CallOfFirst, InPlaceIsCallOf
<1>7. /\ \A y : NotAnnounced(queue, y) => NotAnnounced(queue', y)
      /\ \A y, k : Drained(queue, y, k) => Drained(queue', y, k)
  BY FewerKeeps
<1>8. MainInv(mainQueue', queue', clients', late', conn')
  <2>1. MainInv(mainQueue, queue, clients, late, conn)
    BY DEF IInv
  <2>2. MainInv(mainQueue, queue', clients, late, conn)
    BY <1>7, <2>1, MainInvChange
  <2>3. Drained(queue', c, next)
    BY <1>2
  <2>4. x.kind \in CloseKinds /\ x.kind \notin EmitKinds
    BY <1>3, KindsDiffer
  <2> QED
    BY <1>2, <1>3, <1>4, <2>2, <2>3, <2>4 DEF MainInv
<1>9. ClientsKnowTheEvents'
  <2>1. mainQueue[1].kind \notin EmitKinds /\ x.kind \notin EmitKinds
    BY <1>1, <1>2, <1>3, KindsDiffer
  <2>2. \A y, e : KnowsOf(mainQueue', told, y, e) <=> KnowsOf(mainQueue, told, y, e)
    BY <1>1, <1>2, <1>3, <2>1, KnowsReplaced
  <2>3. told' = told /\ asked' = asked
    BY DEF clientVars
  <2> QED
    BY <2>2, <2>3, KnowledgeFrame
<1>10. ClientInv'
  BY DEF IInv, ClientInv, clientVars
<1>11. WatchedInv'
  BY <1>7 DEF IInv, WatchedInv
<1> QED
  BY <1>2, <1>5, <1>6, <1>8, <1>9, <1>10, <1>11

\* The worker forgets the connections X, in onClosedConnection or clear(), with
\* everything recorded for them, while q stays of the D-Bus context.
LEMMA ForgetConnectionsKeeps ==
    ASSUME IInv, TypeOK', NEW X \in SUBSET Connections,
           NEW q \in Seq(QueueSources), Fewer(queue, q),
           QueueInv(q, clients, eventListeners, conn),
           ForgetConnections(X, q),
           clients' = clients \ X, late' = late \ X,
           UNCHANGED <<eventListeners, mainQueue, conn, watched>>
    PROVE  /\ RegistrationsMatchClients'
           /\ \A e \in Events :
                 /\ registrationIds'[e] = registrationIds[e] \ X
                 /\ subscribed'[e] = subscribed[e] \ X
           /\ DispatchedSourcesAreExpected'
           /\ late' \subseteq clients' /\ \A c \in clients' : conn'[c] # "none"
           /\ QueueInv(queue', clients', eventListeners', conn')
           /\ MainInv(mainQueue', queue', clients', late', conn')
           /\ SameInPlace
           /\ WatchedInv'
<1>1. SameInPlace
  BY DEF SameInPlace, InPlace
<1>2. RegistrationsMatchClients'
  <2>1. /\ InPlace({"remove"})' = InPlace({"remove"})
        /\ InPlace({"unregisterDBusInterfaces", "remove"})'
              = InPlace({"unregisterDBusInterfaces", "remove"})
    BY <1>1 DEF SameInPlace, Forgotten
  <2> QED
    BY <2>1 DEF IInv, RegistrationsMatchClients, ForgetConnections
<1>3. \A e \in Events : /\ registrationIds'[e] = registrationIds[e] \ X
                        /\ subscribed'[e] = subscribed[e] \ X
  <2>1. \A e \in Events : subscribed[e] \subseteq registrationIds[e]
    BY DEF IInv, SubscriptionInv, SubscriptionsMatchListeners
  <2> QED
    BY <2>1 DEF ForgetConnections
<1>4. DispatchedSourcesAreExpected'
  BY DEF IInv, DispatchedSourcesAreExpected, ForgetConnections
<1>5. late' \subseteq clients' /\ \A c \in clients' : conn'[c] # "none"
  BY DEF IInv, ClientInv
<1>6. QueueInv(queue', clients', eventListeners', conn')
  <2>1. \A i \in DOMAIN q : q[i].kind \in HandlerKinds => q[i].conn \in clients
    BY DEF QueueInv
  <2>2. QueueInv(CancelSources(q, HandlerKinds, X), clients \ X, eventListeners, conn)
    BY <2>1, QueueInvCancelSources
  <2> QED
    BY <2>2 DEF ForgetConnections
<1>7. Fewer(queue, queue')
  BY FewerCancelled, FewerTransitive DEF ForgetConnections
<1>8. /\ \A y : NotAnnounced(queue, y) => NotAnnounced(queue', y)
      /\ \A y, k : Drained(queue, y, k) => Drained(queue', y, k)
  BY <1>7, FewerKeeps
<1>9. MainInv(mainQueue', queue', clients', late', conn')
  <2>1. MainInv(mainQueue, queue, clients, late, conn)
    BY DEF IInv
  <2>2. \A c : c \in late => NotAnnounced(queue, c)
    BY DEF IInv, ClientInv, QueueInv, NotAnnounced
  <2>3. ASSUME NEW c, c \in late \/ (c \notin clients /\ NotAnnounced(queue, c))
        PROVE  c \in late' \/ (c \notin clients' /\ NotAnnounced(queue', c))
    BY <1>8, <2>2, <2>3 DEF IInv, ClientInv
  <2>4. MainInv(mainQueue, queue', clients', late', conn)
    BY <1>8, <2>1, <2>3, MainInvChange
  <2> QED
    BY <2>4
<1>10. WatchedInv'
  BY <1>8 DEF IInv, WatchedInv
<1> QED
  BY <1>1, <1>2, <1>3, <1>4, <1>5, <1>6, <1>9, <1>10

\* Subscribing the clients cs, which are all, to the events ls.
LEMMA SubscribeSignalsPendingKeeps ==
    ASSUME IInv, TypeOK', SameInPlace,
           SubscribeSignalsPending(eventListeners', registrationIds, clients'),
           eventListeners \subseteq eventListeners', clients \subseteq clients',
           clients' \in SUBSET Connections,
           \A c \in clients' : conn[c] # "none", conn' = conn
    PROVE  SubscriptionInv'
<1>0. TypeOK
  BY DEF IInv
<1>1. /\ \A e \in Events :
            /\ subscribed[e] \subseteq registrationIds[e]
            /\ e \notin eventListeners => registrationIds[e] = {}
      /\ \A e \in Events : \A c \in Connections \ resubscribed :
            /\ c \in registrationIds[e] => c \in subscribed[e]
            /\ c \in subscribed[e] => c \in clients \ InPlace(Forgotten)
      /\ \A e \in Events : \A c \in subscribed[e] :
            conn[c] # "none" /\ (conn[c] = "open" => c \in clients)
  BY DEF IInv, SubscriptionInv, SubscriptionsMatchListeners
<1>2. /\ InPlace(Forgotten)' = InPlace(Forgotten)
      /\ eventListeners' \subseteq Events
  BY DEF SameInPlace, TypeOK
<1>3. \A e \in Events :
         /\ e \in eventListeners' =>
               /\ registrationIds'[e] = registrationIds[e] \cup clients'
               /\ subscribed'[e] = subscribed[e] \cup (clients' \ registrationIds[e])
               /\ resubscribed' = resubscribed \cup (clients' \cap InPlace(Forgotten))
         /\ e \notin eventListeners' =>
               registrationIds'[e] = {} /\ subscribed'[e] = {}
  <2>1. \A e \in Events : e \notin eventListeners' =>
           registrationIds'[e] = {} /\ subscribed'[e] = {}
    BY <1>1 DEF SubscribeSignalsPending
  <2> QED
    BY <2>1 DEF SubscribeSignalsPending
<1>4. SubscriptionsMatchListeners'
  <2>1. ASSUME NEW e \in Events, e \in eventListeners',
               NEW c \in Connections \ resubscribed'
        PROVE  /\ c \in registrationIds'[e] => c \in subscribed'[e]
               /\ c \in subscribed'[e] <=> c \in clients' \ InPlace(Forgotten)
    <3>1. c \notin resubscribed /\ c \notin clients' \cap InPlace(Forgotten)
      BY <1>3, <2>1
    <3> QED
      BY <1>1, <1>3, <2>1, <3>1
  <2>2. \A e \in Events : subscribed'[e] \subseteq registrationIds'[e]
    BY <1>1, <1>3
  <2> QED
    BY <1>2, <1>3, <2>1, <2>2 DEF SubscriptionsMatchListeners
<1>5. \A e \in eventListeners' : clients' \ InPlace(Forgotten)' \subseteq registrationIds'[e]
  BY <1>2, <1>3
<1>6. \A e \in Events : \A c \in subscribed'[e] :
         conn'[c] # "none" /\ (conn'[c] = "open" => c \in clients')
  BY <1>1, <1>3
<1> QED
  BY <1>4, <1>5, <1>6 DEF SubscriptionInv

\* Registering and unregistering: what the clients then know, and what waits.
LEMMA EmitSignalsKeeps ==
    ASSUME IInv, TypeOK', NEW kind \in EmitKinds, NEW e \in Events,
           EmitSignals(kind, e),
           eventListeners' = IF kind = "registered" THEN eventListeners \cup {e}
                                                    ELSE eventListeners \ {e},
           Fewer(queue, queue'),
           UNCHANGED <<active, clients, conn, asked, late>>
    PROVE  /\ ClientsKnowTheEvents'
           /\ MainInv(mainQueue', queue', clients', late', conn')
           /\ SameInPlace
           /\ ClientInv'
<1>1. /\ MainInv(mainQueue, queue', clients', late', conn')
      /\ MainInv(mainQueue, queue, clients, late, conn)
  <2>1. MainInv(mainQueue, queue, clients, late, conn)
    BY DEF IInv
  <2>2. MainInv(mainQueue, queue', clients, late, conn)
    BY <2>1, FewerKeeps, MainInvChange
  <2> QED
    BY <2>1, <2>2
<1>2. \A c \in clients \ overtaken, x \in Events :
         conn[c] = "open" =>
            /\ KnowsOf(mainQueue, told, c, x) => x \in eventListeners
            /\ c \in asked /\ x \in eventListeners
                  => KnowsOf(mainQueue, told, c, x) \/ <<OWN_ID, x>> \in told[c]
  BY WillKnowIsKnowsOf DEF IInv, ClientsKnowTheEvents
<1>3. kind = "registered" \/ kind = "deregistered"
  BY DEF EmitKinds
<1>4. TypeOK /\ clients \subseteq Connections
      /\ told \in [Connections -> SUBSET ({OWN_ID, SERVER_ID} \X Events)]
  BY DEF IInv, TypeOK
<1>5. CASE active
  <2>1. /\ mainQueue' = mainQueue
        /\ \A c \in Connections :
              told'[c] = IF c \in clients /\ conn[c] = "open"
                         THEN Hears(kind, told[c], e) ELSE told[c]
        /\ overtaken' = overtaken \cup {c \in clients \cap Waiting : conn[c] = "open"}
    BY <1>5 DEF EmitSignals
  <2>2. ASSUME NEW c \in clients \ overtaken', conn[c] = "open", NEW x \in Events
        PROVE  /\ KnowsOf(mainQueue', told', c, x) => x \in eventListeners'
               /\ c \in asked /\ x \in eventListeners'
                     => KnowsOf(mainQueue', told', c, x) \/ <<OWN_ID, x>> \in told'[c]
    <3>1. c \notin overtaken /\ c \notin Waiting
      BY <2>1, <2>2
    <3>2. \A i \in DOMAIN mainQueue :
             mainQueue[i] # Source("registered", c, x) /\ mainQueue[i] # Source("deregistered", c, x)
      BY <3>1 DEF Waiting, Source, EmitKinds
    <3>3. \A tl : KnowsOf(mainQueue, tl, c, x) <=> <<SERVER_ID, x>> \in tl[c]
      BY <3>2 DEF KnowsOf
    <3>4. told'[c] = Hears(kind, told[c], e)
      BY <1>4, <2>1, <2>2
    <3>5. OWN_ID # SERVER_ID
      BY DEF OWN_ID, SERVER_ID
    <3>6. <<OWN_ID, x>> \in told[c] => <<OWN_ID, x>> \in told'[c]
      BY <3>4, <3>5 DEF Hears
    <3>7. <<SERVER_ID, x>> \in told'[c]
             <=> IF x = e THEN kind = "registered" ELSE <<SERVER_ID, x>> \in told[c]
      BY <3>4 DEF Hears
    <3>8. x \in eventListeners' <=> IF x = e THEN kind = "registered" ELSE x \in eventListeners
      OBVIOUS
    <3> QED
      BY <1>2, <2>1, <2>2, <3>1, <3>3, <3>6, <3>7, <3>8
  <2>3. ClientsKnowTheEvents'
    BY <2>2, WillKnowIsKnowsOf DEF ClientsKnowTheEvents
  <2>4. SameInPlace
    BY <2>1 DEF SameInPlace, InPlace
  <2>5. ClientInv'
    <3>1. \A c \in Connections : told'[c] # {} => told[c] # {} \/ (c \in clients /\ conn[c] = "open")
      BY <2>1
    <3> QED
      BY <3>1 DEF IInv, ClientInv
  <2> QED
    BY <1>1, <2>1, <2>3, <2>4, <2>5
<1>6. CASE ~active
  <2>1. PICK order \in Visits(clients) :
           mainQueue' = mainQueue \o
                        [i \in DOMAIN order |-> Source(kind, order[i], e)]
    BY <1>6 DEF EmitSignals
  <2>2. told' = told /\ overtaken' = overtaken
    BY <1>6 DEF EmitSignals
  <2> DEFINE new == [i \in DOMAIN order |-> Source(kind, order[i], e)]
  <2>3. /\ new \in Seq(MainSources)
        /\ \A i \in DOMAIN new : \E c \in clients : new[i] = Source(kind, c, e)
        /\ \A c \in clients : \E i \in DOMAIN new : new[i] = Source(kind, c, e)
    BY <1>4, EmittedSources
  <2> HIDE DEF new
  <2>4. mainQueue \in Seq(MainSources) /\ mainQueue' = mainQueue \o new
    BY <1>4, <2>1 DEF TypeOK, new
  <2>5. /\ Grown(mainQueue, mainQueue') /\ DOMAIN mainQueue' \subseteq Nat
        /\ \A j \in DOMAIN mainQueue' \ DOMAIN mainQueue :
              \E c \in clients : mainQueue'[j] = Source(kind, c, e)
        /\ \A c \in clients : \E j \in DOMAIN mainQueue' \ DOMAIN mainQueue :
              mainQueue'[j] = Source(kind, c, e)
    <3>0. new \in Seq(MainSources) /\ mainQueue \in Seq(MainSources)
      BY <2>3, <2>4
    <3> DEFINE mq == mainQueue \o new
    <3>1. /\ Grown(mainQueue, mq) /\ DOMAIN mq \subseteq Nat
          /\ \A j \in DOMAIN mq \ DOMAIN mainQueue : \E k \in DOMAIN new : mq[j] = new[k]
          /\ \A k \in DOMAIN new : \E j \in DOMAIN mq \ DOMAIN mainQueue : mq[j] = new[k]
      BY <3>0, GrownByMany
    <3> HIDE DEF mq
    <3>2. mainQueue' = mq
      BY <2>4 DEF mq
    <3>3. \A j \in DOMAIN mq \ DOMAIN mainQueue :
              \E c \in clients : mq[j] = Source(kind, c, e)
      BY <2>3, <3>1
    <3>4. \A c \in clients : \E j \in DOMAIN mq \ DOMAIN mainQueue :
              mq[j] = Source(kind, c, e)
      BY <2>3, <3>1
    <3> QED
      BY <3>1, <3>2, <3>3, <3>4
  <2>6. clients = late /\ \A c \in clients : conn[c] # "none"
    BY <1>6 DEF IInv, ClientInv
  <2>7. \A c, x, k : Source(kind, c, e) = Source(k, c, x) <=> k = kind /\ x = e
    BY DEF Source
  <2>8. \A c, d, k, x : Source(kind, c, e) = Source(k, d, x) => x = e /\ k = kind
    BY DEF Source
  <2>9. ASSUME NEW c \in clients \ overtaken', conn[c] = "open", NEW x \in Events
        PROVE  /\ KnowsOf(mainQueue', told, c, x) => x \in eventListeners'
               /\ c \in asked /\ x \in eventListeners'
                     => KnowsOf(mainQueue', told, c, x) \/ <<OWN_ID, x>> \in told[c]
    <3>1. CASE x # e
      <4>1. \A j \in DOMAIN mainQueue' \ DOMAIN mainQueue :
               /\ mainQueue'[j] # Source("registered", c, x)
               /\ mainQueue'[j] # Source("deregistered", c, x)
        BY <2>5, <2>8, <3>1
      <4>2. KnowsOf(mainQueue', told, c, x) <=> KnowsOf(mainQueue, told, c, x)
        BY <2>5, <4>1, KnowsGrown
      <4> QED
        BY <1>2, <2>2, <2>9, <3>1, <4>2
    <3>2. PICK j \in DOMAIN mainQueue' \ DOMAIN mainQueue : mainQueue'[j] = Source(kind, c, e)
      BY <2>5, <2>9
    <3>3. CASE x = e /\ kind = "registered"
      <4>1. \A i \in DOMAIN mainQueue' \ DOMAIN mainQueue :
               mainQueue'[i] # Source("deregistered", c, e)
        BY <2>5, <2>8, <3>3
      <4>2. KnowsOf(mainQueue', told, c, e)
        BY <2>5, <3>2, <3>3, <4>1, KnowsRegistered
      <4> QED
        BY <3>3, <4>2
    <3>4. CASE x = e /\ kind = "deregistered"
      <4>1. \A i \in DOMAIN mainQueue' \ DOMAIN mainQueue :
               mainQueue'[i] # Source("registered", c, e)
        BY <2>5, <2>8, <3>4
      <4>2. ~KnowsOf(mainQueue', told, c, e)
        BY <2>5, <3>2, <3>4, <4>1, KnowsDeregistered
      <4>3. x \notin eventListeners'
        BY <3>4
      <4> QED
        BY <3>4, <4>2, <4>3
    <3> QED
      BY <1>3, <3>1, <3>3, <3>4
  <2>10. ClientsKnowTheEvents'
    BY <2>2, <2>9, WillKnowIsKnowsOf DEF ClientsKnowTheEvents
  <2>11. \A j \in DOMAIN mainQueue' \ DOMAIN mainQueue :
            /\ mainQueue'[j].kind = kind /\ mainQueue'[j].conn \in clients
            /\ kind \notin CloseKinds /\ kind \notin InPlaceKinds
    <3>1. \A c : Source(kind, c, e).kind = kind /\ Source(kind, c, e).conn = c
      BY DEF Source
    <3> QED
      BY <2>5, <3>1, KindsDiffer
  <2>12. MainInv(mainQueue', queue', clients', late', conn')
    <3>1. \A i \in DOMAIN mainQueue' :
             \/ i \in DOMAIN mainQueue /\ mainQueue'[i] = mainQueue[i]
             \/ /\ mainQueue'[i].kind \notin CloseKinds \cup InPlaceKinds
                /\ mainQueue'[i].conn \in late' /\ conn'[mainQueue'[i].conn] # "none"
      BY <2>5, <2>6, <2>11 DEF Grown
    <3> QED
      BY <1>1, <3>1 DEF MainInv
  <2>13. SameInPlace
    <3>1. ASSUME NEW calls \in SUBSET Forgotten
          PROVE  CallOf(mainQueue', calls) = CallOf(mainQueue, calls)
      BY <2>5, <2>11, <3>1, CallOfGrown, KindsDiffer
    <3> QED
      BY <3>1, InPlaceIsCallOf DEF SameInPlace
  <2>14. ClientInv'
    BY <2>2 DEF IInv, ClientInv
  <2> QED
    BY <2>10, <2>12, <2>13, <2>14
<1> QED
  BY <1>5, <1>6

\* GDBus's thread attaches a client's message x to the D-Bus context.
LEMMA MessageArrives ==
    ASSUME IInv, TypeOK', NEW x \in QueueSources, x.kind \in HandlerKinds,
           x.conn \in clients, conn[x.conn] = "open",
           x.kind = "signal" => x.event \in eventListeners,
           queue' = Append(queue, x),
           UNCHANGED <<serviceVars, mainQueue, conn, watched, subscribed,
                       clientVars, historyVars>>
    PROVE  IInv'
<1>1. queue \in Seq(QueueSources) /\ QueueInv(queue, clients, eventListeners, conn)
  BY DEF IInv, TypeOK
<1>2. x.kind # "new" /\ x.kind # "closed"
  BY DEF HandlerKinds, CallKinds
<1>3. QueueInv(Append(queue, x), clients, eventListeners, conn)
  BY <1>1, <1>2, QueueInvAppend
<1>4. /\ \A c : NotAnnounced(queue, c) => NotAnnounced(Append(queue, x), c)
      /\ \A c, call : x.conn # c /\ Drained(queue, c, call)
            => Drained(Append(queue, x), c, call)
  BY <1>1, <1>2, AppendKeeps
<1>5. MainInv(mainQueue', queue', clients', late', conn') /\ SameInPlace
  BY <1>4, ContextFrame DEF serviceVars, historyVars
<1>6. RegistrationsMatchClients' /\ SubscriptionInv'
  BY <1>5, ServiceFrame DEF serviceVars, historyVars
<1>7. ClientsKnowTheEvents'
  BY KnowledgeFrame DEF serviceVars, clientVars, historyVars
<1>8. DispatchedSourcesAreExpected' /\ ClientInv'
  BY DEF serviceVars, clientVars, historyVars, IInv, ClientInv,
         DispatchedSourcesAreExpected
<1>9. WatchedInv'
  BY <1>4 DEF IInv, WatchedInv
<1> QED
  BY <1>3, <1>5, <1>6, <1>7, <1>8, <1>9 DEF serviceVars, IInv

----------------------------------------------------------------------------
(* The inductive invariant.                                                *)

\* No operation, no handler of either thread and nothing that GDBus does
\* disturbs the invariant.
THEOREM InvariantStep == IInv /\ TypeOK' /\ [Next]_vars => IInv'
<1> SUFFICES ASSUME IInv, TypeOK', [Next]_vars
             PROVE  IInv'
  OBVIOUS
<1>0. TypeOK
  BY DEF IInv
<1>1. ASSUME UNCHANGED vars
      PROVE  IInv'
  <2>1. SameInPlace /\ MainInv(mainQueue', queue', clients', late', conn')
    BY <1>1, ContextFrame DEF vars, serviceVars, gdbusVars, historyVars
  <2>2. RegistrationsMatchClients' /\ SubscriptionInv'
    BY <1>1, <2>1, ServiceFrame DEF vars, serviceVars, gdbusVars, historyVars
  <2>3. ClientsKnowTheEvents'
    BY <1>1, KnowledgeFrame DEF vars, serviceVars, gdbusVars, clientVars, historyVars
  <2> QED
    BY <1>1, <2>1, <2>2, <2>3 DEF vars, serviceVars, gdbusVars, clientVars,
         historyVars, IInv, DispatchedSourcesAreExpected, ClientInv, WatchedInv
<1>2. ASSUME Start
      PROVE  IInv'
  <2>1. SameInPlace /\ MainInv(mainQueue', queue', clients', late', conn')
    BY <1>2, ContextFrame DEF Start, gdbusVars, historyVars
  <2>2. RegistrationsMatchClients' /\ SubscriptionInv'
    BY <1>2, <2>1, ServiceFrame DEF Start, gdbusVars, historyVars
  <2>3. ClientsKnowTheEvents'
    BY <1>2, KnowledgeFrame DEF Start, gdbusVars, clientVars, historyVars
  <2>4. ClientInv' /\ WatchedInv' /\ DispatchedSourcesAreExpected'
    BY <1>2 DEF Start, gdbusVars, clientVars, historyVars, IInv, ClientInv,
                WatchedInv, DispatchedSourcesAreExpected
  <2> QED
    BY <1>2, <2>1, <2>2, <2>3, <2>4 DEF Start, gdbusVars, IInv
<1>3. ASSUME Stop
      PROVE  IInv'
  <2>1. clients \in SUBSET Connections /\ queue \in Seq(QueueSources)
        /\ QueueInv(queue, clients, eventListeners, conn) /\ Fewer(queue, queue)
    BY DEF IInv, TypeOK, Fewer
  <2>2. /\ clients' = clients \ clients /\ late' = late \ clients
        /\ ForgetConnections(clients, queue)
        /\ UNCHANGED <<eventListeners, mainQueue, conn, watched>>
    BY <1>3 DEF Stop, IInv, ClientInv
  <2>3. /\ RegistrationsMatchClients'
        /\ \A e \in Events :
              /\ registrationIds'[e] = registrationIds[e] \ clients
              /\ subscribed'[e] = subscribed[e] \ clients
        /\ DispatchedSourcesAreExpected'
        /\ QueueInv(queue', clients', eventListeners', conn')
        /\ MainInv(mainQueue', queue', clients', late', conn')
        /\ WatchedInv'
    BY <2>1, <2>2, ForgetConnectionsKeeps
  <2>4. clients' = {} /\ late' = {} /\ active' = FALSE
    BY <1>3 DEF Stop
  <2>5. ClientsKnowTheEvents'
    BY <2>4 DEF ClientsKnowTheEvents
  <2>6. ClientInv'
    BY <1>3, <2>4 DEF Stop, ForgetKnowledge, IInv, ClientInv
  <2>7. SubscriptionInv'
    <3>1. ASSUME NEW c \in Connections \ resubscribed', NEW e \in Events
          PROVE  c \notin registrationIds'[e]
      <4>1. CASE c \notin resubscribed
        BY <2>3, <3>1, <4>1 DEF IInv, SubscriptionInv, SubscriptionsMatchListeners
      <4>2. CASE c \in resubscribed
        <5>1. ~Recorded(c)'
          BY <1>3, <3>1, <4>2 DEF Stop
        <5> QED
          BY <5>1 DEF Recorded
      <4> QED
        BY <4>1, <4>2
    <3>2. \A e \in Events : subscribed'[e] \subseteq registrationIds'[e]
      BY <2>3 DEF IInv, SubscriptionInv, SubscriptionsMatchListeners
    <3>3. SubscriptionsMatchListeners'
      BY <2>2, <2>3, <2>4, <3>1, <3>2
         DEF IInv, SubscriptionInv, SubscriptionsMatchListeners
    <3>4. \A e \in Events : \A c \in subscribed'[e] :
             conn'[c] # "none" /\ (conn'[c] = "open" => c \in clients')
      BY <2>2, <2>3 DEF IInv, SubscriptionInv
    <3> QED
      BY <2>4, <3>3, <3>4 DEF SubscriptionInv
  <2> QED
    BY <2>3, <2>5, <2>6, <2>7 DEF IInv
<1>4. ASSUME NEW e \in Events, RegisterEventListener(e)
      PROVE  IInv'
  <2>1. /\ "registered" \in EmitKinds /\ EmitSignals("registered", e)
        /\ eventListeners' = eventListeners \cup {e}
        /\ Fewer(queue, queue')
        /\ UNCHANGED <<active, clients, conn, asked, late, queue>>
    BY <1>4 DEF RegisterEventListener, EmitKinds, Fewer
  <2>2. /\ ClientsKnowTheEvents' /\ ClientInv' /\ SameInPlace
        /\ MainInv(mainQueue', queue', clients', late', conn')
    BY <2>1, EmitSignalsKeeps
  <2>3. SubscriptionInv'
    <3>1. SubscribeSignalsPending(eventListeners', registrationIds, clients')
      BY <1>4, <2>1 DEF RegisterEventListener
    <3>2. /\ \A c \in clients' : conn[c] # "none"
          /\ clients' \in SUBSET Connections
      BY <2>1 DEF IInv, ClientInv, TypeOK
    <3> QED
      BY <2>1, <2>2, <3>1, <3>2, SubscribeSignalsPendingKeeps
  <2>4. RegistrationsMatchClients'
    <3>1. /\ InPlace({"remove"})' = InPlace({"remove"})
          /\ InPlace({"unregisterDBusInterfaces", "remove"})'
                = InPlace({"unregisterDBusInterfaces", "remove"})
      BY <2>2 DEF SameInPlace, Forgotten
    <3> QED
      BY <1>4, <3>1 DEF RegisterEventListener, IInv, RegistrationsMatchClients
  <2>5. QueueInv(queue', clients', eventListeners', conn')
    BY <2>1 DEF IInv, QueueInv
  <2>6. WatchedInv' /\ DispatchedSourcesAreExpected'
    BY <1>4, <2>1 DEF RegisterEventListener, IInv, WatchedInv,
                      DispatchedSourcesAreExpected
  <2> QED
    BY <2>2, <2>3, <2>4, <2>5, <2>6 DEF IInv
<1>5. ASSUME NEW e \in Events, UnregisterEventListener(e)
      PROVE  IInv'
  <2>0. queue \in Seq(QueueSources)
    BY <1>0 DEF TypeOK
  <2>1. /\ "deregistered" \in EmitKinds /\ EmitSignals("deregistered", e)
        /\ eventListeners' = eventListeners \ {e}
        /\ queue' = CancelSignal(queue, registrationIds[e], e)
        /\ Fewer(queue, queue')
        /\ UNCHANGED <<active, clients, conn, asked, late>>
    BY <1>5, <2>0, FewerCancelled DEF UnregisterEventListener, EmitKinds
  <2>2. /\ ClientsKnowTheEvents' /\ ClientInv' /\ SameInPlace
        /\ MainInv(mainQueue', queue', clients', late', conn')
    BY <2>1, EmitSignalsKeeps
  <2>3. /\ InPlace({"remove"})' = InPlace({"remove"})
        /\ InPlace({"unregisterDBusInterfaces", "remove"})'
              = InPlace({"unregisterDBusInterfaces", "remove"})
        /\ InPlace(Forgotten)' = InPlace(Forgotten)
    BY <2>2 DEF SameInPlace, Forgotten
  <2>4. RegistrationsMatchClients'
    BY <1>5, <2>3 DEF UnregisterEventListener, IInv, RegistrationsMatchClients
  <2>5. /\ \A x \in Events : registrationIds'[x] = IF x = e THEN {} ELSE registrationIds[x]
        /\ \A x \in Events : subscribed'[x] = IF x = e THEN {} ELSE subscribed[x]
    <3>1. subscribed[e] \subseteq registrationIds[e]
      BY DEF IInv, SubscriptionInv, SubscriptionsMatchListeners
    <3> QED
      BY <1>0, <1>5, <3>1 DEF UnregisterEventListener, TypeOK
  <2>6. SubscriptionInv'
    <3>1. /\ \A x \in Events : x \notin eventListeners' => registrationIds'[x] = {}
          /\ \A x \in Events : subscribed'[x] \subseteq registrationIds'[x]
          /\ \A x \in eventListeners' :
                clients' \ InPlace(Forgotten)' \subseteq registrationIds'[x]
      BY <1>0, <2>1, <2>3, <2>5 DEF IInv, SubscriptionInv, SubscriptionsMatchListeners, TypeOK
    <3>2. ASSUME NEW c \in Connections \ resubscribed', NEW x \in Events
          PROVE  /\ c \in registrationIds'[x] => c \in subscribed'[x]
                 /\ c \in subscribed'[x] <=>
                       x \in eventListeners' /\ c \in clients' \ InPlace(Forgotten)'
      <4>1. CASE c \notin resubscribed
        BY <2>1, <2>3, <2>5, <3>2, <4>1
           DEF IInv, SubscriptionInv, SubscriptionsMatchListeners
      <4>2. CASE c \in resubscribed
        <5>1. ~Recorded(c)'
          BY <1>5, <3>2, <4>2 DEF UnregisterEventListener
        <5>2. c \notin registrationIds'[x]
          BY <5>1 DEF Recorded
        <5> QED
          BY <3>1, <5>2
      <4> QED
        BY <4>1, <4>2
    <3>3. SubscriptionsMatchListeners'
      BY <3>1, <3>2 DEF SubscriptionsMatchListeners
    <3>4. \A x \in Events : \A c \in subscribed'[x] :
             conn'[c] # "none" /\ (conn'[c] = "open" => c \in clients')
      BY <2>1, <2>5 DEF IInv, SubscriptionInv
    <3> QED
      BY <3>1, <3>3, <3>4 DEF SubscriptionInv
  <2>7. QueueInv(queue', clients', eventListeners', conn')
    <3>1. ASSUME NEW i \in DOMAIN queue, queue[i].kind = "signal", queue[i].event = e
          PROVE  queue[i].conn \in registrationIds[e]
      <4>1. queue[i].conn \in clients
        BY <3>1 DEF IInv, QueueInv, HandlerKinds
      <4>2. queue[i].conn \notin InPlace(Forgotten)
        <5>1. \A k \in DOMAIN mainQueue : mainQueue[k].kind \in Forgotten =>
                 Drained(queue, mainQueue[k].conn, mainQueue[k].kind)
          BY KindsDiffer DEF IInv, MainInv
        <5> QED
          BY <3>1, <5>1 DEF InPlace, Drained
      <4>3. e \in eventListeners
        BY <1>5 DEF UnregisterEventListener
      <4> QED
        BY <4>1, <4>2, <4>3 DEF IInv, SubscriptionInv
    <3>2. QueueInv(queue, clients, eventListeners, conn)
      BY DEF IInv
    <3>3. QueueInv(CancelSignal(queue, registrationIds[e], e), clients,
                   eventListeners \ {e}, conn)
      BY <2>0, <3>1, <3>2, QueueInvCancelSignal
    <3> QED
      BY <2>1, <3>3
  <2>8. WatchedInv' /\ DispatchedSourcesAreExpected'
    <3>1. \A c : NotAnnounced(queue, c) => NotAnnounced(queue', c)
      BY <2>1, FewerKeeps
    <3> QED
      BY <1>5, <3>1 DEF UnregisterEventListener, IInv, WatchedInv,
                        DispatchedSourcesAreExpected
  <2> QED
    BY <2>2, <2>4, <2>6, <2>7, <2>8 DEF IInv
<1>6. ASSUME OnNewConnection
      PROVE  IInv'
  <2> DEFINE c == Head(queue).conn
  <2>1. /\ queue # <<>> /\ Head(queue).kind = "new" /\ queue' = Tail(queue)
        /\ clients' = clients \cup {c} /\ watched' = watched \cup {c}
        /\ UNCHANGED <<active, eventListeners, mainQueue, conn, asked, told, overtaken>>
    BY <1>6 DEF OnNewConnection, Dispatches, clientVars
  <2>2. /\ 1 \in DOMAIN queue /\ Head(queue) = queue[1] /\ c \in Connections
        /\ queue \in Seq(QueueSources)
        /\ QueueInv(Tail(queue), clients, eventListeners, conn)
        /\ \A y : NotAnnounced(queue, y) => NotAnnounced(Tail(queue), y)
        /\ \A y, call : Drained(queue, y, call) => Drained(Tail(queue), y, call)
    BY <2>1, QueueHead
  <2>3. /\ c \notin clients /\ conn[c] # "none" /\ ~NotAnnounced(queue, c)
        /\ \A call : ~Drained(queue, c, call)
    BY <2>1, <2>2 DEF IInv, QueueInv, NotAnnounced, Drained
  <2>4. NotAnnounced(Tail(queue), c)
    <3>1. \A i \in DOMAIN Tail(queue) :
             i + 1 \in DOMAIN queue /\ i + 1 # 1 /\ Tail(queue)[i] = queue[i + 1]
      BY <2>1, <2>2, TailElements
    <3>2. ASSUME NEW i \in DOMAIN queue, i # 1, queue[i].kind = "new"
          PROVE  queue[i].conn # c
      BY <2>1, <2>2, <3>2 DEF IInv, QueueInv
    <3> QED
      BY <3>1, <3>2 DEF NotAnnounced
  <2>5. \A i \in DOMAIN mainQueue :
           /\ mainQueue[i].kind \in EmitKinds \cup InPlaceKinds => mainQueue[i].conn # c
    BY <2>3 DEF IInv, MainInv, ClientInv
  <2>6. SameInPlace /\ \A calls \in SUBSET InPlaceKinds : c \notin InPlace(calls)
    <3>1. SameInPlace
      BY <2>1 DEF SameInPlace, InPlace
    <3>2. \A calls \in SUBSET InPlaceKinds : c \notin InPlace(calls)
      BY <2>5 DEF InPlace
    <3> QED
      BY <3>1, <3>2
  <2>7. RegistrationsMatchClients'
    <3>1. /\ InPlace({"remove"})' = InPlace({"remove"})
          /\ InPlace({"unregisterDBusInterfaces", "remove"})'
                = InPlace({"unregisterDBusInterfaces", "remove"})
          /\ c \notin InPlace({"remove"})
          /\ c \notin InPlace({"unregisterDBusInterfaces", "remove"})
      BY <2>6 DEF SameInPlace, Forgotten, InPlaceKinds
    <3> QED
      BY <1>6, <3>1 DEF OnNewConnection, IInv, RegistrationsMatchClients
  <2>8. SubscriptionInv'
    <3>1. /\ SubscribeSignalsPending(eventListeners', registrationIds, clients')
          /\ \A y \in clients' : conn[y] # "none"
          /\ clients' \in SUBSET Connections
      BY <1>6, <2>1, <2>3 DEF OnNewConnection, IInv, ClientInv, TypeOK
    <3> QED
      BY <2>1, <2>6, <3>1, SubscribeSignalsPendingKeeps
  <2>9. DispatchedSourcesAreExpected'
    <3>1. c \notin dbusRegistrationId \cup registryRegistrationId
      BY <2>3 DEF IInv, RegistrationsMatchClients
    <3> QED
      BY <1>6, <3>1 DEF OnNewConnection, IInv, DispatchedSourcesAreExpected
  <2>10. ClientInv'
    BY <1>6, <2>1, <2>3 DEF OnNewConnection, IInv, ClientInv
  <2>11. ClientsKnowTheEvents'
    <3>1. /\ c \notin asked /\ told[c] = {}
      BY <2>2, <2>3 DEF IInv, ClientInv
    <3>2. \A e : ~KnowsOf(mainQueue, told, c, e)
      <4>1. \A e : \A i \in DOMAIN mainQueue : mainQueue[i] # Source("registered", c, e)
        BY <2>5 DEF Source, EmitKinds
      <4> QED
        BY <3>1, <4>1 DEF KnowsOf
    <3>3. \A y \in clients \ overtaken, e \in Events :
             conn[y] = "open" =>
                /\ KnowsOf(mainQueue, told, y, e) => e \in eventListeners
                /\ y \in asked /\ e \in eventListeners
                      => KnowsOf(mainQueue, told, y, e) \/ <<OWN_ID, e>> \in told[y]
      BY WillKnowIsKnowsOf DEF IInv, ClientsKnowTheEvents
    <3> QED
      BY <2>1, <3>1, <3>2, <3>3, WillKnowIsKnowsOf DEF ClientsKnowTheEvents
  <2>12. QueueInv(queue', clients', eventListeners', conn')
    <3>1. \A i \in DOMAIN Tail(queue) : Tail(queue)[i].kind = "new" => Tail(queue)[i].conn # c
      BY <2>4 DEF NotAnnounced
    <3> QED
      BY <2>1, <2>2, <3>1 DEF QueueInv
  <2>13. MainInv(mainQueue', queue', clients', late', conn')
    <3>1. MainInv(mainQueue, queue, clients, late, conn)
      BY DEF IInv
    <3>2. \A y : y # c /\ y \in late => y \in late'
      BY <1>6 DEF OnNewConnection
    <3> QED
      BY <2>1, <2>2, <2>5, <3>1, <3>2 DEF MainInv
  <2>14. WatchedInv'
    BY <2>1, <2>2, <2>3, <2>4 DEF IInv, WatchedInv
  <2> QED
    BY <2>7, <2>8, <2>9, <2>10, <2>11, <2>12, <2>13, <2>14 DEF IInv
<1>7. ASSUME OnClosedConnectionPosted
      PROVE  IInv'
  <2> DEFINE c == Head(queue).conn
  <2>1. /\ queue # <<>> /\ Head(queue).kind = "closed"
        /\ OnClosedConnection(c, Tail(queue))
        /\ UNCHANGED <<active, eventListeners, mainQueue, conn, watched, asked, told,
                       overtaken, resubscribed>>
    BY <1>7 DEF OnClosedConnectionPosted, Dispatches, clientVars
  <2>2. /\ c \in Connections /\ Tail(queue) \in Seq(QueueSources)
        /\ QueueInv(Tail(queue), clients, eventListeners, conn)
        /\ Fewer(queue, Tail(queue))
        /\ conn[c] = "closed"
    BY <2>1, QueueHead DEF IInv, QueueInv
  <2>3. CASE active
    <3>1. /\ ForgetConnections({c}, Tail(queue))
          /\ clients' = clients \ {c} /\ late' = late \ {c}
      BY <2>1, <2>3 DEF OnClosedConnection
    <3>2. {c} \in SUBSET Connections
      BY <2>2
    <3>3. /\ RegistrationsMatchClients'
          /\ \A e \in Events :
                /\ registrationIds'[e] = registrationIds[e] \ {c}
                /\ subscribed'[e] = subscribed[e] \ {c}
          /\ DispatchedSourcesAreExpected'
          /\ late' \subseteq clients' /\ \A y \in clients' : conn'[y] # "none"
          /\ QueueInv(queue', clients', eventListeners', conn')
          /\ MainInv(mainQueue', queue', clients', late', conn')
          /\ SameInPlace /\ WatchedInv'
      BY <2>1, <2>2, <3>1, <3>2, ForgetConnectionsKeeps
    <3>4. ClientsKnowTheEvents'
      BY <2>1, <3>1, KnowledgeFrame
    <3>5. ClientInv'
      BY <2>1, <2>2, <2>3, <3>1, <3>3 DEF IInv, ClientInv
    <3>6. SubscriptionInv'
      <4>1. InPlace(Forgotten)' = InPlace(Forgotten)
        BY <3>3 DEF SameInPlace
      <4>2. SubscriptionsMatchListeners'
        BY <2>1, <3>1, <3>3, <4>1 DEF IInv, SubscriptionInv, SubscriptionsMatchListeners
      <4>3. \A e \in eventListeners' :
               clients' \ InPlace(Forgotten)' \subseteq registrationIds'[e]
        BY <1>0, <2>1, <3>1, <3>3, <4>1 DEF IInv, SubscriptionInv, TypeOK
      <4>4. \A e \in Events : \A y \in subscribed'[e] :
               conn'[y] # "none" /\ (conn'[y] = "open" => y \in clients')
        BY <2>1, <3>1, <3>3 DEF IInv, SubscriptionInv
      <4> QED
        BY <4>2, <4>3, <4>4 DEF SubscriptionInv
    <3> QED
      BY <3>3, <3>4, <3>5, <3>6 DEF IInv
  <2>4. CASE ~active
    <3>1. /\ queue' = Tail(queue)
          /\ UNCHANGED <<clients, registrationIds, subscribed, registryRegistrationId,
                         dbusRegistrationId, fault, late>>
      BY <2>1, <2>4 DEF OnClosedConnection
    <3>2. ClientsKnowTheEvents'
      BY <2>1, <3>1, KnowledgeFrame
    <3>3. DispatchedSourcesAreExpected'
      BY <3>1 DEF IInv, DispatchedSourcesAreExpected
    <3> QED
      BY <2>1, <3>1, <3>2, <3>3, HandlerFrame DEF historyVars
  <2> QED
    BY <2>3, <2>4
<1>8. ASSUME HandleDBusHello
      PROVE  IInv'
  <2>1. queue # <<>> /\ Head(queue) = queue[1] /\ 1 \in DOMAIN queue
        /\ Head(queue).kind \in HandlerKinds
    BY <1>8, QueueHead DEF HandleDBusHello, Dispatches, HandlerKinds, CallKinds
  <2>2. DispatchedSourcesAreExpected'
    BY <1>8, <2>1 DEF HandleDBusHello, IInv, QueueInv, DispatchedSourcesAreExpected
  <2>3. ClientsKnowTheEvents'
    BY <1>8, KnowledgeFrame DEF HandleDBusHello, clientVars, historyVars
  <2> QED
    BY <1>8, <2>1, <2>2, <2>3, HandlerFrame DEF HandleDBusHello, clientVars
<1>9. ASSUME HandleAtspi2GetRegisteredEvents
      PROVE  IInv'
  <2> DEFINE c == Head(queue).conn
  <2>1. /\ queue # <<>> /\ Head(queue) = queue[1] /\ 1 \in DOMAIN queue
        /\ Head(queue).kind \in HandlerKinds /\ c \in Connections
    BY <1>9, QueueHead DEF HandleAtspi2GetRegisteredEvents, Dispatches,
                           HandlerKinds, CallKinds
  <2>2. c \in clients
    BY <2>1 DEF IInv, QueueInv
  <2>3. /\ \/ /\ conn[c] = "open"
              /\ told' = [told EXCEPT ![c] = @ \cup ({OWN_ID} \X eventListeners)]
              /\ asked' = asked \cup {c}
           \/ told' = told /\ asked' = asked
        /\ queue' = Tail(queue)
        /\ UNCHANGED <<active, eventListeners, registrationIds, clients,
                       dbusRegistrationId, registryRegistrationId, mainQueue, conn,
                       watched, subscribed, historyVars, overtaken>>
    BY <1>9 DEF HandleAtspi2GetRegisteredEvents, clientVars, historyVars
  <2>4. DispatchedSourcesAreExpected'
    BY <1>9, <2>2 DEF HandleAtspi2GetRegisteredEvents, IInv, DispatchedSourcesAreExpected
  <2>5. \A y \in Connections :
           /\ y # c => told'[y] = told[y] /\ (y \in asked' => y \in asked)
           /\ \A e : <<SERVER_ID, e>> \in told'[y] <=> <<SERVER_ID, e>> \in told[y]
    <3>1. OWN_ID # SERVER_ID
      BY DEF OWN_ID, SERVER_ID
    <3> QED
      BY <1>0, <2>1, <2>3, <3>1 DEF TypeOK
  <2>6. ASSUME conn[c] = "open", c \in asked'
        PROVE  \/ told' = told /\ asked' = asked
               \/ \A e \in eventListeners : <<OWN_ID, e>> \in told'[c]
    <3>1. CASE told' = [told EXCEPT ![c] = @ \cup ({OWN_ID} \X eventListeners)]
      BY <1>0, <2>1, <3>1 DEF TypeOK
    <3> QED
      BY <2>3, <3>1
  <2>7. ClientsKnowTheEvents'
    <3>1. \A y \in clients \ overtaken, e \in Events :
             conn[y] = "open" =>
                /\ KnowsOf(mainQueue, told, y, e) => e \in eventListeners
                /\ y \in asked /\ e \in eventListeners
                      => KnowsOf(mainQueue, told, y, e) \/ <<OWN_ID, e>> \in told[y]
      BY WillKnowIsKnowsOf DEF IInv, ClientsKnowTheEvents
    <3>2. \A y \in Connections : \A e :
             KnowsOf(mainQueue, told', y, e) <=> KnowsOf(mainQueue, told, y, e)
      BY <2>5 DEF KnowsOf
    <3>3. \A y \in clients \ overtaken, e \in Events :
             conn[y] = "open" =>
                /\ KnowsOf(mainQueue, told', y, e) => e \in eventListeners
                /\ y \in asked' /\ e \in eventListeners
                      => KnowsOf(mainQueue, told', y, e) \/ <<OWN_ID, e>> \in told'[y]
      BY <1>0, <2>5, <2>6, <3>1, <3>2 DEF TypeOK
    <3> QED
      BY <2>3, <3>3, WillKnowIsKnowsOf DEF ClientsKnowTheEvents
  <2>8. \A y \in Connections : conn[y] # "open" \/ y \notin clients =>
           told'[y] = told[y] /\ (y \in asked' => y \in asked)
    BY <2>2, <2>3, <2>5
  <2> QED
    BY <2>1, <2>3, <2>4, <2>7, <2>8, HandlerFrame
<1>10. ASSUME OnSignal
       PROVE  IInv'
  <2>1. queue # <<>> /\ Head(queue) = queue[1] /\ 1 \in DOMAIN queue
        /\ Head(queue).kind = "signal"
    BY <1>10, QueueHead DEF OnSignal, Dispatches
  <2>2. DispatchedSourcesAreExpected'
    BY <1>10, <2>1 DEF OnSignal, IInv, QueueInv, DispatchedSourcesAreExpected
  <2>3. ClientsKnowTheEvents'
    BY <1>10, KnowledgeFrame DEF OnSignal, clientVars, historyVars
  <2> QED
    BY <1>10, <2>1, <2>2, <2>3, HandlerFrame DEF OnSignal, clientVars
<1>11. ASSUME DropCancelled
       PROVE  IInv'
  <2>1. DispatchedSourcesAreExpected'
    BY <1>11 DEF DropCancelled, serviceVars, IInv, DispatchedSourcesAreExpected
  <2>2. ClientsKnowTheEvents'
    BY <1>11, KnowledgeFrame DEF DropCancelled, serviceVars, clientVars, historyVars
  <2> QED
    BY <1>11, <2>1, <2>2, HandlerFrame DEF DropCancelled, Dispatches, serviceVars,
                                           clientVars
\* The first source of the default context, if no onClosedConnection is under
\* way, is followed by none either.
<1>12. ASSUME mainQueue # <<>>, Head(mainQueue).kind \notin Forgotten
       PROVE  /\ \A calls \in SUBSET Forgotten : InPlace(calls) = {}
              /\ mainQueue' = Tail(mainQueue) => SameInPlace
  <2>1. /\ 1 \in DOMAIN mainQueue /\ Head(mainQueue) = mainQueue[1]
        /\ mainQueue \in Seq(MainSources)
        /\ \A i \in DOMAIN mainQueue : mainQueue[i].kind \in InPlaceKinds => i = 1
    BY <1>12, MainHead
  <2>2. \A calls \in SUBSET Forgotten : calls \in SUBSET InPlaceKinds
    BY KindsDiffer
  <2>3. \A calls \in SUBSET Forgotten : InPlace(calls) = {}
    BY <1>12, <2>1, <2>2, CallOfFirst, InPlaceIsCallOf
  <2>4. ASSUME mainQueue' = Tail(mainQueue), NEW calls \in SUBSET Forgotten
        PROVE  InPlace(calls)' = {}
    BY <1>12, <2>1, <2>2, <2>4, CallOfTail, InPlaceIsCallOf
  <2> QED
    BY <2>3, <2>4 DEF SameInPlace
<1>13. ASSUME OnClosedConnectionWrapper
       PROVE  IInv'
  <2> DEFINE c == Head(mainQueue).conn
             x == Source("closed", c, NoEvent)
             y == Source("closedNow", c, NoEvent)
  <2>1. /\ mainQueue # <<>> /\ Head(mainQueue).kind = "closedSignal"
        /\ UNCHANGED <<serviceVars, conn, watched, subscribed, clientVars, historyVars>>
    BY <1>13 DEF OnClosedConnectionWrapper, NextMain
  <2>2. /\ 1 \in DOMAIN mainQueue /\ Head(mainQueue) = mainQueue[1]
        /\ mainQueue \in Seq(MainSources) /\ c \in Connections /\ conn[c] = "closed"
        /\ \A i \in DOMAIN mainQueue : mainQueue[i].kind \in InPlaceKinds => i = 1
    BY <2>1, MainHead, KindsDiffer
  <2>3. /\ queue \in Seq(QueueSources) /\ QueueInv(queue, clients, eventListeners, conn)
        /\ MainInv(mainQueue, queue, clients, late, conn)
    BY DEF IInv, TypeOK
  <2>4. x \in QueueSources /\ x.conn = c /\ x.kind = "closed"
    BY <2>2 DEF Source, Sources, QueueSources
  <2>5. y \in MainSources /\ y.conn = c /\ y.kind = "closedNow"
    BY <2>2 DEF Source, Sources, MainSources, CloseKinds, InPlaceKinds
  <2> HIDE DEF x, y
  <2>6. \/ mainQueue' = Tail(mainQueue) /\ queue' = queue
        \/ mainQueue' = Tail(mainQueue) /\ queue' = Append(queue, x)
        \/ c \in watched /\ mainQueue' = [mainQueue EXCEPT ![1] = y] /\ queue' = queue
    BY <1>13 DEF OnClosedConnectionWrapper, x, y
  <2>7. /\ QueueInv(Append(queue, x), clients, eventListeners, conn)
        /\ \A z : NotAnnounced(queue, z) => NotAnnounced(Append(queue, x), z)
        /\ \A z, call : Drained(queue, z, call) => Drained(Append(queue, x), z, call)
    <3>1. x.kind # "new" /\ x.kind \notin HandlerKinds /\ x.kind # "signal"
      BY <2>4 DEF HandlerKinds, CallKinds
    <3> QED
      BY <2>2, <2>3, <2>4, <3>1, QueueInvAppend, AppendKeeps
  <2>8. /\ QueueInv(queue', clients', eventListeners', conn')
        /\ \A z : NotAnnounced(queue, z) => NotAnnounced(queue', z)
        /\ \A z, call : Drained(queue, z, call) => Drained(queue', z, call)
    BY <2>1, <2>3, <2>6, <2>7 DEF serviceVars
  <2>9. MainInv(mainQueue, queue', clients, late, conn)
    BY <2>3, <2>8, MainInvChange
  <2>10. ASSUME mainQueue' = Tail(mainQueue)
        PROVE  /\ SameInPlace /\ MainInv(mainQueue', queue', clients', late', conn')
               /\ \A z, e : KnowsOf(mainQueue', told, z, e) <=> KnowsOf(mainQueue, told, z, e)
    <3>1. SameInPlace
      BY <1>12, <2>1, <2>10 DEF Forgotten
    <3>2. MainInv(mainQueue', queue', clients', late', conn')
      BY <2>1, <2>2, <2>9, <2>10, MainInvTail DEF serviceVars, historyVars
    <3>3. \A z, e : KnowsOf(mainQueue', told, z, e) <=> KnowsOf(mainQueue, told, z, e)
      <4>1. \A z, e : Head(mainQueue) # Source("registered", z, e)
                      /\ Head(mainQueue) # Source("deregistered", z, e)
        BY <2>1 DEF Source
      <4> QED
        BY <2>1, <2>2, <2>10, <4>1, KnowsTail
    <3> QED
      BY <3>1, <3>2, <3>3
  <2>11. ASSUME c \in watched, mainQueue' = [mainQueue EXCEPT ![1] = y]
        PROVE  /\ SameInPlace /\ MainInv(mainQueue', queue', clients', late', conn')
               /\ \A z, e : KnowsOf(mainQueue', told, z, e) <=> KnowsOf(mainQueue, told, z, e)
    <3>1. /\ DOMAIN mainQueue' = DOMAIN mainQueue /\ mainQueue'[1] = y
          /\ \A i \in DOMAIN mainQueue : i # 1 => mainQueue'[i] = mainQueue[i]
      BY <2>1, <2>2, <2>5, <2>11, ReplaceFirst
    <3>2. \A i \in DOMAIN mainQueue' : mainQueue'[i].kind \in InPlaceKinds => i = 1
      BY <2>2, <3>1
    <3>3. SameInPlace
      <4>1. "closedSignal" \notin Forgotten /\ "closedNow" \notin Forgotten
        BY DEF Forgotten
      <4>2. \A calls \in SUBSET Forgotten : InPlace(calls) = {}
        BY <1>12, <2>1, <4>1
      <4>3. ASSUME NEW calls \in SUBSET Forgotten
            PROVE  InPlace(calls)' = {}
        <5>1. 1 \in DOMAIN mainQueue' /\ calls \in SUBSET InPlaceKinds
              /\ mainQueue'[1].kind \notin calls
          BY <2>2, <2>5, <3>1, <4>1, KindsDiffer
        <5> QED
          BY <3>2, <5>1, CallOfFirst, InPlaceIsCallOf
      <4> QED
        BY <4>2, <4>3 DEF SameInPlace
    <3>4. MainInv(mainQueue', queue', clients', late', conn')
      <4>1. NotAnnounced(queue', c)
        BY <2>8, <2>11 DEF IInv, WatchedInv
      <4>2. Drained(queue', c, "closedNow")
        BY <4>1 DEF NotAnnounced, Drained, Forgotten
      <4>3. "closedNow" \notin EmitKinds
        BY DEF EmitKinds
      <4>4. MainInv(mainQueue', queue', clients, late, conn)
        BY <2>2, <2>5, <2>9, <3>1, <4>2, <4>3 DEF MainInv
      <4> QED
        BY <2>1, <4>4 DEF serviceVars, historyVars
    <3>5. \A z, e : KnowsOf(mainQueue', told, z, e) <=> KnowsOf(mainQueue, told, z, e)
      <4>1. mainQueue[1].kind \notin EmitKinds /\ y.kind \notin EmitKinds
        BY <2>1, <2>2, <2>5 DEF EmitKinds
      <4> QED
        BY <2>1, <2>2, <2>5, <2>11, <4>1, KnowsReplaced
    <3> QED
      BY <3>3, <3>4, <3>5
  <2>12. /\ SameInPlace /\ MainInv(mainQueue', queue', clients', late', conn')
         /\ \A z, e : KnowsOf(mainQueue', told, z, e) <=> KnowsOf(mainQueue, told, z, e)
    BY <2>6, <2>10, <2>11
  <2>13. RegistrationsMatchClients' /\ SubscriptionInv'
    BY <2>1, <2>12, ServiceFrame DEF serviceVars, historyVars
  <2>14. ClientsKnowTheEvents'
    BY <2>1, <2>12, KnowledgeFrame DEF serviceVars, clientVars, historyVars
  <2>15. DispatchedSourcesAreExpected' /\ ClientInv' /\ WatchedInv'
    BY <2>1, <2>8 DEF serviceVars, clientVars, historyVars, IInv, ClientInv,
                      WatchedInv, DispatchedSourcesAreExpected
  <2> QED
    BY <2>8, <2>12, <2>13, <2>14, <2>15 DEF IInv
<1>14. ASSUME OnClosedConnectionInPlace
       PROVE  IInv'
  <2>1. CASE InPlaceCall("closedNow", "unsubscribeSignalsActive")
    <3> DEFINE c == Head(mainQueue).conn
    <3>1. /\ "closedNow" \in InPlaceKinds /\ "unsubscribeSignalsActive" \in InPlaceKinds
          /\ "closedNow" \notin Forgotten /\ "unsubscribeSignalsActive" \notin Forgotten
      BY DEF InPlaceKinds, Forgotten
    <3>2. UNCHANGED <<serviceVars, queue, conn, watched, subscribed, clientVars, historyVars>>
      BY <1>14 DEF OnClosedConnectionInPlace
    <3>3. /\ Fewer(queue, queue')
          /\ Drained(queue, c, "closedNow") => Drained(queue', c, "unsubscribeSignalsActive")
      BY <3>1, <3>2 DEF Fewer, Drained
    <3>4. /\ \A calls \in SUBSET InPlaceKinds :
                InPlace(calls) = IF "closedNow" \in calls THEN {c} ELSE {}
          /\ \A calls \in SUBSET InPlaceKinds :
                InPlace(calls)' = IF "unsubscribeSignalsActive" \in calls THEN {c} ELSE {}
          /\ MainInv(mainQueue', queue', clients', late', conn')
          /\ ClientsKnowTheEvents' /\ ClientInv' /\ WatchedInv'
      BY <2>1, <3>1, <3>2, <3>3, InPlaceFrame DEF serviceVars, historyVars
    <3>5. SameInPlace
      <4>1. ASSUME NEW calls \in SUBSET Forgotten
            PROVE  InPlace(calls)' = InPlace(calls)
        BY <3>1, <3>4, KindsDiffer
      <4> QED
        BY <4>1 DEF SameInPlace
    <3>6. RegistrationsMatchClients' /\ SubscriptionInv'
      BY <3>2, <3>5, ServiceFrame DEF serviceVars, historyVars
    <3> QED
      BY <3>2, <3>4, <3>6 DEF serviceVars, IInv, DispatchedSourcesAreExpected
  <2>2. CASE NextMain({"closedNow"}) /\ mainQueue' = Tail(mainQueue)
    <3>1. /\ mainQueue # <<>> /\ Head(mainQueue).kind = "closedNow"
          /\ UNCHANGED <<serviceVars, queue, conn, watched, subscribed, clientVars,
                         historyVars>>
      BY <1>14, <2>2 DEF NextMain, OnClosedConnectionInPlace
    <3>2. mainQueue \in Seq(MainSources) /\ MainInv(mainQueue, queue, clients, late, conn)
      BY DEF IInv, TypeOK
    <3>3. SameInPlace
      BY <1>12, <2>2, <3>1 DEF Forgotten
    <3>4. MainInv(mainQueue', queue', clients', late', conn')
      BY <2>2, <3>1, <3>2, MainInvTail DEF serviceVars, historyVars
    <3>5. RegistrationsMatchClients' /\ SubscriptionInv'
      BY <3>1, <3>3, ServiceFrame DEF serviceVars, historyVars
    <3>6. \A z, e : KnowsOf(mainQueue', told, z, e) <=> KnowsOf(mainQueue, told, z, e)
      <4>1. \A z, e : Head(mainQueue) # Source("registered", z, e)
                      /\ Head(mainQueue) # Source("deregistered", z, e)
        BY <3>1 DEF Source
      <4> QED
        BY <2>2, <3>1, <3>2, <4>1, KnowsTail
    <3>7. ClientsKnowTheEvents'
      BY <3>1, <3>6, KnowledgeFrame DEF serviceVars, clientVars, historyVars
    <3> QED
      BY <3>1, <3>4, <3>5, <3>7 DEF serviceVars, clientVars, historyVars, IInv,
           ClientInv, WatchedInv, DispatchedSourcesAreExpected
  <2> QED
    BY <1>14, <2>1, <2>2 DEF OnClosedConnectionInPlace
\* One call of onClosedConnection, where the D-Bus context loses sources.
<1>15. ASSUME NEW call \in InPlaceKinds, NEW next \in Forgotten, InPlaceCall(call, next),
              NEW kinds, queue' = CancelSources(queue, kinds, {Head(mainQueue).conn}),
              Drained(queue, Head(mainQueue).conn, call)
                 => Drained(queue', Head(mainQueue).conn, next),
              UNCHANGED <<active, eventListeners, clients, conn, watched, clientVars,
                          late, overtaken>>
       PROVE  /\ Head(mainQueue).conn \in Connections
              /\ conn[Head(mainQueue).conn] = "closed"
              /\ \A calls \in SUBSET InPlaceKinds :
                    /\ InPlace(calls) = IF call \in calls THEN {Head(mainQueue).conn} ELSE {}
                    /\ InPlace(calls)' = IF next \in calls THEN {Head(mainQueue).conn} ELSE {}
              /\ QueueInv(queue', clients', eventListeners', conn')
              /\ MainInv(mainQueue', queue', clients', late', conn')
              /\ ClientsKnowTheEvents' /\ ClientInv' /\ WatchedInv'
  <2>1. queue \in Seq(QueueSources) /\ QueueInv(queue, clients, eventListeners, conn)
    BY DEF IInv, TypeOK
  <2>2. Fewer(queue, queue') /\ next \in InPlaceKinds
    BY <1>15, <2>1, FewerCancelled, KindsDiffer
  <2>3. \A i \in DOMAIN queue : queue[i].kind \in HandlerKinds => queue[i].conn \in clients
    BY <2>1 DEF QueueInv
  <2>4. QueueInv(queue', clients', eventListeners', conn')
    BY <1>15, <2>1, <2>3, QueueInvCancelSources
  <2> QED
    BY <1>15, <2>2, <2>4, InPlaceFrame
<1>16. ASSUME UnsubscribeSignalsActive
       PROVE  IInv'
  <2> DEFINE c == Head(mainQueue).conn
             call == "unsubscribeSignalsActive"
             next == "unregisterRegistryInterfaces"
  <2>1. /\ call \in InPlaceKinds /\ next \in Forgotten /\ call \notin Forgotten
        /\ InPlaceCall(call, next)
        /\ queue' = CancelSources(queue, {"signal"}, {c})
        /\ UNCHANGED <<active, eventListeners, clients, dbusRegistrationId,
                       registryRegistrationId, fault, conn, watched, clientVars,
                       late, overtaken, resubscribed>>
    BY <1>16 DEF UnsubscribeSignalsActive, InPlaceKinds, Forgotten, historyVars
  <2>2. ASSUME Drained(queue, c, call)
        PROVE  Drained(queue', c, next)
    <3>1. queue \in Seq(QueueSources)
      BY <1>0 DEF TypeOK
    <3>2. \A i \in DOMAIN queue' : i \in DOMAIN queue /\ (queue'[i].conn = c =>
             \/ queue'[i].kind = "dead"
             \/ queue'[i] = queue[i] /\ queue[i].kind # "signal")
      BY <2>1, <3>1, CancelSourcesElements
    <3> QED
      BY <2>2, <3>2 DEF Drained
  <2>3. /\ c \in Connections /\ conn[c] = "closed"
        /\ \A calls \in SUBSET InPlaceKinds :
              /\ InPlace(calls) = IF call \in calls THEN {c} ELSE {}
              /\ InPlace(calls)' = IF next \in calls THEN {c} ELSE {}
        /\ QueueInv(queue', clients', eventListeners', conn')
        /\ MainInv(mainQueue', queue', clients', late', conn')
        /\ ClientsKnowTheEvents' /\ ClientInv' /\ WatchedInv'
    BY <1>15, <2>1, <2>2
  <2>4. /\ InPlace({"remove"}) = {} /\ InPlace({"remove"})' = {}
        /\ InPlace({"unregisterDBusInterfaces", "remove"}) = {}
        /\ InPlace({"unregisterDBusInterfaces", "remove"})' = {}
        /\ InPlace(Forgotten) = {} /\ InPlace(Forgotten)' = {c}
    BY <2>1, <2>3, KindsDiffer DEF InPlaceKinds, Forgotten
  <2>5. RegistrationsMatchClients'
    BY <2>1, <2>4 DEF IInv, RegistrationsMatchClients
  <2>6. \A e \in Events : /\ registrationIds'[e] = registrationIds[e] \ {c}
                          /\ subscribed'[e] = subscribed[e] \ {c}
    <3>1. \A e \in Events : subscribed[e] \subseteq registrationIds[e]
      BY DEF IInv, SubscriptionInv, SubscriptionsMatchListeners
    <3> QED
      BY <1>16, <3>1 DEF UnsubscribeSignalsActive
  <2>7. SubscriptionsMatchListeners'
    BY <2>1, <2>4, <2>6 DEF IInv, SubscriptionInv, SubscriptionsMatchListeners
  <2>8. SubscriptionInv'
    BY <1>0, <2>1, <2>4, <2>6, <2>7 DEF IInv, SubscriptionInv, TypeOK
  <2> QED
    BY <2>1, <2>3, <2>5, <2>8 DEF IInv, DispatchedSourcesAreExpected
<1>17. ASSUME UnregisterRegistryInterfaces
       PROVE  IInv'
  <2> DEFINE c == Head(mainQueue).conn
             call == "unregisterRegistryInterfaces"
             next == "unregisterDBusInterfaces"
  <2>1. /\ call \in InPlaceKinds /\ next \in Forgotten /\ call \in Forgotten
        /\ InPlaceCall(call, next)
        /\ queue' = CancelSources(queue, {"getEvents"}, {c})
        /\ registryRegistrationId' = registryRegistrationId \ {c}
        /\ UNCHANGED <<active, eventListeners, registrationIds, clients,
                       dbusRegistrationId, conn, watched, subscribed, clientVars,
                       late, overtaken, resubscribed>>
    BY <1>17 DEF UnregisterRegistryInterfaces, InPlaceKinds, Forgotten, historyVars
  <2>2. ASSUME Drained(queue, c, call)
        PROVE  Drained(queue', c, next)
    <3>1. queue \in Seq(QueueSources)
      BY <1>0 DEF TypeOK
    <3>2. \A i \in DOMAIN queue' : i \in DOMAIN queue /\ (queue'[i].conn = c =>
             \/ queue'[i].kind = "dead"
             \/ queue'[i] = queue[i] /\ queue[i].kind # "getEvents")
      BY <2>1, <3>1, CancelSourcesElements
    <3> QED
      BY <2>1, <2>2, <3>2 DEF Drained
  <2>3. /\ c \in Connections /\ conn[c] = "closed"
        /\ \A calls \in SUBSET InPlaceKinds :
              /\ InPlace(calls) = IF call \in calls THEN {c} ELSE {}
              /\ InPlace(calls)' = IF next \in calls THEN {c} ELSE {}
        /\ QueueInv(queue', clients', eventListeners', conn')
        /\ MainInv(mainQueue', queue', clients', late', conn')
        /\ ClientsKnowTheEvents' /\ ClientInv' /\ WatchedInv'
    BY <1>15, <2>1, <2>2
  <2>4. /\ InPlace({"remove"}) = {} /\ InPlace({"remove"})' = {}
        /\ InPlace({"unregisterDBusInterfaces", "remove"}) = {}
        /\ InPlace({"unregisterDBusInterfaces", "remove"})' = {c}
        /\ InPlace(Forgotten) = {c} /\ InPlace(Forgotten)' = {c}
    BY <2>1, <2>3, KindsDiffer DEF InPlaceKinds, Forgotten
  <2>5. RegistrationsMatchClients'
    BY <2>1, <2>4 DEF IInv, RegistrationsMatchClients
  <2>6. SubscriptionsMatchListeners'
    BY <2>1, <2>4 DEF IInv, SubscriptionInv, SubscriptionsMatchListeners
  <2>7. SubscriptionInv'
    BY <1>0, <2>1, <2>4, <2>6 DEF IInv, SubscriptionInv
  <2>8. DispatchedSourcesAreExpected'
    BY <1>17 DEF UnregisterRegistryInterfaces, IInv, DispatchedSourcesAreExpected
  <2> QED
    BY <2>3, <2>5, <2>7, <2>8 DEF IInv
<1>18. ASSUME UnregisterDBusInterfaces
       PROVE  IInv'
  <2> DEFINE c == Head(mainQueue).conn
             call == "unregisterDBusInterfaces"
             next == "remove"
  <2>1. /\ call \in InPlaceKinds /\ next \in Forgotten /\ call \in Forgotten
        /\ InPlaceCall(call, next)
        /\ queue' = CancelSources(queue, {"hello"}, {c})
        /\ dbusRegistrationId' = dbusRegistrationId \ {c}
        /\ UNCHANGED <<active, eventListeners, registrationIds, clients,
                       registryRegistrationId, conn, watched, subscribed, clientVars,
                       late, overtaken, resubscribed>>
    BY <1>18 DEF UnregisterDBusInterfaces, InPlaceKinds, Forgotten, historyVars
  <2>2. ASSUME Drained(queue, c, call)
        PROVE  Drained(queue', c, next)
    <3>1. queue \in Seq(QueueSources)
      BY <1>0 DEF TypeOK
    <3>2. \A i \in DOMAIN queue' : i \in DOMAIN queue /\ (queue'[i].conn = c =>
             \/ queue'[i].kind = "dead"
             \/ queue'[i] = queue[i] /\ queue[i].kind # "hello")
      BY <2>1, <3>1, CancelSourcesElements
    <3> QED
      BY <2>1, <2>2, <3>2 DEF Drained
  <2>3. /\ c \in Connections /\ conn[c] = "closed"
        /\ \A calls \in SUBSET InPlaceKinds :
              /\ InPlace(calls) = IF call \in calls THEN {c} ELSE {}
              /\ InPlace(calls)' = IF next \in calls THEN {c} ELSE {}
        /\ QueueInv(queue', clients', eventListeners', conn')
        /\ MainInv(mainQueue', queue', clients', late', conn')
        /\ ClientsKnowTheEvents' /\ ClientInv' /\ WatchedInv'
    BY <1>15, <2>1, <2>2
  <2>4. /\ InPlace({"remove"}) = {} /\ InPlace({"remove"})' = {c}
        /\ InPlace({"unregisterDBusInterfaces", "remove"}) = {c}
        /\ InPlace({"unregisterDBusInterfaces", "remove"})' = {c}
        /\ InPlace(Forgotten) = {c} /\ InPlace(Forgotten)' = {c}
    BY <2>1, <2>3, KindsDiffer DEF InPlaceKinds, Forgotten
  <2>5. RegistrationsMatchClients'
    BY <2>1, <2>4 DEF IInv, RegistrationsMatchClients
  <2>6. SubscriptionsMatchListeners'
    BY <2>1, <2>4 DEF IInv, SubscriptionInv, SubscriptionsMatchListeners
  <2>7. SubscriptionInv'
    BY <1>0, <2>1, <2>4, <2>6 DEF IInv, SubscriptionInv
  <2>8. DispatchedSourcesAreExpected'
    BY <1>18 DEF UnregisterDBusInterfaces, IInv, DispatchedSourcesAreExpected
  <2> QED
    BY <2>3, <2>5, <2>7, <2>8 DEF IInv
<1>19. ASSUME Remove
       PROVE  IInv'
  <2> DEFINE c == Head(mainQueue).conn
  <2>1. /\ mainQueue # <<>> /\ Head(mainQueue).kind = "remove"
        /\ mainQueue' = Tail(mainQueue)
        /\ clients' = clients \ {c} /\ late' = late \ {c}
        /\ UNCHANGED <<active, eventListeners, registrationIds, dbusRegistrationId,
                       registryRegistrationId, fault, queue, conn, watched,
                       subscribed, clientVars, overtaken, resubscribed>>
    BY <1>19 DEF Remove, NextMain
  <2>2. "remove" \in Forgotten /\ "remove" \in InPlaceKinds /\ "remove" \in CloseKinds
    BY DEF Forgotten, InPlaceKinds, CloseKinds
  <2>3. /\ 1 \in DOMAIN mainQueue /\ Head(mainQueue) = mainQueue[1]
        /\ mainQueue \in Seq(MainSources) /\ c \in Connections /\ conn[c] = "closed"
        /\ \A i \in DOMAIN mainQueue : mainQueue[i].kind \in InPlaceKinds => i = 1
        /\ Drained(queue, c, "remove")
    BY <2>1, <2>2, MainHead
  <2>4. \A calls \in SUBSET InPlaceKinds :
           /\ InPlace(calls) = IF "remove" \in calls THEN {c} ELSE {}
           /\ InPlace(calls)' = {}
    <3>1. \A calls \in SUBSET InPlaceKinds :
             InPlace(calls) = IF "remove" \in calls THEN {c} ELSE {}
      BY <2>1, <2>3, CallOfFirst, InPlaceIsCallOf
    <3>2. ASSUME NEW calls \in SUBSET InPlaceKinds
          PROVE  InPlace(calls)' = {}
      BY <2>1, <2>3, <3>2, CallOfTail, InPlaceIsCallOf
    <3> QED
      BY <3>1, <3>2
  <2>5. /\ InPlace({"remove"}) = {c} /\ InPlace({"remove"})' = {}
        /\ InPlace({"unregisterDBusInterfaces", "remove"}) = {c}
        /\ InPlace({"unregisterDBusInterfaces", "remove"})' = {}
        /\ InPlace(Forgotten) = {c} /\ InPlace(Forgotten)' = {}
    BY <2>4 DEF InPlaceKinds, Forgotten
  <2>6. RegistrationsMatchClients'
    BY <2>1, <2>5 DEF IInv, RegistrationsMatchClients
  <2>7. SubscriptionInv'
    <3>1. SubscriptionsMatchListeners'
      BY <2>1, <2>5 DEF IInv, SubscriptionInv, SubscriptionsMatchListeners
    <3>2. \A e \in Events : \A y \in subscribed'[e] :
             conn'[y] # "none" /\ (conn'[y] = "open" => y \in clients')
      BY <2>1, <2>3 DEF IInv, SubscriptionInv
    <3> QED
      BY <2>1, <2>5, <3>1, <3>2 DEF IInv, SubscriptionInv
  <2>8. QueueInv(queue', clients', eventListeners', conn')
    <3>1. \A i \in DOMAIN queue : queue[i].kind \in HandlerKinds => queue[i].conn # c
      BY <2>2, <2>3 DEF Drained, HandlerKinds, CallKinds
    <3> QED
      BY <2>1, <3>1 DEF IInv, QueueInv
  <2>9. MainInv(mainQueue', queue', clients', late', conn')
    <3>1. MainInv(mainQueue, queue, clients, late, conn)
      BY DEF IInv
    <3>2. NotAnnounced(queue, c)
      BY <2>3 DEF Drained, NotAnnounced
    <3>3. MainInv(mainQueue, queue, clients', late', conn)
      BY <2>1, <3>1, <3>2, MainInvChange
    <3> QED
      BY <2>1, <2>3, <3>3, MainInvTail
  <2>10. ClientsKnowTheEvents'
    <3>1. \A z, e : Head(mainQueue) # Source("registered", z, e)
                    /\ Head(mainQueue) # Source("deregistered", z, e)
      BY <2>1 DEF Source
    <3>2. \A z, e : KnowsOf(mainQueue', told, z, e) <=> KnowsOf(mainQueue, told, z, e)
      BY <2>1, <2>3, <3>1, KnowsTail
    <3> QED
      BY <2>1, <3>2, KnowledgeFrame DEF clientVars
  <2>11. ClientInv' /\ WatchedInv' /\ DispatchedSourcesAreExpected'
    BY <2>1, <2>3 DEF clientVars, IInv, ClientInv, WatchedInv, DispatchedSourcesAreExpected
  <2> QED
    BY <2>6, <2>7, <2>8, <2>9, <2>10, <2>11 DEF IInv
<1>20. ASSUME EmitSignalLater
       PROVE  IInv'
  <2> DEFINE s == Head(mainQueue)
  <2>1. /\ mainQueue # <<>> /\ s.kind \in EmitKinds
        /\ mainQueue' = Tail(mainQueue)
        /\ fault' = IF s.conn \in clients THEN fault ELSE "emitSignal"
        /\ told' = IF s.conn \in clients /\ conn[s.conn] = "open"
                   THEN [told EXCEPT ![s.conn] = Hears(s.kind, @, s.event)]
                   ELSE told
        /\ UNCHANGED <<active, eventListeners, registrationIds, clients,
                       dbusRegistrationId, registryRegistrationId, queue, conn,
                       watched, subscribed, asked, late, overtaken, resubscribed>>
    BY <1>20 DEF EmitSignalLater, NextMain, historyVars
  <2>2. /\ mainQueue \in Seq(MainSources) /\ s \in MainSources /\ s.conn \in Connections
        /\ MainInv(mainQueue, queue, clients, late, conn)
    BY <1>0, <2>1, MainHead, TailElements DEF IInv
  <2>3. s.event \in Events /\ s = Source(s.kind, s.conn, s.event)
    BY <2>1, <2>2, KindsDiffer DEF MainSources, Sources, Source
  <2>4. SameInPlace
    BY <1>12, <2>1, KindsDiffer
  <2>5. MainInv(mainQueue', queue', clients', late', conn')
    BY <2>1, <2>2, MainInvTail
  <2>6. RegistrationsMatchClients' /\ SubscriptionInv'
    BY <2>1, <2>4, ServiceFrame
  <2>7. /\ \A c \in Connections : c # s.conn => told'[c] = told[c]
        /\ s.conn \in clients /\ conn[s.conn] = "open"
              => told'[s.conn] = Hears(s.kind, told[s.conn], s.event)
        /\ ~(s.conn \in clients /\ conn[s.conn] = "open") => told' = told
    BY <1>0, <2>1, <2>2 DEF TypeOK
  <2>8. ASSUME NEW c \in clients, conn[c] = "open", NEW e \in Events
        PROVE  /\ KnowsOf(mainQueue', told', c, e) <=> KnowsOf(mainQueue, told, c, e)
               /\ <<OWN_ID, e>> \in told[c] => <<OWN_ID, e>> \in told'[c]
    <3>0. c \in Connections
      BY <1>0, <2>8 DEF TypeOK
    <3>1. CASE c = s.conn /\ e = s.event
      <4>1. s = Source(s.kind, c, e)
        BY <2>3, <3>1
      <4>2. told'[c] = Hears(s.kind, told[c], e)
        BY <2>7, <2>8, <3>1
      <4>3. <<SERVER_ID, e>> \in told'[c] <=> s.kind = "registered"
        BY <4>2 DEF Hears
      <4>4. KnowsOf(mainQueue', told', c, e) <=> KnowsOf(mainQueue, told, c, e)
        BY <2>1, <2>2, <4>1, <4>3, KnowsHeard
      <4>5. <<OWN_ID, e>> \in told[c] => <<OWN_ID, e>> \in told'[c]
        BY <4>2 DEF Hears, OWN_ID, SERVER_ID
      <4> QED
        BY <4>4, <4>5
    <3>2. CASE ~(c = s.conn /\ e = s.event)
      <4>1. s # Source("registered", c, e) /\ s # Source("deregistered", c, e)
        BY <3>2 DEF Source
      <4>2. /\ <<SERVER_ID, e>> \in told'[c] <=> <<SERVER_ID, e>> \in told[c]
            /\ <<OWN_ID, e>> \in told[c] => <<OWN_ID, e>> \in told'[c]
        <5>1. CASE c # s.conn
          BY <2>7, <3>0, <5>1
        <5>2. CASE c = s.conn /\ e # s.event
          BY <2>7, <2>8, <5>2 DEF Hears
        <5> QED
          BY <3>2, <5>1, <5>2
      <4>3. KnowsOf(mainQueue', told', c, e) <=> KnowsOf(mainQueue, told, c, e)
        BY <2>1, <2>2, <4>1, <4>2, KnowsTail
      <4> QED
        BY <4>2, <4>3
    <3> QED
      BY <3>1, <3>2
  <2>9. ClientsKnowTheEvents'
    BY <2>1, <2>8, KnowledgeFrame
  <2>10. ClientInv'
    BY <2>1, <2>2, <2>7 DEF IInv, ClientInv
  <2>11. WatchedInv' /\ DispatchedSourcesAreExpected'
         /\ QueueInv(queue', clients', eventListeners', conn')
    BY <2>1 DEF IInv, WatchedInv, DispatchedSourcesAreExpected
  <2> QED
    BY <2>5, <2>6, <2>9, <2>10, <2>11 DEF IInv
<1>21. ASSUME NEW c \in Connections, Connect(c)
       PROVE  IInv'
  <2> DEFINE x == Source("new", c, NoEvent)
  <2>1. /\ conn[c] = "none" /\ queue' = Append(queue, x)
        /\ conn' = [conn EXCEPT ![c] = "open"]
        /\ UNCHANGED <<serviceVars, mainQueue, watched, subscribed, clientVars, historyVars>>
    BY <1>21 DEF Connect
  <2>2. x \in QueueSources /\ x.kind = "new" /\ x.conn = c
    BY DEF Source, Sources, QueueSources
  <2> HIDE DEF x
  <2>3. /\ queue \in Seq(QueueSources) /\ QueueInv(queue, clients, eventListeners, conn)
        /\ conn \in [Connections -> {"none", "open", "closed"}]
    BY DEF IInv, TypeOK
  <2>4. conn'[c] = "open" /\ \A y : y # c => conn'[y] = conn[y]
    BY <2>1, <2>3
  <2>5. /\ c \notin clients /\ c \notin asked /\ told[c] = {}
        /\ c \notin watched /\ NotAnnounced(queue, c)
        /\ \A e \in Events : c \notin subscribed[e]
        /\ \A i \in DOMAIN queue : queue[i].conn # c
    BY <2>1 DEF IInv, ClientInv, WatchedInv, SubscriptionInv, QueueInv, NotAnnounced
  <2>6. /\ \A y : y # c /\ NotAnnounced(queue, y) => NotAnnounced(Append(queue, x), y)
        /\ \A y, call : y # c /\ Drained(queue, y, call) => Drained(Append(queue, x), y, call)
    BY <2>2, <2>3, AppendKeeps
  <2>7. MainInv(mainQueue', queue', clients', late', conn') /\ SameInPlace
    BY <2>1, <2>4, <2>6, ContextFrame DEF serviceVars, historyVars
  <2>8. RegistrationsMatchClients' /\ SubscriptionInv'
    BY <2>1, <2>4, <2>7, ServiceFrame DEF serviceVars, historyVars
  <2>9. ClientsKnowTheEvents'
    BY <2>1, <2>4, <2>5, KnowledgeFrame DEF serviceVars, clientVars, historyVars
  <2>10. ClientInv'
    BY <2>1, <2>4, <2>5 DEF serviceVars, clientVars, historyVars, IInv, ClientInv
  <2>11. WatchedInv'
    BY <2>1, <2>4, <2>5, <2>6 DEF IInv, WatchedInv
  <2>12. QueueInv(queue', clients', eventListeners', conn')
    <3>1. QueueInv(queue, clients, eventListeners, conn')
      BY <2>3, <2>4, <2>5 DEF QueueInv
    <3>2. conn'[x.conn] # "none" /\ x.kind \notin HandlerKinds
          /\ x.kind # "signal" /\ x.kind # "closed"
      BY <2>2, <2>4 DEF HandlerKinds, CallKinds
    <3>3. QueueInv(Append(queue, x), clients, eventListeners, conn')
      BY <2>2, <2>3, <2>5, <3>1, <3>2, QueueInvAppend
    <3> QED
      BY <2>1, <3>3 DEF serviceVars
  <2> QED
    BY <2>1, <2>7, <2>8, <2>9, <2>10, <2>11, <2>12
       DEF serviceVars, IInv, DispatchedSourcesAreExpected
<1>22. ASSUME NEW c \in Connections, PeerCloses(c)
       PROVE  IInv'
  <2> DEFINE x == Source("closedSignal", c, NoEvent)
  <2>1. /\ conn[c] = "open" /\ mainQueue' = Append(mainQueue, x)
        /\ conn' = [conn EXCEPT ![c] = "closed"]
        /\ ForgetKnowledge({c})
        /\ UNCHANGED <<serviceVars, queue, watched, subscribed, late, resubscribed>>
    BY <1>22 DEF PeerCloses
  <2>2. x \in MainSources /\ x.kind = "closedSignal" /\ x.conn = c
        /\ x.kind \in CloseKinds /\ x.kind \notin InPlaceKinds
        /\ x.kind \notin EmitKinds
    <3>1. x.kind = "closedSignal" /\ x.conn = c
      BY DEF Source
    <3>2. x \in MainSources
      BY KindsDiffer DEF Source, Sources, MainSources
    <3> QED
      BY <3>1, <3>2, KindsDiffer
  <2>3. \A z, e : x # Source("registered", z, e) /\ x # Source("deregistered", z, e)
    BY <2>2 DEF Source
  <2> HIDE DEF x
  <2>4. /\ mainQueue \in Seq(MainSources)
        /\ MainInv(mainQueue, queue, clients, late, conn)
        /\ QueueInv(queue, clients, eventListeners, conn)
        /\ conn \in [Connections -> {"none", "open", "closed"}]
    BY DEF IInv, TypeOK
  <2>5. conn'[c] = "closed" /\ \A y : y # c => conn'[y] = conn[y]
    BY <2>1, <2>4
  <2>6. /\ Grown(mainQueue, mainQueue')
        /\ \A j \in DOMAIN mainQueue' \ DOMAIN mainQueue : mainQueue'[j] = x
    BY <2>1, <2>2, <2>4, GrownByOne
  <2>7. SameInPlace
    <3>1. ASSUME NEW calls \in SUBSET Forgotten
          PROVE  CallOf(mainQueue', calls) = CallOf(mainQueue, calls)
      BY <2>2, <2>6, CallOfGrown, KindsDiffer
    <3> QED
      BY <3>1, InPlaceIsCallOf DEF SameInPlace
  <2>8. RegistrationsMatchClients' /\ SubscriptionInv'
    BY <2>1, <2>5, <2>7, ServiceFrame DEF serviceVars
  <2>9. MainInv(mainQueue', queue', clients', late', conn')
    <3>1. /\ \A y : conn[y] # "none" => conn'[y] # "none"
          /\ \A y : conn[y] = "closed" => conn'[y] = "closed"
      BY <2>5
    <3>2. MainInv(mainQueue, queue, clients, late, conn')
      BY <2>4, <3>1, MainInvChange
    <3>3. \A i \in DOMAIN mainQueue' :
             \/ i \in DOMAIN mainQueue /\ mainQueue'[i] = mainQueue[i]
             \/ mainQueue'[i] = x
      BY <2>6 DEF Grown
    <3>4. MainInv(mainQueue', queue, clients, late, conn')
      BY <2>2, <2>5, <3>2, <3>3 DEF MainInv
    <3> QED
      BY <2>1, <3>4 DEF serviceVars
  <2>10. /\ c \notin asked' /\ asked' \subseteq asked
         /\ \A y \in Connections : told'[y] = IF y = c THEN {} ELSE told[y]
         /\ overtaken' = overtaken \ {c}
    BY <2>1 DEF ForgetKnowledge
  <2>11. ClientsKnowTheEvents'
    <3>1. ASSUME NEW y \in Connections, y # c, NEW e
          PROVE  KnowsOf(mainQueue', told', y, e) <=> KnowsOf(mainQueue, told, y, e)
      <4>1. KnowsOf(mainQueue', told', y, e) <=> KnowsOf(mainQueue, told', y, e)
        BY <2>3, <2>6, KnowsGrown
      <4>2. KnowsOf(mainQueue, told', y, e) <=> KnowsOf(mainQueue, told, y, e)
        BY <2>10, <3>1 DEF KnowsOf
      <4> QED
        BY <4>1, <4>2
    <3>2. clients' = clients /\ clients \subseteq Connections /\ eventListeners' = eventListeners
      BY <1>0, <2>1 DEF serviceVars, TypeOK
    <3> QED
      BY <2>5, <2>10, <3>1, <3>2, KnowledgeFrame
  <2>12. ClientInv'
    BY <2>1, <2>5, <2>10 DEF serviceVars, IInv, ClientInv
  <2>13. QueueInv(queue', clients', eventListeners', conn')
    BY <2>1, <2>4, <2>5 DEF serviceVars, QueueInv
  <2>14. WatchedInv' /\ DispatchedSourcesAreExpected'
    BY <2>1, <2>5 DEF serviceVars, IInv, WatchedInv, DispatchedSourcesAreExpected
  <2> QED
    BY <2>8, <2>9, <2>11, <2>12, <2>13, <2>14 DEF IInv
<1>23. ASSUME NEW c \in Connections, Finalize(c)
       PROVE  IInv'
  <2>1. /\ conn[c] # "none" /\ conn' = [conn EXCEPT ![c] = "none"]
        /\ c \notin clients /\ watched' = watched \ {c}
        /\ subscribed' = [e \in Events |-> subscribed[e] \ {c}]
        /\ \A i \in DOMAIN queue : queue[i].conn # c
        /\ \A i \in DOMAIN mainQueue : mainQueue[i].conn # c
        /\ UNCHANGED <<serviceVars, queue, mainQueue, clientVars, historyVars>>
    BY <1>23 DEF Finalize, Referenced
  <2>2. /\ QueueInv(queue, clients, eventListeners, conn)
        /\ MainInv(mainQueue, queue, clients, late, conn)
        /\ conn \in [Connections -> {"none", "open", "closed"}]
    BY DEF IInv, TypeOK
  <2>3. conn'[c] = "none" /\ \A y : y # c => conn'[y] = conn[y]
    BY <2>1, <2>2
  <2>4. /\ InPlace({"remove"})' = InPlace({"remove"})
        /\ InPlace({"unregisterDBusInterfaces", "remove"})'
              = InPlace({"unregisterDBusInterfaces", "remove"})
        /\ InPlace(Forgotten)' = InPlace(Forgotten)
    BY <2>1 DEF InPlace
  <2>5. RegistrationsMatchClients'
    BY <2>1, <2>4 DEF serviceVars, IInv, RegistrationsMatchClients
  <2>6. SubscriptionInv'
    <3>1. SubscriptionsMatchListeners'
      BY <2>1, <2>4 DEF serviceVars, historyVars, IInv, SubscriptionInv,
                        SubscriptionsMatchListeners
    <3>2. \A e \in Events : \A y \in subscribed'[e] :
             conn'[y] # "none" /\ (conn'[y] = "open" => y \in clients')
      BY <2>1, <2>3 DEF serviceVars, IInv, SubscriptionInv
    <3> QED
      BY <2>1, <2>4, <3>1, <3>2 DEF serviceVars, IInv, SubscriptionInv
  <2>7. MainInv(mainQueue', queue', clients', late', conn')
    BY <2>1, <2>2, <2>3 DEF serviceVars, historyVars, MainInv
  <2>8. QueueInv(queue', clients', eventListeners', conn')
    BY <2>1, <2>2, <2>3 DEF serviceVars, QueueInv
  <2>9. ClientsKnowTheEvents'
    BY <2>1, <2>3, KnowledgeFrame DEF serviceVars, clientVars, historyVars
  <2>10. ClientInv' /\ WatchedInv' /\ DispatchedSourcesAreExpected'
    BY <2>1, <2>3 DEF serviceVars, clientVars, historyVars, IInv, ClientInv,
                      WatchedInv, DispatchedSourcesAreExpected
  <2> QED
    BY <2>5, <2>6, <2>7, <2>8, <2>9, <2>10 DEF IInv
<1>24. ASSUME NEW c \in Connections, CallArrives(c)
       PROVE  IInv'
  <2>1. c \in clients /\ conn[c] = "open"
        /\ UNCHANGED <<serviceVars, mainQueue, conn, watched, subscribed, clientVars, historyVars>>
    BY <1>24 DEF CallArrives, IInv, RegistrationsMatchClients
  <2>2. ASSUME NEW kind \in CallKinds,
               queue' = Append(queue, Source(kind, c, NoEvent))
        PROVE  IInv'
    <3> DEFINE x == Source(kind, c, NoEvent)
    <3>1. x \in QueueSources /\ x.kind \in HandlerKinds /\ x.kind # "signal"
          /\ x.conn = c
      BY DEF Source, Sources, QueueSources, HandlerKinds, CallKinds
    <3> HIDE DEF x
    <3>2. queue' = Append(queue, x)
      BY <2>2 DEF x
    <3> QED
      BY <2>1, <3>1, <3>2, MessageArrives
  <2>3. "hello" \in CallKinds /\ "getEvents" \in CallKinds
    BY DEF CallKinds
  <2> QED
    BY <1>24, <2>2, <2>3 DEF CallArrives
<1>25. ASSUME NEW c \in Connections, NEW e \in Events, SignalArrives(c, e)
       PROVE  IInv'
  <2> DEFINE x == Source("signal", c, e)
  <2>1. x \in QueueSources /\ x.kind = "signal" /\ x.kind \in HandlerKinds
        /\ x.conn = c /\ x.event = e
    BY DEF Source, Sources, QueueSources, HandlerKinds
  <2>2. /\ c \in subscribed[e] /\ conn[c] = "open" /\ queue' = Append(queue, x)
        /\ UNCHANGED <<serviceVars, mainQueue, conn, watched, subscribed, clientVars, historyVars>>
    BY <1>25 DEF SignalArrives
  <2>3. c \in clients /\ e \in eventListeners
    BY <2>2 DEF IInv, SubscriptionInv, SubscriptionsMatchListeners
  <2> HIDE DEF x
  <2> QED
    BY <2>1, <2>2, <2>3, MessageArrives
<1> QED
  BY <1>1, <1>2, <1>3, <1>4, <1>5, <1>6, <1>7, <1>8, <1>9, <1>10, <1>11, <1>13,
     <1>14, <1>16, <1>17, <1>18, <1>19, <1>20, <1>21, <1>22, <1>23, <1>24, <1>25
     DEF Next, Operations, WorkerDispatch, MainDispatch, Environment, Aborted

\* The invariant holds in every reachable state.
THEOREM InvariantCorrect == Spec => []IInv
<1>1. Init => IInv
  <2> SUFFICES ASSUME Init
               PROVE  IInv
    OBVIOUS
  <2>1. DOMAIN queue = {} /\ DOMAIN mainQueue = {}
    BY DEF Init
  <2>2. TypeOK
    BY EmptySeq DEF Init, TypeOK, Faults
  <2>3. QueueInv(queue, clients, eventListeners, conn)
        /\ MainInv(mainQueue, queue, clients, late, conn)
    BY <2>1 DEF QueueInv, MainInv
  <2>4. \A calls : InPlace(calls) = {}
    BY <2>1 DEF InPlace
  <2>5. RegistrationsMatchClients
    BY <2>4 DEF Init, RegistrationsMatchClients
  <2>6. SubscriptionInv
    BY DEF Init, SubscriptionInv, SubscriptionsMatchListeners
  <2> QED
    BY <2>2, <2>3, <2>5, <2>6 DEF Init, IInv, ClientInv, WatchedInv,
         DispatchedSourcesAreExpected, ClientsKnowTheEvents, NoFault
<1>2. IInv => TypeOK
  BY DEF IInv
<1> QED
  BY <1>1, <1>2, TypeCorrect, InvariantStep, PTL DEF Spec

----------------------------------------------------------------------------
(* What the invariant says of the service.                                 *)

\* The registration maps and the client table agree in every reachable state,
\* but for the connection that the main thread is forgetting.
THEOREM RegistrationsCorrect == Spec => []RegistrationsMatchClients
<1>1. IInv => RegistrationsMatchClients
  BY DEF IInv
<1> QED
  BY <1>1, InvariantCorrect, PTL

\* Every client is subscribed to every registered event and to no other.
THEOREM SubscriptionsCorrect == Spec => []SubscriptionsMatchListeners
<1>1. IInv => SubscriptionsMatchListeners
  BY DEF IInv, SubscriptionInv
<1> QED
  BY <1>1, InvariantCorrect, PTL

\* Whatever was attached before a stop, a restart or an unregisterEventListener,
\* a dispatched source finds the listener and the client it looks up.
THEOREM DispatchCorrect == Spec => []DispatchedSourcesAreExpected
<1>1. IInv => DispatchedSourcesAreExpected
  BY DEF IInv
<1> QED
  BY <1>1, InvariantCorrect, PTL

\* A client that asked once knows every registered event from then on, under its
\* own id or the server's, and what it knows under the server's is registered,
\* also when signals wait for it, unless a later one overtakes them.
THEOREM ClientsKnowTheEventsCorrect == Spec => []ClientsKnowTheEvents
<1>1. IInv => ClientsKnowTheEvents
  BY DEF IInv
<1> QED
  BY <1>1, InvariantCorrect, PTL

\* A step that is not stop() drops a client only when its connection closed.
THEOREM ClientsLeaveCorrect == Spec => ClientsLeaveWhenClosed
<1>1. IInv /\ [Next]_vars
         => [\A c \in clients \ clients' : active' => conn[c] = "closed"]_vars
  <2> SUFFICES ASSUME IInv, [Next]_vars,
                      NEW c \in clients \ clients', active'
               PROVE  conn[c] = "closed"
    OBVIOUS
  <2>1. ASSUME NEW x, NEW q, OnClosedConnection(x, q)
        PROVE  c = x
    BY <2>1 DEF OnClosedConnection
  <2>2. CASE OnClosedConnectionPosted
    <3>1. queue # <<>> /\ Head(queue).kind = "closed" /\ Head(queue).conn = c
      BY <2>1, <2>2 DEF OnClosedConnectionPosted, Dispatches
    <3>2. 1 \in DOMAIN queue /\ Head(queue) = queue[1]
      BY <3>1, TailElements DEF IInv, TypeOK
    <3> QED
      BY <3>1, <3>2 DEF IInv, QueueInv
  <2>3. CASE Remove
    <3>1. /\ mainQueue # <<>> /\ Head(mainQueue).kind = "remove"
          /\ Head(mainQueue).conn = c
      BY <2>3 DEF Remove, NextMain
    <3>2. "remove" \in CloseKinds
      BY DEF CloseKinds, InPlaceKinds, Forgotten
    <3> QED
      BY <3>1, <3>2, MainHead
  <2>4. CASE clients' = clients \cup {Head(queue).conn} \/ clients' = clients
             \/ active' = FALSE
    BY <2>4
  <2> DEFINE Other == \/ clients' = clients \cup {Head(queue).conn}
                      \/ clients' = clients
                      \/ active' = FALSE
  <2>5. Operations => Other
    BY DEF Operations, Start, Stop, RegisterEventListener,
           UnregisterEventListener
  <2>6. WorkerDispatch => OnClosedConnectionPosted \/ Other
    BY DEF WorkerDispatch, OnNewConnection, HandleDBusHello,
           HandleAtspi2GetRegisteredEvents, OnSignal, DropCancelled, serviceVars
  <2>7. MainDispatch => Remove \/ Other
    BY DEF MainDispatch, OnClosedConnectionWrapper, OnClosedConnectionInPlace,
           UnsubscribeSignalsActive, UnregisterRegistryInterfaces,
           UnregisterDBusInterfaces, EmitSignalLater, serviceVars
  <2>8. Environment => Other
    BY DEF Environment, Connect, PeerCloses, Finalize, CallArrives,
           SignalArrives, serviceVars
  <2>9. Aborted \/ UNCHANGED vars => Other
    BY DEF Aborted, vars, serviceVars
  <2>10. OnClosedConnectionPosted \/ Remove \/ Other
    BY <2>5, <2>6, <2>7, <2>8, <2>9 DEF Next
  <2> QED
    BY <2>2, <2>3, <2>4, <2>10
<1> QED
  BY <1>1, InvariantCorrect, PTL DEF Spec, ClientsLeaveWhenClosed
============================================================================
