SPECIFICATION Spec
CONSTANTS
    c1 = c1
    c2 = c2
    e1 = e1
    e2 = e2
    Connections = {c1, c2}
    Events = {e1, e2}
    QueueBound = 2
    MessageBound = 1
    MainBound = 3
SYMMETRY Symmetry
INVARIANTS
    TypeOK
    RegistrationsMatchClients
    SubscriptionsMatchListeners
    DispatchedSourcesAreExpected
    ClientsKnowTheEvents
PROPERTIES
    ClientsLeaveWhenClosed
