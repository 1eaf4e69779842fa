SPECIFICATION Spec
CONSTANTS
    Connections = {c1, c2}
    Events = {e1}
    QueueBound = 2
    MessageBound = 2
    MainBound = 2
PROPERTY ClosedClientsAreForgotten
