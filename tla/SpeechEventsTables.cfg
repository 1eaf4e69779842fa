SPECIFICATION Spec
CONSTANTS
    c1 = c1
    c2 = c2
    Clients = {c1}
    NoClient = NoClient
    QueueBound = 1
    Objects <- MCObjects
    NoObject <- MCNoObject
    Parent <- MCParent
    Role <- MCRole
    Name <- MCName
    Description <- MCDescription
    Caption <- MCCaption
INVARIANTS
    LocationIsHeard
PROPERTY CallsAreAnswered
