SPECIFICATION Spec
CONSTANTS
    c1 = c1
    c2 = c2
    Clients = {c1, c2}
    NoClient = NoClient
    QueueBound = 1
    Objects <- MCSmallObjects
    NoObject <- MCNoObject
    Parent <- MCSmallParent
    Role <- MCRole
    Name <- MCName
    Description <- MCDescription
    Caption <- MCCaption
SYMMETRY Symmetry
INVARIANTS
    TypeOK
    LocationIsWhole
    StatusIsHeard
