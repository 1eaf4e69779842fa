SPECIFICATION Spec
CONSTANTS
    Objects <- MCObjects
    NoObject <- MCNoObject
    Parent <- MCParent
    Role <- MCRole
    Name <- MCName
    Description <- MCDescription
    Caption <- MCCaption
INVARIANTS
    TypeOK
    WalkFindsLocation
    LocationIsHeard
    StatusIsHeard
