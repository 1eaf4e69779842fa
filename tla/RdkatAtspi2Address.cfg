SPECIFICATION Spec
CONSTANTS
    c1 = c1
    c2 = c2
    Connections = {c1, c2}
    Names = {NoName, editor, RegistryName}
    editor = editor
    NoName = NoName
    RegistryName = RegistryName
    Events = {focus}
    focus = focus
    IdSpan = 3
    Given = {given, other}
    given = given
    other = other
    NoAddress = NoAddress
    DirBound = 2
    MadeBound = 4
INVARIANT ReturnsItsAddress
