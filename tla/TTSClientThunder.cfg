SPECIFICATION Spec
CONSTANT IdBound = 4
INVARIANTS
    TypeOK
    SessionsAreKnown
    SpeakRecovers
PROPERTY KeepsPromise
