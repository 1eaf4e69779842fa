SPECIFICATION Spec
CONSTANTS
    IdBound = 3
    SpeechBound = 2
    Debugging = FALSE
INVARIANTS
    TypeOK
    SessionsAreKnown
    SpeechRecovers
    VolumeIsRestored
PROPERTIES
    LoweredVolumeComesBack
    KeepsPromise
