SPECIFICATION Spec
CONSTANTS
    TaskBound <- MCTaskBound
    AbandonBound <- MCAbandonBound
INVARIANTS
    TypeOK
    CallsReturnCompleted
    ReaderFollowsChanges
PROPERTIES
    CallsReturn
    KeepsPromise
