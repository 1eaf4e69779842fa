SPECIFICATION Spec
CONSTANTS
    TaskBound <- MCTaskBound
    AbandonBound <- MCAbandonBound
INVARIANT NotEnabledAfterUninitialize
