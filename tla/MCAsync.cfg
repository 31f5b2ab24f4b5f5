SPECIFICATION AsyncFairSpec
CONSTANTS
    MaxReads = 3
INVARIANTS
    AsyncTypeOK
    NoLateCallback
    ResultIsOwn
PROPERTIES
    WaitEnds
CHECK_DEADLOCK FALSE
