SPECIFICATION FairSpec
CONSTANTS
    MaxQueue = 2
    MaxBlocks = 4
    MaxSessions = 2
INVARIANTS
    TypeOK
    InOrder
    Conserved
    AtMostOneLate
PROPERTIES
    ImplementsChannel
    QueuedIsWritten
    StoppedIsCleared
    ThreadsEnd
CHECK_DEADLOCK TRUE
