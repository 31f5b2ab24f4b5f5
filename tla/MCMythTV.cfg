SPECIFICATION FairSpec
CONSTANTS
    ErrorPlaces = {"open", "start", "stop", "delete", "driver"}
    Wedge = TRUE
INVARIANTS
    TypeOK
    NoWaitingCircle
    NoSelfLock
    DeviceIsThere
    FatalMeansTerminating
PROPERTIES
    ImplementsLife
    EndsUnlessStuck
CHECK_DEADLOCK FALSE
