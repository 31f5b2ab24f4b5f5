SPECIFICATION Spec
CONSTANTS
    Limit = 3
    Period = 2
    MaxSkew = 1
    MaxTime = 12
INVARIANTS
    TypeOK
    SilenceIsNoticed
CHECK_DEADLOCK FALSE
