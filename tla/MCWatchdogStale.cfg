SPECIFICATION Spec
CONSTANTS
    Limit = 3
    Period = 2
    MaxSkew = 0
    MaxTime = 12
PROPERTY
    OnlyWedged
CHECK_DEADLOCK FALSE
