SPECIFICATION FairSpec
CONSTANTS
    ErrorPlaces = {"stop"}
    Wedge = TRUE
PROPERTY
    ComesToAnEnd
CHECK_DEADLOCK FALSE
