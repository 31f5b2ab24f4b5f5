SPECIFICATION FairSpec
CONSTANT
    MaxRetry = 2
INVARIANTS
    TypeOK
    CaptureIsSetUp
PROPERTIES
    CaptureIsFresh
    CallsReturn
