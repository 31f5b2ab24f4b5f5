SPECIFICATION FairSpec
CONSTANTS
    t1 = t1
    t2 = t2
    t3 = t3
    Threads <- MCThreads
    Patient <- MCPatient
    Stoppable <- MCStoppable
    Counts <- MCCounts
    MaxGives = 4
INVARIANTS
    TypeOK
    NoLostSignal
PROPERTIES
    ImplementsSemaphore
    CountIsTaken
CHECK_DEADLOCK FALSE
