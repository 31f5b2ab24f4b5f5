SPECIFICATION Spec
CONSTANTS
    Durations = {2}
    MaxLate = 1
INVARIANTS
    TypeOK
    CommandLineWins
    RecordsItsDuration
CHECK_DEADLOCK FALSE
