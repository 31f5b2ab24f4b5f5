SPECIFICATION FairSpec
CONSTANTS
    Windows = {1, 2}
    MaxCommands = 3
    Fatals = TRUE
INVARIANTS
    TypeOK
    VersionsAgree
    RepliesMatch
PROPERTIES
    Answered
    CommandsEnd
CHECK_DEADLOCK FALSE
