SPECIFICATION FairSpec
CONSTANTS
    Conversation = {c1}
    MaxTurns = 3
    MaxProfile = 2
    MaxEdits = 1
    MaxFaults = 1
INVARIANTS
    TypeOK
    OneAtATime
    OwnInstructions
    RepliedOnce
PROPERTIES
    ThreadKept
    TurnsEnd
CHECK_DEADLOCK FALSE
