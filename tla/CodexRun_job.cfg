SPECIFICATION RunFairSpec
CONSTANTS
    Tries = 2
    Setups = 2
    IdleMs = 3
    MaxMs = 5
    Horizon = 5
    Unread = 1
INVARIANTS
    OperatesOnce
    OneAgent
PROPERTIES
    NoLateSpawn
    JobEnds
CHECK_DEADLOCK FALSE
