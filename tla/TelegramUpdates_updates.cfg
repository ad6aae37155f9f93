SPECIFICATION FairSpec
CONSTANTS
    MaxUpdates = 3
    BatchLimit = 2
    MaxFaults = 3
INVARIANTS
    NothingLost
PROPERTIES
    AtMostOnceInOrder
    UpdatesEnd
CHECK_DEADLOCK FALSE
