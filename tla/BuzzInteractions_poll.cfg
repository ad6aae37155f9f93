SPECIFICATION FairSpec
CONSTANTS
    Channel = {c1}
    MaxEvents = 2
    MaxTime = 3
    Overlap = 1
    Lag = 1
    Ahead = 1
    Limit = 1
    Lookback = 1
    Retained = 1
    MaxReplies = 2
    MaxFaults = 2
INVARIANTS
    MentionsOnce
    NeverPassedBy
PROPERTIES
    EventsEnd
CHECK_DEADLOCK FALSE
