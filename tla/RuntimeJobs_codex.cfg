SPECIFICATION FairSpec
CONSTANTS
    Call = {c1, c2}
    Durable = TRUE
    Retained = 1
    Attempts = 2
    MaxJobs = 5
    MaxOthers = 1
    MaxFaults = 1
    MaxRestarts = 1
INVARIANTS
    OneRunPerKey
    NoOrphan
    AnswerIsOwn
PROPERTIES
    ResultsStay
    CallsEnd
CHECK_DEADLOCK FALSE
