SPECIFICATION FairSpec
CONSTANTS
    draft = draft
    polish = polish
    revise = revise
    review = review
    watch = watch
    closed = closed
    Request = {r1, r2}
    Step <- MCStep
    Kind <- MCKind
    Onward <- MCOnward
    OnReject <- MCOnReject
    Entry = draft
    Closed = closed
    Priority <- MCPriority
    Slots = 1
    MaxHops = 1
    Caller = {c1}
    MaxRuns = 4
    MaxOps = 3
    MaxFaults = 1
INVARIANTS
    OneExecution
    OneRunPerKey
PROPERTIES
    RunsEnd
    MovesAreOwned
CHECK_DEADLOCK FALSE
