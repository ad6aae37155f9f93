CONSTANTS
    r1 = r1
    h1 = h1
    h2 = h2
    r2 = r2
    rec = rec
    WorkflowRun = {r1}
    Step <- ChainStep
    Kind <- ChainKind
    OnCompleted <- ChainOnCompleted
    OnNoOp <- ChainOnNoOp
    OnFallback <- ChainOnFallback
    Entry = "scan"
    Closed = "done"
    Http = {h1}
    Recovery = rec
    RecoverLimit = 2
    Artifacts = 1
    MaxAttempts = 5
    MaxOps = 2
    MaxFaults = 1
SPECIFICATION FairSpec
PROPERTIES AttemptsSettle
CHECK_DEADLOCK FALSE
