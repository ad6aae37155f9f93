CONSTANTS
    r1 = r1
    h1 = h1
    h2 = h2
    r2 = r2
    rec = rec
    WorkflowRun = {r1}
    Step <- MCStep
    Kind <- MCKind
    OnCompleted <- MCOnCompleted
    OnNoOp <- MCOnNoOp
    OnFallback <- MCOnFallback
    Entry = "health"
    Closed = "done"
    Http = {h1}
    Recovery = rec
    RecoverLimit = 2
    Artifacts = 1
    MaxAttempts = 4
    MaxOps = 3
    MaxFaults = 1
SPECIFICATION Spec
INVARIANTS OneExecutor EvidenceBeforeEffect OutcomeFromOwner OneAutoRetry 
PROPERTIES KeepsPromise
CHECK_DEADLOCK FALSE
