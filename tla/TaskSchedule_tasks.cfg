SPECIFICATION FairSpec
CONSTANTS
    Task = {t1}
    Good = {c1}
    Bad = bad
    Default = c0
    MaxRuns = 2
    MaxEdits = 2
    MaxOpen = 2
    MaxFaults = 1
INVARIANTS
    StartedOnce
    OneOpen
    RunsAreFiled
PROPERTIES
    RowsRule
