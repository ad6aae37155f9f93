SPECIFICATION Spec
CONSTANTS
    Channel = {c1, c2}
    None = none
    MaxFaults = 1
INVARIANTS
    JoinedIsNotRecorded
