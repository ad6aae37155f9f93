SPECIFICATION Spec
CONSTANTS
    Conversation = {c1}
    MaxTurns = 3
    MaxProfile = 2
    MaxEdits = 1
    MaxFaults = 1
INVARIANTS
    NeverOtherInstructions
CHECK_DEADLOCK FALSE
