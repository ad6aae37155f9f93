SPECIFICATION FairSpec
CONSTANTS
    Channel = {1, 2}
    MaxSessions = 2
    MaxHooks = 2
    MaxFaults = 1
INVARIANTS
    OneFinalizer
    HookOnce
    AnnouncedKept
PROPERTIES
    RecordingsEnd
