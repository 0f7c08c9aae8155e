SPECIFICATION FairSpec
CONSTANTS
    Callers = {c1}
    Main = main
    Free = free
    Addresses = {"a"}
    Calls = {"pause", "resume", "retry", "enable", "delete", "save"}
    MaxUpdates = 2
    MaxFaults = 1
    MaxBoots = 1
    MaxCalls = 2
CHECK_DEADLOCK FALSE
PROPERTIES
    SyncMovesOn
    LifecycleEnds
