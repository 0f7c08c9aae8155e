SPECIFICATION Spec
CONSTANTS
    j1 = j1
    j2 = j2
    Ids = {j1, j2}
    Requests <- MCRequests
    Chains <- MCChains
    Services = {"saucenao", "iqdb"}
    Short = 1
    Daily = 2
    MaxFetches = 1
    MaxCands = 1
    MaxFiles = 1
    MaxEvents = 1
    MaxRetried = 1
CHECK_DEADLOCK FALSE
INVARIANTS
    EveryRunIsTold
    ReportsAreTrue
    PtrIsFit
PROPERTIES
    CooldownsStand
