SPECIFICATION MCSpec
CONSTANTS
    Callers = {c1, c2}
    Free = free
    MaxLimit = 2
    Days = 1
    MaxBoots = 2
    Apps = {"monsender", "other"}
    Managed = {"monsender"}
    PendingCap = 1
    MaxPolls = 2
    Browsers = {"b1", "b2"}
    MaxVersions = 2
    MaxSessions = 3
    Requests = {r1, r2}
    EnvKeys = {"url", "limits"}
    Versions = {1, 2, 3}
    Built = {2, 3}
    MaxSwitches = 2
    MaxJobs = 2
    Letters = {"a", "_", " ", "-", ":", "system"}
    MaxName = 3
    MaxRequests = 2
    MaxFaults = 1
SYMMETRY Symmetric
CHECK_DEADLOCK FALSE
INVARIANTS
    LimitHolds
    RowCounts
    PairingsAgree
    ChangeSignsOut
    SavesLand
    SwitchIsSafe
    SwitchIsTold
    TablesAgree
PROPERTY
    EndedStaysEnded
