SPECIFICATION Spec
CONSTANTS
    Workers = {w1, w2}
    Posts = 5
    Cap = 2
    Asked <- AskedSizes
    Listings = {FALSE}
    Calls = {"continue", "retry", "retrySeries", "cancelSeries", "cancelLive", "clearSucceeded", "stop"}
    Outcomes = {"succeeded"}
    MaxWindows = 3
    MaxRuns = 2
    MaxCalls = 2
SYMMETRY Symmetric
CHECK_DEADLOCK FALSE
INVARIANTS
    EveryPostHasAWay
    NoDoubleFetch
    ChainIsKept
