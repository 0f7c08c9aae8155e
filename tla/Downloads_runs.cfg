SPECIFICATION Spec
CONSTANTS
    Ids = {1, 2}
    Requests <- AnyAndSearch
    Odd = {1}
    Cap = 2
    CatchUpSkips = 2
    Pages = 2
    Calls = {"cancel", "stop", "crash", "retry", "publish"}
    MaxPosts = 3
    MaxRetries = 1
    MaxCuts = 1
    MaxFaults = 2
CHECK_DEADLOCK FALSE
CONSTRAINTS
    Beside
    OneNameless
INVARIANTS
    NothingLost
    RowsTellTruth
    SuccessIsWhole
