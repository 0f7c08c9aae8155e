SPECIFICATION FairSpec
CONSTANTS
    Workers = {w1}
    Callers = {c1}
    Main = main
    Free = free
    Calls = {"enqueue", "retry", "pause", "stop"}
    Lanes = {1}
    Outcomes = {"failed"}
    MaxFinished = 1
    MaxJobs = 2
    MaxRuns = 2
    MaxBoots = 1
CHECK_DEADLOCK FALSE
INVARIANTS
    OnePlace
    RingInOrder
PROPERTIES
    Served
    CloseEnds
