SPECIFICATION Spec
CONSTANTS
    Workers = {w1}
    Callers = {c1, c2, c3}
    Main = main
    Free = free
    Calls = {"enqueue", "cancel", "cancelLive", "cancelPending", "clear", "stop", "crash"}
    Lanes = {0}
    Outcomes = {"succeeded"}
    MaxFinished = 1
    MaxJobs = 1
    MaxRuns = 1
    MaxBoots = 2
SYMMETRY Symmetric
CHECK_DEADLOCK FALSE
INVARIANTS
    WaitersAreWoken
    RestartFindsAll
