SPECIFICATION Spec
CONSTANTS
    Workers = {w1}
    Callers = {c1}
    Scheduler = scheduler
    Main = main
    Calls = {"add", "check", "remove", "set", "cancel", "retry", "clear", "stop", "crash"}
    Outcomes = {"quiet", "full"}
    All = TRUE
    MaxWatches = 2
    MaxJobs = 2
    MaxTime = 0
    MaxBoots = 2
    MaxCalls = 2
CHECK_DEADLOCK FALSE
INVARIANTS
    OneCheckAtATime
    MemoryIsTrue
