SPECIFICATION FairSpec
CONSTANTS
    Workers = {w1}
    Callers = {c1}
    Scheduler = scheduler
    Main = main
    Calls = {"check", "set", "remove", "cancel", "retry"}
    Outcomes = {"caught", "full", "failed"}
    All = TRUE
    MaxWatches = 1
    MaxJobs = 2
    MaxTime = 1
    MaxBoots = 1
    MaxCalls = 2
CHECK_DEADLOCK FALSE
PROPERTIES
    DueIsChecked
