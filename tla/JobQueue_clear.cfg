SPECIFICATION Spec
CONSTANTS
    Workers = {w1, w2}
    Callers = {c1}
    Main = main
    Free = free
    Calls = {"enqueue", "retry", "clear", "sweep", "clearSucceeded", "record"}
    Lanes = {1}
    Outcomes = {"succeeded"}
    MaxFinished = 2
    MaxJobs = 2
    MaxRuns = 2
    MaxBoots = 1
SYMMETRY Symmetric
CHECK_DEADLOCK FALSE
INVARIANTS
    TypeOK
    OneWorkerPerJob
    RowsFollow
PROPERTIES
    ImplementsLifecycle
    SettledOnce
