SPECIFICATION Spec
CONSTANTS
    Callers = {c1, c2}
    Mappings = {"m"}
    Relations = {"r"}
    Starts <- OneStands
    Batches <- PutAndTake
    Calls = {"stage", "rescind", "backlog", "undo", "cancel", "retry", "crash", "close", "wipe"}
    ChunkSize = 1
    MaxStaged = 2
    MaxSends = 2
    MaxUpdates = 2
    MaxFaults = 1
    MaxCalls = 3
SYMMETRY Symmetric
CHECK_DEADLOCK FALSE
INVARIANTS
    OwedIsKept
    ClaimsHold
PROPERTIES
    EditsAreHonoured
