SPECIFICATION Spec
CONSTANTS
    Callers = {c1, c2}
    Main = main
    Free = free
    Addresses = {a, b}
    Calls = {"save", "delete", "crash", "cut"}
    MaxUpdates = 2
    MaxFaults = 1
    MaxBoots = 2
    MaxCalls = 2
SYMMETRY Symmetric
CHECK_DEADLOCK FALSE
INVARIANTS
    IndexIsPrefix
    CompleteIsWhole
