CONSTANTS
    NumberOfKeys = 4
    Reliable = FALSE
    Concurrent = TRUE
    Replays = FALSE
    Faults = {"stop"}
    MaxOut = 6
    MaxResets = 0
    MaxBatch = 2
    MaxLinks = 1
SPECIFICATION Spec
INVARIANT NoCrash
CHECK_DEADLOCK FALSE
