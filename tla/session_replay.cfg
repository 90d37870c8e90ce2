CONSTANTS
    NumberOfKeys = 4
    Reliable = FALSE
    Concurrent = FALSE
    Replays = TRUE
    Faults = {}
    MaxOut = 6
    MaxResets = 2
    MaxBatch = 2
    MaxLinks = 1
SPECIFICATION Spec
INVARIANT NoPhantom
CHECK_DEADLOCK FALSE
