CONSTANTS
    NumberOfKeys = 4
    Reliable = TRUE
    Concurrent = FALSE
    Replays = FALSE
    Faults = {}
    MaxOut = 6
    MaxResets = 4
    MaxBatch = 2
    MaxLinks = 2
SPECIFICATION FairSpec
INVARIANT NoCrash
PROPERTIES
    Connects
    Settles
CHECK_DEADLOCK FALSE
