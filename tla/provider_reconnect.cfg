CONSTANTS
    Remotes = 1
    Reliable = {}
    Endpoints <- MCEndpoints
    MaxSockets = 2
    Faults = {"session"}
    MaxFaults = 1
SPECIFICATION FairSpec
PROPERTY Restarted
CHECK_DEADLOCK FALSE
