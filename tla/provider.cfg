CONSTANTS
    Remotes = 2
    Reliable = {1}
    Endpoints <- MCEndpoints
    MaxSockets = 5
    Faults = {"dns", "dns_late", "socket", "slow", "session", "gateway", "settings", "better_path", "stop"}
    MaxFaults = 3
SPECIFICATION FairSpec
INVARIANTS
    TypeOK
    AllTried
    LinkOfSocket
    OneObserved
    StopOnce
PROPERTIES
    StaysDown
    StartAnswered
    StopAnswered
CHECK_DEADLOCK FALSE
