CONSTANTS
    Calls = {c1, c2}
    Ids = {"wireguard", "openvpn"}
    MaxRequests = 2
SPECIFICATION FairSpec
INVARIANTS
    OffStaysOff
    NoTwins
PROPERTIES
    NoGhostCount
    CountCleared
CHECK_DEADLOCK FALSE
