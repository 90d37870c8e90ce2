CONSTANTS
    BitmapLen = 3
    RedundantBits = 2
    IdSpace = 13
    MaxPacketId = 8
    MaxBatch = 2
    Payloads <- MCPayloads
SPECIFICATION PathSpec
INVARIANTS
    NoReplay
    WindowInv
    OutIdsOnce
    TunnelGetsAll
    StopsForCause
PROPERTY
    ImplementsWindow
CHECK_DEADLOCK FALSE
