CONSTANTS
    ByteBits = 2
    Payloads <- MCPayloads
    Masks <- MCMasks
    MaxSent = 3
    MaxBatch = 2
    MaxRead = 5
SPECIFICATION FairSpec
INVARIANT
    InStep
PROPERTY
    Drains
CHECK_DEADLOCK FALSE
