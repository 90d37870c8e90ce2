CONSTANTS
    NumberOfKeys = 4
    Reliable = FALSE
    Concurrent = FALSE
    Replays = FALSE
    Faults = {"mismatch", "tls", "tls_later", "encryption", "gateway", "encrypt", "serialize",
              "random", "restart", "auth_failed", "stop", "link_lost", "timeout", "silence"}
    MaxOut = 6
    MaxResets = 2
    MaxBatch = 2
    MaxLinks = 2
SPECIFICATION Spec
INVARIANTS
    TypeOK
    CrashAfterStop
    RingInv
    LoopAlive
    PingAlive
    KeysUsable
    KeysAgree
    NoPhantom
PROPERTY OldKeyKept
CHECK_DEADLOCK FALSE
