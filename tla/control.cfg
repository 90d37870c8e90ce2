CONSTANTS
    LastKey = 1
    MaxOut = 2
    MaxIn = 3
    Orderly = TRUE
SPECIFICATION Spec
INVARIANTS
    TypeOK
    NothingForgotten
    InOrder
    AckedIsKept
