SPECIFICATION Spec
CONSTANTS
    None = None
    a1 = a1
    a2 = a2
    b1 = b1
    A = A
    B = B
    Locs <- MCLocs
    Blk <- MCBlk
    Setups <- MCSetups
INVARIANTS
    LogKept
    ReadBack
PROPERTIES
    CrashConsistent
    CommitEnds
CHECK_DEADLOCK FALSE
