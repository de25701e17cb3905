SPECIFICATION Spec
CONSTANTS
    t1 = t1
    t2 = t2
    Thr <- Threads
    Class = {"mount", "keep", "idem", "one", "nowait"}
    Faults = {"slow", "lose", "eio", "disconnect", "restart", "umount", "rmparent"}
    MaxFaults = 1
    MaxCalls = 3
    SeqMod = 16
    InitSeqno = 14
SYMMETRY Symmetry
INVARIANTS
    TypeOK
    NoSecondExecution
    ServerRemembers
    AckNotPastOutstanding
    ResultWasExecuted
CHECK_DEADLOCK FALSE
