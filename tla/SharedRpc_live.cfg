SPECIFICATION FairSpec
CONSTANTS
    t1 = t1
    t2 = t2
    Thr <- Threads
    Class = {"mount", "keep"}
    Faults = {"slow", "lose", "eio", "disconnect", "restart", "umount"}
    MaxFaults = 2
    MaxCalls = 2
    SeqMod = 16
    InitSeqno = 0
PROPERTY
    CallsReturn
CHECK_DEADLOCK FALSE
