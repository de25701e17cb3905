SPECIFICATION Spec
CONSTANTS
    t1 = t1
    t2 = t2
    Thr <- Threads
    Class = {"mount", "keep"}
    Faults = {"disconnect"}
    MaxFaults = 1
    MaxCalls = 2
    SeqMod = 16
    InitSeqno = 0
INVARIANT
    CallExecutedOnce
CHECK_DEADLOCK FALSE
