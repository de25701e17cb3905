SPECIFICATION FairSpec
CONSTANTS
    CL = CL
    None = None
    w1 = w1
    w2 = w2
    w3 = w3
    s1 = s1
    Worker <- Workers
    Conn <- OnlyClient
    MinPool = 2
    MaxThreads = 3
    Incr = 1
    MaxItems = 4
    MaxBreaks = 2
INVARIANT PoolReaped
PROPERTY BusyTakesNext
CHECK_DEADLOCK FALSE
