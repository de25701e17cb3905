SPECIFICATION FairSpec
CONSTANTS
    CL = CL
    None = None
    w1 = w1
    w2 = w2
    w3 = w3
    s1 = s1
    Worker <- Workers
    Conn <- OnlyClient
    MinPool = 1
    MaxThreads = 1
    Incr = 1
    MaxItems = 2
    MaxBreaks = 0
PROPERTY ReceivedIsProcessed
CHECK_DEADLOCK FALSE
