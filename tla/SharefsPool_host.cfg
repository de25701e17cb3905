SPECIFICATION Spec
CONSTANTS
    CL = CL
    None = None
    w1 = w1
    w2 = w2
    w3 = w3
    s1 = s1
    Worker <- Workers
    Conn <- WithServer
    MinPool = 1
    MaxThreads = 3
    Incr = 1
    MaxItems = 4
    MaxBreaks = 3
SYMMETRY Symmetry
INVARIANTS TypeOK CountersAgree QueueInOrder
CHECK_DEADLOCK FALSE
