SPECIFICATION Spec
CONSTANTS
    t1 = t1
    t2 = t2
    k1 = k1
    Threads <- MCThreads
    Tasks <- MCTasks
    Sizes = {2}
    Setups <- MCSetups
INVARIANTS
    CountersAgree
    OneTransaction
    SpaceReserved
    UnmountClean
PROPERTIES
    SyncDurable
    OpsEnd
CHECK_DEADLOCK FALSE
