SPECIFICATION Spec
CHECK_DEADLOCK FALSE
CONSTANTS
    mds = mds
    c1 = c1
    t1 = t1
    t2 = t2
    None = None
    Server = mds
    Client <- Hosts
    Thread <- Threads
    Setups <- Usual
INVARIANTS
    TypeOK
    LeasesExclude
    AppendOwnsSize
    PagedAlone
    SingleCloseCancels
PROPERTIES
    ReadersTold
    CloseKeepsMaps
