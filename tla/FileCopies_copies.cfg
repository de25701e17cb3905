SPECIFICATION FairSpec
CONSTANTS
    u1 = u1
    u2 = u2
    None = None
    Users <- MCUsers
    Copies <- MCCopies
    Setups <- MCPassing
INVARIANTS
    TypeOK
    ArchivedNotStale
    OfflineHasCopy
    OnlineIsContent
    GoodCopy
    NeverLost
PROPERTIES
    ReadsTheFile
    ReadEnds
CHECK_DEADLOCK FALSE
