SPECIFICATION FairSpec
CONSTANTS
    A = A
    B = B
    C = C
    NoHost = NoHost
    Hosts <- Three
    Setups <- Failovers
INVARIANTS
    OneServer
    LeaseExclusive
PROPERTIES
    ThawsWithLease
    Thaws
CHECK_DEADLOCK FALSE
