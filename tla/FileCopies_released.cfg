SPECIFICATION Spec
CONSTANTS
    u1 = u1
    u2 = u2
    None = None
    Users <- MCUsers
    Copies <- MCCopies
    Setups <- MCReleased
INVARIANT NeverLost
CHECK_DEADLOCK FALSE
