SPECIFICATION FairSpec
CONSTANTS
    o1 = o1
    o2 = o2
    c1 = c1
    c2 = c2
    none = none
    Streams = {o1, o2}
    Conns = {c1, c2}
INVARIANTS
    TypeOK
    ViewersAreHere
    IdleEntryHasOwner
PROPERTIES
    LiveEntryNotLost
    ObjectsAreSessions
    JoinCompletes
    StopCompletes
CHECK_DEADLOCK FALSE
