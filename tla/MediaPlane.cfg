SPECIFICATION FairSpec
CONSTANTS
    c1 = c1
    c2 = c2
    Conns = {c1, c2}
    Loopback = TRUE
INVARIANTS
    TypeOK
    TransportsBelongToViewers
    PromiseKept
PROPERTIES
    DeadViewerLeaves
CHECK_DEADLOCK FALSE
