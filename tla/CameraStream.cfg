SPECIFICATION FairSpec
CONSTANTS
    c1 = c1
    c2 = c2
    g1 = g1
    g2 = g2
    Clients = {c1, c2}
    Starters = {g1, g2}
    MaxErrors = 1
    MaxExpired = 2
INVARIANTS
    TypeOK
    UnwatchedSessionExpires
    ShutdownOnlyWhenUnwatched
    NoStrandedViewer
    SingleStarter
PROPERTIES
    ImplementsBridge
    ImplementsLifecycle
    SessionTornDown
    ViewerServed
CHECK_DEADLOCK FALSE
