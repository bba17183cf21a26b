SPECIFICATION Spec
CONSTANTS
    c1 = c1
    c2 = c2
    g1 = g1
    g2 = g2
    Clients = {c1, c2}
    Starters = {g1, g2}
    MaxErrors = 2
    MaxExpired = 1
PROPERTY
    LateCallbackIgnored
CHECK_DEADLOCK FALSE
