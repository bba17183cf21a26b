SPECIFICATION FairSpec
CONSTANTS
    b1 = b1
    b2 = b2
    none = none
    NumCameras = 2
    Bridges = {b1, b2}
    MaxVersion = 2
INVARIANTS
    TypeOK
    OneSupervisor
    BridgeIsCurrent
PROPERTIES
    OperationEnds
    DeathEndsBridge
CHECK_DEADLOCK FALSE
