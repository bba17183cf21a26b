SPECIFICATION Spec
CONSTANTS
    b1 = b1
    b2 = b2
    none = none
    NumCameras = 2
    Bridges = {b1, b2}
    MaxVersion = 2
INVARIANTS
    PartialSetupUnseen
CHECK_DEADLOCK FALSE
