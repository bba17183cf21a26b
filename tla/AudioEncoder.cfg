SPECIFICATION FairSpec
CONSTANTS
    Wrap = 6
    MaxGap = 1
    QueueSize = 1
    Window = 1
    MaxOutage = 3
    Start = 4
    MaxTime = 11
INVARIANTS
    TypeOK
    ClockKept
    NothingAfterClose
PROPERTIES
    ReportsFirstCause
    CloseEnds
CHECK_DEADLOCK FALSE
