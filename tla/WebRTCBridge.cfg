SPECIFICATION FairSpec
CONSTANTS
    k1 = k1
    Candidates = {k1}
    MaxInbox = 2
    MaxErrors = 2
INVARIANTS
    TypeOK
    CandidatesKept
    FalseSuccessReported
    SuccessMeansSession
PROPERTIES
    ErrorEndsStart
    StartCompletes
CHECK_DEADLOCK FALSE
