SPECIFICATION FairSpec
CONSTANTS
    k1 = k1
    Candidates = {k1}
    MaxInbox = 1
    MaxErrors = 1
PROPERTY
    StartHandlesFailure
CHECK_DEADLOCK FALSE
