SPECIFICATION FairSpec
CONSTANTS
    Sids = {s1, s2}
    MaxSessions = 2
    MaxRequests = 2
INVARIANTS
    RepliesConserved
    LateByTimeouts
    OwnedOnce
    ShutdownLeavesNone
PROPERTIES
    PipeSpec
    CloseEnds
CHECK_DEADLOCK FALSE
