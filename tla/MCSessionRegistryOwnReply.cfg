SPECIFICATION Spec
CONSTANTS
    Sids = {s1, s2}
    MaxSessions = 1
    MaxRequests = 2
INVARIANTS
    OwnReply
CHECK_DEADLOCK FALSE
