SPECIFICATION FairSpec
CONSTANTS
    Sids = {s1, s2}
    MaxSessions = 3
    MaxRequests = 0
PROPERTIES
    IdleSessionsClosed
CHECK_DEADLOCK FALSE
