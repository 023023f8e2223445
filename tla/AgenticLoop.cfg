SPECIFICATION FairSpec
CONSTANTS
    MaxIterations = 3
    MaxRetries = 3
    MaxCalls = 2
INVARIANTS
    RequestsAnswerable
    AttemptsBounded
    EndReported
PROPERTIES
    LoopsEnd
CHECK_DEADLOCK FALSE
