SPECIFICATION PersonaFairSpec
CONSTANTS
    MaxTurns = 3
    Threshold = 1
    Keep = 1
INVARIANTS
    TypeOK
    AnsweredInOrder
    HintsInOrder
    SessionHoldsReplies
    SummariesPartition
    TailKept
PROPERTIES
    MailboxSpec
    MessagesAnswered
    StopEnds
CHECK_DEADLOCK FALSE
