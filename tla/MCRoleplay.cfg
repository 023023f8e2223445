SPECIFICATION FairSpec
CONSTANTS
    MaxTurns = 2
    MaxTime = 6
    Threshold = 1
    Cooldown = 2
    MaxProactive = 2
    Day = 4
    QuietFrom = 3
    QuietTo = 0
    Scoped = TRUE
INVARIANTS
    AnswersMatchTurns
    TranscriptHasReplies
    SpeechBounded
PROPERTIES
    PromptReturns
    LeavingEnds
CHECK_DEADLOCK FALSE
