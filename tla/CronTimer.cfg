SPECIFICATION FairSpec
CONSTANTS
    Jobs = {at, every, once}
    OneShot = {at, once}
    Transient = {once}
    Hands = {h1, h2}
    MaxRequests = 6
    NoJob = none
INVARIANTS
    NoJobForgotten
    ExecutesOnlyDue
    StoppedIsQuiet
    OneShotBegunOnce
PROPERTIES
    DueIsExecuted
CHECK_DEADLOCK FALSE
