SPECIFICATION FairSpec
CONSTANTS
    Lanes = {l1}
    Passes = {p1}
    Facts = {f1, f2, f3}
    Budget = 1
    WriteLimit = 2
    Threshold = 2
    MaxCrashes = 1
INVARIANTS
    TypeOK
    AccountedFor
    ArchivedStaysOut
PROPERTIES
    BudgetRestored
CHECK_DEADLOCK FALSE
