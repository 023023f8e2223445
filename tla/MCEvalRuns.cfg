SPECIFICATION EvalSpec
CONSTANTS
    Runs = {r1, r2}
    Entries = 2
    Turns = 2
    MaxTime = 1
SYMMETRY RunSymmetry
INVARIANTS
    LinesAreEntries
    OwnMemoryAlone
CHECK_DEADLOCK FALSE
