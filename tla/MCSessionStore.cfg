SPECIFICATION Spec
CONSTANTS
    Managers = {m1, m2}
    MaxTurns = 3
    Keep = 1
SYMMETRY ManagerSymmetry
INVARIANTS
    
    MarkedIsSummarised
CHECK_DEADLOCK FALSE
