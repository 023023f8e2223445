SPECIFICATION Spec
CONSTANTS
    Jobs = {j1, j2}
    OneShot = {j1}
    Runs = {r1, r2, r3}
    NoJob = NoJob
SYMMETRY RunSymmetry
INVARIANTS
    RemovedStaysRemoved
CHECK_DEADLOCK FALSE
