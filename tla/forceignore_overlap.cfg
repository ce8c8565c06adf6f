SPECIFICATION Spec
CHECK_DEADLOCK FALSE
CONSTANTS
    r1 = r1
    r2 = r2
    Runs = {r1, r2}
    NoRun = NoRun
    Overlap = TRUE
    Signals = FALSE
    MaxCrashes = 0
    MaxEdits = 0
SYMMETRY RunSymmetry
INVARIANTS
    SomewhereKept
