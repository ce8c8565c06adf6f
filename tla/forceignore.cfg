\* Three commands in turn; two may be killed, each interrupted, two edits.
SPECIFICATION Spec
CHECK_DEADLOCK FALSE
CONSTANTS
    r1 = r1
    r2 = r2
    r3 = r3
    Runs = {r1, r2, r3}
    NoRun = NoRun
    Overlap = FALSE
    Signals = TRUE
    MaxCrashes = 2
    MaxEdits = 2
SYMMETRY RunSymmetry
INVARIANTS
    NeverLost
    LeaseIsDurable
PROPERTIES
    DoneMeansRestored
    RestoringKeepsFiles
