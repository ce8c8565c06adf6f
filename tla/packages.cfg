\* Two packages, the submission of each tried up to three times.
SPECIFICATION FairSpec
CHECK_DEADLOCK FALSE
CONSTANTS
    N = 2
    NeedsKey <- MCNeedsKey
    MaxAttempts = 3
    MaxRounds = 2
INVARIANTS
    SuccessIsComplete
    InOrder
    PartialUnlessThrown
PROPERTIES
    EventuallyEnds
