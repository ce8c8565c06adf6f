\* Two transactions that save two decisions and ask for the jobs of every
\* kind of event.
SPECIFICATION Spec
CONSTANTS
    Decisions = {d1, d2}
    Attachments = {v1}
    Documents = {a1}
    Txns = {t1, t2}
    Users <- MCUsers
    Internal <- MCInternal
    Releasers <- MCReleasers
    NoOwner = NoOwner
    MaxBody = 1
SYMMETRY CreationSymmetry
INVARIANTS
    UpdateReleaseQueued
    SavesDoNotWait
PROPERTIES
    LockedAfterRelease
    FollowsOutbox
