\* One scheduler, two workers, two jobs claimed up to two at a time.
SPECIFICATION FairSpec
CONSTANTS
    Jobs = {j1, j2}
    Schedulers = {s1}
    Workers = {w1, w2}
    BatchSize = 2
    MaxAttempts = 2
    Backoff <- MCBackoff
    Lease = 1
INVARIANTS
    ClaimExclusive
    AttemptsAreCalls
PROPERTIES
    BackoffRespected
    ConfirmedNeverRepeated
    FollowsLifecycle
    EventuallySettled
    DrainsWhenOff
