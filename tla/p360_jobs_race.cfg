\* Two executions of the schedulable overlap.
SPECIFICATION Spec
CONSTANTS
    Jobs = {j1}
    Schedulers = {s1, s2}
    Workers = {w1, w2}
    BatchSize = 1
    MaxAttempts = 2
    Backoff <- MCBackoff
    Lease = 1
INVARIANTS
    OneWorkerPerRow
