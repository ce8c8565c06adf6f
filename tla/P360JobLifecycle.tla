--------------------------- MODULE P360JobLifecycle ---------------------------
(***************************************************************************)
(* What one archive job goes through, seen from outside the org: the state *)
(* diagram docs/integrations/p360/diagrams/p360-archive-job-state.mmd with *)
(* the calls P360 receives made visible.  No schedulers, workers, clocks,  *)
(* flags or leases: those are how P360ArchiveJobs gets there.              *)
(***************************************************************************)
EXTENDS Naturals

CONSTANTS Jobs, MaxAttempts

VARIABLES
    phase,  \* where each job is
    tries   \* the archive calls P360 has received for each job

Init ==
    /\ phase = [j \in Jobs |-> "absent"]
    /\ tries = [j \in Jobs |-> 0]

(* p, n and p1, n1 are one job's phase and tries before and after a step.  *)
Queue(p, n, p1, n1) == p = "absent" /\ p1 = "waiting" /\ n1 = n

Claim(p, n, p1, n1) ==
    p = "waiting" /\ n < MaxAttempts /\ p1 = "claimed" /\ n1 = n

(* A claim is good for at most one call, and can be given back unused.     *)
Call(p, n, p1, n1) == p = "claimed" /\ p1 = "called" /\ n1 = n + 1

GiveBack(p, n, p1, n1) == p = "claimed" /\ p1 = "waiting" /\ n1 = n

Retry(p, n, p1, n1) ==
    p = "called" /\ n < MaxAttempts /\ p1 = "waiting" /\ n1 = n

Settle(p, n, p1, n1) ==
    p = "called" /\ p1 \in {"archived", "review"} /\ n1 = n

Stay(p, n, p1, n1) == p1 = p /\ n1 = n

JobStep(p, n, p1, n1) ==
    \/ Queue(p, n, p1, n1)
    \/ Claim(p, n, p1, n1)
    \/ Call(p, n, p1, n1)
    \/ GiveBack(p, n, p1, n1)
    \/ Retry(p, n, p1, n1)
    \/ Settle(p, n, p1, n1)
    \/ Stay(p, n, p1, n1)

(* Jobs are claimed and settled in batches: each takes its own step.       *)
Next ==
    /\ phase' = [j \in Jobs |-> phase'[j]]
    /\ tries' = [j \in Jobs |-> tries'[j]]
    /\ \A j \in Jobs : JobStep(phase[j], tries[j], phase'[j], tries'[j])

Spec == Init /\ [][Next]_<<phase, tries>>
=============================================================================
