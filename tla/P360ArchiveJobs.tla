--------------------------- MODULE P360ArchiveJobs ---------------------------
(***************************************************************************)
(* The asynchronous half of the P360 archive integration: rows of          *)
(* P360_Archive_Job__c, the schedulable that claims them                   *)
(* (P360_ArchiveJobScheduler, P360_ArchiveJobClaimService) and the         *)
(* queueable that archives them (P360_ArchiveJobWorker), all behind the    *)
(* feature flag read by P360_ArchiveProcessingGate.                        *)
(*                                                                         *)
(* A transaction reads committed rows without locking them and writes at   *)
(* its end: a claim is ClaimRead then ClaimCommit, a worker is WorkerStart *)
(* then one ArchiveCall per job then WorkerCommit, and anything may happen *)
(* in between.  A call to P360 leaves the org at once and is not undone    *)
(* when the transaction is rolled back (WorkerRollback).                   *)
(*                                                                         *)
(* Dates are kept as the minutes left until them (never below zero): the   *)
(* code only ever asks whether a date has passed.                          *)
(***************************************************************************)
EXTENDS Naturals, FiniteSets, Sequences

CONSTANTS
    Jobs,         \* the archive events that can get a job
    Schedulers,   \* executions of the schedulable that may overlap
    Workers,      \* queueables that may be queued or running at once
    BatchSize,    \* DEFAULT_BATCH_SIZE
    MaxAttempts,  \* MAX_ATTEMPTS
    Backoff,      \* BACKOFF_MINUTES_SCHEDULE
    Lease         \* LEASE_MINUTES

ASSUME JobConstants ==
    /\ BatchSize \in Nat \ {0}
    /\ MaxAttempts \in Nat \ {0}
    /\ Lease \in Nat \ {0}
    /\ Backoff \in Seq(Nat)
    /\ Len(Backoff) >= 1

VARIABLES
    gate,      \* the archive-processing flag, as a new transaction reads it
    status,    \* Status__c, "None" before the row exists
    attempts,  \* Attempt_Count__c
    due,       \* minutes until Next_Attempt_Date__c
    lease,     \* minutes until Lease_Expires_Date__c
    queued,    \* Queued_Date__c, as a rank: equal ranks are equal dates
    batch,     \* per scheduler: the rows its claim query returned
    seen,      \* per scheduler: the attempt counts that query returned
    wpc,       \* per worker: where its transaction is
    ids,       \* per worker: jobIds, the claimed set it was built with
    todo,      \* per worker: the rows it read and has not handled yet
    wseen,     \* per worker: the attempt counts it read
    out,       \* per worker: the status it will write for a handled row
    wdue,      \* per worker: the minutes left of the retry date it will write
    calls,     \* observation: archive calls made to P360 for the job
    confirmed  \* observation: P360 has confirmed the archiving of the job

rowVars == <<status, attempts, due, lease, queued>>
schedVars == <<batch, seen>>
workerVars == <<wpc, ids, todo, wseen, out, wdue>>
obsVars == <<calls, confirmed>>
vars == <<gate, rowVars, schedVars, workerVars, obsVars>>

Waiting == {"Pending", "Failed"}
Terminal == {"Succeeded", "ManualReview"}
Statuses == {"None", "InProgress"} \cup Waiting \cup Terminal
Zero == [j \in Jobs |-> 0]
NoOutcome == [j \in Jobs |-> "None"]

TypeOK ==
    /\ gate \in BOOLEAN
    /\ status \in [Jobs -> Statuses]
    /\ attempts \in [Jobs -> Nat]
    /\ due \in [Jobs -> Nat]
    /\ lease \in [Jobs -> Nat]
    /\ queued \in [Jobs -> Nat]
    /\ batch \in [Schedulers -> SUBSET Jobs]
    /\ seen \in [Schedulers -> [Jobs -> Nat]]
    /\ wpc \in [Workers -> {"free", "queued", "running", "restoring"}]
    /\ ids \in [Workers -> SUBSET Jobs]
    /\ todo \in [Workers -> SUBSET Jobs]
    /\ wseen \in [Workers -> [Jobs -> Nat]]
    /\ out \in [Workers -> [Jobs -> Statuses]]
    /\ wdue \in [Workers -> [Jobs -> Nat]]
    /\ calls \in [Jobs -> Nat]
    /\ confirmed \in [Jobs -> BOOLEAN]

Init ==
    /\ gate = FALSE
    /\ status = [j \in Jobs |-> "None"]
    /\ attempts = Zero
    /\ due = Zero
    /\ lease = Zero
    /\ queued = Zero
    /\ batch = [s \in Schedulers |-> {}]
    /\ seen = [s \in Schedulers |-> Zero]
    /\ wpc = [w \in Workers |-> "free"]
    /\ ids = [w \in Workers |-> {}]
    /\ todo = [w \in Workers |-> {}]
    /\ wseen = [w \in Workers |-> Zero]
    /\ out = [w \in Workers |-> NoOutcome]
    /\ wdue = [w \in Workers |-> Zero]
    /\ calls = Zero
    /\ confirmed = [j \in Jobs |-> FALSE]

-----------------------------------------------------------------------------
(* The surroundings: the flag, the clock and the events that create jobs.  *)

ToggleGate ==
    /\ gate' = ~gate
    /\ UNCHANGED <<rowVars, schedVars, workerVars, obsVars>>

MinuteLess(f) == [j \in Jobs |-> IF f[j] = 0 THEN 0 ELSE f[j] - 1]

(* One minute passes.  Only a minute that some date notices is a step.     *)
Tick ==
    /\ \/ \E j \in Jobs : due[j] > 0 \/ lease[j] > 0
       \/ \E w \in Workers, j \in Jobs : wdue[w][j] > 0
    /\ due' = MinuteLess(due)
    /\ lease' = MinuteLess(lease)
    /\ wdue' = [w \in Workers |-> MinuteLess(wdue[w])]
    /\ UNCHANGED <<gate, status, attempts, queued, schedVars,
                   wpc, ids, todo, wseen, out, obsVars>>

(* The insert in getOrCreate...Job.  A later job never has an earlier      *)
(* Queued_Date__c; it may have the same one.                               *)
CreateJob(j) ==
    /\ status[j] = "None"
    /\ status' = [status EXCEPT ![j] = "Pending"]
    /\ \E q \in {queued[k] : k \in Jobs} \cup {queued[k] + 1 : k \in Jobs} :
        /\ \A k \in Jobs : queued[k] <= q
        /\ queued' = [queued EXCEPT ![j] = q]
    /\ UNCHANGED <<gate, attempts, due, lease, schedVars, workerVars, obsVars>>

-----------------------------------------------------------------------------
(* P360_ArchiveJobScheduler.execute and claimNextBatch.                    *)

(* Mutants of Claimable: a lease that is honoured once it has run out, a   *)
(* retry date that is not asked for, a retry that is never picked up.      *)
ClaimableExpiredLease ==
    {j \in Jobs : \/ status[j] = "Pending"
                  \/ status[j] = "Failed" /\ due[j] = 0
                  \/ status[j] = "InProgress" /\ lease[j] = 0}
ClaimableTooEarly == {j \in Jobs : status[j] \in Waiting}
ClaimableOnce == {j \in Jobs : status[j] = "Pending"}

Claimable == {j \in Jobs : \/ status[j] = "Pending"
                           \/ status[j] = "Failed" /\ due[j] = 0}

(* The rows ORDER BY Queued_Date__c LIMIT BatchSize may return: rows with  *)
(* the same date come in any order.                                        *)
OldestFirst(S) ==
    {B \in SUBSET S :
        /\ \/ Cardinality(B) = BatchSize
           \/ Cardinality(B) < BatchSize /\ B = S
        /\ \A j \in B, k \in S \ B : queued[j] <= queued[k]}

(* Mutant of ClaimRead: the flag is not asked.                             *)
ClaimReadUngated(s) ==
    /\ batch[s] = {}
    /\ \E B \in OldestFirst(Claimable) :
        /\ B # {}
        /\ batch' = [batch EXCEPT ![s] = B]
        /\ seen' = [seen EXCEPT ![s] =
                        [j \in Jobs |-> IF j \in B THEN attempts[j] ELSE 0]]
    /\ UNCHANGED <<gate, rowVars, workerVars, obsVars>>

ClaimRead(s) ==
    /\ batch[s] = {}
    /\ gate
    /\ \E B \in OldestFirst(Claimable) :
        /\ B # {}
        /\ batch' = [batch EXCEPT ![s] = B]
        /\ seen' = [seen EXCEPT ![s] =
                        [j \in Jobs |-> IF j \in B THEN attempts[j] ELSE 0]]
    /\ UNCHANGED <<gate, rowVars, workerVars, obsVars>>

EndClaim(s) ==
    /\ batch' = [batch EXCEPT ![s] = {}]
    /\ seen' = [seen EXCEPT ![s] = Zero]

(* The update of the claimed rows and the enqueued worker commit together. *)
ClaimCommit(s) ==
    /\ batch[s] # {}
    /\ status' = [j \in Jobs |->
                    IF j \in batch[s] THEN "InProgress" ELSE status[j]]
    /\ attempts' = [j \in Jobs |->
                    IF j \in batch[s] THEN seen[s][j] + 1 ELSE attempts[j]]
    /\ lease' = [j \in Jobs |-> IF j \in batch[s] THEN Lease ELSE lease[j]]
    /\ \E w \in Workers :
        /\ wpc[w] = "free"
        /\ wpc' = [wpc EXCEPT ![w] = "queued"]
        /\ ids' = [ids EXCEPT ![w] = batch[s]]
    /\ EndClaim(s)
    /\ UNCHANGED <<gate, due, queued, todo, wseen, out, wdue, obsVars>>

(* The update or the enqueue fails: the whole transaction is undone.       *)
ClaimRollback(s) ==
    /\ batch[s] # {}
    /\ EndClaim(s)
    /\ UNCHANGED <<gate, rowVars, workerVars, obsVars>>

-----------------------------------------------------------------------------
(* P360_ArchiveJobWorker.execute.                                          *)

ReadRows(w, S) ==
    /\ todo' = [todo EXCEPT ![w] = S]
    /\ wseen' = [wseen EXCEPT ![w] =
                    [j \in Jobs |-> IF j \in S THEN attempts[j] ELSE 0]]

(* With the flag on, the worker reads its rows whatever their status.      *)
WorkerStart(w) ==
    /\ wpc[w] = "queued"
    /\ gate
    /\ wpc' = [wpc EXCEPT ![w] = "running"]
    /\ ReadRows(w, ids[w])
    /\ UNCHANGED <<gate, rowVars, schedVars, ids, out, wdue, obsVars>>

(* With the flag off, restoreClaimedJobs keeps the rows still in progress. *)
WorkerStartGateOff(w) ==
    /\ wpc[w] = "queued"
    /\ ~gate
    /\ wpc' = [wpc EXCEPT ![w] = "restoring"]
    /\ ReadRows(w, {j \in ids[w] : status[j] = "InProgress"})
    /\ UNCHANGED <<gate, rowVars, schedVars, ids, out, wdue, obsVars>>

EndWorker(w) ==
    /\ wpc' = [wpc EXCEPT ![w] = "free"]
    /\ ids' = [ids EXCEPT ![w] = {}]
    /\ todo' = [todo EXCEPT ![w] = {}]
    /\ wseen' = [wseen EXCEPT ![w] = Zero]
    /\ out' = [out EXCEPT ![w] = NoOutcome]
    /\ wdue' = [wdue EXCEPT ![w] = Zero]

(* Mutant of WorkerRestore: the attempt is not given back.                 *)
WorkerRestoreKeepsCount(w) ==
    /\ wpc[w] = "restoring"
    /\ status' = [j \in Jobs |->
                    IF j \in todo[w] THEN "Pending" ELSE status[j]]
    /\ due' = [j \in Jobs |-> IF j \in todo[w] THEN 0 ELSE due[j]]
    /\ lease' = [j \in Jobs |-> IF j \in todo[w] THEN 0 ELSE lease[j]]
    /\ EndWorker(w)
    /\ UNCHANGED <<gate, attempts, queued, schedVars, obsVars>>

WorkerRestore(w) ==
    /\ wpc[w] = "restoring"
    /\ status' = [j \in Jobs |->
                    IF j \in todo[w] THEN "Pending" ELSE status[j]]
    /\ attempts' = [j \in Jobs |->
                    IF j \notin todo[w] THEN attempts[j]
                    ELSE IF wseen[w][j] > 0 THEN wseen[w][j] - 1 ELSE 0]
    /\ due' = [j \in Jobs |-> IF j \in todo[w] THEN 0 ELSE due[j]]
    /\ lease' = [j \in Jobs |-> IF j \in todo[w] THEN 0 ELSE lease[j]]
    /\ EndWorker(w)
    /\ UNCHANGED <<gate, queued, schedVars, obsVars>>

Handled(w, j, st, minutes) ==
    /\ todo' = [todo EXCEPT ![w] = @ \ {j}]
    /\ out' = [out EXCEPT ![w][j] = st]
    /\ wdue' = [wdue EXCEPT ![w][j] = minutes]
    /\ UNCHANGED <<wpc, ids, wseen>>

CallMade(w, j) ==
    /\ wpc[w] = "running"
    /\ j \in todo[w]
    /\ calls' = [calls EXCEPT ![j] = @ + 1]
    /\ UNCHANGED <<gate, rowVars, schedVars>>

(* processJob when the adapter confirms the archiving.                     *)
ArchiveSucceeds(w, j) ==
    /\ CallMade(w, j)
    /\ confirmed' = [confirmed EXCEPT ![j] = TRUE]
    /\ Handled(w, j, "Succeeded", 0)

BackoffAfter(n) == Backoff[IF n <= Len(Backoff) THEN n ELSE Len(Backoff)]

(* Mutant of ArchiveFailsRetryable: a retry inside the same transaction.   *)
ArchiveFailsRetryableInPlace(w, j) ==
    /\ CallMade(w, j)
    /\ calls[j] < MaxAttempts
    /\ UNCHANGED <<confirmed, workerVars>>

(* processJob when the adapter throws a retryable integration exception.   *)
(* classifyFailure indexes the backoff list with attempts - 1: with an     *)
(* attempt count of zero that index throws and the transaction is undone.  *)
ArchiveFailsRetryable(w, j) ==
    /\ CallMade(w, j)
    /\ UNCHANGED confirmed
    /\ \/ /\ wseen[w][j] >= MaxAttempts
          /\ Handled(w, j, "ManualReview", 0)
       \/ /\ wseen[w][j] \in 1 .. MaxAttempts - 1
          /\ Handled(w, j, "Failed", BackoffAfter(wseen[w][j]))
       \/ /\ wseen[w][j] = 0
          /\ EndWorker(w)

(* processJob when the adapter throws a non-retryable integration          *)
(* exception or answers without success, which the worker turns into one.  *)
ArchiveFailsForGood(w, j) ==
    /\ CallMade(w, j)
    /\ UNCHANGED confirmed
    /\ Handled(w, j, "ManualReview", 0)

(* processJob when the adapter throws anything else: nothing catches it.   *)
ArchiveThrows(w, j) ==
    /\ CallMade(w, j)
    /\ UNCHANGED confirmed
    /\ EndWorker(w)

(* The single update at the end of execute, by id and without a status     *)
(* filter.  Only a retry writes Next_Attempt_Date__c.                      *)
WorkerCommit(w) ==
    /\ wpc[w] = "running"
    /\ todo[w] = {}
    /\ status' = [j \in Jobs |-> IF j \in ids[w] THEN out[w][j] ELSE status[j]]
    /\ due' = [j \in Jobs |->
                IF j \in ids[w] /\ out[w][j] = "Failed" THEN wdue[w][j]
                ELSE due[j]]
    /\ EndWorker(w)
    /\ UNCHANGED <<gate, attempts, lease, queued, schedVars, obsVars>>

(* A governor limit or a failed update undoes the transaction.  The        *)
(* platform does not run a failed queueable again.                         *)
WorkerRollback(w) ==
    /\ wpc[w] \in {"running", "restoring"}
    /\ EndWorker(w)
    /\ UNCHANGED <<gate, rowVars, schedVars, obsVars>>

-----------------------------------------------------------------------------

SchedulerStep(s) == ClaimRead(s) \/ ClaimCommit(s)

ArchiveCall(w, j) ==
    \/ ArchiveSucceeds(w, j)
    \/ ArchiveFailsRetryable(w, j)
    \/ ArchiveFailsForGood(w, j)
    \/ ArchiveThrows(w, j)

WorkerStep(w) ==
    \/ WorkerStart(w)
    \/ WorkerStartGateOff(w)
    \/ WorkerRestore(w)
    \/ \E j \in Jobs : ArchiveCall(w, j)
    \/ WorkerCommit(w)

Next ==
    \/ ToggleGate
    \/ Tick
    \/ \E j \in Jobs : CreateJob(j)
    \/ \E s \in Schedulers : SchedulerStep(s) \/ ClaimRollback(s)
    \/ \E w \in Workers : WorkerStep(w) \/ WorkerRollback(w)

Spec == Init /\ [][Next]_vars

(***************************************************************************)
(* The platform runs the scheduled job again and again (a claim that keeps *)
(* being rolled back is tried again: strong fairness of the commit), runs  *)
(* every queued worker to its end, and lets time pass.  Nothing is assumed *)
(* about the flag, about new events or about failures.                     *)
(***************************************************************************)
FairSpec ==
    /\ Spec
    /\ WF_vars(Tick)
    /\ \A s \in Schedulers : WF_vars(ClaimRead(s)) /\ SF_vars(ClaimCommit(s))
    /\ \A w \in Workers : WF_vars(WorkerStep(w))

-----------------------------------------------------------------------------
(* What the claim, the worker and the flag promise together.  Each of the  *)
(* following is meant for one scheduler at a time (a single CronTrigger).  *)

Live(w) == wpc[w] # "free"

(* A claimed job has lost its worker to a rollback: nothing reads its lease *)
(* and no query selects it again.                                          *)
Orphaned(j) ==
    /\ status[j] = "InProgress"
    /\ \A w \in Workers : j \notin ids[w]

(* Moving a row to In Progress keeps every other claim and worker away     *)
(* from it: no job is in two workers, nor in a worker and in a pending     *)
(* claim.  (P360_ArchiveJobClaimService l.30-55, worker l.43-47.)          *)
ClaimExclusive ==
    /\ \A w1, w2 \in Workers : w1 # w2 => ids[w1] \cap ids[w2] = {}
    /\ \A w \in Workers, s \in Schedulers : ids[w] \cap batch[s] = {}

(* The attempt counter is the number of archive calls P360 has received    *)
(* for the job, whenever the job is not in the hands of a worker: claims   *)
(* count before the call, a flag turned off in between gives the attempt   *)
(* back, and nothing else may change it (claim l.44-51, worker l.69-78).   *)
AttemptsAreCalls ==
    \A j \in Jobs :
        IF status[j] = "InProgress"
        THEN attempts[j] \in {calls[j], calls[j] + 1}
        ELSE attempts[j] = calls[j]

(* P360 never receives more than MAX_ATTEMPTS calls for one job, whatever  *)
(* the flag, the rollbacks and the outcomes do (worker l.120, claim l.33). *)
CallsBounded == \A j \in Jobs : calls[j] <= MaxAttempts

(* A job is never called again before the backoff of its last failure has  *)
(* run out (worker l.121-127, claim l.33).                                 *)
BackoffRespected ==
    [][\A j \in Jobs : calls'[j] # calls[j] => due[j] = 0]_vars

(* Once P360 has confirmed an archiving the job is never sent again, not   *)
(* even when the worker's transaction is undone after the confirmation.    *)
(* Only the missing lease recovery makes this true (claim l.33).           *)
ConfirmedNeverRepeated ==
    [][\A j \in Jobs : confirmed[j] => calls'[j] = calls[j]]_vars

(* The claimed phase of the life cycle is a claim whose call is still to   *)
(* come: the attempt is counted, the call is not.                          *)
PhaseOf(st, counted, made) ==
    CASE st = "None" -> "absent"
      [] st \in Waiting -> "waiting"
      [] st = "InProgress" -> IF counted = made THEN "called" ELSE "claimed"
      [] st = "Succeeded" -> "archived"
      [] st = "ManualReview" -> "review"

Phase == [j \in Jobs |-> PhaseOf(status[j], attempts[j], calls[j])]

Lifecycle == INSTANCE P360JobLifecycle WITH phase <- Phase, tries <- calls

(* Every run of the schedulers and workers is, job by job, a run of the    *)
(* documented state diagram (p360-archive-job-state.mmd).                  *)
FollowsLifecycle == Lifecycle!Spec

(* With the flag on for good, every queued job is settled in the end, or   *)
(* was orphaned by a worker whose transaction was undone.                  *)
EventuallySettled ==
    <>[]gate => \A j \in Jobs :
        status[j] = "Pending" ~> (status[j] \in Terminal \/ Orphaned(j))

(* With the flag off for good, claimed work drains: after some time no     *)
(* worker is left and every claimed job has been given back, settled or    *)
(* orphaned (worker l.34-37, p360-default-off-archive-processing.md).      *)
DrainsWhenOff ==
    <>[]~gate => <>[](\A w \in Workers : ~Live(w))

(* steg-for-steg-gjennomgang.md l.134: a claim keeps two workers that run  *)
(* at the same time from picking up the same row.                          *)
OneWorkerPerRow ==
    \A w1, w2 \in Workers : w1 # w2 => ids[w1] \cap ids[w2] = {}

-----------------------------------------------------------------------------
(* The inductive invariant behind the promises above.  It says who owns a  *)
(* job at each moment and what the owner has still to do with it.          *)

(* A job that can be claimed has attempts left and no wait outstanding     *)
(* unless it failed.                                                       *)
RowInv ==
    \A j \in Jobs :
        /\ status[j] = "None" => attempts[j] = 0
        /\ status[j] \in Waiting => attempts[j] < MaxAttempts
        /\ attempts[j] <= MaxAttempts
        /\ status[j] # "Failed" => due[j] = 0

(* A claim in progress has read the current rows.                          *)
BatchInv ==
    \A s \in Schedulers : \A j \in batch[s] :
        /\ status[j] \in Waiting
        /\ seen[s][j] = attempts[j]
        /\ due[j] = 0

(* A worker owns rows in progress: it owes P360 the calls it has counted   *)
(* for the rows still to do, and knows the outcome of the others.          *)
WorkerInv ==
    \A w \in Workers :
        /\ wpc[w] = "free" => ids[w] = {}
        /\ todo[w] \subseteq ids[w]
        /\ wpc[w] = "restoring" => todo[w] = ids[w]
        /\ \A j \in ids[w] :
            /\ status[j] = "InProgress"
            /\ wpc[w] = "queued" \/ j \in todo[w] => attempts[j] = calls[j] + 1
            /\ j \in todo[w] => wseen[w][j] = attempts[j]
            /\ wpc[w] = "running" /\ j \notin todo[w] =>
                /\ attempts[j] = calls[j]
                /\ out[w][j] \in {"Succeeded", "Failed", "ManualReview"}
                /\ out[w][j] = "Failed" => attempts[j] < MaxAttempts
                /\ confirmed[j] => out[w][j] = "Succeeded"

(* A confirmed job is settled, or in progress with its call behind it.     *)
ConfirmedInv ==
    \A j \in Jobs : confirmed[j] =>
        \/ status[j] = "Succeeded"
        \/ status[j] = "InProgress" /\ attempts[j] = calls[j]

JobInv ==
    /\ TypeOK
    /\ RowInv
    /\ BatchInv
    /\ WorkerInv
    /\ ConfirmedInv
    /\ ClaimExclusive
    /\ AttemptsAreCalls
=============================================================================
