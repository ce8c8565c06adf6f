------------------------ MODULE P360ArchiveJobsProofs ------------------------
(***************************************************************************)
(* Proofs about P360ArchiveJobs for any number of jobs and workers and any *)
(* batch size, attempt limit, backoff schedule and lease.                  *)
(***************************************************************************)
EXTENDS P360ArchiveJobs, TLAPS

(* A wait of the backoff schedule is a number of minutes.                  *)
LEMMA BackoffType ==
    ASSUME NEW n \in Nat, n >= 1
    PROVE  BackoffAfter(n) \in Nat
<1>1. /\ Len(Backoff) \in Nat
      /\ \A i \in 1 .. Len(Backoff) : Backoff[i] \in Nat
  BY JobConstants
<1>2. CASE n <= Len(Backoff)
  BY <1>1, <1>2 DEF BackoffAfter
<1>3. CASE ~(n <= Len(Backoff))
  BY <1>1, <1>3, JobConstants DEF BackoffAfter
<1>4. QED
  BY <1>2, <1>3

(* The worker that ends leaves well-typed worker variables behind.         *)
LEMMA EndWorkerType ==
    ASSUME TypeOK, NEW w \in Workers, EndWorker(w)
    PROVE  /\ wpc' \in [Workers -> {"free", "queued", "running", "restoring"}]
           /\ ids' \in [Workers -> SUBSET Jobs]
           /\ todo' \in [Workers -> SUBSET Jobs]
           /\ wseen' \in [Workers -> [Jobs -> Nat]]
           /\ out' \in [Workers -> [Jobs -> Statuses]]
           /\ wdue' \in [Workers -> [Jobs -> Nat]]
<1>1. Zero \in [Jobs -> Nat] /\ NoOutcome \in [Jobs -> Statuses]
  BY DEF Zero, NoOutcome, Statuses
<1>2. QED
  BY <1>1 DEF EndWorker, TypeOK

(* An archive call keeps the types, whatever P360 answers.                 *)
LEMMA ArchiveCallType ==
    ASSUME TypeOK, NEW w \in Workers, NEW j \in Jobs, ArchiveCall(w, j)
    PROVE  TypeOK'
<1>0. CallMade(w, j)
  BY DEF ArchiveCall, ArchiveSucceeds, ArchiveFailsRetryable,
         ArchiveFailsForGood, ArchiveThrows
<1>1. /\ calls' \in [Jobs -> Nat]
      /\ UNCHANGED <<gate, rowVars, schedVars>>
  BY <1>0 DEF CallMade, TypeOK
<1>2. confirmed' \in [Jobs -> BOOLEAN]
  BY DEF ArchiveCall, ArchiveSucceeds, ArchiveFailsRetryable,
         ArchiveFailsForGood, ArchiveThrows, TypeOK
<1>3. ASSUME NEW st \in Statuses, NEW m \in Nat, Handled(w, j, st, m)
      PROVE  /\ wpc' \in [Workers -> {"free", "queued", "running", "restoring"}]
             /\ ids' \in [Workers -> SUBSET Jobs]
             /\ todo' \in [Workers -> SUBSET Jobs]
             /\ wseen' \in [Workers -> [Jobs -> Nat]]
             /\ out' \in [Workers -> [Jobs -> Statuses]]
             /\ wdue' \in [Workers -> [Jobs -> Nat]]
  BY <1>3 DEF Handled, TypeOK
<1>4. {"Succeeded", "Failed", "ManualReview"} \subseteq Statuses
  BY DEF Statuses, Waiting, Terminal
<1>5. CASE ArchiveSucceeds(w, j)
  BY <1>1, <1>2, <1>3, <1>4, <1>5
  DEF ArchiveSucceeds, TypeOK, rowVars, schedVars
<1>6. CASE ArchiveFailsRetryable(w, j)
  <2>1. CASE Handled(w, j, "ManualReview", 0)
    BY <1>1, <1>2, <1>3, <1>4, <2>1 DEF TypeOK, rowVars, schedVars
  <2>2. CASE /\ wseen[w][j] \in 1 .. MaxAttempts - 1
             /\ Handled(w, j, "Failed", BackoffAfter(wseen[w][j]))
    <3>1. wseen[w][j] \in Nat /\ wseen[w][j] >= 1
      BY <2>2, JobConstants DEF TypeOK
    <3>2. BackoffAfter(wseen[w][j]) \in Nat
      BY <3>1, BackoffType
    <3>3. QED
      BY <1>1, <1>2, <1>3, <1>4, <2>2, <3>2 DEF TypeOK, rowVars, schedVars
  <2>3. CASE EndWorker(w)
    BY <1>1, <1>2, <2>3, EndWorkerType DEF TypeOK, rowVars, schedVars
  <2>4. QED
    BY <1>6, <2>1, <2>2, <2>3 DEF ArchiveFailsRetryable
<1>7. CASE ArchiveFailsForGood(w, j)
  BY <1>1, <1>2, <1>3, <1>4, <1>7
  DEF ArchiveFailsForGood, TypeOK, rowVars, schedVars
<1>8. CASE ArchiveThrows(w, j)
  BY <1>1, <1>2, <1>8, EndWorkerType
  DEF ArchiveThrows, TypeOK, rowVars, schedVars
<1>9. QED
  BY <1>5, <1>6, <1>7, <1>8 DEF ArchiveCall

(* No step leaves the types.                                               *)
LEMMA TypeStep == TypeOK /\ [Next]_vars => TypeOK'
<1>1. SUFFICES ASSUME TypeOK, [Next]_vars PROVE TypeOK'
  OBVIOUS
<1>2. ASSUME ToggleGate PROVE TypeOK'
  BY <1>1, <1>2
  DEF TypeOK, ToggleGate, rowVars, schedVars, workerVars, obsVars
<1>3. ASSUME Tick PROVE TypeOK'
  <2>1. ASSUME NEW f \in [Jobs -> Nat] PROVE MinuteLess(f) \in [Jobs -> Nat]
    BY DEF MinuteLess
  <2>2. due' \in [Jobs -> Nat] /\ lease' \in [Jobs -> Nat]
    BY <1>1, <1>3, <2>1 DEF TypeOK, Tick
  <2>3. wdue' \in [Workers -> [Jobs -> Nat]]
    BY <1>1, <1>3, <2>1 DEF TypeOK, Tick
  <2>4. QED
    BY <1>1, <1>3, <2>2, <2>3 DEF TypeOK, Tick, schedVars, obsVars
<1>4. ASSUME NEW j \in Jobs, CreateJob(j) PROVE TypeOK'
  <2>1. queued' \in [Jobs -> Nat]
    BY <1>1, <1>4 DEF TypeOK, CreateJob
  <2>2. status' \in [Jobs -> Statuses]
    BY <1>1, <1>4 DEF TypeOK, CreateJob, Statuses, Waiting
  <2>3. QED
    BY <1>1, <1>4, <2>1, <2>2
    DEF TypeOK, CreateJob, schedVars, workerVars, obsVars
<1>5. ASSUME NEW s \in Schedulers, ClaimRead(s) PROVE TypeOK'
  <2>1. batch' \in [Schedulers -> SUBSET Jobs]
    BY <1>1, <1>5 DEF TypeOK, ClaimRead, OldestFirst, Claimable
  <2>2. seen' \in [Schedulers -> [Jobs -> Nat]]
    BY <1>1, <1>5 DEF TypeOK, ClaimRead
  <2>3. QED
    BY <1>1, <1>5, <2>1, <2>2
    DEF TypeOK, ClaimRead, rowVars, workerVars, obsVars
<1>6. ASSUME NEW s \in Schedulers, EndClaim(s)
      PROVE  /\ batch' \in [Schedulers -> SUBSET Jobs]
             /\ seen' \in [Schedulers -> [Jobs -> Nat]]
  BY <1>1, <1>6 DEF TypeOK, EndClaim, Zero
<1>7. ASSUME NEW s \in Schedulers, ClaimCommit(s) PROVE TypeOK'
  <2>1. status' \in [Jobs -> Statuses]
    BY <1>1, <1>7 DEF TypeOK, ClaimCommit, Statuses
  <2>2. attempts' \in [Jobs -> Nat] /\ lease' \in [Jobs -> Nat]
    <3>1. Lease \in Nat
      BY JobConstants
    <3>2. \A j \in Jobs : seen[s][j] + 1 \in Nat
      BY <1>1 DEF TypeOK
    <3>3. QED
      BY <1>1, <1>7, <3>1, <3>2 DEF TypeOK, ClaimCommit
  <2>3. /\ wpc' \in [Workers -> {"free", "queued", "running", "restoring"}]
        /\ ids' \in [Workers -> SUBSET Jobs]
    BY <1>1, <1>7 DEF TypeOK, ClaimCommit
  <2>4. QED
    BY <1>1, <1>6, <1>7, <2>1, <2>2, <2>3 DEF TypeOK, ClaimCommit, obsVars
<1>8. ASSUME NEW s \in Schedulers, ClaimRollback(s) PROVE TypeOK'
  BY <1>1, <1>6, <1>8
  DEF TypeOK, ClaimRollback, rowVars, workerVars, obsVars
<1>9. ASSUME NEW w \in Workers, NEW S \in SUBSET Jobs, ReadRows(w, S)
      PROVE  /\ todo' \in [Workers -> SUBSET Jobs]
             /\ wseen' \in [Workers -> [Jobs -> Nat]]
  BY <1>1, <1>9 DEF TypeOK, ReadRows
<1>10. ASSUME NEW w \in Workers, WorkerStart(w) PROVE TypeOK'
  <2>1. ids[w] \in SUBSET Jobs
    BY <1>1 DEF TypeOK
  <2>2. QED
    BY <1>1, <1>9, <1>10, <2>1
    DEF TypeOK, WorkerStart, rowVars, schedVars, obsVars
<1>11. ASSUME NEW w \in Workers, WorkerStartGateOff(w) PROVE TypeOK'
  <2>1. {j \in ids[w] : status[j] = "InProgress"} \in SUBSET Jobs
    BY <1>1 DEF TypeOK
  <2>2. QED
    BY <1>1, <1>9, <1>11, <2>1
    DEF TypeOK, WorkerStartGateOff, rowVars, schedVars, obsVars
<1>12. ASSUME NEW w \in Workers, WorkerRestore(w) PROVE TypeOK'
  <2>1. status' \in [Jobs -> Statuses]
    BY <1>1, <1>12 DEF TypeOK, WorkerRestore, Statuses, Waiting
  <2>2. attempts' \in [Jobs -> Nat]
    BY <1>1, <1>12 DEF TypeOK, WorkerRestore
  <2>3. due' \in [Jobs -> Nat] /\ lease' \in [Jobs -> Nat]
    BY <1>1, <1>12 DEF TypeOK, WorkerRestore
  <2>4. QED
    BY <1>1, <1>12, <2>1, <2>2, <2>3, EndWorkerType
    DEF TypeOK, WorkerRestore, schedVars, obsVars
<1>13. ASSUME NEW w \in Workers, WorkerCommit(w) PROVE TypeOK'
  <2>1. status' \in [Jobs -> Statuses] /\ due' \in [Jobs -> Nat]
    BY <1>1, <1>13 DEF TypeOK, WorkerCommit
  <2>2. QED
    BY <1>1, <1>13, <2>1, EndWorkerType
    DEF TypeOK, WorkerCommit, schedVars, obsVars
<1>14. ASSUME NEW w \in Workers, WorkerRollback(w) PROVE TypeOK'
  BY <1>1, <1>14, EndWorkerType
  DEF TypeOK, WorkerRollback, rowVars, schedVars, obsVars
<1>15. CASE UNCHANGED vars
  BY <1>1, <1>15
  DEF TypeOK, vars, rowVars, schedVars, workerVars, obsVars
<1>16. ASSUME NEW w \in Workers, NEW j \in Jobs, ArchiveCall(w, j)
       PROVE  TypeOK'
  BY <1>1, <1>16, ArchiveCallType
<1>17. ASSUME NEW s \in Schedulers, SchedulerStep(s) \/ ClaimRollback(s)
       PROVE  TypeOK'
  BY <1>5, <1>7, <1>8, <1>17 DEF SchedulerStep
<1>18. ASSUME NEW w \in Workers, WorkerStep(w) \/ WorkerRollback(w)
       PROVE  TypeOK'
  <2>1. CASE \E j \in Jobs : ArchiveCall(w, j)
    BY <1>16, <2>1
  <2>2. QED
    BY <1>10, <1>11, <1>12, <1>13, <1>14, <1>18, <2>1 DEF WorkerStep
<1>19. CASE \E j \in Jobs : CreateJob(j)
  BY <1>4, <1>19
<1>20. CASE \E s \in Schedulers : SchedulerStep(s) \/ ClaimRollback(s)
  BY <1>17, <1>20
<1>21. CASE \E w \in Workers : WorkerStep(w) \/ WorkerRollback(w)
  BY <1>18, <1>21
<1>22. QED
  BY <1>1, <1>2, <1>3, <1>15, <1>19, <1>20, <1>21 DEF Next

(* The initial state is well typed.                                        *)
LEMMA TypeCorrectInit == Init => TypeOK
<1>1. Zero \in [Jobs -> Nat] /\ NoOutcome \in [Jobs -> Statuses]
  BY DEF Zero, NoOutcome, Statuses
<1>2. SUFFICES ASSUME Init PROVE TypeOK
  OBVIOUS
<1>3. /\ gate \in BOOLEAN
      /\ status \in [Jobs -> Statuses]
      /\ confirmed \in [Jobs -> BOOLEAN]
  BY <1>2 DEF Init, Statuses
<1>4. /\ attempts \in [Jobs -> Nat]
      /\ due \in [Jobs -> Nat]
      /\ lease \in [Jobs -> Nat]
      /\ queued \in [Jobs -> Nat]
      /\ calls \in [Jobs -> Nat]
  BY <1>1, <1>2 DEF Init
<1>5. /\ batch \in [Schedulers -> SUBSET Jobs]
      /\ seen \in [Schedulers -> [Jobs -> Nat]]
  BY <1>1, <1>2 DEF Init
<1>6. /\ wpc \in [Workers -> {"free", "queued", "running", "restoring"}]
      /\ ids \in [Workers -> SUBSET Jobs]
      /\ todo \in [Workers -> SUBSET Jobs]
      /\ wseen \in [Workers -> [Jobs -> Nat]]
      /\ out \in [Workers -> [Jobs -> Statuses]]
      /\ wdue \in [Workers -> [Jobs -> Nat]]
  BY <1>1, <1>2 DEF Init
<1>7. QED
  BY <1>3, <1>4, <1>5, <1>6 DEF TypeOK

(* Every variable keeps its type, with any number of overlapping claims.   *)
THEOREM TypeCorrect == Spec => []TypeOK
BY TypeCorrectInit, TypeStep, PTL DEF Spec

-----------------------------------------------------------------------------
(* The schedulable is driven by one CronTrigger: its executions do not     *)
(* overlap.  This is the assumption under which the claim is exclusive.    *)
OneScheduler == \A s, t \in Schedulers : s = t

(* The rest of JobInv, without the types.                                  *)
JobRest ==
    /\ RowInv
    /\ BatchInv
    /\ WorkerInv
    /\ ConfirmedInv
    /\ ClaimExclusive
    /\ AttemptsAreCalls

(* Claiming takes rows that nobody owns.                                   *)
LEMMA ClaimReadInv ==
    ASSUME JobInv, NEW s \in Schedulers, ClaimRead(s)
    PROVE  JobRest'
<1>1. PICK B \in SUBSET Jobs :
        /\ B \subseteq Claimable
        /\ batch' = [batch EXCEPT ![s] = B]
        /\ seen' = [seen EXCEPT ![s] =
                        [j \in Jobs |-> IF j \in B THEN attempts[j] ELSE 0]]
  BY DEF ClaimRead, OldestFirst, Claimable
<1>2. UNCHANGED <<gate, rowVars, workerVars, obsVars>>
  BY DEF ClaimRead
<1>3. RowInv' /\ WorkerInv' /\ ConfirmedInv' /\ AttemptsAreCalls'
  BY <1>2 DEF JobInv, RowInv, WorkerInv, ConfirmedInv, AttemptsAreCalls,
              rowVars, workerVars, obsVars
<1>4. BatchInv'
  BY <1>1, <1>2 DEF JobInv, TypeOK, RowInv, BatchInv, Claimable, Waiting,
                    rowVars
<1>5. ClaimExclusive'
  <2>1. ids' = ids
    BY <1>2 DEF workerVars
  <2>2. \A w \in Workers : ids[w] \cap B = {}
    BY <1>1 DEF JobInv, WorkerInv, Claimable
  <2>3. \A t \in Schedulers : batch'[t] = IF t = s THEN B ELSE batch[t]
    BY <1>1 DEF JobInv, TypeOK
  <2>4. QED
    BY <2>1, <2>2, <2>3 DEF JobInv, ClaimExclusive
<1>6. QED
  BY <1>3, <1>4, <1>5 DEF JobRest

(* The commit of a claim hands the rows to a fresh worker, which owes one  *)
(* call for each of them.  No other claim can hold the rows: there is one  *)
(* scheduler.                                                              *)
LEMMA ClaimCommitInv ==
    ASSUME JobInv, OneScheduler, NEW s \in Schedulers, ClaimCommit(s)
    PROVE  JobRest'
<1>1. PICK w \in Workers :
        /\ wpc[w] = "free"
        /\ wpc' = [wpc EXCEPT ![w] = "queued"]
        /\ ids' = [ids EXCEPT ![w] = batch[s]]
  BY DEF ClaimCommit
<1>2. \A t \in Schedulers : batch'[t] = {}
  BY DEF ClaimCommit, EndClaim, OneScheduler, JobInv, TypeOK
<1>3. \A j \in batch[s] :
        /\ j \in Jobs
        /\ status[j] \in Waiting
        /\ status'[j] = "InProgress"
        /\ attempts'[j] = attempts[j] + 1
        /\ attempts[j] < MaxAttempts
        /\ attempts[j] = calls[j]
        /\ due[j] = 0
  <2>1. SUFFICES ASSUME NEW j \in batch[s]
                 PROVE  /\ j \in Jobs
                        /\ status[j] \in Waiting
                        /\ status'[j] = "InProgress"
                        /\ attempts'[j] = attempts[j] + 1
                        /\ attempts[j] < MaxAttempts
                        /\ attempts[j] = calls[j]
                        /\ due[j] = 0
    OBVIOUS
  <2>2. j \in Jobs
    BY DEF JobInv, TypeOK
  <2>3. status[j] \in Waiting /\ seen[s][j] = attempts[j] /\ due[j] = 0
    BY DEF JobInv, BatchInv
  <2>4. attempts[j] < MaxAttempts /\ attempts[j] = calls[j]
    BY <2>2, <2>3 DEF JobInv, RowInv, AttemptsAreCalls, Waiting
  <2>5. QED
    BY <2>2, <2>3, <2>4 DEF ClaimCommit
<1>4. \A j \in Jobs \ batch[s] :
        status'[j] = status[j] /\ attempts'[j] = attempts[j]
  BY DEF ClaimCommit
<1>5. UNCHANGED <<due, todo, wseen, out, calls, confirmed>>
  BY DEF ClaimCommit, obsVars
<1>6. RowInv'
  BY <1>3, <1>4, <1>5, JobConstants DEF JobInv, TypeOK, RowInv, Waiting
<1>7. BatchInv'
  BY <1>2 DEF BatchInv
<1>8. \A v \in Workers : ids[v] \cap batch[s] = {} /\ ids[v] \subseteq Jobs
  BY DEF JobInv, TypeOK, ClaimExclusive
<1>9. WorkerInv'
  <2>1. SUFFICES ASSUME NEW v \in Workers
                 PROVE  /\ wpc'[v] = "free" => ids'[v] = {}
                        /\ todo[v] \subseteq ids'[v]
                        /\ wpc'[v] = "restoring" => todo[v] = ids'[v]
                        /\ \A j \in ids'[v] :
                            /\ status'[j] = "InProgress"
                            /\ wpc'[v] = "queued" \/ j \in todo[v] =>
                                attempts'[j] = calls[j] + 1
                            /\ j \in todo[v] => wseen[v][j] = attempts'[j]
                            /\ wpc'[v] = "running" /\ j \notin todo[v] =>
                                /\ attempts'[j] = calls[j]
                                /\ out[v][j] \in {"Succeeded", "Failed",
                                                 "ManualReview"}
                                /\ out[v][j] = "Failed" =>
                                        attempts'[j] < MaxAttempts
                                /\ confirmed[j] => out[v][j] = "Succeeded"
    BY <1>5 DEF WorkerInv
  <2>2. CASE v = w
    <3>1. wpc'[v] = "queued" /\ ids'[v] = batch[s] /\ todo[v] = {}
      BY <1>1, <2>2 DEF JobInv, TypeOK, WorkerInv
    <3>2. QED
      BY <1>3, <3>1
  <2>3. CASE v # w
    <3>1. wpc'[v] = wpc[v] /\ ids'[v] = ids[v]
      BY <1>1, <2>3 DEF JobInv, TypeOK
    <3>2. \A j \in ids[v] : status'[j] = status[j] /\ attempts'[j] = attempts[j]
      BY <1>4, <1>8
    <3>3. QED
      BY <3>1, <3>2 DEF JobInv, WorkerInv
  <2>4. QED
    BY <2>2, <2>3
<1>10. ConfirmedInv'
  BY <1>3, <1>4, <1>5 DEF JobInv, ConfirmedInv, Waiting
<1>11. ClaimExclusive'
  BY <1>1, <1>2, <1>8 DEF JobInv, TypeOK, ClaimExclusive
<1>12. AttemptsAreCalls'
  BY <1>3, <1>4, <1>5 DEF JobInv, TypeOK, AttemptsAreCalls
<1>13. QED
  BY <1>6, <1>7, <1>9, <1>10, <1>11, <1>12 DEF JobRest

(* A worker that ends owns nothing; the others are as they were.           *)
LEMMA EndWorkerRest ==
    ASSUME TypeOK, NEW w \in Workers, EndWorker(w)
    PROVE  /\ wpc'[w] = "free" /\ ids'[w] = {} /\ todo'[w] = {}
           /\ \A v \in Workers \ {w} :
                /\ wpc'[v] = wpc[v] /\ ids'[v] = ids[v]
                /\ todo'[v] = todo[v] /\ wseen'[v] = wseen[v]
                /\ out'[v] = out[v]
BY DEF EndWorker, TypeOK

(* What is said of one worker, so that a step of another one carries over. *)
OwnerInv(v) ==
    /\ wpc[v] = "free" => ids[v] = {}
    /\ todo[v] \subseteq ids[v]
    /\ wpc[v] = "restoring" => todo[v] = ids[v]
    /\ \A j \in ids[v] :
        /\ status[j] = "InProgress"
        /\ wpc[v] = "queued" \/ j \in todo[v] => attempts[j] = calls[j] + 1
        /\ j \in todo[v] => wseen[v][j] = attempts[j]
        /\ wpc[v] = "running" /\ j \notin todo[v] =>
            /\ attempts[j] = calls[j]
            /\ out[v][j] \in {"Succeeded", "Failed", "ManualReview"}
            /\ out[v][j] = "Failed" => attempts[j] < MaxAttempts
            /\ confirmed[j] => out[v][j] = "Succeeded"

LEMMA OwnersAreWorkers == WorkerInv <=> \A v \in Workers : OwnerInv(v)
BY DEF WorkerInv, OwnerInv

(* A step that leaves a worker and its rows alone leaves what is said of   *)
(* it.                                                                     *)
LEMMA OwnerUntouched ==
    ASSUME NEW v \in Workers, OwnerInv(v),
           wpc'[v] = wpc[v], ids'[v] = ids[v], todo'[v] = todo[v],
           wseen'[v] = wseen[v], out'[v] = out[v],
           \A j \in ids[v] : /\ status'[j] = status[j]
                             /\ attempts'[j] = attempts[j]
                             /\ calls'[j] = calls[j]
                             /\ confirmed'[j] = confirmed[j]
    PROVE  OwnerInv(v)'
BY DEF OwnerInv

(* Ending a worker without writing its rows keeps everything: its rows are *)
(* orphaned in progress, with or without their call made.                  *)
LEMMA RollbackInv ==
    ASSUME JobInv, NEW w \in Workers, EndWorker(w),
           UNCHANGED <<status, attempts, due, batch, seen, calls, confirmed>>
    PROVE  JobRest'
<1>1. RowInv' /\ BatchInv' /\ ConfirmedInv' /\ AttemptsAreCalls'
  BY DEF JobInv, RowInv, BatchInv, ConfirmedInv, AttemptsAreCalls
<1>2. TypeOK
  BY DEF JobInv
<1>3. WorkerInv'
  <2>1. SUFFICES ASSUME NEW v \in Workers PROVE OwnerInv(v)'
    BY OwnersAreWorkers DEF WorkerInv, OwnerInv
  <2>2. CASE v = w
    BY <1>2, <2>2, EndWorkerRest DEF OwnerInv
  <2>3. CASE v # w
    BY <1>2, <2>3, EndWorkerRest, OwnerUntouched, OwnersAreWorkers DEF JobInv
  <2>4. QED
    BY <2>2, <2>3
<1>4. ClaimExclusive'
  BY <1>2, EndWorkerRest DEF JobInv, ClaimExclusive
<1>5. QED
  BY <1>1, <1>3, <1>4 DEF JobRest

(* A worker that starts reads the counts it was claimed with.              *)
LEMMA StartInv ==
    ASSUME JobInv, NEW w \in Workers, WorkerStart(w) \/ WorkerStartGateOff(w)
    PROVE  JobRest'
<1>1. /\ TypeOK
      /\ wpc[w] = "queued"
      /\ UNCHANGED <<gate, rowVars, schedVars, ids, out, wdue, obsVars>>
  BY DEF JobInv, WorkerStart, WorkerStartGateOff
<1>2. RowInv' /\ BatchInv' /\ ConfirmedInv' /\ AttemptsAreCalls'
      /\ ClaimExclusive'
  BY <1>1 DEF JobInv, RowInv, BatchInv, ConfirmedInv, AttemptsAreCalls,
              ClaimExclusive, rowVars, schedVars, obsVars
<1>3. OwnerInv(w)
  BY OwnersAreWorkers DEF JobInv
<1>4. ids[w] = {j \in ids[w] : status[j] = "InProgress"} /\ ids[w] \subseteq Jobs
  BY <1>1, <1>3 DEF OwnerInv, TypeOK
<1>5. /\ wpc' = [wpc EXCEPT ![w] = IF gate THEN "running" ELSE "restoring"]
      /\ ReadRows(w, ids[w])
  BY <1>4 DEF WorkerStart, WorkerStartGateOff
<1>6. OwnerInv(w)'
  <2>1. /\ todo'[w] = ids[w] /\ ids'[w] = ids[w]
        /\ \A j \in ids[w] : wseen'[w][j] = attempts[j]
        /\ wpc'[w] \in {"running", "restoring"}
    BY <1>1, <1>4, <1>5 DEF TypeOK, ReadRows
  <2>2. QED
    BY <1>1, <1>3, <2>1 DEF OwnerInv, rowVars, obsVars
<1>7. ASSUME NEW v \in Workers, v # w PROVE OwnerInv(v)'
  <2>1. /\ wpc'[v] = wpc[v] /\ ids'[v] = ids[v] /\ todo'[v] = todo[v]
        /\ wseen'[v] = wseen[v] /\ out'[v] = out[v]
    BY <1>1, <1>5, <1>7 DEF TypeOK, ReadRows
  <2>2. QED
    BY <1>1, <2>1, OwnerUntouched, OwnersAreWorkers DEF JobInv, rowVars, obsVars
<1>8. WorkerInv'
  BY <1>6, <1>7, OwnersAreWorkers DEF WorkerInv, OwnerInv
<1>9. QED
  BY <1>2, <1>8 DEF JobRest

(* Rows written by the worker that owns them disturb no claim and no other *)
(* worker.                                                                 *)
LEMMA OwnRowsOnly ==
    ASSUME JobInv, NEW w \in Workers, EndWorker(w),
           UNCHANGED <<batch, seen, calls, confirmed>>,
           \A j \in Jobs \ ids[w] : /\ status'[j] = status[j]
                                    /\ attempts'[j] = attempts[j]
                                    /\ due'[j] = due[j]
    PROVE  BatchInv' /\ WorkerInv' /\ ClaimExclusive'
<1>1. /\ TypeOK
      /\ \A v \in Workers : ids[v] \subseteq Jobs /\ OwnerInv(v)
      /\ \A v \in Workers \ {w} : ids[v] \cap ids[w] = {}
      /\ \A s \in Schedulers : batch[s] \subseteq Jobs \ ids[w]
  BY OwnersAreWorkers DEF JobInv, TypeOK, ClaimExclusive
<1>2. BatchInv'
  BY <1>1 DEF JobInv, BatchInv
<1>3. WorkerInv'
  <2>1. SUFFICES ASSUME NEW v \in Workers PROVE OwnerInv(v)'
    BY OwnersAreWorkers DEF WorkerInv, OwnerInv
  <2>2. CASE v = w
    BY <1>1, <2>2, EndWorkerRest DEF OwnerInv
  <2>3. CASE v # w
    <3>1. \A j \in ids[v] : j \in Jobs \ ids[w]
      BY <1>1, <2>3
    <3>2. QED
      BY <1>1, <2>3, <3>1, EndWorkerRest, OwnerUntouched
  <2>4. QED
    BY <2>2, <2>3
<1>4. ClaimExclusive'
  BY <1>1, EndWorkerRest DEF JobInv, ClaimExclusive
<1>5. QED
  BY <1>2, <1>3, <1>4

(* Giving a claim back takes back the attempt it counted.                  *)
LEMMA RestoreInv ==
    ASSUME JobInv, NEW w \in Workers, WorkerRestore(w)
    PROVE  JobRest'
<1>1. /\ TypeOK
      /\ OwnerInv(w)
      /\ todo[w] = ids[w]
      /\ ids[w] \subseteq Jobs
  BY OwnersAreWorkers DEF JobInv, TypeOK, WorkerRestore, OwnerInv
<1>2. /\ EndWorker(w)
      /\ UNCHANGED <<batch, seen, calls, confirmed>>
  BY DEF WorkerRestore, schedVars, obsVars
<1>3. \A j \in Jobs \ ids[w] : /\ status'[j] = status[j]
                               /\ attempts'[j] = attempts[j]
                               /\ due'[j] = due[j]
  BY <1>1 DEF WorkerRestore
<1>4. \A j \in ids[w] :
        /\ status[j] = "InProgress" /\ status'[j] = "Pending"
        /\ attempts[j] = calls[j] + 1 /\ attempts'[j] = calls[j]
        /\ due'[j] = 0
  <2>1. SUFFICES ASSUME NEW j \in ids[w]
                 PROVE  /\ status[j] = "InProgress" /\ status'[j] = "Pending"
                        /\ attempts[j] = calls[j] + 1
                        /\ attempts'[j] = calls[j]
                        /\ due'[j] = 0
    OBVIOUS
  <2>2. /\ j \in Jobs
        /\ calls[j] \in Nat
        /\ status[j] = "InProgress"
        /\ attempts[j] = calls[j] + 1
        /\ wseen[w][j] = attempts[j]
    BY <1>1 DEF OwnerInv, TypeOK
  <2>3. QED
    BY <1>1, <2>2 DEF WorkerRestore
<1>5. BatchInv' /\ WorkerInv' /\ ClaimExclusive'
  BY <1>2, <1>3, OwnRowsOnly
<1>6. RowInv'
  <2>1. \A j \in Jobs : calls[j] \in Nat /\ attempts[j] \in Nat
    BY <1>1 DEF TypeOK
  <2>2. QED
    BY <1>3, <1>4, <2>1, JobConstants DEF JobInv, RowInv
<1>7. ConfirmedInv'
  BY <1>1, <1>2, <1>3, <1>4 DEF JobInv, TypeOK, ConfirmedInv
<1>8. AttemptsAreCalls'
  BY <1>2, <1>3, <1>4 DEF JobInv, AttemptsAreCalls
<1>9. QED
  BY <1>5, <1>6, <1>7, <1>8 DEF JobRest

(* The final update writes outcomes whose attempt has been used.           *)
LEMMA CommitInv ==
    ASSUME JobInv, NEW w \in Workers, WorkerCommit(w)
    PROVE  JobRest'
<1>1. /\ TypeOK
      /\ OwnerInv(w)
      /\ ids[w] \subseteq Jobs
      /\ wpc[w] = "running"
      /\ todo[w] = {}
  BY OwnersAreWorkers DEF JobInv, TypeOK, WorkerCommit
<1>2. /\ EndWorker(w)
      /\ UNCHANGED <<attempts, batch, seen, calls, confirmed>>
  BY DEF WorkerCommit, schedVars, obsVars
<1>3. \A j \in Jobs \ ids[w] : status'[j] = status[j] /\ due'[j] = due[j]
  BY DEF WorkerCommit
<1>4. \A j \in ids[w] :
        /\ status'[j] \in {"Succeeded", "Failed", "ManualReview"}
        /\ status'[j] = "Failed" => attempts[j] < MaxAttempts
        /\ attempts[j] = calls[j]
        /\ confirmed[j] => status'[j] = "Succeeded"
        /\ status'[j] # "Failed" => due'[j] = 0
  <2>1. SUFFICES ASSUME NEW j \in ids[w]
                 PROVE  /\ status'[j] \in {"Succeeded", "Failed", "ManualReview"}
                        /\ status'[j] = "Failed" => attempts[j] < MaxAttempts
                        /\ attempts[j] = calls[j]
                        /\ confirmed[j] => status'[j] = "Succeeded"
                        /\ status'[j] # "Failed" => due'[j] = 0
    OBVIOUS
  <2>2. /\ j \in Jobs
        /\ status[j] = "InProgress"
        /\ out[w][j] \in {"Succeeded", "Failed", "ManualReview"}
        /\ out[w][j] = "Failed" => attempts[j] < MaxAttempts
        /\ attempts[j] = calls[j]
        /\ confirmed[j] => out[w][j] = "Succeeded"
    BY <1>1 DEF OwnerInv
  <2>3. status'[j] = out[w][j]
    BY <2>2 DEF WorkerCommit
  <2>4. due[j] = 0
    BY <2>2 DEF JobInv, RowInv
  <2>5. out[w][j] # "Failed" => due'[j] = due[j]
    BY <2>2 DEF WorkerCommit
  <2>6. QED
    BY <2>2, <2>3, <2>4, <2>5
<1>5. BatchInv' /\ WorkerInv' /\ ClaimExclusive'
  BY <1>2, <1>3, OwnRowsOnly
<1>6. RowInv'
  BY <1>2, <1>3, <1>4 DEF JobInv, RowInv, Waiting
<1>7. ConfirmedInv'
  BY <1>1, <1>2, <1>3, <1>4 DEF JobInv, TypeOK, ConfirmedInv
<1>8. AttemptsAreCalls'
  BY <1>2, <1>3, <1>4 DEF JobInv, AttemptsAreCalls
<1>9. QED
  BY <1>5, <1>6, <1>7, <1>8 DEF JobRest

(* The job a worker calls P360 for is its own, with the attempt counted    *)
(* and nothing confirmed yet.                                              *)
LEMMA CallOwner ==
    ASSUME JobInv, NEW w \in Workers, NEW j \in Jobs, CallMade(w, j)
    PROVE  /\ OwnerInv(w) /\ j \in ids[w]
           /\ status[j] = "InProgress" /\ due[j] = 0
           /\ attempts[j] = calls[j] + 1
           /\ wseen[w][j] = attempts[j]
           /\ ~confirmed[j]
           /\ \A v \in Workers \ {w} : j \notin ids[v]
           /\ \A s \in Schedulers : j \notin batch[s]
<1>1. /\ OwnerInv(w) /\ j \in todo[w] /\ j \in ids[w]
      /\ calls[j] \in Nat /\ attempts[j] \in Nat
  BY OwnersAreWorkers DEF JobInv, TypeOK, CallMade, OwnerInv
<1>2. /\ status[j] = "InProgress"
      /\ attempts[j] = calls[j] + 1
      /\ wseen[w][j] = attempts[j]
  BY <1>1 DEF OwnerInv
<1>3. due[j] = 0
  BY <1>2 DEF JobInv, RowInv
<1>4. ~confirmed[j]
  BY <1>1, <1>2 DEF JobInv, ConfirmedInv
<1>5. /\ \A v \in Workers \ {w} : j \notin ids[v]
      /\ \A s \in Schedulers : j \notin batch[s]
  BY <1>1 DEF JobInv, ClaimExclusive
<1>6. QED
  BY <1>1, <1>2, <1>3, <1>4, <1>5

(* What a call does to everything but the calling worker: only the call    *)
(* count, and perhaps the confirmation, of a row in progress change.       *)
LEMMA CallRest ==
    ASSUME JobInv, NEW w \in Workers, NEW j \in Jobs, CallMade(w, j),
           \/ UNCHANGED confirmed
           \/ confirmed' = [confirmed EXCEPT ![j] = TRUE]
    PROVE  /\ RowInv' /\ BatchInv' /\ ConfirmedInv' /\ AttemptsAreCalls'
           /\ \A k \in Jobs \ {j} :
                calls'[k] = calls[k] /\ confirmed'[k] = confirmed[k]
           /\ calls'[j] = attempts[j]
<1>1. /\ TypeOK
      /\ UNCHANGED <<status, attempts, due, batch, seen>>
      /\ calls' = [calls EXCEPT ![j] = @ + 1]
  BY DEF JobInv, CallMade, rowVars, schedVars
<1>2. /\ status[j] = "InProgress"
      /\ attempts[j] = calls[j] + 1
  BY CallOwner
<1>3. /\ calls'[j] = attempts[j]
      /\ \A k \in Jobs \ {j} :
            calls'[k] = calls[k] /\ confirmed'[k] = confirmed[k]
  BY <1>1, <1>2 DEF TypeOK
<1>4. RowInv' /\ BatchInv'
  BY <1>1 DEF JobInv, RowInv, BatchInv
<1>5. ConfirmedInv'
  BY <1>1, <1>2, <1>3 DEF JobInv, ConfirmedInv
<1>6. AttemptsAreCalls'
  BY <1>1, <1>2, <1>3 DEF JobInv, AttemptsAreCalls
<1>7. QED
  BY <1>3, <1>4, <1>5, <1>6

(* A call answered within the worker's transaction: the row is handled.    *)
LEMMA HandledInv ==
    ASSUME JobInv, NEW w \in Workers, NEW j \in Jobs, CallMade(w, j),
           NEW st \in {"Succeeded", "Failed", "ManualReview"}, NEW m \in Nat,
           Handled(w, j, st, m),
           st = "Failed" => attempts[j] < MaxAttempts,
           \/ UNCHANGED confirmed
           \/ st = "Succeeded" /\ confirmed' = [confirmed EXCEPT ![j] = TRUE]
    PROVE  JobRest'
<1>1. /\ TypeOK
      /\ wpc[w] = "running"
      /\ UNCHANGED <<status, attempts, wpc, ids, wseen, batch>>
  BY DEF JobInv, CallMade, Handled, rowVars, schedVars
<1>2. /\ OwnerInv(w) /\ j \in ids[w] /\ attempts[j] = calls[j] + 1
      /\ ~confirmed[j]
      /\ \A v \in Workers \ {w} : j \notin ids[v]
  BY CallOwner
<1>3. /\ RowInv' /\ BatchInv' /\ ConfirmedInv' /\ AttemptsAreCalls'
      /\ \A k \in Jobs \ {j} :
            calls'[k] = calls[k] /\ confirmed'[k] = confirmed[k]
      /\ calls'[j] = attempts[j]
  BY CallRest
<1>4. /\ todo'[w] = todo[w] \ {j}
      /\ out'[w][j] = st
      /\ \A k \in Jobs \ {j} : out'[w][k] = out[w][k]
      /\ \A v \in Workers \ {w} : todo'[v] = todo[v] /\ out'[v] = out[v]
  BY <1>1 DEF Handled, TypeOK
<1>5. confirmed'[j] => st = "Succeeded"
  BY <1>1, <1>2 DEF TypeOK
<1>6. OwnerInv(w)'
  <2>1. \A k \in ids[w] : k \in Jobs
    BY <1>1 DEF TypeOK
  <2>2. QED
    BY <1>1, <1>2, <1>3, <1>4, <1>5, <2>1 DEF OwnerInv
<1>7. ASSUME NEW v \in Workers, v # w PROVE OwnerInv(v)'
  <2>1. \A k \in ids[v] : k \in Jobs \ {j}
    BY <1>1, <1>2, <1>7 DEF TypeOK
  <2>2. OwnerInv(v)
    BY OwnersAreWorkers DEF JobInv
  <2>3. QED
    BY <1>1, <1>3, <1>4, <1>7, <2>1, <2>2, OwnerUntouched
<1>8. WorkerInv'
  BY <1>6, <1>7 DEF WorkerInv, OwnerInv
<1>9. ClaimExclusive'
  BY <1>1 DEF JobInv, ClaimExclusive
<1>10. QED
  BY <1>3, <1>8, <1>9 DEF JobRest

(* A call whose exception nothing catches: the worker is gone, its rows    *)
(* stay in progress.                                                       *)
LEMMA ThrownInv ==
    ASSUME JobInv, NEW w \in Workers, NEW j \in Jobs, CallMade(w, j),
           UNCHANGED confirmed, EndWorker(w)
    PROVE  JobRest'
<1>1. /\ TypeOK
      /\ UNCHANGED <<status, attempts, batch>>
  BY DEF JobInv, CallMade, rowVars, schedVars
<1>2. /\ j \in ids[w]
      /\ \A v \in Workers \ {w} : j \notin ids[v]
  BY CallOwner
<1>3. /\ RowInv' /\ BatchInv' /\ ConfirmedInv' /\ AttemptsAreCalls'
      /\ \A k \in Jobs \ {j} :
            calls'[k] = calls[k] /\ confirmed'[k] = confirmed[k]
  BY CallRest
<1>4. ASSUME NEW v \in Workers PROVE OwnerInv(v)'
  <2>1. CASE v = w
    BY <1>1, <2>1, EndWorkerRest DEF OwnerInv
  <2>2. CASE v # w
    <3>1. \A k \in ids[v] : k \in Jobs \ {j}
      BY <1>1, <1>2, <2>2 DEF TypeOK
    <3>2. OwnerInv(v)
      BY OwnersAreWorkers DEF JobInv
    <3>3. QED
      BY <1>1, <1>3, <2>2, <3>1, <3>2, EndWorkerRest, OwnerUntouched
  <2>3. QED
    BY <2>1, <2>2
<1>5. WorkerInv'
  BY <1>4 DEF WorkerInv, OwnerInv
<1>6. ClaimExclusive'
  BY <1>1, EndWorkerRest DEF JobInv, ClaimExclusive
<1>7. QED
  BY <1>3, <1>5, <1>6 DEF JobRest

(* P360's answer to one call, whichever it is.                             *)
LEMMA ArchiveCallInv ==
    ASSUME JobInv, NEW w \in Workers, NEW j \in Jobs, ArchiveCall(w, j)
    PROVE  JobRest'
<1>1. CallMade(w, j)
  BY DEF ArchiveCall, ArchiveSucceeds, ArchiveFailsRetryable,
         ArchiveFailsForGood, ArchiveThrows
<1>2. CASE ArchiveSucceeds(w, j)
  BY <1>1, <1>2, HandledInv DEF ArchiveSucceeds
<1>3. CASE ArchiveFailsRetryable(w, j)
  <2>1. UNCHANGED confirmed
    BY <1>3 DEF ArchiveFailsRetryable
  <2>2. CASE Handled(w, j, "ManualReview", 0)
    BY <1>1, <2>1, <2>2, HandledInv
  <2>3. CASE /\ wseen[w][j] \in 1 .. MaxAttempts - 1
             /\ Handled(w, j, "Failed", BackoffAfter(wseen[w][j]))
    <3>1. wseen[w][j] = attempts[j]
      BY <1>1, CallOwner
    <3>2. wseen[w][j] \in Nat /\ wseen[w][j] >= 1 /\ attempts[j] < MaxAttempts
      BY <2>3, <3>1, JobConstants DEF JobInv, TypeOK
    <3>3. BackoffAfter(wseen[w][j]) \in Nat
      BY <3>2, BackoffType
    <3>4. QED
      BY <1>1, <2>1, <2>3, <3>2, <3>3, HandledInv
  <2>4. CASE EndWorker(w)
    BY <1>1, <2>1, <2>4, ThrownInv
  <2>5. QED
    BY <1>3, <2>2, <2>3, <2>4 DEF ArchiveFailsRetryable
<1>4. CASE ArchiveFailsForGood(w, j)
  BY <1>1, <1>4, HandledInv DEF ArchiveFailsForGood
<1>5. CASE ArchiveThrows(w, j)
  BY <1>1, <1>5, ThrownInv DEF ArchiveThrows
<1>6. QED
  BY <1>2, <1>3, <1>4, <1>5 DEF ArchiveCall

(* A created row waits, with no attempt, call or confirmation behind it.   *)
LEMMA CreateInv ==
    ASSUME JobInv, NEW j \in Jobs, CreateJob(j)
    PROVE  JobRest'
<1>1. /\ TypeOK
      /\ status[j] = "None"
      /\ status' = [status EXCEPT ![j] = "Pending"]
      /\ UNCHANGED <<attempts, due, schedVars, workerVars, obsVars>>
  BY DEF JobInv, CreateJob
<1>2. RowInv'
  BY <1>1, JobConstants DEF JobInv, TypeOK, RowInv, Waiting
<1>3. BatchInv'
  BY <1>1 DEF JobInv, TypeOK, BatchInv, Waiting, schedVars
<1>4. ASSUME NEW v \in Workers PROVE OwnerInv(v)'
  <2>1. OwnerInv(v)
    BY OwnersAreWorkers DEF JobInv
  <2>2. \A k \in ids[v] : k \in Jobs \ {j}
    BY <1>1, <2>1 DEF TypeOK, OwnerInv
  <2>3. \A k \in ids[v] : status'[k] = status[k]
    BY <1>1, <2>2 DEF TypeOK
  <2>4. QED
    BY <1>1, <2>1, <2>3, OwnerUntouched DEF workerVars, obsVars
<1>5. WorkerInv'
  BY <1>4 DEF WorkerInv, OwnerInv
<1>6. ConfirmedInv'
  BY <1>1 DEF JobInv, TypeOK, ConfirmedInv, obsVars
<1>7. ClaimExclusive' /\ AttemptsAreCalls'
  BY <1>1 DEF JobInv, TypeOK, ClaimExclusive, AttemptsAreCalls,
              schedVars, workerVars, obsVars
<1>8. QED
  BY <1>2, <1>3, <1>5, <1>6, <1>7 DEF JobRest

(* A step that leaves every row, claim and worker as it is, the wait of a  *)
(* failed row excepted.                                                    *)
LEMMA IdleInv ==
    ASSUME JobInv,
           UNCHANGED <<status, attempts, schedVars, wpc, ids, todo, wseen, out,
                       obsVars>>,
           \A j \in Jobs : due[j] = 0 => due'[j] = 0
    PROVE  JobRest'
<1>1. RowInv' /\ BatchInv'
  BY DEF JobInv, TypeOK, RowInv, BatchInv, schedVars
<1>2. WorkerInv' /\ ConfirmedInv' /\ ClaimExclusive' /\ AttemptsAreCalls'
  BY DEF JobInv, WorkerInv, ConfirmedInv, ClaimExclusive, AttemptsAreCalls,
         schedVars, obsVars
<1>3. QED
  BY <1>1, <1>2 DEF JobRest

(* Every step of the system keeps the invariant.                           *)
LEMMA JobInvStep ==
    ASSUME OneScheduler, JobInv, [Next]_vars
    PROVE  JobInv'
<1>1. SUFFICES JobRest'
  <2>1. TypeOK'
    BY TypeStep DEF JobInv
  <2>2. QED
    BY <2>1 DEF JobInv, JobRest
<1>2. ASSUME ToggleGate PROVE JobRest'
  BY <1>2, IdleInv DEF ToggleGate, rowVars, workerVars
<1>3. ASSUME Tick PROVE JobRest'
  <2>1. \A j \in Jobs : due[j] = 0 => due'[j] = 0
    BY <1>3 DEF Tick, MinuteLess
  <2>2. QED
    BY <1>3, <2>1, IdleInv DEF Tick
<1>4. CASE UNCHANGED vars
  BY <1>4, IdleInv DEF vars, rowVars, workerVars
<1>5. CASE \E j \in Jobs : CreateJob(j)
  BY <1>5, CreateInv
<1>6. ASSUME NEW s \in Schedulers, SchedulerStep(s) \/ ClaimRollback(s)
      PROVE  JobRest'
  <2>1. CASE ClaimRollback(s)
    <3>1. /\ UNCHANGED <<rowVars, workerVars, obsVars>>
          /\ batch' = [batch EXCEPT ![s] = {}]
          /\ seen' = [seen EXCEPT ![s] = Zero]
          /\ \A t \in Schedulers \ {s} :
                batch'[t] = batch[t] /\ seen'[t] = seen[t]
          /\ batch'[s] = {}
      BY <2>1 DEF ClaimRollback, EndClaim, JobInv, TypeOK
    <3>2. BatchInv' /\ ClaimExclusive'
      BY <3>1 DEF JobInv, BatchInv, ClaimExclusive, rowVars, workerVars
    <3>3. RowInv' /\ WorkerInv' /\ ConfirmedInv' /\ AttemptsAreCalls'
      BY <3>1 DEF JobInv, RowInv, WorkerInv, ConfirmedInv, AttemptsAreCalls,
                  rowVars, workerVars, obsVars
    <3>4. QED
      BY <3>2, <3>3 DEF JobRest
  <2>2. QED
    BY <1>6, <2>1, ClaimReadInv, ClaimCommitInv DEF SchedulerStep
<1>7. ASSUME NEW w \in Workers, WorkerStep(w) \/ WorkerRollback(w)
      PROVE  JobRest'
  <2>1. CASE \E j \in Jobs : ArchiveCall(w, j)
    BY <2>1, ArchiveCallInv
  <2>2. CASE WorkerRollback(w)
    BY <2>2, RollbackInv DEF WorkerRollback, rowVars, schedVars, obsVars
  <2>3. CASE WorkerStart(w) \/ WorkerStartGateOff(w)
    BY <2>3, StartInv
  <2>4. QED
    BY <1>7, <2>1, <2>2, <2>3, RestoreInv, CommitInv DEF WorkerStep
<1>8. CASE \E s \in Schedulers : SchedulerStep(s) \/ ClaimRollback(s)
  BY <1>6, <1>8
<1>9. CASE \E w \in Workers : WorkerStep(w) \/ WorkerRollback(w)
  BY <1>7, <1>9
<1>10. QED
  BY <1>2, <1>3, <1>4, <1>5, <1>8, <1>9 DEF Next

(* The invariant of one scheduler with any number of workers and jobs.     *)
THEOREM JobInvariant ==
    ASSUME OneScheduler
    PROVE  Spec => []JobInv
<1>1. Init => JobInv
  <2>1. SUFFICES ASSUME Init PROVE JobInv
    OBVIOUS
  <2>2. TypeOK
    <3>1. Init => TypeOK
      BY TypeCorrectInit
    <3>2. QED
      BY <2>1, <3>1
  <2>3. RowInv /\ BatchInv /\ ConfirmedInv /\ AttemptsAreCalls
    BY <2>1, JobConstants
    DEF Init, Zero, RowInv, BatchInv, ConfirmedInv, AttemptsAreCalls, Waiting
  <2>4. WorkerInv /\ ClaimExclusive
    BY <2>1 DEF Init, WorkerInv, ClaimExclusive
  <2>5. QED
    BY <2>2, <2>3, <2>4 DEF JobInv
<1>2. JobInv /\ [Next]_vars => JobInv'
  BY JobInvStep
<1>3. QED
  BY <1>1, <1>2, PTL DEF Spec

-----------------------------------------------------------------------------
(* What follows from the invariant.                                        *)

(* With one scheduler no job is ever in two hands.                         *)
THEOREM ClaimsAreExclusive ==
    ASSUME OneScheduler
    PROVE  Spec => []ClaimExclusive
<1>1. JobInv => ClaimExclusive
  BY DEF JobInv
<1>2. QED
  BY <1>1, JobInvariant, PTL

(* The attempt counter counts the calls P360 received, through claims,     *)
(* claims given back, failures and rollbacks.                              *)
THEOREM AttemptsCountCalls ==
    ASSUME OneScheduler
    PROVE  Spec => []AttemptsAreCalls
<1>1. JobInv => AttemptsAreCalls
  BY DEF JobInv
<1>2. QED
  BY <1>1, JobInvariant, PTL

(* No job costs P360 more than MAX_ATTEMPTS calls.                         *)
THEOREM CallsAreBounded ==
    ASSUME OneScheduler
    PROVE  Spec => []CallsBounded
<1>1. JobInv => CallsBounded
  <2>1. SUFFICES ASSUME JobInv, NEW j \in Jobs
                 PROVE  calls[j] <= MaxAttempts
    BY DEF CallsBounded
  <2>2. calls[j] \in Nat /\ attempts[j] \in Nat /\ MaxAttempts \in Nat
    BY <2>1, JobConstants DEF JobInv, TypeOK
  <2>3. calls[j] <= attempts[j] /\ attempts[j] <= MaxAttempts
    BY <2>1, <2>2 DEF JobInv, RowInv, AttemptsAreCalls
  <2>4. QED
    BY <2>2, <2>3
<1>2. QED
  BY <1>1, JobInvariant, PTL

(* A step that changes the calls of a job is a call for it by its owner.   *)
LEMMA OnlyCallsCall ==
    ASSUME JobInv, [Next]_vars, NEW j \in Jobs, calls'[j] # calls[j]
    PROVE  \E w \in Workers : CallMade(w, j)
<1>1. ASSUME UNCHANGED calls PROVE FALSE
  BY <1>1
<1>2. PICK w \in Workers : WorkerStep(w) \/ WorkerRollback(w)
  BY <1>1 DEF Next, vars, obsVars, ToggleGate, Tick, CreateJob,
              SchedulerStep, ClaimRead, ClaimCommit, ClaimRollback
<1>3. PICK k \in Jobs : ArchiveCall(w, k)
  BY <1>1, <1>2 DEF WorkerStep, WorkerRollback, WorkerStart,
                    WorkerStartGateOff, WorkerRestore, WorkerCommit, obsVars
<1>4. CallMade(w, k)
  BY <1>3 DEF ArchiveCall, ArchiveSucceeds, ArchiveFailsRetryable,
              ArchiveFailsForGood, ArchiveThrows
<1>5. k = j
  BY <1>4 DEF CallMade, JobInv, TypeOK
<1>6. QED
  BY <1>4, <1>5

(* No call comes before the backoff of the last failure has run out.       *)
THEOREM BackoffKept ==
    ASSUME OneScheduler
    PROVE  Spec => BackoffRespected
<1>1. JobInv /\ [Next]_vars =>
        [\A j \in Jobs : calls'[j] # calls[j] => due[j] = 0]_vars
  BY OnlyCallsCall, CallOwner
<1>2. QED
  BY <1>1, JobInvariant, PTL DEF Spec, BackoffRespected

(* A confirmed archiving is never sent again, rollbacks included.          *)
THEOREM ConfirmedSentOnce ==
    ASSUME OneScheduler
    PROVE  Spec => ConfirmedNeverRepeated
<1>1. JobInv /\ [Next]_vars =>
        [\A j \in Jobs : confirmed[j] => calls'[j] = calls[j]]_vars
  BY OnlyCallsCall, CallOwner
<1>2. QED
  BY <1>1, JobInvariant, PTL DEF Spec, ConfirmedNeverRepeated

-----------------------------------------------------------------------------
(* The schedulers and workers implement the documented job life cycle.     *)

(* The ways one row and its call count may change in a step.               *)
RowStays(j) ==
    status'[j] = status[j] /\ attempts'[j] = attempts[j] /\ calls'[j] = calls[j]
RowQueued(j) ==
    status[j] = "None" /\ status'[j] = "Pending" /\ calls'[j] = calls[j]
RowClaimed(j) ==
    /\ status[j] \in Waiting /\ status'[j] = "InProgress"
    /\ calls[j] < MaxAttempts /\ calls'[j] = calls[j]
    /\ attempts'[j] = calls[j] + 1
RowCalled(j) ==
    /\ status[j] = "InProgress" /\ status'[j] = "InProgress"
    /\ attempts[j] = calls[j] + 1 /\ attempts'[j] = attempts[j]
    /\ calls'[j] = calls[j] + 1
RowGivenBack(j) ==
    /\ status[j] = "InProgress" /\ status'[j] = "Pending"
    /\ attempts[j] = calls[j] + 1 /\ calls'[j] = calls[j]
RowSettled(j) ==
    /\ status[j] = "InProgress"
    /\ attempts[j] = calls[j] /\ calls'[j] = calls[j]
    /\ \/ status'[j] \in Terminal
       \/ status'[j] = "Failed" /\ calls[j] < MaxAttempts
RowStep(j) ==
    \/ RowStays(j) \/ RowQueued(j) \/ RowClaimed(j) \/ RowCalled(j)
    \/ RowGivenBack(j) \/ RowSettled(j)

(* Each way is a step of the life cycle or leaves the job where it is.     *)
LEMMA RowStepIsJobStep ==
    ASSUME JobInv, NEW j \in Jobs, RowStep(j)
    PROVE  Lifecycle!JobStep(Phase[j], calls[j], Phase'[j], calls'[j])
<1>1. calls[j] \in Nat /\ attempts[j] \in Nat
  BY DEF JobInv, TypeOK
<1>2. CASE RowStays(j)
  <2>1. Phase'[j] = Phase[j]
    BY <1>2 DEF Phase, RowStays
  <2>2. QED
    BY <1>2, <2>1 DEF RowStays, Lifecycle!JobStep, Lifecycle!Stay
<1>3. CASE RowQueued(j)
  <2>1. Phase[j] = "absent" /\ Phase'[j] = "waiting"
    BY <1>3 DEF RowQueued, Phase, PhaseOf, Waiting
  <2>2. QED
    BY <1>3, <2>1 DEF RowQueued, Lifecycle!JobStep, Lifecycle!Queue
<1>4. CASE RowClaimed(j)
  <2>1. Phase[j] = "waiting"
    BY <1>4 DEF RowClaimed, Phase, PhaseOf, Waiting
  <2>2. Phase'[j] = "claimed"
    BY <1>1, <1>4 DEF RowClaimed, Phase, PhaseOf, Waiting
  <2>3. QED
    BY <1>4, <2>1, <2>2 DEF RowClaimed, Lifecycle!JobStep, Lifecycle!Claim
<1>5. CASE RowCalled(j)
  <2>1. Phase[j] = "claimed" /\ Phase'[j] = "called"
    BY <1>1, <1>5 DEF RowCalled, Phase, PhaseOf, Waiting
  <2>2. QED
    BY <1>5, <2>1 DEF RowCalled, Lifecycle!JobStep, Lifecycle!Call
<1>6. CASE RowGivenBack(j)
  <2>1. Phase[j] = "claimed" /\ Phase'[j] = "waiting"
    BY <1>1, <1>6 DEF RowGivenBack, Phase, PhaseOf, Waiting
  <2>2. QED
    BY <1>6, <2>1 DEF RowGivenBack, Lifecycle!JobStep, Lifecycle!GiveBack
<1>7. CASE RowSettled(j)
  <2>1. Phase[j] = "called"
    BY <1>1, <1>7 DEF RowSettled, Phase, PhaseOf, Waiting
  <2>2. CASE status'[j] = "Failed" /\ calls[j] < MaxAttempts
    <3>1. Phase'[j] = "waiting"
      BY <2>2 DEF Phase, PhaseOf, Waiting
    <3>2. QED
      BY <1>7, <2>1, <2>2, <3>1
      DEF RowSettled, Lifecycle!JobStep, Lifecycle!Retry
  <2>3. CASE status'[j] \in Terminal
    <3>1. Phase'[j] \in {"archived", "review"}
      BY <2>3 DEF Phase, PhaseOf, Waiting, Terminal
    <3>2. QED
      BY <1>7, <2>1, <3>1 DEF RowSettled, Lifecycle!JobStep, Lifecycle!Settle
  <2>4. QED
    BY <1>7, <2>2, <2>3 DEF RowSettled
<1>8. QED
  BY <1>2, <1>3, <1>4, <1>5, <1>6, <1>7 DEF RowStep

(* Every step of the system moves each row in one of these ways.           *)
LEMMA StepMovesRows ==
    ASSUME JobInv, [Next]_vars, NEW j \in Jobs
    PROVE  RowStep(j)
<1>1. TypeOK /\ calls[j] \in Nat
  BY DEF JobInv, TypeOK
<1>2. CASE UNCHANGED <<status, attempts, calls>>
  BY <1>2 DEF RowStep, RowStays
<1>3. ASSUME NEW k \in Jobs, CreateJob(k) PROVE RowStep(j)
  <2>1. CASE j = k
    BY <1>1, <1>3, <2>1 DEF CreateJob, TypeOK, obsVars, RowStep, RowQueued
  <2>2. CASE j # k
    BY <1>1, <1>3, <2>2 DEF CreateJob, TypeOK, obsVars, RowStep, RowStays
  <2>3. QED
    BY <2>1, <2>2
<1>4. ASSUME NEW s \in Schedulers, ClaimCommit(s) PROVE RowStep(j)
  <2>1. CASE j \in batch[s]
    <3>1. status[j] \in Waiting /\ seen[s][j] = attempts[j]
      BY <2>1 DEF JobInv, BatchInv
    <3>2. attempts[j] = calls[j] /\ attempts[j] < MaxAttempts
      BY <3>1 DEF JobInv, RowInv, AttemptsAreCalls, Waiting
    <3>3. QED
      BY <1>4, <2>1, <3>1, <3>2 DEF ClaimCommit, obsVars, RowStep, RowClaimed
  <2>2. CASE j \notin batch[s]
    BY <1>4, <2>2 DEF ClaimCommit, obsVars, RowStep, RowStays
  <2>3. QED
    BY <2>1, <2>2
<1>5. ASSUME NEW w \in Workers PROVE OwnerInv(w)
  BY <1>5, OwnersAreWorkers DEF JobInv
<1>6. ASSUME NEW w \in Workers, WorkerRestore(w) PROVE RowStep(j)
  <2>1. CASE j \in todo[w]
    <3>1. status[j] = "InProgress" /\ attempts[j] = calls[j] + 1
      BY <1>5, <2>1 DEF OwnerInv
    <3>2. QED
      BY <1>6, <2>1, <3>1 DEF WorkerRestore, obsVars, RowStep, RowGivenBack
  <2>2. CASE j \notin todo[w]
    BY <1>6, <2>2 DEF WorkerRestore, obsVars, RowStep, RowStays
  <2>3. QED
    BY <2>1, <2>2
<1>7. ASSUME NEW w \in Workers, WorkerCommit(w) PROVE RowStep(j)
  <2>1. CASE j \in ids[w]
    <3>1. /\ status[j] = "InProgress" /\ attempts[j] = calls[j]
          /\ out[w][j] \in {"Succeeded", "Failed", "ManualReview"}
          /\ out[w][j] = "Failed" => attempts[j] < MaxAttempts
      BY <1>5, <1>7, <2>1 DEF OwnerInv, WorkerCommit
    <3>2. QED
      BY <1>7, <2>1, <3>1
      DEF WorkerCommit, obsVars, RowStep, RowSettled, Terminal
  <2>2. CASE j \notin ids[w]
    BY <1>7, <2>2 DEF WorkerCommit, obsVars, RowStep, RowStays
  <2>3. QED
    BY <2>1, <2>2
<1>8. ASSUME NEW w \in Workers, NEW k \in Jobs, ArchiveCall(w, k)
      PROVE  RowStep(j)
  <2>1. CallMade(w, k)
    BY <1>8 DEF ArchiveCall, ArchiveSucceeds, ArchiveFailsRetryable,
                ArchiveFailsForGood, ArchiveThrows
  <2>2. /\ UNCHANGED <<status, attempts>>
        /\ calls' = [calls EXCEPT ![k] = @ + 1]
    BY <2>1 DEF CallMade, rowVars
  <2>3. CASE j = k
    BY <1>1, <2>1, <2>2, <2>3, CallOwner DEF TypeOK, RowStep, RowCalled
  <2>4. CASE j # k
    BY <1>1, <2>2, <2>4 DEF TypeOK, RowStep, RowStays
  <2>5. QED
    BY <2>3, <2>4
<1>9. ASSUME NEW s \in Schedulers, SchedulerStep(s) \/ ClaimRollback(s)
      PROVE  RowStep(j)
  BY <1>2, <1>4, <1>9
  DEF SchedulerStep, ClaimRead, ClaimRollback, rowVars, obsVars
<1>10. ASSUME NEW w \in Workers, WorkerStep(w) \/ WorkerRollback(w)
       PROVE  RowStep(j)
  <2>1. CASE \E k \in Jobs : ArchiveCall(w, k)
    BY <1>8, <2>1
  <2>2. QED
    BY <1>2, <1>6, <1>7, <1>10, <2>1
    DEF WorkerStep, WorkerRollback, WorkerStart, WorkerStartGateOff,
        rowVars, obsVars
<1>11. CASE ToggleGate \/ Tick \/ UNCHANGED vars
  BY <1>2, <1>11 DEF ToggleGate, Tick, vars, rowVars, obsVars
<1>12. CASE \E k \in Jobs : CreateJob(k)
  BY <1>3, <1>12
<1>13. CASE \E s \in Schedulers : SchedulerStep(s) \/ ClaimRollback(s)
  BY <1>9, <1>13
<1>14. CASE \E w \in Workers : WorkerStep(w) \/ WorkerRollback(w)
  BY <1>10, <1>14
<1>15. QED
  BY <1>11, <1>12, <1>13, <1>14 DEF Next

(* With one scheduler, the implementation of the state diagram.            *)
THEOREM ImplementsLifecycle ==
    ASSUME OneScheduler
    PROVE  Spec => FollowsLifecycle
<1>1. Init => Lifecycle!Init
  BY DEF Init, Zero, Phase, PhaseOf, Waiting, Lifecycle!Init
<1>2. JobInv /\ JobInv' /\ [Next]_vars => [Lifecycle!Next]_<<Phase, calls>>
  <2>1. SUFFICES ASSUME JobInv, JobInv', [Next]_vars PROVE Lifecycle!Next
    OBVIOUS
  <2>2. Phase' = [j \in Jobs |-> Phase'[j]]
    BY DEF Phase
  <2>3. calls' = [j \in Jobs |-> calls'[j]]
    BY <2>1 DEF JobInv, TypeOK
  <2>4. \A j \in Jobs :
            Lifecycle!JobStep(Phase[j], calls[j], Phase'[j], calls'[j])
    BY <2>1, StepMovesRows, RowStepIsJobStep
  <2>5. QED
    BY <2>2, <2>3, <2>4 DEF Lifecycle!Next
<1>3. QED
  BY <1>1, <1>2, JobInvariant, PTL DEF Spec, FollowsLifecycle, Lifecycle!Spec
=============================================================================
