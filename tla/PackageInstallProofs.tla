------------------------- MODULE PackageInstallProofs -------------------------
(***************************************************************************)
(* Proofs about PackageInstall, for any number of packages, attempts and   *)
(* rounds of polling: whatever replies are lost, queries fail and others   *)
(* install, a success is complete, the order is kept, and the exit code    *)
(* tells whether the org was changed.                                      *)
(***************************************************************************)
EXTENDS PackageInstall, TLAPS

USE DEF Packages

LEMMA Constants ==
    N \in Nat /\ N > 0 /\ MaxAttempts \in Nat /\ MaxAttempts > 0
    /\ MaxRounds \in Nat /\ MaxRounds > 0 /\ Packages = 1 .. N
BY PackageConstants

-----------------------------------------------------------------------------
(* The invariant is there to begin with.                                   *)

LEMMA InitInv == Init => PackageInv
<1> SUFFICES ASSUME Init PROVE PackageInv
    OBVIOUS
<1> USE Constants DEF Init
<1>1. TypeOK
  <2>1. << >> \in Seq({"pending", "succeeded", "errored"})
      OBVIOUS
  <2>2. requests \in [Packages -> Seq({"pending", "succeeded", "errored"})]
      BY <2>1
  <2>3. org \in [Packages -> Versions]
      BY DEF Versions
  <2>4. plan \in [Packages -> {"unknown", "missing", "update", "skip", "higher"}]
      OBVIOUS
  <2>5. /\ item \in 1 .. N + 1 /\ attempt \in 1 .. MaxAttempts
        /\ rounds \in 0 .. MaxRounds /\ done \in 0 .. N
      OBVIOUS
  <2>6. pc = "ended" <=> outcome # "none"
      OBVIOUS
  <2> QED
      BY <2>2, <2>3, <2>4, <2>5, <2>6, Zenon DEF TypeOK
<1>2. OrgInv
    BY DEF OrgInv
<1>3. RequestInv
    BY DEF RequestInv
<1>4. CountInv
    BY DEF CountInv, Busy
<1> QED
    BY <1>1, <1>2, <1>3, <1>4 DEF PackageInv

-----------------------------------------------------------------------------
(* The org and the administrators.                                         *)

LEMMA RequestEndsInv ==
    ASSUME PackageInv, NEW p \in Packages, RequestEnds(p)
    PROVE  PackageInv'
<1> USE Constants DEF PackageInv
<1>1. PICK i \in DOMAIN requests[p] :
        /\ requests[p][i] = "pending"
        /\ \/ /\ requests' = [requests EXCEPT ![p][i] = "succeeded"]
              /\ org' = [org EXCEPT ![p] = IF @ \in UpToDate THEN @ ELSE "selected"]
           \/ /\ requests' = [requests EXCEPT ![p][i] = "errored"]
              /\ UNCHANGED org
        /\ UNCHANGED <<input, aborted, command>>
    BY DEF RequestEnds
<1>2. UNCHANGED <<key, dry, aborted, pc, plan, item, attempt, rounds, report,
                  result, done, outcome>>
    BY <1>1 DEF input, command
<1>3. \A q \in Packages : org[q] \in UpToDate => org'[q] \in UpToDate
    BY <1>1 DEF TypeOK, UpToDate
<1>4. PICK e \in {"succeeded", "errored"} :
        /\ requests' = [requests EXCEPT ![p][i] = e]
        /\ e = "succeeded" => org'[p] \in UpToDate
    BY <1>1 DEF TypeOK, UpToDate
<1>5. /\ requests' \in [Packages -> Seq({"pending", "succeeded", "errored"})]
      /\ \A q \in Packages : Len(requests'[q]) = Len(requests[q])
    BY <1>1, <1>4 DEF TypeOK
<1>6. \A q \in Packages : (requests'[q] = << >>) <=> (requests[q] = << >>)
    BY <1>5 DEF TypeOK
<1>7. TypeOK'
    BY <1>1, <1>2, <1>5 DEF TypeOK, Versions
<1>8. OrgInv'
  <2>1. \A q \in Packages : \A k \in DOMAIN requests'[q] :
            requests'[q][k] = "succeeded" => org'[q] \in UpToDate
    <3> SUFFICES ASSUME NEW q \in Packages, NEW k \in DOMAIN requests'[q],
                        requests'[q][k] = "succeeded"
                 PROVE  org'[q] \in UpToDate
        OBVIOUS
    <3>1. CASE q = p /\ k = i
        BY <3>1, <1>1, <1>4 DEF TypeOK
    <3>2. CASE ~(q = p /\ k = i)
      <4>1. requests'[q] = IF q = p THEN [requests[p] EXCEPT ![i] = e]
                           ELSE requests[q]
          BY <1>4 DEF TypeOK
      <4>2. DOMAIN requests'[q] = DOMAIN requests[q]
          BY <4>1
      <4>3. k \in DOMAIN requests[q] /\ requests[q][k] = "succeeded"
          BY <3>2, <4>1, <4>2
      <4> QED
          BY <4>3, <1>3 DEF OrgInv
    <3> QED
        BY <3>1, <3>2
  <2>2. \A q \in Packages : plan'[q] \in {"skip", "higher"} => org'[q] \in UpToDate
      BY <1>2, <1>3 DEF OrgInv
  <2>3. result' = "ok" => item' <= N /\ org'[item'] \in UpToDate
      BY <1>2, <1>3 DEF OrgInv, TypeOK
  <2>4. ~dry' => \A q \in 1 .. item' - 1 : org'[q] \in UpToDate
      BY <1>2, <1>3 DEF OrgInv, TypeOK
  <2> QED
      BY <2>1, <2>2, <2>3, <2>4 DEF OrgInv
<1>9. RequestInv'
    BY <1>2, <1>5, <1>6 DEF RequestInv, TypeOK
<1>10. CountInv'
  <2>1. \A q \in Packages : NoResult(q) => NoResult(q)'
      BY <1>2, <1>6 DEF NoResult
  <2> QED
      BY <1>2, <2>1 DEF CountInv, Busy, TypeOK
<1> QED
    BY <1>7, <1>8, <1>9, <1>10

LEMMA OtherInstallInv ==
    ASSUME PackageInv, NEW p \in Packages, OtherInstall(p)
    PROVE  PackageInv'
<1> USE Constants DEF PackageInv
<1>1. UNCHANGED <<requests, key, dry, aborted, pc, plan, item, attempt, rounds,
                  report, result, done, outcome>>
    BY DEF OtherInstall, input, command
<1>2. \A q \in Packages : org[q] \in UpToDate => org'[q] \in UpToDate
    BY DEF OtherInstall, TypeOK, UpToDate
<1>3. TypeOK'
    BY <1>1 DEF OtherInstall, TypeOK, Versions, UpToDate
<1>4. OrgInv'
  <2>1. /\ OrgInv /\ item \in 1 .. N + 1
        /\ UNCHANGED <<requests, plan, result, item, dry>>
      BY <1>1 DEF TypeOK
  <2>2. result' = "ok" => item' <= N /\ org'[item'] \in UpToDate
      BY <1>2, <2>1 DEF OrgInv
  <2>3. ~dry' => \A q \in 1 .. item' - 1 : org'[q] \in UpToDate
      BY <1>2, <2>1 DEF OrgInv
  <2> QED
      BY <1>2, <2>1, <2>2, <2>3 DEF OrgInv
<1>5. RequestInv'
    BY <1>1 DEF RequestInv
<1>6. CountInv'
    BY <1>1 DEF CountInv, NoResult, Busy
<1> QED
    BY <1>3, <1>4, <1>5, <1>6

-----------------------------------------------------------------------------
(* Steps of the command.                                                   *)

(* Whatever ends the command by an error leaves the rest as it is; once a  *)
(* package was installed, the one at hand is left without a result.        *)
LEMMA ThrowInv ==
    ASSUME PackageInv, pc # "ended", Throw, UNCHANGED <<world, input, aborted>>,
           pc # "plan" => item <= N /\ NoResult(item)
    PROVE  PackageInv'
<1> USE Constants DEF PackageInv
<1>1. /\ UNCHANGED <<org, requests, key, dry, aborted, plan, item, attempt,
                     rounds, report, result, done>>
      /\ pc' = "ended" /\ outcome' = "thrown"
    BY DEF Throw, world, input
<1>2. TypeOK'
    BY <1>1 DEF TypeOK
<1>3. OrgInv'
    BY <1>1 DEF OrgInv
<1>4. RequestInv'
    BY <1>1 DEF RequestInv
<1>5. CountInv'
  <2>1. pc = "plan" => ~(done > 0)
      BY DEF CountInv, TypeOK
  <2> QED
      BY <1>1, <2>1 DEF CountInv, NoResult, Busy
<1> QED
    BY <1>2, <1>3, <1>4, <1>5

(* The plan was made of what is in the org.                                *)
LEMMA PlanInv ==
    ASSUME PackageInv, Plan
    PROVE  PackageInv'
<1> USE Constants DEF PackageInv
<1>1. CASE Throw
  <2>1. pc = "plan" /\ pc # "ended" /\ UNCHANGED <<world, input, aborted>>
      BY DEF Plan
  <2>2. pc # "plan" => item <= N /\ NoResult(item)
      BY <2>1, Zenon
  <2> QED
      BY <1>1, <2>1, <2>2, ThrowInv
<1>2. CASE plan' = [p \in Packages |-> StatusOf(org[p])]
           /\ pc' = "item"
           /\ UNCHANGED <<item, attempt, rounds, report, result, done, outcome>>
  <2>1. UNCHANGED <<org, requests, key, dry, aborted>> /\ pc = "plan" /\ item = 1
      BY DEF Plan, world, input, CountInv
  <2>2. \A p \in Packages :
            /\ plan'[p] \in {"missing", "update", "skip", "higher"}
            /\ plan'[p] \in {"skip", "higher"} => org[p] \in UpToDate
      BY <1>2 DEF StatusOf, TypeOK, Versions, UpToDate
  <2>3. TypeOK'
      BY <1>2, <2>1, <2>2 DEF TypeOK, Versions, StatusOf
  <2>4. OrgInv'
      BY <1>2, <2>1, <2>2 DEF OrgInv
  <2>5. RequestInv'
      BY <1>2, <2>1 DEF RequestInv
  <2>6. CountInv'
      BY <1>2, <2>1, <2>2 DEF CountInv, Busy
  <2> QED
      BY <2>3, <2>4, <2>5, <2>6
<1> QED
    BY <1>1, <1>2 DEF Plan

(* Going on to the next package is right when this one is up to date, and  *)
(* is counted exactly if something had to be done for it.                  *)
LEMMA NextItemInv ==
    ASSUME PackageInv, NextItem, item <= N, UNCHANGED <<world, input, aborted>>,
           UNCHANGED <<plan, outcome>>, outcome = "none",
           pc \notin {"plan", "ended"},
           ~dry => org[item] \in UpToDate,
           done' = IF ~dry /\ plan[item] \in {"missing", "update"}
                   THEN done + 1 ELSE done
    PROVE  PackageInv'
<1> USE Constants DEF PackageInv
<1>1. /\ UNCHANGED <<org, requests, key, dry, aborted, plan, outcome>>
      /\ item' = item + 1 /\ pc' = "item" /\ attempt' = 1
      /\ report' = "none" /\ result' = "none" /\ rounds' = 0
    BY DEF NextItem, world, input
<1>2. /\ item \in Nat /\ item > 0 /\ done \in Nat /\ done < item
      /\ done' \in {done, done + 1}
    BY DEF TypeOK, CountInv
<1>3. TypeOK'
    BY <1>1, <1>2 DEF TypeOK
<1>4. OrgInv'
    BY <1>1, <1>2 DEF OrgInv
<1>5. RequestInv'
    BY <1>1, <1>2 DEF RequestInv, TypeOK
<1>6. done' > 0 <=> ~dry' /\ \E p \in 1 .. item' - 1 : plan'[p] \in {"missing", "update"}
    BY <1>1, <1>2 DEF CountInv
<1>7. CountInv'
    BY <1>1, <1>2, <1>6 DEF CountInv, Busy
<1> QED
    BY <1>3, <1>4, <1>5, <1>7

LEMMA TakeItemInv ==
    ASSUME PackageInv, TakeItem
    PROVE  PackageInv'
<1> USE Constants DEF PackageInv
<1>1. /\ pc = "item" /\ outcome = "none"
      /\ UNCHANGED <<world, input, aborted>>
      /\ UNCHANGED <<org, requests, key, dry, aborted>>
    BY DEF TakeItem, TypeOK, world, input
<1>2. CASE item > N /\ pc' = "ended" /\ outcome' = "success"
           /\ UNCHANGED <<plan, item, attempt, rounds, report, result, done>>
  <2>1. TypeOK'
      BY <1>1, <1>2 DEF TypeOK
  <2>2. OrgInv'
      BY <1>1, <1>2 DEF OrgInv
  <2>3. RequestInv'
      BY <1>1, <1>2 DEF RequestInv
  <2>4. CountInv'
      BY <1>1, <1>2 DEF CountInv, Busy, TypeOK
  <2> QED
      BY <2>1, <2>2, <2>3, <2>4
<1>3. CASE item <= N /\ Skipped(item) /\ NextItem /\ UNCHANGED <<plan, done, outcome>>
  <2>1. ~dry => plan[item] \in {"skip", "higher"} /\ org[item] \in UpToDate
      BY <1>3 DEF Skipped, OrgInv, TypeOK
  <2> QED
      BY <1>1, <1>3, <2>1, NextItemInv
<1>4. CASE item <= N /\ item \in NeedsKey /\ ~key /\ Throw
  <2>1. NoResult(item) /\ UNCHANGED <<world, input, aborted>>
      BY <1>4 DEF NoResult, TakeItem
  <2> QED
      BY <1>1, <1>4, <2>1, ThrowInv
<1>5. CASE item <= N /\ ~Skipped(item) /\ pc' = "submit"
           /\ UNCHANGED <<plan, item, attempt, rounds, report, result, done, outcome>>
  <2>1. item \in Packages /\ ~dry /\ plan[item] \in {"missing", "update"}
      BY <1>1, <1>5 DEF Skipped, TypeOK, CountInv
  <2>2. TypeOK'
      BY <1>1, <1>5 DEF TypeOK
  <2>3. OrgInv'
      BY <1>1, <1>5 DEF OrgInv
  <2>4. RequestInv'
    <3>1. Len(requests[item]) = 0
        BY <1>1, <1>5 DEF RequestInv
    <3> QED
        BY <1>1, <1>5, <3>1 DEF RequestInv, TypeOK
  <2>5. CountInv'
      BY <1>1, <1>5, <2>1 DEF CountInv, Busy
  <2> QED
      BY <2>2, <2>3, <2>4, <2>5
<1> QED
    BY <1>2, <1>3, <1>4, <1>5 DEF TakeItem

(* Of what is submitted, only the requests of the package at hand change.  *)
LEMMA SubmitInv ==
    ASSUME PackageInv, Submit
    PROVE  PackageInv'
<1> USE Constants DEF PackageInv
<1>1. PICK reply \in Replies, yes \in BOOLEAN, transport \in BOOLEAN :
        /\ Possible(reply, yes)
        /\ Taken(item, yes)
        /\ \/ /\ Retried(reply, transport)
              /\ pc' = "delay"
              /\ UNCHANGED <<result, rounds>>
           \/ /\ reply = "id"
              /\ pc' = "probe"
              /\ rounds' = MaxRounds
              /\ UNCHANGED result
           \/ /\ pc' = "settle"
              /\ result' = IF reply = "timeout" THEN "timedOut" ELSE "failed"
              /\ UNCHANGED rounds
    BY DEF Submit
<1>2. /\ pc = "submit" /\ outcome = "none" /\ ~dry /\ item \in Packages
      /\ UNCHANGED <<org, key, dry, aborted, plan, item, attempt, report, done,
                     outcome>>
    BY DEF Submit, TypeOK, CountInv, Busy, input
<1>3. /\ pc' \in {"delay", "probe", "settle"}
      /\ pc' = "delay" => attempt < MaxAttempts
      /\ pc' = "probe" => yes
      /\ rounds' \in {rounds, MaxRounds}
      /\ result' \in {result, "timedOut", "failed"}
    BY <1>1 DEF Retried, Possible
<1>4. requests' = [requests EXCEPT ![item] = IF yes THEN Append(@, "pending") ELSE @]
    BY <1>1 DEF Taken
<1>5. /\ requests[item] \in Seq({"pending", "succeeded", "errored"})
      /\ requests'[item] = IF yes THEN Append(requests[item], "pending")
                           ELSE requests[item]
      /\ \A p \in Packages \ {item} : requests'[p] = requests[p]
    BY <1>2, <1>4 DEF TypeOK
<1>6. /\ Len(requests'[item]) <= Len(requests[item]) + 1
      /\ yes => requests'[item] # << >>
      /\ \A i \in DOMAIN requests'[item] : requests'[item][i] = "succeeded" =>
            i \in DOMAIN requests[item] /\ requests[item][i] = "succeeded"
    BY <1>5
<1>7. TypeOK'
  <2>1. requests'[item] \in Seq({"pending", "succeeded", "errored"})
      BY <1>5
  <2>2. requests' = [requests EXCEPT ![item] = requests'[item]]
      BY <1>2, <1>4, <1>5 DEF TypeOK
  <2>3. requests' \in [Packages -> Seq({"pending", "succeeded", "errored"})]
      BY <2>1, <2>2 DEF TypeOK
  <2> QED
      BY <1>2, <1>3, <2>3 DEF TypeOK
<1>8. OrgInv'
  <2>1. \A i \in DOMAIN requests'[item] :
            requests'[item][i] = "succeeded" => org[item] \in UpToDate
      BY <1>2, <1>6 DEF OrgInv
  <2>2. \A p \in Packages \ {item} : \A i \in DOMAIN requests'[p] :
            requests'[p][i] = "succeeded" => org[p] \in UpToDate
      BY <1>5 DEF OrgInv
  <2> QED
      BY <1>2, <1>3, <2>1, <2>2 DEF OrgInv
<1>9. RequestInv'
  <2>1. /\ Len(requests[item]) < attempt
        /\ Len(requests[item]) \in Nat /\ Len(requests'[item]) \in Nat
        /\ attempt \in 1 .. MaxAttempts
      BY <1>2, <1>5 DEF RequestInv, TypeOK
  <2>2. \A p \in Packages : /\ Len(requests'[p]) <= MaxAttempts
                            /\ p > item => requests'[p] = << >>
                            /\ requests'[p] # << >> => ~dry
    <3> SUFFICES ASSUME NEW p \in Packages
                 PROVE  /\ Len(requests'[p]) <= MaxAttempts
                        /\ p > item => requests'[p] = << >>
                        /\ requests'[p] # << >> => ~dry
        OBVIOUS
    <3>1. CASE p = item
        BY <3>1, <1>2, <1>6, <2>1
    <3>2. CASE p # item
        BY <3>2, <1>2, <1>5 DEF RequestInv
    <3> QED
        BY <3>1, <3>2
  <2> QED
      BY <1>2, <1>3, <1>6, <2>1, <2>2 DEF RequestInv
<1>10. CountInv'
    BY <1>2, <1>3 DEF CountInv, Busy
<1> QED
    BY <1>7, <1>8, <1>9, <1>10

LEMMA RetryDelayInv ==
    ASSUME PackageInv, RetryDelay
    PROVE  PackageInv'
<1> USE Constants DEF PackageInv
<1>1. CASE aborted /\ Throw
  <2>1. pc # "ended" /\ item <= N /\ UNCHANGED <<world, input, aborted>>
      BY DEF RetryDelay, CountInv, Busy
  <2>2. NoResult(item)
      BY <1>1, <2>1 DEF NoResult
  <2> QED
      BY <1>1, <2>1, <2>2, ThrowInv
<1>2. CASE /\ attempt' = attempt + 1 /\ pc' = "submit"
           /\ UNCHANGED <<plan, item, rounds, report, result, done, outcome>>
  <2>1. /\ pc = "delay" /\ outcome = "none" /\ item \in Packages
        /\ UNCHANGED <<org, requests, key, dry, aborted>>
        /\ attempt \in Nat /\ attempt < MaxAttempts
        /\ Len(requests[item]) \in Nat
      BY DEF RetryDelay, TypeOK, CountInv, Busy, world, input
  <2>2. TypeOK'
      BY <1>2, <2>1 DEF TypeOK
  <2>3. OrgInv'
      BY <1>2, <2>1 DEF OrgInv
  <2>4. RequestInv'
      BY <1>2, <2>1 DEF RequestInv
  <2>5. CountInv'
      BY <1>2, <2>1 DEF CountInv, Busy
  <2> QED
      BY <2>2, <2>3, <2>4, <2>5
<1> QED
    BY <1>1, <1>2 DEF RetryDelay

(* Polling changes where the command is and what it knows of the request;  *)
(* it takes the package for installed only if it is.                       *)
LEMMA PollInv ==
    ASSUME PackageInv, pc \in {"probe", "report", "wait"},
           UNCHANGED <<world, input, aborted>>,
           UNCHANGED <<plan, item, attempt, done, outcome>>,
           pc' \in {"probe", "report", "wait", "settle"},
           pc' \in {"report", "wait"} => rounds' > 0,
           rounds' \in 0 .. MaxRounds,
           report' \in {"none", "running", "timedOut"},
           result' \in {result, "ok", "failed", "timedOut"},
           result' = "ok" => result = "ok" \/ org[item] \in UpToDate
    PROVE  PackageInv'
<1> USE Constants DEF PackageInv
<1>1. /\ UNCHANGED <<org, requests, key, dry, aborted>>
      /\ outcome = "none" /\ item \in Packages
    BY DEF world, input, TypeOK, CountInv, Busy
<1>2. TypeOK'
    BY <1>1 DEF TypeOK
<1>3. OrgInv'
    BY <1>1 DEF OrgInv
<1>4. RequestInv'
    BY <1>1 DEF RequestInv
<1>5. CountInv'
    BY <1>1 DEF CountInv, Busy
<1> QED
    BY <1>2, <1>3, <1>4, <1>5

LEMMA ProbeInv ==
    ASSUME PackageInv, Probe
    PROVE  PackageInv'
<1> USE Constants DEF PackageInv
<1>1. CASE Throw
  <2>1. pc # "ended" /\ item <= N /\ UNCHANGED <<world, input, aborted>>
      BY DEF Probe, CountInv, Busy
  <2>2. NoResult(item)
      BY <1>1, <2>1 DEF NoResult, Probe, RequestInv
  <2> QED
      BY <1>1, <2>1, <2>2, ThrowInv
<1>2. CASE rounds > 0 /\ GoTo("report")
    BY <1>2, PollInv DEF Probe, GoTo, TypeOK
<1>3. CASE Settle("timedOut")
    BY <1>3, PollInv DEF Probe, Settle, TypeOK
<1>4. CASE /\ org[item] = "selected"
           /\ Settle(IF report = "timedOut" THEN "timedOut" ELSE "ok")
    BY <1>4, PollInv DEF Probe, Settle, TypeOK, UpToDate
<1> QED
    BY <1>1, <1>2, <1>3, <1>4 DEF Probe

LEMMA ReportInv ==
    ASSUME PackageInv, Report
    PROVE  PackageInv'
<1> USE Constants DEF PackageInv
<1>1. pc = "report" /\ UNCHANGED <<world, input, aborted>>
    BY DEF Report
<1>2. CASE Settle("failed")
    BY <1>1, <1>2, PollInv DEF Settle, TypeOK
<1>3. CASE Polled = "succeeded" /\ Settle("ok")
  <2>1. /\ item \in Packages
        /\ requests[item] \in Seq({"pending", "succeeded", "errored"})
        /\ requests[item] # << >>
      BY <1>1 DEF TypeOK, CountInv, Busy, RequestInv
  <2>2. Len(requests[item]) \in DOMAIN requests[item]
      BY <2>1
  <2>3. org[item] \in UpToDate
      BY <1>3, <2>1, <2>2 DEF Polled, OrgInv
  <2> QED
      BY <1>1, <1>3, <2>3, PollInv DEF Settle, TypeOK
<1>4. CASE /\ report' \in {"timedOut", "running"} /\ pc' = "wait"
           /\ UNCHANGED <<plan, item, attempt, rounds, result, done, outcome>>
    BY <1>1, <1>4, PollInv DEF TypeOK, CountInv
<1> QED
    BY <1>2, <1>3, <1>4 DEF Report

LEMMA WaitInv ==
    ASSUME PackageInv, Wait
    PROVE  PackageInv'
<1> USE Constants DEF PackageInv
<1>1. CASE aborted /\ Throw
  <2>1. pc # "ended" /\ item <= N /\ UNCHANGED <<world, input, aborted>>
      BY DEF Wait, CountInv, Busy
  <2>2. NoResult(item)
      BY <1>1, <2>1 DEF NoResult
  <2> QED
      BY <1>1, <2>1, <2>2, ThrowInv
<1>2. CASE /\ pc' = "probe" /\ rounds' = rounds - 1
           /\ UNCHANGED <<plan, item, attempt, report, result, done, outcome>>
  <2>1. rounds' \in 0 .. MaxRounds
      BY <1>2 DEF Wait, TypeOK, CountInv
  <2> QED
      BY <1>2, <2>1, PollInv DEF Wait, TypeOK
<1> QED
    BY <1>1, <1>2 DEF Wait

(* A package is counted as done when the org has it; after a failure the   *)
(* count decides between partial and plain failure.                        *)
LEMMA SettleItemInv ==
    ASSUME PackageInv, SettleItem
    PROVE  PackageInv'
<1> USE Constants DEF PackageInv
<1>1. /\ pc = "settle" /\ outcome = "none" /\ ~dry
      /\ item <= N /\ plan[item] \in {"missing", "update"}
      /\ UNCHANGED <<world, input, aborted>>
    BY DEF SettleItem, TypeOK, CountInv, Busy
<1>2. CASE Completed
  <2>1. org[item] \in UpToDate
      BY <1>2 DEF Completed, Installed, Found, OrgInv, UpToDate
  <2> QED
      BY <1>1, <1>2, <2>1, NextItemInv DEF Completed
<1>3. CASE Failed
  <2>1. /\ UNCHANGED <<org, requests, key, dry, aborted, plan, item, attempt,
                       rounds, report, result, done>>
        /\ pc' = "ended"
        /\ outcome' \in {"denied", IF done > 0 THEN "partial" ELSE "failure"}
      BY <1>1, <1>3 DEF Failed, world, input
  <2>2. TypeOK'
      BY <2>1 DEF TypeOK
  <2>3. OrgInv'
      BY <2>1 DEF OrgInv
  <2>4. RequestInv'
      BY <2>1 DEF RequestInv
  <2>5. CountInv'
      BY <1>1, <2>1 DEF CountInv, Busy
  <2> QED
      BY <2>2, <2>3, <2>4, <2>5
<1> QED
    BY <1>2, <1>3 DEF SettleItem

(* The signal, and steps of nobody.                                        *)
LEMMA AbortInv ==
    ASSUME PackageInv, Abort \/ UNCHANGED vars
    PROVE  PackageInv'
<1> USE Constants DEF PackageInv
<1>1. /\ UNCHANGED <<org, requests, key, dry, pc, plan, item, attempt, rounds,
                     report, result, done, outcome>>
      /\ aborted' \in BOOLEAN /\ (aborted => aborted')
    BY DEF Abort, vars, world, input, command, TypeOK
<1>2. TypeOK'
    BY <1>1 DEF TypeOK
<1>3. OrgInv'
    BY <1>1 DEF OrgInv
<1>4. RequestInv'
    BY <1>1 DEF RequestInv
<1>5. CountInv'
    BY <1>1 DEF CountInv, NoResult, Busy
<1> QED
    BY <1>2, <1>3, <1>4, <1>5

LEMMA PackageInvStep == PackageInv /\ [Next]_vars => PackageInv'
<1> SUFFICES ASSUME PackageInv, [Next]_vars PROVE PackageInv'
    OBVIOUS
<1>1. CASE Command
    BY <1>1, PlanInv, TakeItemInv, SubmitInv, RetryDelayInv, ProbeInv, ReportInv,
       WaitInv, SettleItemInv DEF Command
<1>2. CASE Abort \/ UNCHANGED vars
    BY <1>2, AbortInv
<1>3. CASE \E p \in Packages : RequestEnds(p) \/ OtherInstall(p)
    BY <1>3, RequestEndsInv, OtherInstallInv
<1> QED
    BY <1>1, <1>2, <1>3 DEF Next

-----------------------------------------------------------------------------
(* The promises.                                                           *)

(* PackageInv holds at all times: what the command believes of the org is  *)
(* true, and what it has counted is what it has done.                      *)
THEOREM PackageInvariant == Spec => []PackageInv
<1> QED
    BY InitInv, PackageInvStep, PTL DEF Spec

(* A command that reports success leaves no package behind its selected    *)
(* version, for any number of packages (package-operations.ts l.501-519).  *)
THEOREM SuccessComplete == Spec => []SuccessIsComplete
<1>1. PackageInv => SuccessIsComplete
    BY Constants DEF PackageInv, TypeOK, OrgInv, CountInv, SuccessIsComplete
<1> QED
    BY <1>1, PackageInvariant, PTL

(* No package is asked for before all it may depend on are there           *)
(* (package-operations.ts l.387, l.521-544).                               *)
THEOREM OrderKept == Spec => []InOrder
<1>1. PackageInv => InOrder
  <2> SUFFICES ASSUME PackageInv, NEW p \in Packages, requests[p] # << >>,
                      NEW q \in 1 .. p - 1
               PROVE  org[q] \in UpToDate
      BY DEF InOrder
  <2>1. p <= item /\ ~dry
      BY Constants DEF PackageInv, TypeOK, RequestInv
  <2>2. q \in 1 .. item - 1
      BY <2>1, Constants DEF PackageInv, TypeOK
  <2> QED
      BY <2>1, <2>2 DEF PackageInv, OrgInv
<1> QED
    BY <1>1, PackageInvariant, PTL

(* A failed install never hides the installs before it: they give the code *)
(* of a partial completion, unless access was denied or the command was    *)
(* thrown out of without a result for the package at hand                  *)
(* (package-operations.ts l.540-546, cli-app.ts l.1178).                   *)
THEOREM PartialToldUnlessThrown == Spec => []PartialUnlessThrown
<1>1. PackageInv => PartialUnlessThrown
    BY Constants DEF PackageInv, TypeOK, CountInv, ExitCodes, PartialUnlessThrown
<1> QED
    BY <1>1, PackageInvariant, PTL

(* No package is asked for more often than the retry policy says, whatever *)
(* replies are lost (command-runner.ts l.143).                             *)
THEOREM RequestsBounded == Spec => []BoundedRequests
<1>1. PackageInv => BoundedRequests
    BY DEF PackageInv, RequestInv, BoundedRequests
<1> QED
    BY <1>1, PackageInvariant, PTL
=============================================================================
