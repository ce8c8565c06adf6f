---------------------------- MODULE PackageInstall ----------------------------
(***************************************************************************)
(* sf-project packages install and update: one command brings the packages *)
(* of the project, in dependency order, to their selected version.         *)
(*                                                                         *)
(* An install is a request of the org, submitted by a command that may be  *)
(* retried (infrastructure/command-runner.ts), then polled until it ends   *)
(* or a deadline passes (application/package-install-poller.ts), and       *)
(* looked up once more after a timeout (application/package-operations.ts).*)
(* Replies are lost, queries fail and time out, requests end whenever they *)
(* want, other administrators install packages, and the web server may     *)
(* abort the command at any time.                                          *)
(***************************************************************************)
EXTENDS Naturals, Sequences

CONSTANTS
    N,             \* packages, in dependency order
    NeedsKey,      \* the packages that require an installation key
    MaxAttempts,   \* retry.maxAttempts: 3
    MaxRounds      \* bound: rounds of polling until the deadline

ASSUME PackageConstants ==
    /\ {N, MaxAttempts, MaxRounds} \subseteq Nat \ {0}
    /\ NeedsKey \subseteq 1 .. N

Packages == 1 .. N

VARIABLES
    org,       \* per package: the version in the org, against the selected one
    requests,  \* per package: the install requests the org has accepted
    key,       \* the environment has the installation key
    dry,       \* a dry run
    aborted,   \* the signal
    pc,        \* where the command is
    plan,      \* per package: the status planned
    item,      \* the package at hand
    attempt,   \* the attempt of its submission
    rounds,    \* rounds of polling left
    report,    \* the last report on the request: "none", "running", "timedOut"
    result,    \* what submission and polling gave: "ok", "failed", "timedOut"
    done,      \* completedInstalls
    outcome    \* how the command ended

world == <<org, requests>>
input == <<key, dry>>
command == <<pc, plan, item, attempt, rounds, report, result, done, outcome>>
vars == <<world, input, aborted, command>>

Versions == {"none", "old", "selected", "higher"}
UpToDate == {"selected", "higher"}

TypeOK ==
    /\ org \in [Packages -> Versions]
    /\ requests \in [Packages -> Seq({"pending", "succeeded", "errored"})]
    /\ key \in BOOLEAN /\ dry \in BOOLEAN /\ aborted \in BOOLEAN
    /\ pc \in {"plan", "item", "submit", "delay", "probe", "report", "wait",
               "settle", "ended"}
    /\ plan \in [Packages -> {"unknown", "missing", "update", "skip", "higher"}]
    /\ item \in 1 .. N + 1
    /\ attempt \in 1 .. MaxAttempts
    /\ rounds \in 0 .. MaxRounds
    /\ report \in {"none", "running", "timedOut"}
    /\ result \in {"none", "ok", "failed", "timedOut"}
    /\ done \in 0 .. N
    /\ outcome \in {"none", "success", "partial", "failure", "denied", "thrown"}
    /\ pc = "ended" <=> outcome # "none"

Init ==
    /\ org \in [Packages -> {"none", "old", "selected"}]
    /\ requests = [p \in Packages |-> << >>]
    /\ key \in BOOLEAN
    /\ dry \in BOOLEAN
    /\ aborted = FALSE
    /\ pc = "plan"
    /\ plan = [p \in Packages |-> "unknown"]
    /\ item = 1
    /\ attempt = 1
    /\ rounds = 0
    /\ report = "none"
    /\ result = "none"
    /\ done = 0
    /\ outcome = "none"

-----------------------------------------------------------------------------
(* The org, and whoever else works on it.                                  *)

(* A request ends when it likes: after the command that made it as well.   *)
RequestEnds(p) ==
    \E i \in DOMAIN requests[p] :
        /\ requests[p][i] = "pending"
        /\ \/ /\ requests' = [requests EXCEPT ![p][i] = "succeeded"]
              /\ org' = [org EXCEPT ![p] = IF @ \in UpToDate THEN @ ELSE "selected"]
           \/ /\ requests' = [requests EXCEPT ![p][i] = "errored"]
              /\ UNCHANGED org
        /\ UNCHANGED <<input, aborted, command>>

OtherInstall(p) ==
    /\ org[p] \notin UpToDate
    /\ \E v \in UpToDate : org' = [org EXCEPT ![p] = v]
    /\ UNCHANGED <<requests, input, aborted, command>>

Abort ==
    /\ ~aborted
    /\ pc # "ended"
    /\ aborted' = TRUE
    /\ UNCHANGED <<world, input, command>>

-----------------------------------------------------------------------------
(* Planning, and going from one package to the next.                       *)

Throw ==
    /\ pc' = "ended"
    /\ outcome' = "thrown"
    /\ UNCHANGED <<plan, item, attempt, rounds, report, result, done>>

StatusOf(v) ==
    CASE v = "none" -> "missing"
      [] v = "old" -> "update"
      [] v = "selected" -> "skip"
      [] OTHER -> "higher"

(* The org is read once; versions are selected package by package after    *)
(* that, and any query may fail.                                           *)
Plan ==
    /\ pc = "plan"
    /\ \/ Throw
       \/ /\ ~aborted
          /\ plan' = [p \in Packages |-> StatusOf(org[p])]
          /\ pc' = "item"
          /\ UNCHANGED <<item, attempt, rounds, report, result, done, outcome>>
    /\ UNCHANGED <<world, input, aborted>>

Skipped(p) == dry \/ plan[p] \in {"skip", "higher"}

NextItem ==
    /\ item' = item + 1
    /\ pc' = "item"
    /\ attempt' = 1
    /\ report' = "none"
    /\ result' = "none"
    /\ rounds' = 0

TakeItem ==
    /\ pc = "item"
    /\ \/ /\ item > N
          /\ pc' = "ended"
          /\ outcome' = "success"
          /\ UNCHANGED <<plan, item, attempt, rounds, report, result, done>>
       \/ /\ item <= N
          /\ Skipped(item)
          /\ NextItem
          /\ UNCHANGED <<plan, done, outcome>>
       \/ /\ item <= N
          /\ ~Skipped(item)
          /\ item \in NeedsKey /\ ~key
          /\ Throw
       \/ /\ item <= N
          /\ ~Skipped(item)
          /\ item \in NeedsKey => key
          /\ pc' = "submit"
          /\ UNCHANGED <<plan, item, attempt, rounds, report, result, done, outcome>>
    /\ UNCHANGED <<world, input, aborted>>

-----------------------------------------------------------------------------
(* runCommand for `sf package install --wait 0`: each attempt is taken by  *)
(* the org or not, and answered with a request id, without one, by an      *)
(* error, by nothing in time, or killed by the signal.  The retry policy   *)
(* looks for a transport error in whatever was printed, whatever the       *)
(* result, but never at a command that was cancelled.                      *)

Taken(p, yes) ==
    requests' = [requests EXCEPT ![p] = IF yes THEN Append(@, "pending") ELSE @]

Replies == {"id", "noId", "error", "timeout", "canceled"}

(* The replies there may be to a request that was taken, or was not.       *)
Possible(reply, yes) ==
    /\ reply \in {"id", "noId"} => yes
    /\ (reply = "canceled") = aborted

Retried(reply, transport) ==
    /\ attempt < MaxAttempts
    /\ reply # "canceled"
    /\ transport

Submit ==
    /\ pc = "submit"
    /\ \E reply \in Replies, yes \in BOOLEAN, transport \in BOOLEAN :
        /\ Possible(reply, yes)
        /\ Taken(item, yes)
        /\ \/ /\ Retried(reply, transport)
              /\ pc' = "delay"
              /\ UNCHANGED <<result, rounds>>
           \/ /\ ~Retried(reply, transport)
              /\ reply = "id"
              /\ pc' = "probe"
              /\ rounds' = MaxRounds
              /\ UNCHANGED result
           \/ /\ ~Retried(reply, transport)
              /\ reply # "id"
              /\ pc' = "settle"
              /\ result' = IF reply = "timeout" THEN "timedOut" ELSE "failed"
              /\ UNCHANGED rounds
    /\ UNCHANGED <<org, input, aborted, plan, item, attempt, report, done, outcome>>

(* The delay before the next attempt, which the signal ends by rejecting.  *)
RetryDelay ==
    /\ pc = "delay"
    /\ \/ aborted /\ Throw
       \/ /\ ~aborted
          /\ attempt' = attempt + 1
          /\ pc' = "submit"
          /\ UNCHANGED <<plan, item, rounds, report, result, done, outcome>>
    /\ UNCHANGED <<world, input, aborted>>

-----------------------------------------------------------------------------
(* pollPackageInstall.                                                     *)

Settle(r) ==
    /\ result' = r
    /\ pc' = "settle"
    /\ UNCHANGED <<plan, item, attempt, rounds, report, done, outcome>>

GoTo(place) ==
    /\ pc' = place
    /\ UNCHANGED <<plan, item, attempt, rounds, report, result, done, outcome>>

(* The deadline, or isInstalled: only the exact version will do, a time-   *)
(* out of the query counts as a no, any other failure ends the command.    *)
(* What is returned for a yes is the last report, a timed-out one too.     *)
Probe ==
    /\ pc = "probe"
    /\ \/ rounds = 0 /\ Settle("timedOut")
       \/ rounds > 0 /\ ~aborted /\ org[item] = "selected"
          /\ Settle(IF report = "timedOut" THEN "timedOut" ELSE "ok")
       \/ rounds > 0 /\ ~aborted /\ org[item] # "selected" /\ GoTo("report")
       \/ rounds > 0 /\ ~aborted /\ GoTo("report")  \* the query timed out
       \/ rounds > 0 /\ Throw                       \* it failed or was aborted
    /\ UNCHANGED <<world, input, aborted>>

(* The request polled is the one whose id was returned: the last accepted. *)
Polled == requests[item][Len(requests[item])]

Report ==
    /\ pc = "report"
    /\ \/ Settle("failed")                          \* failed or aborted
       \/ ~aborted /\ Polled = "succeeded" /\ Settle("ok")
       \/ ~aborted /\ Polled = "errored" /\ Settle("failed")
       \/ /\ ~aborted
          /\ report' \in {"timedOut", "running"}     \* or no known status
          /\ pc' = "wait"
          /\ UNCHANGED <<plan, item, attempt, rounds, result, done, outcome>>
    /\ UNCHANGED <<world, input, aborted>>

(* Mutant of Wait: nothing brings the deadline nearer.                     *)
WaitForever ==
    /\ pc = "wait"
    /\ \/ aborted /\ Throw
       \/ ~aborted /\ GoTo("probe")
    /\ UNCHANGED <<world, input, aborted>>

Wait ==
    /\ pc = "wait"
    /\ \/ aborted /\ Throw
       \/ /\ ~aborted
          /\ pc' = "probe"
          /\ rounds' = rounds - 1
          /\ UNCHANGED <<plan, item, attempt, report, result, done, outcome>>
    /\ UNCHANGED <<world, input, aborted>>

-----------------------------------------------------------------------------
(* What follows a submission: after a timeout the org is asked once more.  *)

(* Mutant of Found: an older version will do.                              *)
FoundAny == org[item] # "none"

Found == org[item] = "selected"

Installed ==
    \/ result = "ok"
    \/ result = "timedOut" /\ ~aborted /\ Found

NotInstalled ==
    \/ result = "failed"
    \/ result = "timedOut"   \* another version, or the query fails

(* Mutant of Completed: installs found after a timeout are not counted.    *)
CompletedInTime ==
    /\ Installed
    /\ done' = IF result = "ok" THEN done + 1 ELSE done
    /\ NextItem
    /\ UNCHANGED <<plan, outcome>>

Completed ==
    /\ Installed
    /\ done' = done + 1
    /\ NextItem
    /\ UNCHANGED <<plan, outcome>>

(* Mutant of Failed: the command goes on with the next package.            *)
FailedGoesOn ==
    /\ NotInstalled
    /\ NextItem
    /\ UNCHANGED <<plan, done, outcome>>

(* The first failure ends the command; what it printed may make it one of  *)
(* authorization.                                                          *)
Failed ==
    /\ NotInstalled
    /\ outcome' \in {"denied", IF done > 0 THEN "partial" ELSE "failure"}
    /\ pc' = "ended"
    /\ UNCHANGED <<plan, item, attempt, rounds, report, result, done>>

SettleItem ==
    /\ pc = "settle"
    /\ Completed \/ Failed
    /\ UNCHANGED <<world, input, aborted>>

(* What the caller makes of it: the code returned, or for what was thrown   *)
(* that of a plain failure or of authorization, whatever was installed.    *)
ExitCodes == IF outcome = "thrown" THEN {"failure", "denied"} ELSE {outcome}

Command ==
    \/ Plan \/ TakeItem
    \/ Submit \/ RetryDelay
    \/ Probe \/ Report \/ Wait
    \/ SettleItem

Next ==
    \/ Command
    \/ Abort
    \/ \E p \in Packages : RequestEnds(p) \/ OtherInstall(p)

Spec == Init /\ [][Next]_vars

(* Every command line has a timeout, and timers fire.                      *)
FairSpec == Spec /\ WF_vars(Command)

-----------------------------------------------------------------------------
(* Why a package the command has come to may be left without a result.     *)
NoResult(p) ==
    \/ p \in NeedsKey /\ ~key
    \/ aborted
    \/ requests[p] # << >>

(* A command that reports success leaves no package behind its selected    *)
(* version, whatever was retried, timed out or done by others meanwhile    *)
(* (package-operations.ts l.501-519, l.566).                               *)
SuccessIsComplete ==
    outcome = "success" /\ ~dry => \A p \in Packages : org[p] \in UpToDate

(* A package is asked for only when all it may depend on is there: not     *)
(* behind an install that is still running or was given up                 *)
(* (package-operations.ts l.387, l.521-544).                               *)
InOrder ==
    \A p \in Packages : requests[p] # << >> =>
        \A q \in 1 .. p - 1 : org[q] \in UpToDate

(* Installs followed by a failure give the code of a partial completion,   *)
(* those found only after a timeout included, unless access was denied or  *)
(* the command was thrown out of: for want of a key, by the signal, or by  *)
(* a query about a package that was asked for.  A failed install never     *)
(* hides the ones before it (package-operations.ts l.540-546).  Of the two *)
(* exceptions docs/workflows.md l.76 knows only the first.                 *)
PartialUnlessThrown ==
    LET changed == {p \in 1 .. item - 1 : ~dry /\ plan[p] \in {"missing", "update"}}
    IN  /\ "partial" \in ExitCodes => changed # {}
        /\ "failure" \in ExitCodes /\ changed # {} => outcome = "thrown" /\ NoResult(item)

(* A package is asked for at most as often as the retry policy says        *)
(* (command-runner.ts l.143, package-operations.ts l.437-441).             *)
BoundedRequests == \A p \in Packages : Len(requests[p]) <= MaxAttempts

(* The command ends although a request may never do, queries fail and      *)
(* reports time out (package-install-poller.ts l.26, l.63-75).             *)
EventuallyEnds == <>(pc = "ended")

-----------------------------------------------------------------------------
(* The inductive invariant behind the promises above.                      *)

Busy == pc \notin {"plan", "item", "ended"}

(* The org only gains: what the plan found up to date, what a request has  *)
(* brought and what the command has passed stays up to date.               *)
OrgInv ==
    /\ \A p \in Packages : plan[p] \in {"skip", "higher"} => org[p] \in UpToDate
    /\ \A p \in Packages : \A i \in DOMAIN requests[p] :
        requests[p][i] = "succeeded" => org[p] \in UpToDate
    /\ result = "ok" => item <= N /\ org[item] \in UpToDate
    /\ ~dry => \A p \in 1 .. item - 1 : org[p] \in UpToDate

(* Only packages the command has come to were asked for, and the one at    *)
(* hand at most once per attempt.                                          *)
RequestInv ==
    /\ \A p \in Packages :
        /\ Len(requests[p]) <= MaxAttempts
        /\ p > item => requests[p] = << >>
        /\ requests[p] # << >> => ~dry
    /\ item <= N =>
        /\ Len(requests[item]) <= attempt
        /\ pc = "item" => requests[item] = << >>
        /\ pc = "submit" => Len(requests[item]) < attempt
        /\ pc \in {"probe", "report", "wait"} => requests[item] # << >>
    /\ pc = "plan" => \A p \in Packages : requests[p] = << >>

(* Where the command is, and what it has counted so far.                   *)
CountInv ==
    /\ pc = "plan" => item = 1
    /\ pc \notin {"plan", "ended"} => \A p \in Packages : plan[p] # "unknown"
    /\ Busy => ~dry /\ item <= N /\ plan[item] \in {"missing", "update"}
    /\ pc = "delay" => attempt < MaxAttempts
    /\ pc \in {"report", "wait"} => rounds > 0
    /\ done < item
    /\ done > 0 <=> ~dry /\ \E p \in 1 .. item - 1 : plan[p] \in {"missing", "update"}
    /\ outcome \in {"partial", "failure"} => ~dry /\ (outcome = "partial" <=> done > 0)
    /\ outcome = "thrown" /\ done > 0 => item <= N /\ NoResult(item)
    /\ outcome = "success" => item = N + 1

PackageInv ==
    /\ TypeOK
    /\ OrgInv
    /\ RequestInv
    /\ CountInv
=============================================================================
