# Verification of crm-arbeidsforhold

This directory holds TLA+ specifications of the parts of
`navikt/crm-arbeidsforhold` that keep state and act at the same time as
something else, the TLC configurations that check them, and TLAPS proofs of
every safety property the runs check.

The repository is a Salesforce solution for Aa-registeret (Apex classes and
triggers, LWC pages, 37 flows) and a Node command line tool, `sf-project`, with
a local web dashboard, that developers use to build scratch orgs for it. Most
of the Apex code is queries and single-record saves. The hard behaviour is in
seven places, and those are modelled:

1. the **P360 archive jobs**: a job table worked off by a schedulable and
   queueables, in transactions that overlap, are rolled back and make callouts
   that are not rolled back;
2. the **`.forceignore` transaction**: a file is taken away while a command
   runs and must come back whatever kills or interrupts the command;
3. the **package installation**: requests of an org that are submitted, retried
   and polled over an unreliable command line;
4. the **commands and workflows of `sf-project`**: what the command line and the
   server let through to which org, and the workflows that create, configure and
   delete orgs over commands that fail, are lost, retried and cancelled;
5. the **web server and its dashboard**: event streams with limits, replay and
   cancellation, against a client whose list is changed by three callbacks that
   know nothing of each other;
6. the **application form** of the portal: rows and files that are removed and
   read in the background, in several tabs, with requests whose answers are lost;
7. the **support form**: a draft that is made while it is being filled in, files
   that hang on it, and a flow that deletes drafts in the night.

| Module | Lines of the system it stands for |
| --- | --- |
| `P360ArchiveJobs` | scheduler, claim service, worker, processing gate, retry policy |
| `P360JobLifecycle` | abstract: the documented state diagram of one job, `p360-archive-job-state.mmd` |
| `P360ArchiveJobsProofs` | theorems about `P360ArchiveJobs` |
| `P360JobCreation` | decision and attachment triggers, the release guard, the job service |
| `P360JobOutbox` | abstract: what the job table is to those who work it off |
| `P360JobCreationProofs` | theorems about `P360JobCreation` |
| `ForceignoreTransaction` | `forceignore-transaction.ts`, `refresh-dependencies.ts` around it |
| `ForceignoreTransactionProofs` | theorems about `ForceignoreTransaction` |
| `PackageInstall` | `package-operations.ts`, `package-install-poller.ts`, `command-runner.ts`, `package-plan-logic.ts` |
| `PackageInstallProofs` | theorems about `PackageInstall` |
| `OrgWorkflow` | `org-workflow.ts`, `command-step-runner.ts`, the retry policy, dummy users, coverage, clearing and refreshing of sources as stages |
| `ProjectCommands` | `cli-app.ts`, the requests of `web/server.ts`, `web-service-facade.ts`, `org-inspection.ts`, `org-policy.ts`, `doctor.ts`, on top of `OrgWorkflow` |
| `ProjectCommandsProofs` | theorems about both |
| `WebOperations` | `web/server.ts`: operations, events, subscribers |
| `WebDashboard` | `web/src/App.tsx`, `web/src/api.ts`, composed with `WebOperations` |
| `WebDashboardProofs` | theorems about both |
| `ApplicationForm` | `aareg_application` (LWC) and `AAREG_ApplicationController` |
| `ApplicationFormProofs` | theorems about `ApplicationForm` |
| `SupportForm` | `aareg_contactSupportForm` (LWC), `AAREG_contactSupportController`, the flow that deletes drafts |
| `SupportFormProofs` | theorems about `SupportForm` |
| `MC...` | the values TLC gives the constants of each, and symmetry sets |

In comments, `l.30` is a line of the file named there or at the head of the
section. `sources` and line ranges of every definition are in `PROJECT.json`
under `map`.

## 1. Inventory

### P360 archive jobs: the asynchronous half (modelled)

`force-app/integration/p360/classes/job`: `P360_ArchiveJobScheduler`,
`P360_ArchiveJobClaimService`, `P360_ArchiveJobWorker`, and
`P360_ArchiveProcessingGate`.

- *State*: rows of `P360_Archive_Job__c` (status, attempt count, next attempt
  date, lease date, queued date); the feature flag; the rows a claim has read;
  the ids a queued worker was built with and what it has in memory.
- *Operations*: claim a batch (read, then update to In Progress with the attempt
  counted and a lease, then enqueue a worker); give the claim back when the flag
  is off; call P360 for each row; classify a failure (retry with backoff, manual
  review); write the outcomes.
- *Interaction*: the job service creates rows; a claim and a worker know of each
  other only through rows and an id list; P360 is called through
  `P360_ArchiveAdapter`.
- *Hard*: transactions read without locks and commit later; a callout stands
  although its transaction is undone; the flag changes at any time, also between
  claim and worker; time passes; nothing recovers an expired lease.
- *Correct when*: a row is in one hand at a time; the attempt counter is the
  number of calls; calls are bounded, wait for the backoff and do not come
  after a confirmation; jobs go through the documented diagram; with the flag on
  queued jobs are settled; with the flag off claimed work drains.

### P360 archive jobs: the synchronous half (modelled)

`P360_ArchiveGuardHandler`, `P360_ApplicationDecisionArchiveGuard`,
`P360_ContentVersionArchiveHandler`, `P360_ArchiveJobService`,
`P360_IdempotencyKey`.

- *State*: decisions (release flag, ordinary fields, link to an access request),
  the one job row per idempotency key, the row locks and uncommitted inserts of
  the transactions under way.
- *Operations*: insert or update decisions (before-trigger guard, after-update
  job creation), publish an attachment, get or create a job (query, insert,
  query again after a duplicate).
- *Hard*: two transactions that create the same job, in any order, with a
  rollback of either; a query that sees only committed rows the running user may
  see; the flag read once per transaction.
- *Correct when*: release and job commit together or not at all; the service
  answers with a row that stays; a released decision cannot change by a save
  that passed the guard before the release.

### `.forceignore` transaction (modelled; what runs inside it is one step)

`tools/salesforce-project-cli/src/application/forceignore-transaction.ts`, used
by `refresh-dependencies.ts`; also `dependencies recover`.

- *State*: `.forceignore`, the marker file, one backup per operation, the memory
  of each running command and of its signal listener.
- *Operations*: recover what an earlier command left; back up, publish the
  marker, check again, remove the file; restore (load marker, load backup, check
  the file, exclusive copy, verify, remove backup, remove marker).
- *Hard*: a kill between any two file operations or in the middle of a copy; an
  interrupt handler that runs next to the `finally` block; the user editing the
  file; a second command in the same directory.
- *Correct when*: the user's content is in the file or in a backup the marker
  leads to; a command that succeeds has put everything back; recovery never
  overwrites what it did not write.

### Package installation (modelled; version selection and status reports are not)

`package-operations.ts` (`mutatePackages`), `package-install-poller.ts`,
`infrastructure/command-runner.ts`, `package-plan-logic.ts`.

- *State*: the plan, the package at hand, the retry counter, the polling
  deadline, the completed list; in the org: installed versions and requests.
- *Hard*: a submission that the org has accepted and whose reply is lost or
  looks like a transport error is submitted again; a query that fails does not
  say the package is missing; a request may outlive its command; other
  administrators install too; an abort falls between any two steps.
- *Correct when*: success means everything is there; a package is asked for only
  after those it depends on; a failed install does not hide the ones before
  it behind the code of a plain failure; attempts are bounded; the command ends.

### Web server and dashboard (modelled: the operations and their streams)

`src/web/server.ts`, `web/src/App.tsx`, `web/src/api.ts`.

- *State*: operations and their kept events, aborted flags, subscribers; in the
  browser: the list of operations, the list its effect last ran for, a reload
  under way.
- *Hard*: events before, during and after a subscription; limits on operations,
  events and subscribers; a cancel that races the end; a browser that drops a
  stream before the server notices; an answer that is put in place late.
- *Correct when*: an operation has one terminal event and keeps it; a stream
  misses nothing between replay and live events; the limits hold; what the
  dashboard shows as ended has ended, and what it shows as running is not shown
  so for ever.

### Commands and workflows of `sf-project` (modelled; reports and rendering are not)

`cli-app.ts`, `web-service-facade.ts`, the request checks of `web/server.ts`;
`org-workflow.ts`, `command-step-runner.ts`, `org-inspection.ts`,
`org-policy.ts`, `dummy-users.ts`, `package-coverage.ts`, `doctor.ts`,
`project-version-update.ts`.

- *State*: the request and its stage, the post-steps still to do, the attempt of
  the current command, the org acquired; outside: which org an alias names, the
  target org of the Salesforce CLI, the orgs that exist, what was changed.
- *Operations*: create or fetch an org, configure it (packages, post-steps,
  tracking, dependencies), delete it; install packages, check the coverage,
  refresh, clear or recover sources, update versions; read-only commands.
- *Interaction*: both adapters start the same workflows; packages and refresh are
  the components above and below, here one stage each.
- *Hard*: the org is inspected first and changed later by its alias, which other
  commands move; a command may have had its effect although it is tried again; a
  signal falls between any two commands; a creation deletes what had the alias
  before it can know whether it will succeed.
- *Correct when*: only a scratch org, or the org a confirmation names, is
  changed; a refusal and a dry run change nothing; a creation configures the org
  it acquired and says so when that fails; success leaves no stage out; tracking
  is reset after the deployment; a cancelled operation stops; a command ends.

### Application form (modelled; access management and document downloads are not)

`externalApplication/lwc/aareg_application` and its rows,
`AAREG_ApplicationController`.

- *State*: status, rows and document of an application; of each tab the rows and
  the file in the form, the status it has loaded, whether it is hidden; requests
  and deletions under way.
- *Operations*: open, load, add and remove rows, read a file, save as draft,
  submit; the controller's upsert of access request, application, rows and
  document in one transaction; the deletion of a record; the case workers.
- *Hard*: a deletion is started and not awaited; the new status is worked out
  from what the form has loaded; an answer is lost; a page is left meanwhile.
- *Correct when*: what is submitted has a document; a form has one request under
  way and sends no row it has removed; a form that is up to date moves the
  application forward; no form stays hidden.

### Support form (modelled; the list of threads is not)

`aareg_contactSupportForm` (LWC), `AAREG_contactSupportController`, the scheduled
flow `AAREG_deleteDraftInquiriesANDrelatedDocuments`.

- *State*: the inquiry, its thread, documents and links; in the page the draft's
  id, the files shown, whether upload is enabled and whether it was submitted;
  calls under way; what the nightly flow has selected.
- *Operations*: a first and a later change, upload and removal of files,
  submission in up to three calls (inquiry, links, or a thread alone), the night.
- *Hard*: changes and the submission are not awaited; files may be uploaded
  before the draft is there; the flow acts on what it read before.
- *Correct when*: a form makes one draft; what is shown as submitted has its
  files and a thread; a submitted inquiry is not swept away.

### Not modelled

| Component | Why |
| --- | --- |
| P360 adapters, contracts, mappers, code tables, orchestration | Conversion without state; the worker sees one call with four outcomes, which is what is modelled. |
| Integration logging, utilities | Formatting; nothing reads it back. |
| Reports of inspection, doctor, coverage; parsing, rendering, redaction; the mock runner | Values nobody acts on. What inspection answers and what decides an exit code is in `ProjectCommands`; heartbeats appear as `Emit`. |
| Agreements (`AAREG_DeactivateAccessOnDeletedOrgsBatch`), distribution access | A batch whose writes share a swallowed try block, and a future callout answered before it is made. Each is one sequence of statements; what can go wrong is visible at the line (see the hazards) and no document of the repository promises otherwise, so a model would only restate it. |
| Access requests of the portal, decisions' documents, external agreements, home page, Altinn | Queries with access checks and single-record saves. The one asynchronous consequence of decisions and files, the archive job, is in `P360JobCreation`. |
| `createNewInquiry` of the support controller | No page calls it any more. |
| Other LWC and Aura, the other flows, metadata, scripts, vendored directories | Rendering, one record at a time, declarations, tooling, sources of other packages. |

## 2. How the modules correspond to the code

### `P360ArchiveJobs`

A Salesforce transaction reads committed rows and makes its writes visible at
its end, so each is several actions:

| Action | Code |
| --- | --- |
| `CreateJob` | a row inserted by the service, `Pending` (the detailed version is `P360JobCreation`) |
| `ClaimRead` | `claimNextBatch` up to the query: flag on, oldest first, at most `BatchSize` |
| `ClaimCommit` | the update of the claimed rows and the enqueued worker |
| `ClaimRollback` | the scheduler's transaction fails |
| `WorkerStart`, `WorkerStartGateOff` | `execute`: reads its rows and the flag |
| `WorkerRestore` | `restoreClaimedJobs` commits: the attempt is given back |
| `ArchiveSucceeds`, `ArchiveFailsRetryable`, `ArchiveFailsForGood`, `ArchiveThrows` | one row of the loop of `processJob`: the callout happens now, the row is changed in memory |
| `WorkerCommit`, `WorkerRollback` | the final update, or the failure of the transaction: the callouts stand |
| `ToggleGate`, `Tick` | an administrator, the clock |

Dates are kept as minutes left, never below zero, because the code only asks
whether a date has passed; `queued` keeps the order of the queue as ranks.
`calls` and `confirmed` are observations: what P360 has received and confirmed.

`P360JobLifecycle` is the abstract specification: each job goes through
`absent`, `waiting`, `claimed`, `called`, `archived`, `review`, and its number of
tries grows by one exactly in the step from `claimed` to `called`.
`P360ArchiveJobs` maps to it with `phase <- Phase`, where a row In Progress is
`claimed` as long as its attempt is counted and its call is not made.

### `P360JobCreation`

`InsertDecision` and `SaveDecisions` are the guard followed by the handler;
a save holds its rows to the end (`rows`, `Unlocked`). `FindJob`, `InsertJob`,
`RefindJob` are the three statements of `getOrCreateJob`, each its own step,
because a row lock or the unique index may make a transaction wait between them.
`InsertJob` waits while another transaction has an uncommitted row of the same
key and collides with a committed one. What a query returns is `Visible`: a
committed row the running user may see, or an own one. `PublishAttachment` is the
attachment trigger; `RequestJob` the service methods nothing calls yet.

`P360JobOutbox` is the abstract specification: a transactional outbox with two
steps. `Release` releases decisions and gives those that have none a job, `Ask`
gives one other event its job; nothing is taken out or written over. A run maps to
it with `released <- ReleasedDecisions` (released by an update with the flag on and
a link) and the owners of the committed rows as they are; only `Commit` is seen. It
is also where the two halves meet: the jobs that appear in a step of the outbox are
those that `P360ArchiveJobs!CreateJob` adds, one by one, and that
`P360JobLifecycle` calls `waiting`.

### `ForceignoreTransaction`

Every `await` on the file system is an action, for each of the two threads a run
has: the command, and the signal listener it registers while it holds the lease.
`Restoring(t)` is `recoverTransaction` (`LoadMarker` ... `RemoveMarker`), which
recovery, the `finally` block and the listener share; `Disabling(r)` is the way
to the lease (`ReadOriginal` ... `RemoveFile`, with its undo); `Release` the end
of the work done under the lease. A copy is two steps, so a crash, a second
copy or a check may see the `fragment`. `Crash` kills a run at any step; `Edit`
is the user. The contents of the file are three values: what was there, what
the user wrote since, a half-written copy.

### `PackageInstall`

The pc follows `mutatePackages`: `Plan`, `TakeItem`, `Submit` and `RetryDelay`
(the retry loop of the command runner), `Probe`, `Report`, `Wait` (the rounds of
the poller), `SettleItem` (the last look at the org after a timeout, success,
partial completion, failure). The environment takes the steps `RequestEnds`
(an accepted request installs or fails, also when its command has long given
up), `OtherInstall` and `Abort`. `Throw` ends the command past `mutatePackages`;
`ExitCodes` is what the callers make of either end: the code returned, or for
what was thrown the code of a plain failure or of authorization (`cli-app.ts`
l.1178; the server always takes the plain failure). A version is one of none, old, selected,
higher, relative to the selected one; other administrators only raise it.

### `OrgWorkflow` and `ProjectCommands`

`ProjectCommands` takes the requests: `CliCreate` ... `CliPlan` are the commands
of `cli-app.ts`, `PostOperation` a POST to the server with `ValidPayload`. A
request is one record; both adapters share it. `AssertMutationTarget`,
`CliInspectDelete` and `Preauthorize` look at the org as `org-inspection.ts` does
(`Inspections`: what a display of the org may answer, a failure included) and
apply `MutationAllowed`; `Execute` is the dispatch of the facade.

From there `pc` is the stage of the workflow in `OrgWorkflow`:

| Stage | Code |
| --- | --- |
| `pool`, `discard`, `clear`, `acquire`, `fetch`, `create` | `createOrg` up to the acquired org: `ResolvePoolDevHub`, `DeleteExisting`, `ClearSources`, `AcquireFromPool`, `FetchFromPool`, `AcquireByCreation` |
| `configure`, `packages`, `steps`, `refresh` | `configureProject`: `ConfigureProject`, `Install`, `RunPostSteps` (a step of several commands, the dummy users behind `data`), `ResetSourceTracking`, `RefreshDependencies` |
| `delete`, `coverage` | `deleteOrg`, `runPackageCoverage` |
| `read`, `doctor`, `recover`, `versions` | the commands without an org |

Each command goes through `Retried`: it works; it has its effect and its reply is
lost or looks transient, and it is tried again; it fails, with or without the
effect; or it is killed by the signal, if the stage gets one (`Signalled`). `End`
sets the exit code with the rule for partial creations (`ExitOf`), `Throw` is an
exception past the workflow. `SwitchTarget` is the user with
`sf config set target-org`; `applied` is a history of what was changed where.

### `ApplicationForm`

`Open`, `Load`, `AddContactRow`, `RemoveContactRow`, `OnFileUpload`,
`HandleSaveAsDraft`, `HandleSubmit` and `NavigateToApplication` are the handlers
of the page. A request is one slot: `Execute` is the transaction of
`saveAsDraft` or `processApplication` on the server (with its rollback and with a
lost answer), `Receive` the `then`, `catch` and `finally` of the page. The status
it writes follows from the one the form has sent (`StatusAfter`); a submission then
goes through `sanitizeApplicationForDml`, which leaves out what its user may not
write (`SanitizedStatus`): an existing application keeps its status, and a new one
gets the default of the field, "New". Portal users have the right by
`AAREG_CommunityPermission`; the model lets every request have it or not, as the
code asks at each. Drafts are saved without that check. Leaving a
page detaches its requests and deletions, which go on. `DeleteDraftRecord` is the
transaction of a removed row, `CaseHandler` the case workers. Contacts and legal
bases are handled alike in the code and are one kind of row here; texts are
reduced to which rows are sent.

### `SupportForm`

`HandleInputChange` is the first change (upload enabled, draft requested) or a
later one (an update of the draft); `HandleFilesUploaded`,
`HandleRemoveUploadedFile` and `HandleSubmit` are the other handlers. Each
Apex call of the page is a slot with `Execute` (one transaction of the
controller) and `Receive` (what the page does with the answer, which may be the
next call). `StartCleaning` and `Clean` are the nightly flow: what it selects, and
later the deletion of each.

### `WebOperations` and `WebDashboard`

The server is one event loop, so a handler is atomic from one `await` to the
next: `BeginOperation`, `Emit`, `Finish`, `Cancel`, `Subscribe`, `Disconnect`.
A connection is a slot that is free, asked for, open, refused or ended;
`queue` is what has been written to it and not been read. `WebDashboard` extends
the server with the client: `Answer` and `Register` (POST and what the page does
with its answer, two steps), `RunEffect` (drops all streams and opens one per
running operation), `Receive`, `StreamOver`, `Closed`, and a reload in two steps
(`ListOperations` when the server answers, `ShowReloaded` when the slower request
for the orgs is there too). Of a list only the shown state of each operation is
kept; its order is not.

An event is its number and what the properties tell apart of it: the start, a
step, a heartbeat tick, or an end, whose kind carries the result. `WithoutTick` is
the `findIndex` and `splice` of `publish`: the tick that is kept of a step is taken
out before the new one is appended. Here all ticks are of one step; the server keeps
one of each step, and the others stay in the history like any event. `Newest` is the
cut at `maxEvents` behind it. `PublishAll` does this for the events of one handler,
and writes them to the subscribers.

## 3. What the runs check

| Run | Instance | States | Shows |
| --- | --- | --- | --- |
| `p360_jobs` | 2 jobs, 1 scheduler, 2 workers, batch 2, 2 attempts, backoff 1 and 2, lease 1 | 57 thousand | `ClaimExclusive`, `AttemptsAreCalls`, `BackoffRespected`, `ConfirmedNeverRepeated`; the refinement `FollowsLifecycle`; liveness `EventuallySettled` and `DrainsWhenOff` |
| `p360_jobs_race` | 1 job, 2 schedulers, 2 workers | - | violation of `OneWorkerPerRow`, finding 1 |
| `p360_creation` | 2 decisions, 1 attachment, 1 document, 2 transactions, a case worker and an external user | 1.7 million | `UpdateReleaseQueued`, `SavesDoNotWait`, `LockedAfterRelease`; the refinement `FollowsOutbox` |
| `forceignore` | 3 commands in turn, 2 killed, 2 edits, interrupts | 879 thousand | `NeverLost`, `LeaseIsDurable`, `DoneMeansRestored`, `RestoringKeepsFiles` |
| `forceignore_overlap` | 2 commands at once | - | violation of `SomewhereKept`, finding 2 |
| `packages` | 2 packages, one with a key, 3 attempts, 2 rounds | 2.7 million | `SuccessIsComplete`, `InOrder`, `PartialUnlessThrown`; liveness `EventuallyEnds` |
| `workflow` | every command of both adapters, 4 orgs, 2 aliases, 5 post-steps, 2 attempts, one change of the target | 65 thousand | `OnlyConfirmedOrgsAreChanged`, `SuccessIsComplete`, `RefusedChangesNothing`, `ConfiguresTheAcquiredOrg`, `CancelStopsOrgChanges`, `TrackingFollowsDeployment`; liveness `EveryCommandEnds` |
| `workflow_unknown_step` | the same orgs | - | violation of `UnknownStepChangesNothing`, finding 3 |
| `web_dashboard` | 2 operations, 1 kept, 2 events kept, 2 connections each, 1 subscriber each and 2 in all, 2 emitted events, 1 reload | 2.8 million | `OneTerminalEvent`, `WithinLimits`, `StreamsMissNothing`, `ShownEndsAreTrue` |
| `web_settles` | the same with 1 emitted event and no reload | 78 thousand | liveness `RunningSettles` |
| `application` | 2 tabs, 1 application, 1 saved row, 2 rows in a form, 2 requests under way, 2 openings | 1.6 million | `SubmittedHasDocument`, `OneRequestPerForm`, `RemovedIsNotSentAgain`, `UpToDateFormsMoveForward`, `HiddenFormsAwaitAnAnswer` |
| `support` | 2 inquiries, 3 files for 2 places, 2 calls under way, 2 submissions | 247 thousand | `OneDraftPerForm`, `SubmittedHasItsFiles`, `ThanksAreEarned`, `SubmittedSurvivesCleaning` |

A run of kind "violation" checks one sentence of the documentation that the code
does not keep. For every property of a passing run, `PROJECT.json` names a
mutant: a plausible bug in one definition, written beside it in the module, that
makes TLC find the property violated.

### The bounds, and why they are enough

- *P360 jobs.* Two jobs are needed for a batch of which one row succeeds and
  another fails, and for the order of the queue; two workers for claims that
  overlap a running worker; two attempts for a retry and for the last failure;
  a backoff list whose entries differ, so that a wrong index shows. Time is not
  bounded (minutes left are capped by the constants). The proofs below remove
  all of these bounds.
- *P360 creation.* A collision needs two transactions, a bulk save two decisions;
  `MaxBody = 1` allows an edit after the release, the least that can break the
  lock. Transactions come one after the other without a bound.
- *`.forceignore`.* A file can be lost over several commands: one killed, a
  second killed while it recovers, a third that recovers or succeeds. That is
  the instance. `MaxCrashes` and `MaxEdits` are the only bounds.
- *Web.* Limits are reached at once: one operation is kept of two, two events of
  four (start, two emitted, terminal), one subscriber per operation.
  `MaxEmits` and `MaxReloads` are bounds of the model only. The liveness run has
  fewer events because its graph is larger, and no reload (see section 7).
- *Packages.* Two packages are enough for an order and for a partial completion;
  three attempts are the code's own; `MaxRounds` stands for the deadline (`mutationMs`
  in the configuration), two being enough for a request that is first in progress
  and then done. Requests need no bound, as `BoundedRequests` is proved.
- *Workflows.* Four orgs: a scratch org, a production org that is the Dev Hub,
  and two that can be created, so that a lost reply leaves one behind and the
  retry makes the other. Two aliases are enough for the wrong one. The
  selections of post-steps have a step with a command, one of two commands, one
  without a configured value, one of the project's own, the dummy users, and a
  name that does not exist. Two attempts instead of three are the first and the
  last; the proofs have no such bound. The target of the CLI changes once
  (`switched`), which is enough for an inspection that is stale.
- *Application form.* Two tabs are needed for a form that is not up to date, two
  openings for one that is left and one that navigates; a form of two rows has
  one that may be removed. `MaxRequests` and `MaxOpenings` are bounds of the
  model; the form holds rows without a bound in the code.
- *Support form.* Two inquiries, as the second must not come to exist; three
  files for two places, so that an upload exceeds the limit (10 in the code);
  two calls at a time, so that any two overlap; two submissions for one that is
  repeated. Changes and nights have no bound.

`CHECK_DEADLOCK FALSE` is given where the system ends: a command that has ended,
operations that have all ended, a dashboard with nothing to do, users of a form
who have finished. The P360 modules check for deadlock.

## 4. Fairness

- `P360ArchiveJobs!FairSpec`: time passes (weak fairness of `Tick`); the platform
  runs the scheduled job again and again, so a claim is begun and, if it is
  rolled back, tried again (strong fairness of `ClaimCommit`, since each
  rollback disables it); a queued worker is run, and its transaction goes on to
  its end or is rolled back. Nothing is assumed of the flag, of new events or of
  the outcome of a call, and a rollback may come any number of times. The
  schedulable is not wired to a cron expression in the repository yet;
  `EventuallySettled` is about an org in which it is.
- `WebDashboard!FairSpec`: an execution ends (every command line has a timeout),
  answers and events arrive, closed connections are noticed, React runs an
  effect whose inputs have changed. No fairness is assumed of `Cancel`, of
  further events, of reloads or of new operations.
- `ProjectCommands!FairSpec`: weak fairness of `Work`, the steps of a command that
  was started: every command line has a timeout (`withDefaultTimeout`) and the
  delays between attempts are timers. Nothing is assumed of requests, of the user
  or of a cancellation.
- `ApplicationForm` and `SupportForm` have safety properties only: whether a user
  goes on filling in a form is not for the code to say.
- `PackageInstall!FairSpec`: the command takes its steps, because every command
  line has a timeout and timers fire. A request need never end.

## 5. What is proved

The proofs hold for every value of the constants that satisfies the named
assumption of the module: any sets of jobs, workers, decisions and transactions,
any number of packages, orgs, tabs, files or commands, any limits. A theorem
assumes nothing else unless its row says so. Each inductive invariant was checked
with TLC on the component's instance before it was proved; the runs list the
promises, not the invariants. `CallsBounded`, `AnswersAreRows`,
`NullOnlyToStrangers`, `JobsHaveReleases` (which the outbox implies) and
`BoundedRequests` are proved and no longer listed by a run.

### The jobs: `P360ArchiveJobsProofs`

| Theorem | Statement | Assumes |
| --- | --- | --- |
| `TypeCorrect` | `Spec => []TypeOK` | |
| `JobInvariant` | `Spec => []JobInv` | `OneScheduler` |
| `ClaimsAreExclusive` | `Spec => []ClaimExclusive` | `OneScheduler` |
| `AttemptsCountCalls` | `Spec => []AttemptsAreCalls` | `OneScheduler` |
| `CallsAreBounded` | `Spec => []CallsBounded` | `OneScheduler` |
| `BackoffKept` | `Spec => BackoffRespected` | `OneScheduler` |
| `ConfirmedSentOnce` | `Spec => ConfirmedNeverRepeated` | `OneScheduler` |
| `ImplementsLifecycle` | `Spec => FollowsLifecycle` | `OneScheduler` |

*The argument.* None of the promises is inductive: that the attempt counter is
the number of calls says nothing of what a worker will still write. `JobInv`
says who owns a row and what the owner owes:

- `RowInv`: a row that can be claimed has attempts left, and only a failed one
  has a wait outstanding;
- `BatchInv`: what a claim has read is still current when it commits (this is
  the part that needs one scheduler);
- `WorkerInv`: a worker's rows are In Progress; those it has not called yet have
  one more attempt counted than calls made, the others have both equal and an
  outcome in memory that fits;
- `ConfirmedInv`: a confirmed row is settled, or In Progress with its call
  behind it, where nothing will ever claim it;
- `ClaimExclusive` and `AttemptsAreCalls` themselves, and `TypeOK`.

`JobInvStep` shows that each action preserves it, one lemma per action. The
action properties follow from `JobInv` at the first state of a step, since a
call is made only for a row in `WorkerInv`'s "still to do". For the refinement,
`StepMovesRows` shows that every step moves each row as an abstract
step or leaves it, and `RowStepIsJobStep` that the phases then move
accordingly.

*The assumption.* `OneScheduler` (at most one execution of the schedulable at a
time) is what the platform gives for a single scheduled job. It cannot be
dropped: `p360_jobs_race` is the counterexample with two.

### Making jobs: `P360JobCreationProofs`

| Theorem | Statement |
| --- | --- |
| `CreationInvariant` | `Spec => []CreationInv` |
| `ReleasesAreQueued` | `Spec => []UpdateReleaseQueued` |
| `JobsAreReleased` | `Spec => []JobsHaveReleases` |
| `AnswersStay` | `Spec => []AnswersAreRows` |
| `NullIsForStrangers` | `Spec => []NullOnlyToStrangers` |
| `NoWaiting` | `Spec => []SavesDoNotWait` |
| `ReleasedStaysLocked` | `Spec => LockedAfterRelease` |
| `ImplementsOutbox` | `Spec => FollowsOutbox` |

*The argument.* The promises are about committed rows, but what commits is
decided in transactions that overlap. `CreationInv` treats row locks and keys as
ownership: a decision is held by one transaction, for which what the guard saw is
still true (`LockInv`); a key has one row, committed or of one transaction
(`KeyInv`); of the decisions a save releases, those it has not asked for are
still to do and the others have their job (`OwedInv`); a transaction asks for one
key at a time (`AskedInv`). `NoWaiting` then is `OwedInv` with `LockInv`: whoever
inserts a decision's key holds the decision. For the refinement, `OneKind` adds that
a transaction is either a save, whose jobs are those of the decisions it releases,
or makes one job of another event; then what `OwedInv` says at a commit is exactly
the step `Release` or `Ask` of the outbox (`CommitIsOutboxStep`), and no other step is
seen (`OtherStepsAreHidden`). The assumption on the constants that
matters here is that decisions are no attachments or documents, as the
idempotency keys have a prefix per kind.

### Installing packages: `PackageInstallProofs`

| Theorem | Statement |
| --- | --- |
| `PackageInvariant` | `Spec => []PackageInv` |
| `SuccessComplete` | `Spec => []SuccessIsComplete` |
| `OrderKept` | `Spec => []InOrder` |
| `PartialToldUnlessThrown` | `Spec => []PartialUnlessThrown` |
| `RequestsBounded` | `Spec => []BoundedRequests` |

*The argument.* The org only gains versions, so what the command once learnt of
it stays true: the plan's up-to-date packages, the succeeded requests and
everything in front of the package at hand (`OrgInv`). Requests exist only up to
the package at hand, of which there are at most as many as attempts, fewer while
one is about to be submitted (`RequestInv`); `CountInv` ties the count of
completed packages, from which the exit code of a failed install is made, to the
plan. It also says why a command was thrown out of once that count is not zero:
the package at hand needs a key that is not there, the signal has come, or the
package was asked for and a query about it failed. That is the only way a plain
failure can come after an install.

### The `.forceignore` transaction: `ForceignoreTransactionProofs`

| Theorem | Statement | Assumes |
| --- | --- | --- |
| `ForceignoreInvariant` | `Spec => []ForceignoreInv` | `~Overlap` |
| `FileNeverLost` | `Spec => []NeverLost` | `~Overlap` |
| `LeaseDurable` | `Spec => []LeaseIsDurable` | `~Overlap` |
| `DoneRestored` | `Spec => DoneMeansRestored` | `~Overlap` |
| `FilesKept` | `Spec => RestoringKeepsFiles` | `~Overlap` |

*The argument.* A step of restoring looks at the file in one step and acts in the
next, and the listener of the same run may act in between, so what a thread has
seen must stay true under everything the other can do. `StageInv` says where the
two threads of a run can stand together; `DiskInv` what a run knows of the marker,
its backup and the file at each step towards the lease; `TransactionInv` that a
marker on the disk names a run that had read the file, whose backup is gone or is
what it read; `FileInv` that a thread reaches the removal of the backup, and then
of the marker, only when the file is what the user had. `OneAlive` (one command
runs at a time) follows from `~Overlap`, and cannot be had without it:
`forceignore_overlap` is the counterexample. The number of commands, crashes and
edits is any.

### Commands and workflows: `ProjectCommandsProofs`

| Theorem | Statement |
| --- | --- |
| `CommandInvariant` | `Spec => []CommandInv` |
| `OnlyConfirmed` | `Spec => []OnlyConfirmedOrgsAreChanged` |
| `RefusedIsHarmless` | `Spec => []RefusedChangesNothing` |
| `AcquiredOrg` | `Spec => []ConfiguresTheAcquiredOrg` |
| `CancelStops` | `Spec => CancelStopsOrgChanges` |
| `WorkflowInvariant` | `Spec => []WorkflowInv` |
| `SuccessMeansComplete` | `Spec => []SuccessIsComplete` |
| `TrackingFollows` | `Spec => TrackingFollowsDeployment` |
| `AttemptsAreBounded` | `Spec => []Bounded` |
| `EveryStepGetsNearer` | `Spec => [][Work => Nearer]_vars` |

*The argument.* The inspection is steps before the change, and the alias moves in
between. `ClearedInv` carries the inspection's answer along: in every stage that
can change an org, the org that the alias names *now* is a scratch org, or gone,
or the confirmation names command and alias. It survives a deletion and a retried
creation, because both leave the alias with no org or with one that was created as
a scratch org, and it is re-established by a creation, whose org is its own
(`AcquiredInv`). `ChangedInv` is what has been changed at each stage, `StageInv`
which requests get there; dry runs never reach a stage that acts. The lemmas
`Changed`, `Deleted` and `TakenIsSafe` are the three ways an org is changed;
`EndInv`, `ThrowInv`, `StageStep` and `StayInv` the four ways a step goes on; each
action is a combination. The proof assumes `DetailsAreTrue`: an org that the
Salesforce CLI describes with the marks of a scratch org is one.

That success leaves nothing out is a second invariant on top of the first,
`WorkflowInv`. `Progress(o)` says, for the org `o` the alias names, that whatever was
asked for is either still to come or in `applied`: a selected step is in `todo` or
done, a step whose first command has worked counts as done (so the dummy users,
which come after the commands of `data`, cannot end a step that did nothing), the
packages are behind every stage after `packages`, the reset of the tracking is
behind `refresh`. `WalkInv` says which stages a workflow goes through and that
commands of a step are counted only there, `ResetInv` that a tracking reset is
only found when no step is left. Cancellations, retries and lost replies do not
move the cursor, which is why they cannot leave a stage out. A creation that fails
after the org is there does not get to `SUCCESS` by `ExitOf`. The proof uses
`StepNames`: step names are strings, the `deploy` step needs no configured value
(it always has its command), and no step of a project is called `tracking`, which
is only the name the history `applied` uses for the reset.

`EveryStepGetsNearer` is what `EveryCommandEnds` rests on: each step of a running
command goes to a later stage in `StageRank`, or has fewer steps left, or is at a
later command of the same step, or at a later attempt of the same command; there
are finitely many of each (`Bounded`, and `WalkInv` for the coverage check). What
is left to fairness is only that a step is taken. The retries of
`runCommandStep`, the fallback from the pool to a creation and the restarted
tests are the places where the code could have gone round in a circle.

### The web server and the dashboard: `WebDashboardProofs`

| Theorem | Statement |
| --- | --- |
| `WebInvariant` | `Spec => []WebInv` |
| `OneTerminalEventAlways` | `Spec => []OneTerminalEvent` |
| `WithinLimitsAlways` | `Spec => []WithinLimits` |
| `StreamsMissNothingAlways` | `Spec => []StreamsMissNothing` |
| `ShownEndsAreTrueAlways` | `Spec => []ShownEndsAreTrue` |

*The argument.* `LogInv`: a history is ordered by number, has one tick at most and,
once the operation has ended, the end as its last event. Taking a tick out and
cutting at the front keep the order and the last event, and the numbers go on from
the last one, so they are new (`Published`). `QueueInv`: what is on its way on a
stream is ordered, is not newer than what was published, and if it is an end it is
the true one; and nothing that is kept and newer than something on its way is
missing. A replay is the history itself, and a live event is newer than all of it,
which is why the two join whatever the limit has dropped in between. A stream the
browser has closed gets nothing, but still counts (`deaf`). `LimitInv`: only
`Subscribe` adds a subscriber, one, after comparing both counts. `ClientInv`: a list
the server has answered and the page has not shown yet is as true as the one shown
about what has ended, because an end is final; so a late reload may show too little
but never a wrong end. The number of operations, connections, events and reloads is
any, and the limits are any positive numbers.

### The application form: `ApplicationFormProofs`

| Theorem | Statement |
| --- | --- |
| `FormInvariant` | `Spec => []FormInv` |
| `DocumentsSubmitted` | `Spec => []SubmittedHasDocument` |
| `OneRequest` | `Spec => []OneRequestPerForm` |
| `RemovedStaysAway` | `Spec => []RemovedIsNotSentAgain` |
| `HiddenAwaits` | `Spec => []HiddenFormsAwaitAnAnswer` |
| `MovesForward` | `Spec => UpToDateFormsMoveForward` |

*The argument.* `HiddenInv`: a form is hidden exactly while it has a request, which
is what keeps a second one away. `DeletionInv`: a record that is being deleted for
a form is in neither its rows nor its request, for a form loads its rows before it
can ask for a deletion. `DocumentInv`: what a form was shown of the document stays
true however stale its status is, because documents are never taken away and
"Additional Information Required" is only reached by applications that were
submitted with one.

### The support form: `SupportFormProofs`

| Theorem | Statement |
| --- | --- |
| `SupportInvariant` | `Spec => []SupportInv` |
| `OneDraft` | `Spec => []OneDraftPerForm` |
| `Thanks` | `Spec => []ThanksAreEarned` |
| `FilesSubmitted` | `Spec => SubmittedHasItsFiles` |
| `SubmittedStays` | `Spec => SubmittedSurvivesCleaning` |

*The argument.* `DraftInv`: the request for the draft is made once, before anything
exists, and nobody but its answer knows the draft's id. `FileInv`: a file that is
not linked to the draft was uploaded before the page knew the draft, so it is in
the list of every submission that has the draft's id; when the links are made the
rest follows. `ThreadInv`: every answer that leads to the thanks comes after a
thread.

### Only model-checked

The liveness properties (`EventuallySettled`, `DrainsWhenOff`, `RunningSettles`,
`EventuallyEnds`, `EveryCommandEnds`): fairness and ENABLED are beyond the proof
system used. Of the last one the measure is proved, as said above. The properties
of the runs that expect a violation are refuted, of course. Everything else the
runs check is proved. No module declares a recursive operator.

## 6. Findings

Each is a disagreement between the code and a sentence of the repository, shown
by a run and quoted in `PROJECT.json`.

1. *Two overlapping claims hand out the same row* (`p360_jobs_race`). The claim
   query does not lock (`P360_ArchiveJobClaimService.cls` l.30-55); the P360
   walkthrough says the lease prevents two workers from picking up one row.
2. *Two refreshes at once can lose `.forceignore`* (`forceignore_overlap`): the
   second recovers the transaction of the first while it is live. The web server
   does not serialise operations, so this needs no second terminal.
3. *A creation with an unknown post-step deletes the org first*
   (`workflow_unknown_step`). The check of the names is in `configureProject`; the
   server relies on it, and `createOrg` calls it after the old org is gone and a
   new one is there. The command line checks the names while it parses.

Met while modelling, visible by reading, and not given a run:

- a worker that is rolled back leaves its rows In Progress for ever: nothing reads
  the expired lease, although the data-model document says the rows are taken up
  again. Exactly because of this a confirmed archiving is never repeated; lease
  recovery would need P360 to recognise the repetition;
- a decision *inserted* as released gets no job: the guard admits it, the handler
  has no after-insert part;
- the interrupt handler and the `finally` block of a refresh restore at the same
  time: one of the two fails unhandled and may end the process in the middle of
  the other's copy. The backup is still there and the next command recovers it
  (`NeverLost`);
- "successful earlier installs followed by failure produce partial completion
  unless the failure is classified as authentication/authorization"
  (`docs/workflows.md` l.76) holds of installs that fail, not of commands that are
  thrown out of. A missing installation key (`package-operations.ts` l.400), a query
  that fails while an install is polled (l.493) and an abort are exceptions, whose
  code the callers choose without `completedInstalls`: 1, a plain failure, or 4.
  `PartialUnlessThrown` names these three and excludes any other;
- the test `shouldResetAdditionalInformationApplicationToNew`
  (`AAREG_ApplicationControllerTest.cls` l.79-121) says that processing an
  application in "Additional Information Required" resets it to "New". The
  controller sets "In Progress" (l.140), and so does the model; the page, too,
  treats it as an answer (`AA_changesInApplication__c`, the navigation with `AIR`).
  The test's record has no id, which a form that was asked always sends. With such
  a record "New" can only come about for a user without the right to `Status__c`,
  by `sanitizeApplicationForDml` and the default of the field;
- the permission set of the portal has no `AA_ApplicationArchived__c`, so that the
  `false` an answered request sets there (l.138) is left out before it is written;
- a reload of the dashboard can drop an operation that was just started from the
  list, until the next reload;
- the support form enables the upload before the draft exists, and makes no draft
  at all when the first change has an e-mail address that is not valid; the
  comments there say that files are only uploaded to a draft. The links of
  `enrichUploadedFiles` make up for the first (`SubmittedHasItsFiles`), and a
  submission without a draft is never thanked for (`ThanksAreEarned`).

## 7. What the properties do not say

- *`.forceignore`.* What the user writes between the second look at the file and
  its removal (l.301, l.305) is lost; `NeverLost` is stated for commands during
  which the user leaves the file alone (`Undisturbed`). A crash between the
  removal of the backup and that of the marker leaves a marker without a backup;
  the file is there, but every later command refuses to run until somebody
  removes the marker. The properties allow that. The temporary
  file of the marker is left out, since nothing reads it. What the command does
  under the lease is one step.
- *Web.* `RunningSettles` is about a dashboard that is loaded once. A reload that
  puts an old "running" back before the effect has seen the end of the operation
  leaves the effect's inputs as they were, and no stream is opened; the window is
  one React render. Streams that were refused or ended by the server are not
  retried by the client, and the property excepts them (`unheard`). HTTP parsing,
  authentication and static files are left out.
- *Packages.* Other administrators only raise versions; an uninstall meanwhile
  would break `SuccessIsComplete` for any implementation. A package that is
  there may still be reported as failed, when the query after a timeout fails.
  A plain failure does not say that nothing was installed: what was thrown has the
  same code, and so has a package that came after its command had given it up.
  A request may end after its command has.
- *Workflows.* Which packages and which sources is not asked here; each is one
  stage. A configuration through the server without an alias inspects the target
  of the CLI and configures `defaultOrgAlias`; `OnlyConfirmedOrgsAreChanged` speaks
  of commands that name their org. `CancelStopsOrgChanges` has the exception the
  code makes: packages do not get the signal. While a command is under way the
  default target moves (`SwitchTarget`), and so do the org and its alias by the
  command's own lost replies; nobody else gives a named alias to another org. What
  a command changes outside the
  org and the project is left out.
- *Application form.* A form that is not up to date may move an application back,
  to "Draft" or out of a case worker's hands: `UpToDateFormsMoveForward` excepts it
  by name. A user without the right to the status sees the receipt of a submission
  that has left a draft a draft; the property allows it, as nothing goes back.
  After the answer to a save the form can be used until the navigation
  has happened; a save of a new application pressed then makes a second one.
- *Support form.* The texts of the fields are left out: an update that comes late
  may bring an older text back. A submission repeated after failed links makes a
  second thread for the inquiry. An inquiry that the nightly flow has already
  selected as a draft is deleted although it is submitted meanwhile
  (`SubmittedSurvivesCleaning` excepts it). The attachments of a question about an
  application stay on the draft and go with it.
- *P360.* The adapter in the repository is a mock; a call is one step with the
  four outcomes the worker distinguishes. Governor limits appear only as
  rollbacks.

## 8. Plan

The order was by how much depends on the component. Done:

1. `P360ArchiveJobs` with its abstract specification and its proofs;
2. `P360JobCreation` with its abstract specification and its proofs;
3. `ForceignoreTransaction` and its proofs;
4. `WebOperations`, then `WebDashboard` on top of it, and their proofs;
5. `PackageInstall` and its proofs;
6. `OrgWorkflow`, then `ProjectCommands` on top of it, and their proofs;
7. `ApplicationForm` and `SupportForm`, each with its proofs.

Left, in this order:

8. *Abstract specifications*: a file that is disabled and restored atomically,
   implemented by `ForceignoreTransaction`; a plan that only grows, implemented by
   `PackageInstall`, so that `OrgWorkflow` could take it for its package stage.
9. *Agreements* and *distribution access*, once the repository says what a failed
   update or a failed callout should leave behind.

The runs are grouped so that one instance answers all questions about one
component that need the same environment; a new component takes one passing run
and at most one per finding.
