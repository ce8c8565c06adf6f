---------------------------- MODULE ProjectCommands ----------------------------
(***************************************************************************)
(* One command of sf-project, from the command line (cli-app.ts) or from   *)
(* the local server (web/server.ts, web-service-facade.ts), against a set  *)
(* of orgs: what the two adapters accept, how they classify the org before *)
(* it is changed (org-inspection.ts, org-policy.ts), the workflow they     *)
(* start (OrgWorkflow) and the exit code they end with.                    *)
(***************************************************************************)
EXTENDS OrgWorkflow

CONSTANTS
    Details,   \* per org: its lists and the fields that classify it
    StepSets,  \* the selections of post-steps a request may make
    ConfigSteps, \* postSteps of sf-project.config.json, checked by its schema
    Target0, Holder0

VARIABLE switched  \* the user has changed target-org while a command ran

vars == <<workflowVars, switched>>

----------------------------------------------------------------------------
(* What an inspection answers *)

SourceClass == [scratchOrgs |-> "scratch", sandboxes |-> "sandbox", devHubs |-> "dev-hub"]
SourcePriority ==
    [scratchOrgs |-> 4, sandboxes |-> 3, devHubs |-> 2, nonScratchOrgs |-> 1]

\* The list an org is in decides, then its fields in this order.
ClassifyOrg(details, source) ==
    IF source \in DOMAIN SourceClass THEN SourceClass[source]
    ELSE IF details.isDevHub THEN "dev-hub"
    ELSE IF details.scratchMark THEN "scratch"
    ELSE IF details.edition # "other" THEN details.edition
    ELSE details.instance

\* An org in several lists is taken from the one of the highest priority.
ListedClass(o) ==
    IF o = NoOrg THEN "unknown"
    ELSE LET lists == Details[o].lists
         IN  ClassifyOrg(Details[o], CHOOSE s \in lists :
                 \A t \in lists : SourcePriority[s] >= SourcePriority[t])

\* The fields that mark an org as scratch are those of scratch orgs.
ASSUME DetailsAreTrue ==
    \A o \in Orgs : /\ Details[o].lists # {}
                    /\ "scratch" \in {ListedClass(o), ClassifyOrg(Details[o], "display")}
                           => o \in Scratch

ASSUME OrgsAreNamed ==
    Holder0 \in [Aliases -> Orgs \cup {NoOrg}] /\ Target0 \in Aliases \cup {NoAlias}

\* target-org of the Salesforce CLI, whatever defaultOrgAlias says.
GetDefaultOrg == target

\* The org that target-org names, from the list of orgs.
GetOrgStatus ==
    IF GetDefaultOrg = NoAlias THEN {}
    ELSE {[class |-> ListedClass(holder[GetDefaultOrg]), name |-> GetDefaultOrg,
           lapsed |-> FALSE]}

\* The org is displayed; when that fails its class is unknown.
DisplayOrg(o) == {"unknown"} \cup IF o = NoOrg THEN {} ELSE {ClassifyOrg(Details[o], "display")}

\* The session of the org, or the org itself, may have expired.
GetOrgInfo(alias) ==
    [class : DisplayOrg(holder[alias]), name : {alias}, lapsed : BOOLEAN]

Inspections == IF op.alias = NoAlias THEN GetOrgStatus ELSE GetOrgInfo(op.alias)

----------------------------------------------------------------------------
(* Requests *)

Plain ==
    [command |-> "none", via |-> "cli", alias |-> NoAlias, steps |-> ConfigSteps,
     token |-> << >>, confirmed |-> FALSE, dryRun |-> FALSE, apply |-> FALSE,
     pool |-> FALSE, devHub |-> FALSE, fallback |-> FALSE, clear |-> FALSE,
     skipPackages |-> FALSE, fullDeploy |-> FALSE, refresh |-> FALSE]

Names == Aliases \cup {NoAlias}
Tokens(command) == {<< >>} \cup ({command} \X Aliases)
Targets(via) == IF via = "web" THEN Aliases ELSE Names

\* The options of the pool matter only when it is used.
PoolOptions ==
    {p \in [pool : BOOLEAN, devHub : BOOLEAN, fallback : BOOLEAN] : ~p.pool => ~p.devHub /\ ~p.fallback}

\* The dependency sources are cleared and retrieved in the same runs.
CreateRequest(via, a, s, p, c, d) ==
    [Plain EXCEPT !.command = "org.create", !.via = via, !.alias = a, !.steps = s,
        !.pool = p.pool, !.devHub = p.devHub, !.fallback = p.fallback,
        !.clear = c, !.refresh = c, !.dryRun = d]
CreateRequests(via) ==
    {CreateRequest(via, a, s, p, c, d)
     : a \in Targets(via), s \in StepSets, p \in PoolOptions, c, d \in BOOLEAN}

DeleteRequest(via, a, t, c, d) ==
    [Plain EXCEPT !.command = "org.delete", !.via = via, !.alias = a, !.token = t,
        !.confirmed = c, !.dryRun = d]
DeleteRequests(via) ==
    {DeleteRequest(via, a, t, c, d)
     : a \in Targets(via), t \in Tokens("org.delete"), c, d \in BOOLEAN}

\* fullDeploy is an option of the command line only.
ConfigureRequest(via, a, s, t, k, r, d, f) ==
    [Plain EXCEPT !.command = "project.configure", !.via = via, !.alias = a,
        !.steps = s, !.token = t, !.skipPackages = k, !.fullDeploy = f,
        !.refresh = r, !.dryRun = d]
ConfigureRequests(via) ==
    {ConfigureRequest(via, a, s, t, k, r, d, f)
     : a \in Names, s \in StepSets, t \in Tokens("project.configure"),
       k, r, d \in BOOLEAN, f \in {b \in BOOLEAN : b => via = "cli"}}

PackageRequest(c, via, a, t, d) ==
    [Plain EXCEPT !.command = c, !.via = via, !.alias = a, !.token = t, !.dryRun = d]
PackageRequests(via) ==
    UNION {{PackageRequest(c, via, a, t, d)
            : a \in Names, t \in Tokens(c), d \in BOOLEAN}
           : c \in {"packages.install", "packages.update"}}

\* A refresh cannot carry a confirmation; it has its own kind of dry run.
RefreshRequest(via, a, d) ==
    [Plain EXCEPT !.command = "dependencies.refresh", !.via = via, !.alias = a,
        !.refresh = TRUE, !.dryRun = d]
RefreshRequests(via) == {RefreshRequest(via, a, d) : a \in Names, d \in BOOLEAN}

LocalRequests(command, via) ==
    {[Plain EXCEPT !.command = command, !.via = via, !.dryRun = d] : d \in BOOLEAN}

CoverageRequests ==
    {PackageRequest("coverage.check", "cli", a, t, d)
     : a \in Names, t \in Tokens("coverage.check"), d \in BOOLEAN}

----------------------------------------------------------------------------
(* The command line *)

\* An alias, or defaultOrgAlias.
RequireAlias(r) == IF r.alias = NoAlias THEN [r EXCEPT !.alias = DefaultAlias] ELSE r

Begin(r, stage) ==
    /\ pc = "idle" /\ op' = r /\ pc' = stage
    /\ UNCHANGED <<todo, part, attempt, acquired, ending, aborted, orgVars, switched>>

\* Before the workflow: a configuration that is missing or not valid, an alias
\* or a post-step that is not there.
Reject(r, code) ==
    /\ pc = "idle" /\ op' = r /\ pc' = "ended" /\ exit' = code /\ thrown' = TRUE
    /\ UNCHANGED <<todo, part, attempt, acquired, aborted, orgVars, switched>>

\* loadProjectConfiguration: a file is missing, is not valid, or has dependencies
\* without a directory.
LoadFails(r) == \E code \in {"INVALID", "MISSING", "FAILURE"} : Reject(r, code)

\* parsePostSteps: only names of steps, or `all`, `none` and the configured ones.
ParsePostSteps(steps) == ~UnknownStep(steps)

Accept(r, valid, stage) ==
    \/ IF valid THEN Begin(r, stage) ELSE Reject(r, "INVALID")
    \/ LoadFails(r)

\* The class is inspected only for a real run.
AfterLoad(r, stage) == IF r.dryRun THEN stage ELSE "inspect"

CliCreate ==
    \E q \in CreateRequests("cli") : LET r == RequireAlias(q) IN
        Accept(r, r.alias # NoAlias /\ ParsePostSteps(r.steps), "pool")

\* A dry run is checked as if the org were a scratch org.
CliDelete ==
    \E q \in DeleteRequests("cli") : LET r == RequireAlias(q) IN
        Accept(r, r.alias # NoAlias, AfterLoad(r, "policy"))

CliConfigure ==
    \E q \in ConfigureRequests("cli") : LET r == RequireAlias(q) IN
        Accept(r, r.alias # NoAlias /\ ParsePostSteps(r.steps), AfterLoad(r, "configure"))

CliPackages ==
    \E r \in PackageRequests("cli") : Accept(r, TRUE, AfterLoad(r, "packages"))

CliRefresh == \E r \in RefreshRequests("cli") : Accept(r, TRUE, "refresh")
CliClear == \E r \in LocalRequests("dependencies.clear", "cli") : Accept(r, TRUE, "clear")

CliCoverage ==
    \E q \in CoverageRequests : LET r == RequireAlias(q) IN
        Accept(r, r.alias # NoAlias, AfterLoad(r, "coverage"))

\* recover does not load the configuration.
CliRecover == \E r \in LocalRequests("dependencies.recover", "cli") : Begin(r, "recover")

CliCheckVersions ==
    \E a \in BOOLEAN :
        Accept([Plain EXCEPT !.command = "packages.check-versions", !.apply = a], TRUE, "versions")

CliDoctor == Begin([Plain EXCEPT !.command = "doctor"], "doctor")
CliOrgRead ==
    \E c \in {"org.list", "org.status", "org.info"} : Begin([Plain EXCEPT !.command = c], "read")
CliPlan == Accept([Plain EXCEPT !.command = "packages.plan"], TRUE, "read")

\* assertMutationTarget throws out of the command, except out of the coverage
\* check, which turns every error into a failure.
AssertMutationTarget ==
    /\ pc = "inspect" /\ op.via = "cli" /\ op.command # "org.delete"
    /\ UNCHANGED <<attempt, orgVars>>
    /\ \/ \E i \in Inspections :
            IF MutationAllowed(i.class, op.command, i.name)
            THEN Go(CASE op.command = "project.configure" -> "configure"
                      [] op.command = "coverage.check" -> "coverage"
                      [] OTHER -> "packages")
            ELSE IF op.command = "coverage.check" THEN End("FAILURE") ELSE Throw("INVALID")
       \/ op.alias = NoAlias /\ Throw("FAILURE")

CliInspectDelete ==
    /\ op.command = "org.delete" /\ op.via = "cli" /\ UNCHANGED <<attempt, orgVars>>
    /\ \/ pc = "policy" /\ DeleteOrg("scratch")
       \/ /\ pc = "inspect"
          /\ \E i \in GetOrgInfo(op.alias) :
                IF i.lapsed THEN End("AUTH") ELSE DeleteOrg(i.class)

----------------------------------------------------------------------------
(* The server *)

\* validPayload: an org to create or delete is named, a real deletion is
\* confirmed.  The names of the post-steps are not looked at.
ValidPayload(r) ==
    r.command = "org.delete" => r.dryRun \/ r.confirmed \/ r.token # << >>

WebRequests ==
    CreateRequests("web") \cup DeleteRequests("web") \cup ConfigureRequests("web")
        \cup PackageRequests("web") \cup RefreshRequests("web")
        \cup LocalRequests("dependencies.clear", "web")
        \cup LocalRequests("packages.plan", "web")

\* Dry runs, plans, clearings and creations have no org to be checked.
MutationTarget(r) ==
    ~r.dryRun /\ r.command \notin {"org.create", "packages.plan", "dependencies.clear"}

PostOperation ==
    \E r \in {q \in WebRequests : ValidPayload(q)} :
        Begin(r, IF MutationTarget(r) THEN "inspect" ELSE "execute")

\* Refused, or an inspection that fails: there is no operation.
Preauthorize ==
    /\ pc = "inspect" /\ op.via = "web" /\ UNCHANGED <<attempt, orgVars>>
    /\ \/ \E i \in Inspections :
            IF MutationAllowed(i.class, op.command, i.name) THEN Go("execute") ELSE End("REFUSED")
       \/ op.alias = NoAlias /\ End("REFUSED")

\* The facade loads the configuration; a deletion is inspected once more.
Execute ==
    /\ pc = "execute" /\ UNCHANGED <<attempt, orgVars>>
    /\ \/ Throw("INVALID")
       \/ IF op.command = "org.delete"
          THEN \E i \in GetOrgInfo(op.alias) : DeleteOrg(i.class)
          ELSE Go(CASE op.command = "org.create" -> "pool"
                    [] op.command = "project.configure" -> "configure"
                    [] op.command = "dependencies.clear" -> "clear"
                    [] op.command = "dependencies.refresh" -> "refresh"
                    [] op.command = "packages.plan" -> "read"
                    [] OTHER -> "packages")

Cancel ==
    /\ op.via = "web" /\ pc \notin {"idle", "inspect", "ended"} /\ ~aborted
    /\ aborted' = TRUE
    /\ UNCHANGED <<op, cursor, acquired, ending, orgVars, switched>>

----------------------------------------------------------------------------
(* Commands without an org *)

Read ==
    /\ pc = "read" /\ UNCHANGED <<attempt, orgVars>>
    /\ Throw("FAILURE") \/ \E code \in {"SUCCESS", "FAILURE", "AUTH"} : End(code)

SelectExitCode(codes) ==
    CASE "MISSING" \in codes -> "MISSING" [] "INVALID" \in codes -> "INVALID"
      [] "AUTH" \in codes -> "AUTH" [] OTHER -> "SUCCESS"

\* Node, sf, the configuration, the orgs when sf works, sfp when a pool is used.
Doctor ==
    /\ pc = "doctor" /\ UNCHANGED <<attempt, orgVars>>
    /\ \E node, sf, config, auth, sfp \in BOOLEAN :
        End(SelectExitCode(
            (IF node /\ sf /\ (~config \/ sfp) THEN {} ELSE {"MISSING"})
                \cup (IF config THEN {} ELSE {"INVALID"})
                \cup (IF ~sf \/ auth THEN {} ELSE {"AUTH"})))

Recover ==
    /\ pc = "recover" /\ UNCHANGED attempt
    /\ \/ UNCHANGED orgVars /\ \E code \in {"SUCCESS", "FAILURE"} : End(code)
       \/ ~op.dryRun /\ Changes("forceignore", NoOrg) /\ End("SUCCESS")

\* sfdx-project.json is copied and then replaced by a rename.
CheckVersions ==
    /\ pc = "versions" /\ UNCHANGED attempt
    /\ \/ UNCHANGED orgVars /\ (End("SUCCESS") \/ Fails)
       \/ op.apply /\ Changes("versions", NoOrg) /\ End("SUCCESS")

\* The user changes target-org of the Salesforce CLI in another terminal, once.
\* A command that names its org does not read it.
SwitchTarget ==
    /\ ~switched /\ switched' = TRUE /\ pc \notin {"idle", "ended"}
    /\ op.alias = NoAlias
    /\ target' \in Names \ {target}
    /\ UNCHANGED <<op, cursor, acquired, ending, aborted, holder, unused, applied>>

----------------------------------------------------------------------------
Init ==
    /\ op = Plain /\ pc = "idle" /\ todo = << >> /\ part = 0 /\ attempt = 1
    /\ acquired = NoOrg /\ exit = "none" /\ thrown = FALSE /\ aborted = FALSE
    /\ holder = Holder0 /\ target = Target0 /\ unused = Spare /\ applied = {}
    /\ switched = FALSE

Commands ==
    \/ CliCreate \/ CliDelete \/ CliConfigure \/ CliPackages \/ CliRefresh
    \/ CliClear \/ CliCoverage \/ CliRecover \/ CliCheckVersions
    \/ CliDoctor \/ CliOrgRead \/ CliPlan
    \/ PostOperation

Acquiring ==
    ResolvePoolDevHub \/ DeleteExisting \/ ClearSources \/ AcquireFromPool
        \/ FetchFromPool \/ AcquireByCreation

Configuring ==
    ConfigureProject \/ Install \/ RunPostSteps \/ ResetSourceTracking \/ RefreshDependencies

Work ==
    /\ \/ AssertMutationTarget \/ CliInspectDelete \/ Preauthorize \/ Execute
       \/ Acquiring \/ Configuring \/ DeleteCommand \/ CoverageCheck
       \/ Read \/ Doctor \/ Recover \/ CheckVersions
    /\ UNCHANGED <<op, aborted, switched>>

Next == Commands \/ Work \/ Cancel \/ SwitchTarget

Spec == Init /\ [][Next]_vars

\* Every command has a timeout (withDefaultTimeout), so each stage ends.
FairSpec == Spec /\ WF_vars(Work)

----------------------------------------------------------------------------
(* Properties *)

OrgChanges == {c \in applied : c[2] # NoOrg}

\* A command that names its org changes an org that is no scratch org only when
\* its confirmation names that command and that alias: whatever the
\* inspections answered, whoever else moves the target of the CLI, and however
\* often the command was retried (assertMutationTarget, the preauthorization of
\* the server and deleteOrg).
OnlyConfirmedOrgsAreChanged ==
    op.alias # NoAlias =>
        \A c \in OrgChanges : c[2] \in Scratch \/ op.token = <<op.command, op.alias>>

\* Success of a workflow means that the org its alias names has the packages,
\* every selected step that is configured, the reset of the tracking after a
\* deployment and, when asked for, that the dependencies were retrieved: no
\* stage is left out by a retry, a cancellation or a fallback of the pool.
SuccessIsComplete ==
    exit = "SUCCESS" /\ Composed /\ ~op.dryRun =>
        LET o == holder[Alias]
        IN  /\ Creates => o = acquired
            /\ ~op.skipPackages => <<"packages", o>> \in applied
            /\ \A s \in op.steps \ Unset : <<s, o>> \in applied
            /\ "deploy" \in op.steps => <<"tracking", o>> \in applied
            /\ op.refresh => <<"sources", NoOrg>> \in applied

\* A refused command, a rejected one and a dry run leave every org and the
\* project as they are.  (An exception out of a workflow may have the exit code
\* of an invalid input after an org was changed: todo then is not empty.)
RefusedChangesNothing ==
    op.dryRun \/ exit = "REFUSED" \/ (exit = "INVALID" /\ todo = << >>) => applied = {}

\* A creation configures the org it has acquired and no other: not the one that
\* had the alias before, nor one that a lost reply has left behind; and when it
\* fails after that without an exception it says that the org is there.
ConfiguresTheAcquiredOrg ==
    Creates =>
        /\ \A c \in OrgChanges : c[1] \in {"delete", "fetch", "create"} \/ c[2] = acquired
        /\ acquired # NoOrg /\ exit # "none" /\ ~thrown => exit \in {"SUCCESS", "PARTIAL", "AUTH"}

\* Once an operation is cancelled no further command changes an org, except
\* for the packages of a workflow, which do not get the signal.
CancelStopsOrgChanges ==
    [][aborted /\ OrgChanges' # OrgChanges => Composed /\ pc = "packages"]_vars

\* The tracking is reset after the deployment to the same org, and no step
\* follows it: an earlier reset would mark the source as synced and the
\* deployment would send nothing.
TrackingFollowsDeployment ==
    [][LET Reset(changes) == {o \in Orgs : <<"tracking", o>> \in changes}
       IN  /\ \A o \in Reset(applied' \ applied) : <<"deploy", o>> \in applied
           /\ Reset(applied) # {} =>
                \A c \in applied' \ applied : c[1] \in {"tracking", "sources"}]_vars

\* What is started ends: the retries are bounded and the commands time out.
EveryCommandEnds == pc # "idle" ~> pc = "ended"

\* "An unrecognized step name is always rejected before any step, package, or
\* org command runs" (org-workflow.ts:257).
UnknownStepChangesNothing == UnknownStep(op.steps) => OrgChanges = {}

----------------------------------------------------------------------------
(* The inductive invariant behind the properties of the orgs *)

CommandTypes ==
    /\ holder \in [Aliases -> Orgs \cup {NoOrg}] /\ unused \subseteq Spare
    /\ target \in Names /\ op.alias \in Names /\ acquired \in Spare \cup {NoOrg}

\* Where a command may be, by the kind of its request.
StageInv ==
    /\ pc \in {"acquire", "fetch", "create", "delete", "versions"} => ~op.dryRun
    /\ pc = "policy" => op.dryRun
    /\ pc = "inspect" => ~Creates
    /\ pc \in {"pool", "discard", "acquire", "fetch", "create"} => Creates
    /\ pc = "coverage" => op.command = "coverage.check" /\ op.via = "cli"
    /\ Creates /\ pc \notin {"idle", "ended"} => op.alias # NoAlias
    /\ aborted => op.via = "web" /\ pc # "idle"

\* What has been changed and ended by then.
ChangedInv ==
    /\ op.dryRun \/ pc \in {"idle", "inspect", "execute", "policy", "pool", "doctor", "read"} => applied = {}
    /\ pc = "configure" => applied = {} \/ (Creates /\ acquired # NoOrg)
    /\ pc # "ended" => exit = "none"
    /\ RefusedChangesNothing

\* A command that may change an org has a scratch org, none, or the confirmation.
Cleared == holder[op.alias] \in Scratch \cup {NoOrg} \/ op.token = <<op.command, op.alias>>
ClearedInv ==
    /\ op.alias # NoAlias /\ ~op.dryRun =>
           /\ pc \in {"configure", "packages", "steps", "coverage", "delete"} => Cleared
           /\ pc = "execute" /\ MutationTarget(op) => Cleared
    /\ OnlyConfirmedOrgsAreChanged

\* A creation has no org, and then the one its alias names.
AcquiredInv ==
    /\ pc \in {"idle", "inspect", "execute", "pool", "discard", "clear", "acquire", "fetch", "create"}
           => acquired = NoOrg
    /\ Creates /\ ~op.dryRun /\ pc \in {"configure", "packages", "steps"} =>
           acquired # NoOrg /\ holder[op.alias] = acquired
    /\ ConfiguresTheAcquiredOrg

CommandInv == CommandTypes /\ StageInv /\ ChangedInv /\ ClearedInv /\ AcquiredInv

----------------------------------------------------------------------------
(* The inductive invariant behind the properties of the workflows *)

\* Where the workflows go, and which steps and commands are left there.
WalkInv ==
    /\ todo \in Seq(KnownSteps) /\ part \in Nat
    /\ Composed => pc \in {"idle", "inspect", "execute", "pool", "discard", "clear", "acquire",
                          "fetch", "create", "configure", "packages", "steps", "refresh", "ended"}
    /\ pc = "clear" /\ Composed => Creates
    /\ pc \in {"configure", "steps"} => Composed
    /\ pc \notin {"steps", "refresh", "coverage", "ended"} => part = 0
    /\ pc = "coverage" => part \in 0 .. 3

\* What has been done to the org the alias names: the packages, every selected
\* step that is not to come, a step of which one command has worked, and then
\* the reset of the tracking.
Progress(o) ==
    /\ op.steps \subseteq KnownSteps /\ Alias # NoAlias
    /\ Creates => o = acquired
    /\ pc = "packages" \/ op.skipPackages \/ <<"packages", o>> \in applied
    /\ \A s \in op.steps \ Unset : s \in ToSet(todo) \/ <<s, o>> \in applied
    /\ pc = "steps" /\ part > 0 => todo # << >> /\ <<Step, o>> \in applied
    /\ pc = "refresh" => todo = << >> /\ ("deploy" \in op.steps => <<"tracking", o>> \in applied)
ProgressInv ==
    /\ Composed /\ ~op.dryRun /\ pc \in {"packages", "steps", "refresh"} => Progress(holder[Alias])
    /\ SuccessIsComplete

\* The tracking is reset when no step is left.
ResetInv ==
    \A o \in Orgs : <<"tracking", o>> \in applied =>
        pc \in {"refresh", "ended"} \/ (pc = "steps" /\ todo = << >>)

WorkflowInv == WalkInv /\ ProgressInv /\ ResetInv
=============================================================================
