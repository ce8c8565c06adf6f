------------------------------ MODULE OrgWorkflow ------------------------------
(***************************************************************************)
(* The workflows of sf-project that change an org: acquiring a scratch org *)
(* and configuring it, configuring an existing org, deleting one           *)
(* (application/org-workflow.ts), with the services they are composed of:  *)
(* the dummy users, the dependency sources, the coverage check, and the    *)
(* command runner with its retries and its cancellation.                   *)
(*                                                                         *)
(* One operation is a walk through stages.  Each stage is an external      *)
(* command that works, fails, is lost on its way back, or is killed by the *)
(* signal.  The packages (PackageInstall) and the .forceignore transaction *)
(* (ForceignoreTransaction) are one stage each here.                       *)
(***************************************************************************)
EXTENDS Naturals, Sequences, SequencesExt, FiniteSets

CONSTANTS
    Orgs,          \* the orgs, with those that can still be created
    Scratch,       \* the scratch orgs among them
    Spare,         \* the scratch orgs that do not exist yet
    Aliases, NoAlias, NoOrg,
    DefaultAlias,  \* defaultOrgAlias of sf-project.config.json
    Builtin,       \* BUILTIN_POST_STEPS, in order
    Custom,        \* customPostSteps, in order
    Unset,         \* built-in steps without a configured value
    Unknown,       \* names a request may give that are no step
    NumCommands,   \* per step: the commands it runs
    MaxAttempts    \* retry.maxAttempts: 3

CanonicalSteps == Builtin \o Custom
KnownSteps == ToSet(CanonicalSteps)

ASSUME WorkflowConstants ==
    /\ Spare \subseteq Scratch /\ Scratch \subseteq Orgs /\ NoOrg \notin Orgs
    /\ NoAlias \notin Aliases /\ DefaultAlias \in Aliases \cup {NoAlias}
    /\ Unset \subseteq ToSet(Builtin) /\ Unknown \cap KnownSteps = {}
    /\ NumCommands \in [KnownSteps -> Nat \ {0}]
    /\ MaxAttempts \in Nat \ {0}
    /\ IsFiniteSet(Spare) /\ Cardinality(Spare) >= MaxAttempts

\* `deploy` has its command whatever is configured, and no step has the name
\* under which the reset of the tracking is remembered here.
ASSUME StepNames ==
    /\ {Builtin, Custom} \subseteq Seq(STRING)
    /\ "deploy" \notin Unset /\ "tracking" \notin KnownSteps

VARIABLES
    op,        \* the request: command, adapter, alias, steps and flags
    pc,        \* its stage
    todo,      \* post-steps to go through
    part,      \* commands of the current step that have worked
    attempt,   \* the attempt of the current command
    acquired,  \* the org this operation has acquired
    exit,      \* the exit code
    thrown,    \* an exception left the workflow
    aborted,   \* the operation's AbortController has fired
    holder,    \* what each alias names
    target,    \* target-org of the Salesforce CLI
    unused,    \* scratch orgs still to be created
    applied    \* history: what was changed, in which org

cursor == <<pc, todo, part, attempt>>
ending == <<exit, thrown>>
orgVars == <<holder, target, unused, applied>>
workflowVars == <<op, cursor, acquired, ending, aborted, orgVars>>

Creates == op.command = "org.create"
Composed == op.command \in {"org.create", "project.configure"}
\* Mutant: the configured alias is preferred to the one of the request.
AliasOfConfig == IF DefaultAlias = NoAlias THEN op.alias ELSE DefaultAlias

Alias == IF op.alias = NoAlias THEN DefaultAlias ELSE op.alias

----------------------------------------------------------------------------
(* How an operation ends *)

\* createOrg turns the failure of the configuration of an acquired org into
\* a partial completion.
ExitOf(code) ==
    IF Creates /\ acquired # NoOrg /\ code \notin {"SUCCESS", "AUTH"}
    THEN "PARTIAL" ELSE code

End(code) ==
    /\ pc' = "ended" /\ exit' = ExitOf(code)
    /\ UNCHANGED <<todo, part, thrown, acquired>>

\* An exception goes past the workflow: the command line maps it by its kind,
\* the server to a failure.
Throw(code) ==
    /\ pc' = "ended" /\ thrown' = TRUE
    /\ exit' = IF op.via = "web" THEN "FAILURE" ELSE code
    /\ UNCHANGED <<todo, part, acquired>>

Go(stage) == pc' = stage /\ UNCHANGED <<todo, part, ending, acquired>>

----------------------------------------------------------------------------
(* The command runner *)

\* Mutant: the post-steps do not get the signal either.
SignalledUpToSteps(stage) ==
    op.via = "web" /\ ~(Composed /\ stage \in {"packages", "steps", "refresh"})

\* withCommandOutput hands the signal of the operation to the command.  The
\* workflow does not hand it to the packages and the dependency refresh.
Signalled(stage) ==
    op.via = "web" /\ ~(Composed /\ stage \in {"packages", "refresh"})

\* A command that was killed late had its effect before the signal.
Killed(stage) == aborted /\ Signalled(stage)

Changes(what, o) ==
    /\ applied' = applied \cup {<<what, o>>}
    /\ UNCHANGED <<holder, target, unused>>

Fails == \E code \in {"FAILURE", "AUTH"} : End(code)

\* Mutant: the count of the attempts starts again.
RetriedForEver(stage, Effect, Lost, Done) ==
    \/ ~Killed(stage) /\ Effect /\ Done /\ attempt' = 1
    \/ /\ attempt' = (attempt % MaxAttempts) + 1
       /\ UNCHANGED <<pc, todo, part, acquired, ending, orgVars>>
    \/ UNCHANGED orgVars /\ Fails /\ attempt' = 1

\* A command is tried again when its output has a transient signature, whether
\* or not it failed.  Lost is what is left of it when the reply is not seen.  A
\* signal kills the attempt, or throws out of the delay before it.
Retried(stage, Effect, Lost, Done) ==
    \/ ~Killed(stage) /\ Effect /\ Done /\ attempt' = 1
    \/ /\ ~Killed(stage) /\ attempt < MaxAttempts /\ attempt' = attempt + 1
       /\ Effect \/ Lost \/ UNCHANGED orgVars
       /\ UNCHANGED <<pc, todo, part, acquired, ending>>
    \/ (Lost \/ UNCHANGED orgVars) /\ ~Killed(stage) /\ Fails /\ attempt' = 1
    \/ /\ Killed(stage) /\ UNCHANGED orgVars /\ attempt' = 1
       /\ Fails \/ (attempt > 1 /\ Throw("FAILURE"))

\* runCommandStep: one command of a stage, with the common retry policy.
RunCommandStep(stage, Effect, Done) == Retried(stage, Effect, Effect, Done)

----------------------------------------------------------------------------
(* Acquiring a scratch org *)

\* The pool needs a Dev Hub, from the request, the configuration or the CLI.
ResolvePoolDevHub ==
    /\ pc = "pool"
    /\ IF op.pool /\ ~op.devHub THEN End("INVALID") ELSE Go("discard")
    /\ UNCHANGED <<attempt, orgVars>>

\* sf org delete scratch: only a scratch org can be deleted this way.
Deletes(alias) ==
    /\ holder[alias] \in Scratch
    /\ applied' = applied \cup {<<"delete", holder[alias]>>}
    /\ holder' = [holder EXCEPT ![alias] = NoOrg]
    /\ UNCHANGED <<target, unused>>

AfterClear == IF op.dryRun THEN "configure" ELSE "acquire"

\* Mutant: a dry run deletes too.
DeleteExistingAnyway ==
    /\ pc = "discard" /\ UNCHANGED attempt
    /\ UNCHANGED orgVars \/ Deletes(op.alias)
    /\ Go(IF op.clear THEN "clear" ELSE AfterClear)

\* The org that has the alias is deleted; when that fails the workflow goes on.
DeleteExisting ==
    /\ pc = "discard" /\ UNCHANGED attempt
    /\ \/ UNCHANGED orgVars
       \/ ~op.dryRun /\ ~Killed("discard") /\ Deletes(op.alias)
    /\ Go(IF op.clear THEN "clear" ELSE AfterClear)

\* Entries of the dependency roots are removed one by one; a path that is not
\* contained, or changes meanwhile, throws.
ClearSources ==
    /\ pc = "clear" /\ UNCHANGED attempt
    /\ \/ /\ IF op.dryRun THEN UNCHANGED orgVars ELSE Changes("sources", NoOrg)
          /\ IF Creates THEN Go(AfterClear) ELSE End("SUCCESS")
       \/ /\ UNCHANGED orgVars \/ (~op.dryRun /\ Changes("sources", NoOrg))
          /\ Throw("FAILURE")

\* The pool is listed, and an org is fetched from it, or created instead when
\* the pool is empty or not understood and the fallback is asked for.
AcquireFromPool ==
    /\ pc = "acquire" /\ op.pool /\ UNCHANGED <<attempt, orgVars>>
    /\ \/ ~Killed("acquire") /\ Go("fetch")
       \/ ~Killed("acquire") /\ IF op.fallback THEN Go("create") ELSE End("FAILURE")
       \/ Fails

\* The org gets the alias, which becomes the target of the Salesforce CLI.
\* When the reply is lost there is an org without an alias.
Acquire(stage) ==
    /\ pc = stage
    /\ \E o \in unused :
          LET Taken == unused' = unused \ {o} /\ applied' = applied \cup {<<stage, o>>}
          IN  Retried(stage,
                  /\ Taken /\ target' = op.alias
                  /\ holder' = [holder EXCEPT ![op.alias] = o],
                  Taken /\ UNCHANGED <<holder, target>>,
                  /\ acquired' = o /\ pc' = "configure"
                  /\ UNCHANGED <<todo, part, ending>>)

FetchFromPool == Acquire("fetch")

AcquireByCreation ==
    \/ pc = "acquire" /\ ~op.pool /\ Go("create") /\ UNCHANGED <<attempt, orgVars>>
    \/ Acquire("create")

----------------------------------------------------------------------------
(* Configuring an org *)

\* findUnknownPostStep: the names that neither list has.
UnknownStep(steps) == steps \ KnownSteps # {}

ConfigureProject ==
    /\ pc = "configure" /\ UNCHANGED <<attempt, orgVars>>
    /\ IF UnknownStep(op.steps) \/ Alias = NoAlias
       THEN End("INVALID")
       ELSE /\ pc' = IF op.skipPackages \/ op.dryRun THEN "steps" ELSE "packages"
            /\ todo' = CanonicalSteps
            /\ UNCHANGED <<part, acquired, ending>>

\* What a workflow changes is the org its alias names; a package command may
\* leave the choice to the CLI's target.
PackageTarget == IF Alias = NoAlias THEN target ELSE Alias

\* Mutant: the exit code of the packages is not looked at.
InstallAnyway ==
    /\ pc = "packages" /\ UNCHANGED attempt
    /\ \/ UNCHANGED orgVars
       \/ /\ ~op.dryRun /\ ~Killed("packages") /\ holder[PackageTarget] # NoOrg
          /\ Changes("packages", holder[PackageTarget])
    /\ IF Composed THEN Go("steps") ELSE End("SUCCESS")

Install ==
    /\ pc = "packages" /\ UNCHANGED attempt
    /\ \/ /\ ~Killed("packages")
          /\ IF op.dryRun THEN UNCHANGED orgVars
             ELSE /\ PackageTarget # NoAlias /\ holder[PackageTarget] # NoOrg
                  /\ Changes("packages", holder[PackageTarget])
          /\ \/ IF Composed THEN Go("steps") ELSE End("SUCCESS")
             \/ \E code \in {"FAILURE", "AUTH", "PARTIAL"} : End(code)
       \/ UNCHANGED orgVars /\ Fails

Step == Head(todo)
Selected == pc = "steps" /\ todo # << >> /\ Step \in op.steps \ Unset
NextStep == todo' = Tail(todo) /\ part' = 0 /\ UNCHANGED <<pc, ending, acquired>>

\* Not selected: skipped.  Without a configured value: a warning.
SkipStep ==
    /\ pc = "steps" /\ todo # << >> /\ Step \notin op.steps \ Unset
    /\ NextStep /\ UNCHANGED <<attempt, orgVars>>

DryStep == Selected /\ op.dryRun /\ NextStep /\ UNCHANGED <<attempt, orgVars>>

\* A full deployment deletes the local tracking first; `data` imports the dummy
\* users last.
StepCommands ==
    NumCommands[Step] + (IF Step = "deploy" /\ op.fullDeploy THEN 1 ELSE 0)
PartDone ==
    IF part + 1 = StepCommands /\ Step # "data" THEN NextStep
    ELSE part' = part + 1 /\ UNCHANGED <<pc, todo, ending, acquired>>

\* In an alias that names no org a command can only fail.
InOrg(what, o) == o # NoOrg /\ Changes(what, o)

RunPart ==
    /\ Selected /\ ~op.dryRun /\ part < StepCommands
    /\ RunCommandStep("steps", InOrg(Step, holder[Alias]), PartDone)

ImportsUsers ==
    Selected /\ ~op.dryRun /\ Step = "data" /\ part = StepCommands

\* A file that is missing is a warning, one that cannot be parsed throws.
ImportDummyUsers ==
    /\ ImportsUsers /\ attempt = 1 /\ UNCHANGED <<orgVars, attempt>>
    /\ NextStep \/ Throw("INVALID")

\* Assigned to the users without a retry; duplicates do not matter.
AssignPermissionSets == NextStep \/ Fails

\* The profiles and the users that are there are queried; those missing are
\* imported.
ImportMissingUsers ==
    /\ ImportsUsers
    /\ \/ attempt = 1 /\ UNCHANGED <<orgVars, attempt>> /\ Fails
       \/ RunCommandStep("steps", InOrg("users", holder[Alias]), AssignPermissionSets)

RunPostSteps ==
    SkipStep \/ DryStep \/ RunPart \/ ImportDummyUsers \/ ImportMissingUsers

\* Mutant: the tracking is reset before the steps.
ResetSourceTrackingFirst ==
    /\ pc = "steps" /\ todo \in {<< >>, CanonicalSteps}
    /\ IF "deploy" \in op.steps /\ ~op.dryRun
       THEN RunCommandStep("tracking", InOrg("tracking", holder[Alias]), Go("refresh"))
       ELSE Go("refresh") /\ UNCHANGED <<attempt, orgVars>>

\* Only after a deployment: an earlier reset would mark the source as synced.
ResetSourceTracking ==
    /\ pc = "steps" /\ todo = << >>
    /\ IF "deploy" \in op.steps /\ ~op.dryRun
       THEN RunCommandStep("tracking", InOrg("tracking", holder[Alias]), Go("refresh"))
       ELSE Go("refresh") /\ UNCHANGED <<attempt, orgVars>>

\* .forceignore is set aside, the sources are cleared and retrieved, and it is
\* put back; a clearing or a restoration that fails throws.
RefreshDependencies ==
    /\ pc = "refresh" /\ UNCHANGED attempt
    /\ \/ ~op.refresh /\ UNCHANGED orgVars /\ End("SUCCESS")
       \/ /\ op.refresh /\ (op.dryRun \/ ~Killed("refresh"))
          /\ IF op.dryRun THEN UNCHANGED orgVars ELSE Changes("sources", NoOrg)
          /\ End("SUCCESS")
       \/ /\ op.refresh
          /\ UNCHANGED orgVars \/ (~op.dryRun /\ Changes("sources", NoOrg))
          /\ Throw("FAILURE") \/ \E code \in {"FAILURE", "AUTH", "PARTIAL"} : End(code)

----------------------------------------------------------------------------
(* Deleting an org, checking the coverage *)

\* Mutant: a token for another org will do.
MutationAllowedByAnyToken(class, command, alias) ==
    class = "scratch" \/ (op.token # << >> /\ op.token[1] = command)

MutationAllowed(class, command, alias) ==
    class = "scratch" \/ op.token = <<command, alias>>

\* confirmed is --yes; any token counts as a confirmation.
DeleteOrg(class) ==
    IF \/ ~op.confirmed /\ op.token = << >> /\ ~op.dryRun
       \/ ~MutationAllowed(class, "org.delete", op.alias)
    THEN End("INVALID")
    ELSE IF op.dryRun THEN End("SUCCESS") ELSE Go("delete")

DeleteCommand ==
    /\ pc = "delete"
    /\ RunCommandStep("delete", Deletes(op.alias), End("SUCCESS"))

\* The commands of the coverage check are not tried again: an optional package
\* and an optional deployment, the tests, the query of the coverage.
CoverageCommands == <<"package", "deploy", "tests", "query">>
Covered(what) == InOrg(what, holder[Alias])

\* Tests that time out or stay queued are started once more, without waiting.
RunAllTests == Covered("tests") /\ part' = part + 1 /\ UNCHANGED <<pc, todo, ending, acquired>>

CoverageCheck ==
    /\ pc = "coverage" /\ UNCHANGED attempt
    /\ LET command == CoverageCommands[part + 1]
       IN  \/ op.dryRun /\ UNCHANGED orgVars /\ End("SUCCESS")
           \/ ~op.dryRun /\ command = "tests" /\ RunAllTests
           \/ /\ ~op.dryRun /\ command \in {"package", "deploy"}
              /\ UNCHANGED orgVars \/ Covered(command)
              /\ part' = part + 1 /\ UNCHANGED <<pc, todo, ending, acquired>>
           \/ /\ ~op.dryRun /\ command = "query" /\ UNCHANGED orgVars
              /\ End("SUCCESS") \/ End("FAILURE")
           \/ /\ ~op.dryRun /\ Fails
              /\ UNCHANGED orgVars \/ (command # "query" /\ Covered(command))
=============================================================================
