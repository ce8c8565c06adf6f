------------------------- MODULE ProjectCommandsProofs -------------------------
(***************************************************************************)
(* Proofs about ProjectCommands and OrgWorkflow, for any number of orgs,   *)
(* aliases, post-steps and attempts.                                       *)
(***************************************************************************)
EXTENDS ProjectCommands, TLAPS

LEMMA InitInv == Init => CommandInv
<1> SUFFICES ASSUME Init PROVE CommandInv
    OBVIOUS
<1> USE WorkflowConstants, OrgsAreNamed DEF Init, Plain
<1>1. CommandTypes
    BY DEF CommandTypes, Names
<1>2. StageInv
    BY DEF StageInv, Creates
<1>3. ChangedInv
    BY DEF ChangedInv, RefusedChangesNothing
<1>4. ClearedInv
    BY DEF ClearedInv, OnlyConfirmedOrgsAreChanged, OrgChanges
<1>5. AcquiredInv
    BY DEF AcquiredInv, ConfiguresTheAcquiredOrg, OrgChanges, Creates
<1> QED
    BY <1>1, <1>2, <1>3, <1>4, <1>5 DEF CommandInv

-----------------------------------------------------------------------------
(* Requests *)

\* What the stage a request begins with has to fit.
Fits(r, stage) ==
    /\ r.alias \in Names
    /\ stage \in {"pool", "policy", "inspect", "configure", "packages", "refresh", "clear",
                  "coverage", "recover", "versions", "doctor", "read", "execute"}
    /\ r.command = "org.create" =>
           r.alias # NoAlias /\ stage \in {"pool", "execute"}
    /\ stage = "pool" => r.command = "org.create"
    /\ r.command = "project.configure" => stage \in {"inspect", "execute", "configure"}
    /\ stage = "configure" => r.command = "project.configure"
    /\ stage = "versions" => ~r.dryRun
    /\ stage \in {"policy", "configure", "packages", "coverage"} => r.dryRun
    /\ stage = "coverage" => r.command = "coverage.check" /\ r.via = "cli"
    /\ stage = "execute" => ~MutationTarget(r)

LEMMA BeginInv ==
    ASSUME CommandInv, NEW r, NEW stage, Fits(r, stage), Begin(r, stage)
    PROVE  CommandInv'
<1> USE DEF Begin, Fits, CommandInv, orgVars, ending
<1>0. /\ applied = {} /\ applied' = {} /\ acquired = NoOrg /\ acquired' = NoOrg
      /\ ~aborted' /\ exit' = "none"
    BY DEF ChangedInv, AcquiredInv, StageInv
<1>1. CommandTypes'
    BY DEF CommandTypes
<1>2. StageInv'
    BY <1>0 DEF StageInv, Creates
<1>3. ChangedInv'
    BY <1>0 DEF ChangedInv, RefusedChangesNothing
<1>4. ClearedInv'
    BY <1>0 DEF ClearedInv, OnlyConfirmedOrgsAreChanged, OrgChanges, MutationTarget
<1>5. AcquiredInv'
    BY <1>0 DEF AcquiredInv, ConfiguresTheAcquiredOrg, OrgChanges, Creates
<1> QED
    BY <1>1, <1>2, <1>3, <1>4, <1>5

LEMMA RejectInv ==
    ASSUME CommandInv, NEW r, NEW code, r.alias \in Names, Reject(r, code)
    PROVE  CommandInv'
<1> USE DEF Reject, CommandInv, orgVars
<1>0. /\ applied = {} /\ applied' = {} /\ acquired = NoOrg /\ acquired' = NoOrg /\ ~aborted'
    BY DEF ChangedInv, AcquiredInv, StageInv
<1>1. CommandTypes'
    BY DEF CommandTypes
<1>2. StageInv'
    BY <1>0 DEF StageInv, Creates
<1>3. ChangedInv'
    BY <1>0 DEF ChangedInv, RefusedChangesNothing
<1>4. ClearedInv'
    BY <1>0 DEF ClearedInv, OnlyConfirmedOrgsAreChanged, OrgChanges, MutationTarget
<1>5. AcquiredInv'
    BY <1>0 DEF AcquiredInv, ConfiguresTheAcquiredOrg, OrgChanges, Creates
<1> QED
    BY <1>1, <1>2, <1>3, <1>4, <1>5

\* A command begins with a stage that fits, or is rejected.
Started ==
    \/ \E r, stage : Fits(r, stage) /\ Begin(r, stage)
    \/ \E r : /\ r.alias \in Names
              /\ \E code \in {"INVALID", "MISSING", "FAILURE"} : Reject(r, code)

LEMMA BeginStarts ==
    ASSUME NEW r, NEW stage, Fits(r, stage), Begin(r, stage)
    PROVE  Started
BY DEF Started

LEMMA AcceptStarts ==
    ASSUME NEW r, NEW valid \in BOOLEAN, NEW stage, r.alias \in Names,
           valid => Fits(r, stage), Accept(r, valid, stage)
    PROVE  Started
<1>1. CASE valid /\ Begin(r, stage)
    BY <1>1, BeginStarts
<1>2. CASE \E code \in {"INVALID", "MISSING", "FAILURE"} : Reject(r, code)
    BY <1>2 DEF Started
<1> QED
    BY <1>1, <1>2 DEF Accept, LoadFails

\* A request of one kind and one adapter, before and after it has an alias.
IsRequest(q, c, v) ==
    /\ q.command = c /\ q.via = v /\ q.alias \in Names
    /\ RequireAlias(q).command = c /\ RequireAlias(q).via = v
    /\ RequireAlias(q).alias \in Names /\ RequireAlias(q).dryRun = q.dryRun

LEMMA DefaultName == DefaultAlias \in Names /\ NoAlias \in Names /\ Aliases \subseteq Names
BY WorkflowConstants DEF Names

\* An alias is filled in, and every other field stays.
LEMMA Renamed ==
    ASSUME NEW q, {"command", "via", "alias", "dryRun"} \subseteq DOMAIN q,
           q.alias \in Names
    PROVE  /\ RequireAlias(q).command = q.command /\ RequireAlias(q).via = q.via
           /\ RequireAlias(q).dryRun = q.dryRun /\ RequireAlias(q).alias \in Names
<1> DEFINE r == [q EXCEPT !.alias = DefaultAlias]
<1>1. r.command = q.command /\ r.via = q.via /\ r.dryRun = q.dryRun /\ r.alias = DefaultAlias
    OBVIOUS
<1> QED
    BY <1>1, DefaultName DEF RequireAlias

LEMMA CreateRequestType ==
    ASSUME NEW v \in {"cli", "web"}, NEW q \in CreateRequests(v)
    PROVE  IsRequest(q, "org.create", v) /\ (v = "web" => q.alias # NoAlias)
<1>1. PICK a \in Targets(v), s \in StepSets, p \in PoolOptions, c \in BOOLEAN, d \in BOOLEAN :
          q = CreateRequest(v, a, s, p, c, d)
    BY DEF CreateRequests
<1>2. a \in Names /\ (v = "web" => a # NoAlias)
    BY DefaultName, WorkflowConstants DEF Targets
<1>3. {"command", "via", "alias", "dryRun"} \subseteq DOMAIN q
    BY <1>1 DEF CreateRequest, Plain
<1>4. q.command = "org.create" /\ q.via = v /\ q.alias = a
    BY <1>1 DEF CreateRequest, Plain
<1> QED
    BY <1>2, <1>3, <1>4, Renamed DEF IsRequest

LEMMA DeleteRequestType ==
    ASSUME NEW v \in {"cli", "web"}, NEW q \in DeleteRequests(v)
    PROVE  IsRequest(q, "org.delete", v)
<1>1. PICK a \in Targets(v), t \in Tokens("org.delete"), c \in BOOLEAN, d \in BOOLEAN :
          q = DeleteRequest(v, a, t, c, d)
    BY DEF DeleteRequests
<1>2. a \in Names
    BY DefaultName, WorkflowConstants DEF Targets
<1>3. {"command", "via", "alias", "dryRun"} \subseteq DOMAIN q
    BY <1>1 DEF DeleteRequest, Plain
<1>4. q.command = "org.delete" /\ q.via = v /\ q.alias = a
    BY <1>1 DEF DeleteRequest, Plain
<1> QED
    BY <1>2, <1>3, <1>4, Renamed DEF IsRequest

LEMMA ConfigureRequestType ==
    ASSUME NEW v \in {"cli", "web"}, NEW q \in ConfigureRequests(v)
    PROVE  IsRequest(q, "project.configure", v)
<1>1. PICK a \in Names, s \in StepSets, t \in Tokens("project.configure"), k \in BOOLEAN,
           r \in BOOLEAN, d \in BOOLEAN, f \in {b \in BOOLEAN : b => v = "cli"} :
          q = ConfigureRequest(v, a, s, t, k, r, d, f)
    BY DEF ConfigureRequests
<1>2. a \in Names
    BY DefaultName, WorkflowConstants DEF Targets
<1>3. {"command", "via", "alias", "dryRun"} \subseteq DOMAIN q
    BY <1>1 DEF ConfigureRequest, Plain
<1>4. q.command = "project.configure" /\ q.via = v /\ q.alias = a
    BY <1>1 DEF ConfigureRequest, Plain
<1> QED
    BY <1>2, <1>3, <1>4, Renamed DEF IsRequest

LEMMA PackageRequestType ==
    ASSUME NEW v \in {"cli", "web"}, NEW q \in PackageRequests(v)
    PROVE  \E c \in {"packages.install", "packages.update"} : IsRequest(q, c, v)
<1>1. PICK c \in {"packages.install", "packages.update"} :
          q \in {PackageRequest(c, v, a, t, d) : a \in Names, t \in Tokens(c), d \in BOOLEAN}
    BY DEF PackageRequests
<1>2. PICK a \in Names, t \in Tokens(c), d \in BOOLEAN : q = PackageRequest(c, v, a, t, d)
    BY <1>1
<1>3. {"command", "via", "alias", "dryRun"} \subseteq DOMAIN q
    BY <1>2 DEF PackageRequest, Plain
<1>4. q.command = c /\ q.via = v /\ q.alias = a
    BY <1>2 DEF PackageRequest, Plain
<1> QED
    BY <1>3, <1>4, Renamed DEF IsRequest

LEMMA RefreshRequestType ==
    ASSUME NEW v \in {"cli", "web"}, NEW q \in RefreshRequests(v)
    PROVE  IsRequest(q, "dependencies.refresh", v)
<1>1. PICK a \in Names, d \in BOOLEAN :
          q = RefreshRequest(v, a, d)
    BY DEF RefreshRequests
<1>2. a \in Names
    BY DefaultName, WorkflowConstants DEF Targets
<1>3. {"command", "via", "alias", "dryRun"} \subseteq DOMAIN q
    BY <1>1 DEF RefreshRequest, Plain
<1>4. q.command = "dependencies.refresh" /\ q.via = v /\ q.alias = a
    BY <1>1 DEF RefreshRequest, Plain
<1> QED
    BY <1>2, <1>3, <1>4, Renamed DEF IsRequest

LEMMA LocalRequestType ==
    ASSUME NEW v \in {"cli", "web"}, NEW c, NEW q \in LocalRequests(c, v)
    PROVE  IsRequest(q, c, v)
<1>1. PICK d \in BOOLEAN : q = [Plain EXCEPT !.command = c, !.via = v, !.dryRun = d]
    BY Zenon DEF LocalRequests
<1>2. {"command", "via", "alias", "dryRun"} \subseteq DOMAIN q
    BY <1>1 DEF Plain
<1>3. q.command = c /\ q.via = v /\ q.alias = NoAlias
    BY <1>1 DEF Plain
<1> QED
    BY <1>2, <1>3, DefaultName, Renamed DEF IsRequest

LEMMA CoverageRequestType ==
    ASSUME NEW q \in CoverageRequests
    PROVE  IsRequest(q, "coverage.check", "cli")
<1>1. PICK a \in Names, t \in Tokens("coverage.check"), d \in BOOLEAN :
          q = PackageRequest("coverage.check", "cli", a, t, d)
    BY DEF CoverageRequests
<1>2. a \in Names
    BY DefaultName, WorkflowConstants DEF Targets
<1>3. {"command", "via", "alias", "dryRun"} \subseteq DOMAIN q
    BY <1>1 DEF PackageRequest, Plain
<1>4. q.command = "coverage.check" /\ q.via = "cli" /\ q.alias = a
    BY <1>1 DEF PackageRequest, Plain
<1> QED
    BY <1>2, <1>3, <1>4, Renamed DEF IsRequest

-----------------------------------------------------------------------------
(* The commands *)

LEMMA CliStarts ==
    ASSUME \/ CliCreate \/ CliDelete \/ CliConfigure \/ CliPackages \/ CliRefresh
           \/ CliClear \/ CliCoverage \/ CliRecover
    PROVE  Started
<1>1. CASE CliCreate
    <2>1. PICK q \in CreateRequests("cli") :
              Accept(RequireAlias(q), RequireAlias(q).alias # NoAlias
                         /\ ParsePostSteps(RequireAlias(q).steps), "pool")
        BY <1>1 DEF CliCreate
    <2>2. IsRequest(q, "org.create", "cli")
        BY CreateRequestType
    <2>3. RequireAlias(q).alias # NoAlias => Fits(RequireAlias(q), "pool")
        BY <2>2 DEF IsRequest, Fits
    <2> QED
        BY <2>1, <2>2, <2>3, AcceptStarts DEF IsRequest, ParsePostSteps, UnknownStep
<1>2. CASE CliDelete
    <2>1. PICK q \in DeleteRequests("cli") :
              Accept(RequireAlias(q), RequireAlias(q).alias # NoAlias,
                     AfterLoad(RequireAlias(q), "policy"))
        BY <1>2 DEF CliDelete
    <2>2. IsRequest(q, "org.delete", "cli")
        BY DeleteRequestType
    <2>3. Fits(RequireAlias(q), AfterLoad(RequireAlias(q), "policy"))
        BY <2>2 DEF IsRequest, Fits, AfterLoad
    <2> QED
        BY <2>1, <2>2, <2>3, AcceptStarts DEF IsRequest
<1>3. CASE CliConfigure
    <2>1. PICK q \in ConfigureRequests("cli") :
              Accept(RequireAlias(q), RequireAlias(q).alias # NoAlias
                         /\ ParsePostSteps(RequireAlias(q).steps),
                     AfterLoad(RequireAlias(q), "configure"))
        BY <1>3 DEF CliConfigure
    <2>2. IsRequest(q, "project.configure", "cli")
        BY ConfigureRequestType
    <2>3. Fits(RequireAlias(q), AfterLoad(RequireAlias(q), "configure"))
        BY <2>2 DEF IsRequest, Fits, AfterLoad
    <2> QED
        BY <2>1, <2>2, <2>3, AcceptStarts DEF IsRequest, ParsePostSteps, UnknownStep
<1>4. CASE CliPackages
    <2>1. PICK q \in PackageRequests("cli") : Accept(q, TRUE, AfterLoad(q, "packages"))
        BY <1>4 DEF CliPackages
    <2>2. PICK c \in {"packages.install", "packages.update"} : IsRequest(q, c, "cli")
        BY PackageRequestType
    <2>3. Fits(q, AfterLoad(q, "packages"))
        BY <2>2 DEF IsRequest, Fits, AfterLoad
    <2> QED
        BY <2>1, <2>2, <2>3, AcceptStarts DEF IsRequest
<1>5. CASE CliRefresh
    <2>1. PICK q \in RefreshRequests("cli") : Accept(q, TRUE, "refresh")
        BY <1>5 DEF CliRefresh
    <2>2. IsRequest(q, "dependencies.refresh", "cli")
        BY RefreshRequestType
    <2>3. Fits(q, "refresh")
        BY <2>2 DEF IsRequest, Fits
    <2> QED
        BY <2>1, <2>2, <2>3, AcceptStarts DEF IsRequest
<1>6. CASE CliClear
    <2>1. PICK q \in LocalRequests("dependencies.clear", "cli") : Accept(q, TRUE, "clear")
        BY <1>6 DEF CliClear
    <2>2. IsRequest(q, "dependencies.clear", "cli")
        BY LocalRequestType
    <2>3. Fits(q, "clear")
        BY <2>2 DEF IsRequest, Fits
    <2> QED
        BY <2>1, <2>2, <2>3, AcceptStarts DEF IsRequest
<1>7. CASE CliCoverage
    <2>1. PICK q \in CoverageRequests :
              Accept(RequireAlias(q), RequireAlias(q).alias # NoAlias,
                     AfterLoad(RequireAlias(q), "coverage"))
        BY <1>7 DEF CliCoverage
    <2>2. IsRequest(q, "coverage.check", "cli")
        BY CoverageRequestType
    <2>3. Fits(RequireAlias(q), AfterLoad(RequireAlias(q), "coverage"))
        BY <2>2 DEF IsRequest, Fits, AfterLoad
    <2> QED
        BY <2>1, <2>2, <2>3, AcceptStarts DEF IsRequest
<1>8. CASE CliRecover
    <2>1. PICK q \in LocalRequests("dependencies.recover", "cli") : Begin(q, "recover")
        BY <1>8 DEF CliRecover
    <2>2. IsRequest(q, "dependencies.recover", "cli")
        BY LocalRequestType
    <2>3. Fits(q, "recover")
        BY <2>2 DEF IsRequest, Fits
    <2> QED
        BY <2>1, <2>3, BeginStarts
<1> QED
    BY <1>1, <1>2, <1>3, <1>4, <1>5, <1>6, <1>7, <1>8

LEMMA PlainStarts ==
    ASSUME CliCheckVersions \/ CliDoctor \/ CliOrgRead \/ CliPlan
    PROVE  Started
<1>1. CASE CliCheckVersions
    <2>1. PICK a \in BOOLEAN :
              Accept([Plain EXCEPT !.command = "packages.check-versions", !.apply = a],
                     TRUE, "versions")
        BY <1>1 DEF CliCheckVersions
    <2> DEFINE r == [Plain EXCEPT !.command = "packages.check-versions", !.apply = a]
    <2>2. r.alias \in Names /\ Fits(r, "versions")
        BY DefaultName DEF Plain, Fits
    <2>3. Accept(r, TRUE, "versions")
        BY <2>1
    <2> HIDE DEF r
    <2> QED
        BY <2>2, <2>3, AcceptStarts
<1>2. CASE CliDoctor
    <2> DEFINE r == [Plain EXCEPT !.command = "doctor"]
    <2>1. Fits(r, "doctor")
        BY DefaultName DEF Plain, Fits
    <2>2. Begin(r, "doctor")
        BY <1>2 DEF CliDoctor
    <2> HIDE DEF r
    <2> QED
        BY <2>1, <2>2, BeginStarts
<1>3. CASE CliOrgRead
    <2>1. PICK c \in {"org.list", "org.status", "org.info"} :
              Begin([Plain EXCEPT !.command = c], "read")
        BY <1>3 DEF CliOrgRead
    <2> DEFINE r == [Plain EXCEPT !.command = c]
    <2>2. Fits(r, "read")
        BY DefaultName DEF Plain, Fits
    <2>3. Begin(r, "read")
        BY <2>1
    <2> HIDE DEF r
    <2> QED
        BY <2>2, <2>3, BeginStarts
<1>4. CASE CliPlan
    <2> DEFINE r == [Plain EXCEPT !.command = "packages.plan"]
    <2>1. r.alias \in Names /\ Fits(r, "read")
        BY DefaultName DEF Plain, Fits
    <2>2. Accept(r, TRUE, "read")
        BY <1>4 DEF CliPlan
    <2> HIDE DEF r
    <2> QED
        BY <2>1, <2>2, AcceptStarts
<1> QED
    BY <1>1, <1>2, <1>3, <1>4

LEMMA PostStarts == ASSUME PostOperation PROVE Started
<1>1. PICK q \in WebRequests :
          Begin(q, IF MutationTarget(q) THEN "inspect" ELSE "execute")
    BY DEF PostOperation
<1>2. \/ IsRequest(q, "org.create", "web") /\ q.alias # NoAlias
      \/ \E c \in {"org.delete", "project.configure", "packages.install", "packages.update",
                   "dependencies.refresh", "dependencies.clear", "packages.plan"} :
             IsRequest(q, c, "web")
    BY CreateRequestType, DeleteRequestType, ConfigureRequestType, PackageRequestType, RefreshRequestType,
       LocalRequestType DEF WebRequests
<1>3. Fits(q, IF MutationTarget(q) THEN "inspect" ELSE "execute")
    BY <1>2 DEF IsRequest, Fits, MutationTarget
<1> QED
    BY <1>1, <1>3, BeginStarts

-----------------------------------------------------------------------------
(* Stages: what is changed, and where the workflow goes *)

Stays == UNCHANGED <<op, aborted, switched>>

\* Every change of an org is cleared, and that of a creation is its own.
Safe ==
    /\ OnlyConfirmedOrgsAreChanged
    /\ Creates => \A c \in OrgChanges : c[1] \in {"delete", "fetch", "create"} \/ c[2] = acquired

\* What is known of the orgs after a stage.
OrgsAreSafe ==
    /\ CommandTypes' /\ Safe'
    /\ op.dryRun => applied' = applied

LEMMA NothingChanged ==
    ASSUME CommandInv, Stays, UNCHANGED orgVars, acquired' = acquired
    PROVE  OrgsAreSafe
<1>1. CommandTypes'
    BY DEF CommandInv, CommandTypes, Stays, orgVars
<1>2. Safe'
    BY DEF CommandInv, ClearedInv, AcquiredInv, ConfiguresTheAcquiredOrg, Safe, Stays, orgVars,
           OnlyConfirmedOrgsAreChanged, OrgChanges, Creates
<1> QED
    BY <1>1, <1>2 DEF OrgsAreSafe, orgVars

LEMMA OneChange ==
    ASSUME NEW what, NEW o, applied' = applied \cup {<<what, o>>}
    PROVE  \A c \in OrgChanges' : c \in OrgChanges \/ (c = <<what, o>> /\ o # NoOrg)
BY DEF OrgChanges

\* A change in no org, or in the org the alias names.
LEMMA Changed ==
    ASSUME CommandInv, Stays, ~op.dryRun, acquired' = acquired,
           NEW what, NEW o, Changes(what, o),
           \/ o = NoOrg
           \/ /\ op.alias # NoAlias => o = holder[op.alias] /\ Cleared
              /\ Creates => o = acquired
    PROVE  OrgsAreSafe
<1>1. CommandTypes'
    BY DEF CommandInv, CommandTypes, Stays, Changes
<1>2. \A c \in OrgChanges' : c \in OrgChanges \/ (c = <<what, o>> /\ o # NoOrg)
    BY OneChange DEF Changes
<1>3. OnlyConfirmedOrgsAreChanged'
    BY <1>2 DEF CommandInv, ClearedInv, OnlyConfirmedOrgsAreChanged, Cleared, Stays
<1>4. Safe'
    BY <1>2, <1>3 DEF CommandInv, AcquiredInv, ConfiguresTheAcquiredOrg, Safe, Stays, Creates
<1> QED
    BY <1>1, <1>4 DEF OrgsAreSafe

LEMMA Deleted ==
    ASSUME CommandInv, Stays, ~op.dryRun, acquired' = acquired, Deletes(op.alias)
    PROVE  OrgsAreSafe
<1>1. CommandTypes'
    BY DEF CommandInv, CommandTypes, Stays, Deletes
<1>2. \A c \in OrgChanges' :
          c \in OrgChanges \/ (c = <<"delete", holder[op.alias]>> /\ holder[op.alias] # NoOrg)
    BY OneChange DEF Deletes
<1>3. OnlyConfirmedOrgsAreChanged'
    BY <1>2 DEF CommandInv, ClearedInv, OnlyConfirmedOrgsAreChanged, Deletes, Stays
<1>4. Safe'
    BY <1>2, <1>3 DEF CommandInv, AcquiredInv, ConfiguresTheAcquiredOrg, Safe, Stays, Creates
<1> QED
    BY <1>1, <1>4 DEF OrgsAreSafe

LEMMA EndInv ==
    ASSUME CommandInv, Stays, pc \notin {"idle", "ended"}, OrgsAreSafe, NEW code, End(code),
           code \in {"INVALID", "REFUSED"} => applied' = {} \/ (Creates /\ acquired # NoOrg)
    PROVE  CommandInv'
<1> USE DEF End, Stays
<1>1. CommandTypes'
    BY DEF OrgsAreSafe
<1>2. StageInv'
    BY DEF CommandInv, StageInv, Creates
<1>3. RefusedChangesNothing'
    BY DEF CommandInv, ChangedInv, RefusedChangesNothing, OrgsAreSafe, ExitOf, Creates
<1>4. ChangedInv'
    BY <1>3 DEF CommandInv, ChangedInv, OrgsAreSafe
<1>5. ClearedInv'
    BY DEF ClearedInv, OrgsAreSafe, Safe
<1>6. AcquiredInv'
    BY DEF CommandInv, ChangedInv, AcquiredInv, OrgsAreSafe, Safe, ConfiguresTheAcquiredOrg,
           ExitOf, Creates
<1> QED
    BY <1>1, <1>2, <1>4, <1>5, <1>6 DEF CommandInv

LEMMA ThrowInv ==
    ASSUME CommandInv, Stays, pc \notin {"idle", "ended"}, OrgsAreSafe, NEW code, Throw(code),
           code = "REFUSED" => applied' = {}, code = "INVALID" => applied' = {} \/ todo # << >>
    PROVE  CommandInv'
<1> USE DEF Throw, Stays
<1>1. CommandTypes'
    BY DEF OrgsAreSafe
<1>2. StageInv'
    BY DEF CommandInv, StageInv, Creates
<1>3. RefusedChangesNothing'
    BY DEF CommandInv, ChangedInv, RefusedChangesNothing, OrgsAreSafe
<1>4. ChangedInv'
    BY <1>3 DEF CommandInv, ChangedInv, OrgsAreSafe
<1>5. ClearedInv'
    BY DEF ClearedInv, OrgsAreSafe, Safe
<1>6. AcquiredInv'
    BY DEF CommandInv, ChangedInv, AcquiredInv, OrgsAreSafe, Safe, ConfiguresTheAcquiredOrg, Creates
<1> QED
    BY <1>1, <1>2, <1>4, <1>5, <1>6 DEF CommandInv

\* What the invariant says of the stage itself.
Reached ==
    /\ pc \in {"idle", "inspect", "execute", "policy", "pool", "doctor", "read"} => applied = {}
    /\ pc = "configure" => applied = {} \/ (Creates /\ acquired # NoOrg)
    /\ op.alias # NoAlias /\ ~op.dryRun =>
           /\ pc \in {"configure", "packages", "steps", "coverage", "delete"} => Cleared
           /\ pc = "execute" /\ MutationTarget(op) => Cleared
    /\ pc \in {"idle", "inspect", "execute", "pool", "discard", "clear", "acquire", "fetch", "create"}
           => acquired = NoOrg
    /\ Creates /\ ~op.dryRun /\ pc \in {"configure", "packages", "steps"} =>
           acquired # NoOrg /\ holder[op.alias] = acquired

\* To another stage, or on in the same one.
LEMMA StageStep ==
    ASSUME CommandInv, Stays, pc \notin {"idle", "ended"}, OrgsAreSafe,
           pc' \notin {"idle", "ended"}, exit' = exit, StageInv', Reached'
    PROVE  CommandInv'
<1>1. exit' = "none"
    BY DEF CommandInv, ChangedInv
<1>2. RefusedChangesNothing'
    BY <1>1 DEF CommandInv, ChangedInv, RefusedChangesNothing, OrgsAreSafe, Stays
<1>3. ChangedInv'
    BY <1>1, <1>2 DEF CommandInv, ChangedInv, Reached, OrgsAreSafe, Stays
<1>4. ClearedInv'
    BY DEF ClearedInv, OrgsAreSafe, Safe, Reached
<1>5. AcquiredInv'
    BY <1>1 DEF AcquiredInv, OrgsAreSafe, Safe, ConfiguresTheAcquiredOrg, Reached
<1> QED
    BY <1>3, <1>4, <1>5 DEF CommandInv, OrgsAreSafe

\* On in the same stage, with the org of the alias where it was.
LEMMA StayInv ==
    ASSUME CommandInv, Stays, pc \notin {"idle", "ended"}, OrgsAreSafe,
           pc' = pc, exit' = exit, UNCHANGED <<holder, acquired>>,
           pc \notin {"inspect", "execute", "policy", "pool", "doctor", "read", "configure"}
               \/ applied' = applied
    PROVE  CommandInv'
<1>1. StageInv'
    BY DEF CommandInv, StageInv, Stays, Creates
<1>2. Reached'
    BY DEF CommandInv, ChangedInv, ClearedInv, AcquiredInv, Reached, Stays, Cleared, MutationTarget, Creates
<1> QED
    BY <1>1, <1>2, StageStep

-----------------------------------------------------------------------------
(* Inspections *)

LEMMA InspectedScratch ==
    ASSUME CommandInv, op.alias # NoAlias, NEW i, i \in Inspections \/ i \in GetOrgInfo(op.alias),
           i.class = "scratch"
    PROVE  holder[op.alias] \in Scratch
<1>1. i \in GetOrgInfo(op.alias)
    BY DEF Inspections
<1>2. i.class \in DisplayOrg(holder[op.alias])
    BY <1>1 DEF GetOrgInfo
<1>3. holder[op.alias] \in Orgs /\ ClassifyOrg(Details[holder[op.alias]], "display") = "scratch"
    BY <1>2 DEF DisplayOrg, CommandInv, CommandTypes, Names
<1> QED
    BY <1>3, DetailsAreTrue

\* What the inspection lets through has a scratch org, none, or the confirmation.
LEMMA AllowedIsCleared ==
    ASSUME CommandInv, op.alias # NoAlias,
           NEW i, i \in Inspections \/ i \in GetOrgInfo(op.alias),
           MutationAllowed(i.class, op.command, op.alias)
    PROVE  Cleared
BY InspectedScratch DEF MutationAllowed, Cleared

LEMMA InspectionName ==
    ASSUME op.alias # NoAlias, NEW i \in Inspections
    PROVE  i.name = op.alias
BY DEF Inspections, GetOrgInfo

LEMMA AssertInv == ASSUME CommandInv, Stays, AssertMutationTarget PROVE CommandInv'
<1> USE DEF AssertMutationTarget
<1>1. /\ pc = "inspect" /\ op.via = "cli" /\ op.command # "org.create"
      /\ applied = {} /\ UNCHANGED orgVars
    BY DEF CommandInv, StageInv, ChangedInv, Creates
<1>2. CASE acquired' = acquired /\ \E code \in {"INVALID", "FAILURE"} : Throw(code)
    <2>1. PICK code \in {"INVALID", "FAILURE"} : Throw(code)
        BY <1>2
    <2> QED
        BY <1>1, <1>2, <2>1, NothingChanged, ThrowInv DEF orgVars
<1>3. CASE End("FAILURE")
    BY <1>1, <1>3, NothingChanged, EndInv DEF End
<1>4. CASE \E i \in Inspections :
              /\ MutationAllowed(i.class, op.command, i.name)
              /\ Go(CASE op.command = "project.configure" -> "configure"
                      [] op.command = "coverage.check" -> "coverage"
                      [] OTHER -> "packages")
    <2>1. PICK i \in Inspections :
              /\ MutationAllowed(i.class, op.command, i.name)
              /\ Go(CASE op.command = "project.configure" -> "configure"
                      [] op.command = "coverage.check" -> "coverage"
                      [] OTHER -> "packages")
        BY <1>4
    <2>2. /\ pc' \in {"configure", "coverage", "packages"} /\ acquired' = acquired
          /\ UNCHANGED ending /\ (pc' = "coverage" => op.command = "coverage.check")
        BY <2>1 DEF Go
    <2>3. op.alias # NoAlias => Cleared
        BY <2>1, AllowedIsCleared, InspectionName
    <2>4. StageInv'
        BY <1>1, <2>2 DEF CommandInv, StageInv, Stays, Creates
    <2>5. Reached'
        BY <1>1, <2>2, <2>3 DEF Reached, Stays, Cleared, orgVars, Creates
    <2> QED
        BY <1>1, <2>2, <2>4, <2>5, NothingChanged, StageStep DEF ending
<1>5. CASE op.alias = NoAlias /\ Throw("FAILURE")
    BY <1>2, <1>5 DEF Throw
<1> QED
    BY <1>2, <1>3, <1>4, <1>5, <1>1 DEF Throw

LEMMA PreauthorizeInv == ASSUME CommandInv, Stays, Preauthorize PROVE CommandInv'
<1> USE DEF Preauthorize
<1>1. /\ pc = "inspect" /\ op.via = "web" /\ op.command # "org.create"
      /\ applied = {} /\ UNCHANGED orgVars
    BY DEF CommandInv, StageInv, ChangedInv, Creates
<1>2. CASE End("REFUSED")
    BY <1>1, <1>2, NothingChanged, EndInv DEF End, orgVars
<1>3. CASE \E i \in Inspections :
              MutationAllowed(i.class, op.command, i.name) /\ Go("execute")
    <2>1. PICK i \in Inspections :
              MutationAllowed(i.class, op.command, i.name) /\ Go("execute")
        BY <1>3
    <2>2. pc' = "execute" /\ acquired' = acquired /\ UNCHANGED ending
        BY <2>1 DEF Go
    <2>3. op.alias # NoAlias => Cleared
        BY <2>1, AllowedIsCleared, InspectionName
    <2>4. StageInv'
        BY <1>1, <2>2 DEF CommandInv, StageInv, Stays, Creates
    <2>5. Reached'
        BY <1>1, <2>2, <2>3 DEF CommandInv, AcquiredInv, Reached, Stays, Cleared, orgVars, Creates
    <2> QED
        BY <1>1, <2>2, <2>4, <2>5, NothingChanged, StageStep DEF ending
<1> QED
    BY <1>2, <1>3

\* A deletion that is let through goes on with what the inspection answered.
LEMMA DeleteOrgInv ==
    ASSUME CommandInv, Stays, op.command = "org.delete", UNCHANGED orgVars,
           NEW class, DeleteOrg(class),
           pc \in {"policy", "inspect", "execute"},
           \/ op.dryRun
           \/ \E i \in GetOrgInfo(op.alias) : class = i.class
    PROVE  CommandInv'
<1>1. applied = {} /\ applied' = {}
    BY DEF CommandInv, ChangedInv, orgVars
<1>2. CASE \E code \in {"INVALID", "SUCCESS"} : End(code)
    <2>1. PICK code \in {"INVALID", "SUCCESS"} : End(code)
        BY <1>2
    <2> QED
        BY <1>1, <2>1, NothingChanged, EndInv DEF End
<1>3. CASE ~op.dryRun /\ MutationAllowed(class, "org.delete", op.alias) /\ Go("delete")
    <2>1. pc' = "delete" /\ acquired' = acquired /\ UNCHANGED ending
        BY <1>3 DEF Go
    <2>2. op.alias # NoAlias => Cleared
        BY <1>3, AllowedIsCleared
    <2>3. StageInv'
        BY <1>3, <2>1 DEF CommandInv, StageInv, Stays, Creates
    <2>4. Reached'
        BY <2>1, <2>2 DEF Reached, Stays, Cleared, orgVars, Creates
    <2> QED
        BY <2>1, <2>3, <2>4, NothingChanged, StageStep DEF ending
<1> QED
    BY <1>2, <1>3 DEF DeleteOrg

LEMMA CliInspectDeleteInv == ASSUME CommandInv, Stays, CliInspectDelete PROVE CommandInv'
<1> USE DEF CliInspectDelete
<1>1. CASE pc = "policy" /\ DeleteOrg("scratch")
    BY <1>1, DeleteOrgInv DEF CommandInv, StageInv
<1>2. CASE pc = "inspect" /\ \E i \in GetOrgInfo(op.alias) : i.lapsed /\ End("AUTH")
    BY <1>2, NothingChanged, EndInv DEF End
<1>3. CASE pc = "inspect" /\ \E i \in GetOrgInfo(op.alias) : DeleteOrg(i.class)
    <2>1. PICK i \in GetOrgInfo(op.alias) : DeleteOrg(i.class)
        BY <1>3
    <2> QED
        BY <1>3, <2>1, DeleteOrgInv
<1> QED
    BY <1>1, <1>2, <1>3

LEMMA ExecuteInv == ASSUME CommandInv, Stays, Execute PROVE CommandInv'
<1> USE DEF Execute
<1>1. applied = {} /\ applied' = {} /\ acquired = NoOrg /\ pc = "execute" /\ UNCHANGED orgVars
    BY DEF CommandInv, ChangedInv, AcquiredInv, orgVars
<1>2. CASE Throw("INVALID")
    BY <1>1, <1>2, NothingChanged, ThrowInv DEF Throw
<1>3. CASE op.command = "org.delete" /\ \E i \in GetOrgInfo(op.alias) : DeleteOrg(i.class)
    <2>1. PICK i \in GetOrgInfo(op.alias) : DeleteOrg(i.class)
        BY <1>3
    <2> QED
        BY <1>1, <1>3, <2>1, DeleteOrgInv
<1>4. CASE op.command # "org.delete" /\ ~Throw("INVALID")
    <2>1. Go(CASE op.command = "org.create" -> "pool"
               [] op.command = "project.configure" -> "configure"
               [] op.command = "dependencies.clear" -> "clear"
               [] op.command = "dependencies.refresh" -> "refresh"
               [] op.command = "packages.plan" -> "read"
               [] OTHER -> "packages")
        BY <1>4
    <2>2. /\ acquired' = acquired /\ UNCHANGED ending
          /\ pc' \in {"pool", "configure", "clear", "refresh", "read", "packages"}
          /\ Creates <=> pc' = "pool"
          /\ pc' \in {"configure", "packages"} /\ ~op.dryRun => MutationTarget(op)
        BY <2>1 DEF Go, Creates, MutationTarget
    <2>3. StageInv'
        BY <1>1, <2>2 DEF CommandInv, StageInv, Stays, Creates
    <2>4. Reached'
        BY <1>1, <2>2 DEF CommandInv, ClearedInv, Reached, Stays, Cleared, orgVars, Creates
    <2> QED
        BY <1>1, <2>2, <2>3, <2>4, NothingChanged, StageStep DEF ending
<1> QED
    BY <1>2, <1>3, <1>4

-----------------------------------------------------------------------------
(* Commands without an org *)

LEMMA SimpleInv ==
    ASSUME CommandInv, Stays, Read \/ Doctor \/ Recover \/ CheckVersions
    PROVE  CommandInv'
<1>1. CASE Read
    <2>1. CASE Throw("FAILURE")
        BY <1>1, <2>1, NothingChanged, ThrowInv DEF Read, Throw
    <2>2. CASE \E code \in {"SUCCESS", "FAILURE", "AUTH"} : End(code)
        <3>1. PICK code \in {"SUCCESS", "FAILURE", "AUTH"} : End(code)
            BY <2>2
        <3> QED
            BY <1>1, <3>1, NothingChanged, EndInv DEF Read, End
    <2> QED
        BY <1>1, <2>1, <2>2 DEF Read
<1>2. CASE Doctor
    <2>1. PICK node \in BOOLEAN, sf \in BOOLEAN, config \in BOOLEAN, auth \in BOOLEAN, sfp \in BOOLEAN :
              End(SelectExitCode(
                  (IF node /\ sf /\ (~config \/ sfp) THEN {} ELSE {"MISSING"})
                      \cup (IF config THEN {} ELSE {"INVALID"})
                      \cup (IF ~sf \/ auth THEN {} ELSE {"AUTH"})))
        BY <1>2 DEF Doctor
    <2>2. applied = {} /\ pc = "doctor" /\ UNCHANGED orgVars
        BY <1>2 DEF CommandInv, ChangedInv, Doctor
    <2> QED
        BY <2>1, <2>2, NothingChanged, EndInv DEF End, orgVars
<1>3. CASE Recover
    <2>1. CASE UNCHANGED orgVars /\ \E code \in {"SUCCESS", "FAILURE"} : End(code)
        <3>1. PICK code \in {"SUCCESS", "FAILURE"} : End(code)
            BY <2>1
        <3> QED
            BY <1>3, <2>1, <3>1, NothingChanged, EndInv DEF Recover, End
    <2>2. CASE ~op.dryRun /\ Changes("forceignore", NoOrg) /\ End("SUCCESS")
        BY <1>3, <2>2, Changed, EndInv DEF Recover, End
    <2> QED
        BY <1>3, <2>1, <2>2 DEF Recover
<1>4. CASE CheckVersions
    <2>1. CASE UNCHANGED orgVars /\ \E code \in {"SUCCESS", "FAILURE", "AUTH"} : End(code)
        <3>1. PICK code \in {"SUCCESS", "FAILURE", "AUTH"} : End(code)
            BY <2>1
        <3> QED
            BY <1>4, <2>1, <3>1, NothingChanged, EndInv DEF CheckVersions, End
    <2>2. CASE Changes("versions", NoOrg) /\ End("SUCCESS")
        BY <1>4, <2>2, Changed, EndInv DEF CheckVersions, End, CommandInv, StageInv
    <2> QED
        BY <1>4, <2>1, <2>2 DEF CheckVersions, Fails
<1> QED
    BY <1>1, <1>2, <1>3, <1>4

-----------------------------------------------------------------------------
(* Acquiring an org *)

LEMMA FailsInv ==
    ASSUME CommandInv, Stays, pc \notin {"idle", "ended"}, Fails,
           acquired' = acquired => OrgsAreSafe
    PROVE  CommandInv'
<1>1. PICK code \in {"FAILURE", "AUTH"} : End(code)
    BY DEF Fails
<1>2. acquired' = acquired
    BY <1>1 DEF End
<1> QED
    BY <1>1, <1>2, EndInv

LEMMA PoolInv == ASSUME CommandInv, Stays, ResolvePoolDevHub PROVE CommandInv'
<1> USE DEF ResolvePoolDevHub
<1>1. pc = "pool" /\ applied = {} /\ acquired = NoOrg /\ UNCHANGED orgVars
    BY DEF CommandInv, ChangedInv, AcquiredInv
<1>2. CASE End("INVALID")
    BY <1>1, <1>2, NothingChanged, EndInv DEF End, orgVars
<1>3. CASE Go("discard")
    <2>1. pc' = "discard" /\ acquired' = NoOrg /\ UNCHANGED ending
        BY <1>1, <1>3 DEF Go
    <2>2. StageInv'
        BY <1>1, <2>1 DEF CommandInv, StageInv, Stays, Creates
    <2>3. Reached'
        BY <1>1, <2>1 DEF Reached
    <2> QED
        BY <1>1, <2>1, <2>2, <2>3, NothingChanged, StageStep DEF ending
<1> QED
    BY <1>2, <1>3

LEMMA DiscardInv == ASSUME CommandInv, Stays, DeleteExisting PROVE CommandInv'
<1> USE DEF DeleteExisting
<1>1. pc = "discard" /\ acquired = NoOrg
    BY DEF CommandInv, AcquiredInv
<1>2. /\ pc' \in {"clear", "configure", "acquire"} /\ acquired' = acquired /\ UNCHANGED ending
      /\ pc' = "configure" => op.dryRun
      /\ pc' = "acquire" => ~op.dryRun
    BY DEF Go, AfterClear
<1>3. OrgsAreSafe
    BY <1>2, NothingChanged, Deleted
<1>4. StageInv'
    BY <1>1, <1>2 DEF CommandInv, StageInv, Stays, Creates
<1>5. Reached'
    BY <1>1, <1>2, <1>3 DEF CommandInv, ChangedInv, Reached, OrgsAreSafe, Stays
<1> QED
    BY <1>1, <1>2, <1>3, <1>4, <1>5, StageStep DEF ending

LEMMA ClearInv == ASSUME CommandInv, Stays, ClearSources PROVE CommandInv'
<1> USE DEF ClearSources
<1>1. pc = "clear" /\ acquired = NoOrg
    BY DEF CommandInv, AcquiredInv
<1>2. acquired' = acquired
    BY DEF Go, End, Throw
<1>3. OrgsAreSafe
    BY <1>2, NothingChanged, Changed
<1>4. CASE End("SUCCESS")
    BY <1>1, <1>3, <1>4, EndInv
<1>5. CASE Throw("FAILURE")
    BY <1>1, <1>3, <1>5, ThrowInv
<1>6. CASE Creates /\ Go(AfterClear)
    <2>1. /\ pc' \in {"configure", "acquire"} /\ UNCHANGED ending
          /\ pc' = "configure" => op.dryRun
          /\ pc' = "acquire" => ~op.dryRun
        BY <1>6 DEF Go, AfterClear
    <2>2. StageInv'
        BY <1>1, <1>6, <2>1 DEF CommandInv, StageInv, Stays, Creates
    <2>3. Reached'
        BY <1>1, <1>2, <1>3, <2>1 DEF CommandInv, ChangedInv, Reached, OrgsAreSafe, Stays
    <2> QED
        BY <1>1, <1>3, <2>1, <2>2, <2>3, StageStep DEF ending
<1> QED
    BY <1>4, <1>5, <1>6

LEMMA ToAcquire ==
    ASSUME CommandInv, Stays, UNCHANGED orgVars, pc = "acquire",
           NEW stage \in {"fetch", "create"}, Go(stage)
    PROVE  CommandInv'
<1>1. /\ pc' \in {"fetch", "create"} /\ acquired = NoOrg /\ acquired' = NoOrg /\ UNCHANGED ending
      /\ ~op.dryRun
    BY DEF CommandInv, AcquiredInv, StageInv, Go
<1>2. StageInv'
    BY <1>1 DEF CommandInv, StageInv, Stays, Creates
<1>3. Reached'
    BY <1>1 DEF Reached
<1> QED
    BY <1>1, <1>2, <1>3, NothingChanged, StageStep DEF ending

LEMMA FromPoolInv == ASSUME CommandInv, Stays, AcquireFromPool PROVE CommandInv'
<1> USE DEF AcquireFromPool
<1>1. CASE \E stage \in {"fetch", "create"} : Go(stage)
    BY <1>1, ToAcquire
<1>2. CASE Fails
    BY <1>2, NothingChanged, FailsInv
<1>3. CASE End("FAILURE")
    BY <1>3, NothingChanged, EndInv DEF End
<1> QED
    BY <1>1, <1>2, <1>3

\* One more scratch org is there, with the alias or without it.
Taken(stage, o) == unused' = unused \ {o} /\ applied' = applied \cup {<<stage, o>>}
Named(o) == target' = op.alias /\ holder' = [holder EXCEPT ![op.alias] = o]

LEMMA TakenIsSafe ==
    ASSUME CommandInv, Stays, ~op.dryRun, NEW stage \in {"fetch", "create"}, NEW o \in unused,
           Taken(stage, o), Named(o) \/ UNCHANGED <<holder, target>>,
           acquired' = acquired \/ (acquired = NoOrg /\ acquired' = o)
    PROVE  OrgsAreSafe
<1>1. o \in Spare /\ o \in Scratch /\ o \in Orgs
    BY WorkflowConstants DEF CommandInv, CommandTypes
<1>2. CommandTypes'
    BY <1>1 DEF CommandInv, CommandTypes, Stays, Taken, Named
<1>3. \A c \in OrgChanges' : c \in OrgChanges \/ (c = <<stage, o>> /\ o # NoOrg)
    BY OneChange DEF Taken
<1>4. OnlyConfirmedOrgsAreChanged'
    BY <1>1, <1>3 DEF CommandInv, ClearedInv, OnlyConfirmedOrgsAreChanged, Stays
<1>5. \A c \in OrgChanges : c[2] # NoOrg
    BY DEF OrgChanges
<1>6. Safe'
    BY <1>3, <1>4, <1>5 DEF CommandInv, AcquiredInv, ConfiguresTheAcquiredOrg, Safe, Stays, Creates
<1> QED
    BY <1>2, <1>6 DEF OrgsAreSafe

LEMMA AcquireInv ==
    ASSUME CommandInv, Stays, NEW stage \in {"fetch", "create"}, Acquire(stage)
    PROVE  CommandInv'
<1>1. PICK o \in unused :
          LET Take == unused' = unused \ {o} /\ applied' = applied \cup {<<stage, o>>}
          IN  Retried(stage,
                  /\ Take /\ target' = op.alias
                  /\ holder' = [holder EXCEPT ![op.alias] = o],
                  Take /\ UNCHANGED <<holder, target>>,
                  /\ acquired' = o /\ pc' = "configure"
                  /\ UNCHANGED <<todo, part, ending>>)
    BY DEF Acquire
<1>2. \/ Taken(stage, o) /\ Named(o) /\ acquired' = o /\ pc' = "configure" /\ UNCHANGED ending
      \/ /\ \/ Taken(stage, o) /\ (Named(o) \/ UNCHANGED <<holder, target>>)
            \/ UNCHANGED orgVars
         /\ UNCHANGED <<pc, acquired, ending>>
      \/ /\ \/ Taken(stage, o) /\ UNCHANGED <<holder, target>>
            \/ UNCHANGED orgVars
         /\ Fails
      \/ UNCHANGED orgVars /\ Throw("FAILURE")
    BY <1>1 DEF Retried, Taken, Named
<1>3. pc = stage /\ acquired = NoOrg /\ ~op.dryRun
    BY DEF Acquire, CommandInv, AcquiredInv, StageInv
<1>4. CASE Taken(stage, o) /\ Named(o) /\ acquired' = o /\ pc' = "configure" /\ UNCHANGED ending
    <2>1. OrgsAreSafe
        BY <1>3, <1>4, TakenIsSafe
    <2>2. StageInv'
        BY <1>3, <1>4 DEF CommandInv, StageInv, Stays, Creates
    <2>3. o \in Scratch /\ o # NoOrg
        BY WorkflowConstants DEF CommandInv, CommandTypes
    <2>4. Creates /\ op.alias \in Aliases
        BY <1>3 DEF CommandInv, StageInv, CommandTypes, Names
    <2>5. holder'[op.alias] = o
        BY <1>4, <2>4 DEF CommandInv, CommandTypes, Named
    <2>6. Reached'
        BY <1>3, <1>4, <2>3, <2>4, <2>5 DEF Reached, Stays, Cleared, Creates
    <2> QED
        BY <1>3, <1>4, <2>1, <2>2, <2>6, StageStep DEF ending
<1>5. CASE /\ \/ Taken(stage, o) /\ (Named(o) \/ UNCHANGED <<holder, target>>)
              \/ UNCHANGED orgVars
           /\ UNCHANGED <<pc, acquired, ending>>
    <2>1. OrgsAreSafe
        BY <1>3, <1>5, TakenIsSafe, NothingChanged
    <2>2. StageInv'
        BY <1>3, <1>5 DEF CommandInv, StageInv, Stays, Creates
    <2>3. Reached'
        BY <1>3, <1>5 DEF Reached
    <2> QED
        BY <1>3, <1>5, <2>1, <2>2, <2>3, StageStep DEF ending
<1>6. CASE /\ \/ Taken(stage, o) /\ UNCHANGED <<holder, target>>
              \/ UNCHANGED orgVars
           /\ Fails
    BY <1>3, <1>6, TakenIsSafe, NothingChanged, FailsInv
<1>7. CASE UNCHANGED orgVars /\ Throw("FAILURE")
    BY <1>3, <1>7, NothingChanged, ThrowInv DEF Throw
<1> QED
    BY <1>2, <1>4, <1>5, <1>6, <1>7

-----------------------------------------------------------------------------
(* Configuring an org *)

LEMMA ConfigureInv == ASSUME CommandInv, Stays, ConfigureProject PROVE CommandInv'
<1> USE DEF ConfigureProject
<1>1. pc = "configure" /\ (applied = {} \/ (Creates /\ acquired # NoOrg)) /\ UNCHANGED orgVars
    BY DEF CommandInv, ChangedInv
<1>2. CASE End("INVALID")
    BY <1>1, <1>2, NothingChanged, EndInv DEF End, orgVars
<1>3. CASE pc' \in {"steps", "packages"} /\ UNCHANGED <<part, acquired, ending>>
    <2>1. StageInv'
        BY <1>1, <1>3 DEF CommandInv, StageInv, Stays, Creates
    <2>2. Reached'
        BY <1>1, <1>3 DEF CommandInv, ClearedInv, AcquiredInv, Reached, Stays, Cleared, Creates, orgVars
    <2> QED
        BY <1>1, <1>3, <2>1, <2>2, NothingChanged, StageStep DEF ending
<1> QED
    BY <1>2, <1>3

\* The org that these stages change.
LEMMA OrgOfStage ==
    ASSUME CommandInv, pc \in {"packages", "steps", "coverage"}, ~op.dryRun
    PROVE  /\ op.alias # NoAlias => Alias = op.alias /\ Cleared
           /\ Creates => op.alias # NoAlias /\ holder[op.alias] = acquired
BY DEF CommandInv, StageInv, ClearedInv, AcquiredInv, Alias, Creates

LEMMA InOrgIsSafe ==
    ASSUME CommandInv, Stays, pc \in {"packages", "steps", "coverage"}, ~op.dryRun,
           acquired' = acquired, NEW what, InOrg(what, holder[Alias])
    PROVE  OrgsAreSafe /\ holder' = holder
<1>1. OrgsAreSafe
    BY OrgOfStage, Changed DEF InOrg
<1> QED
    BY <1>1 DEF InOrg, Changes

LEMMA InstallInv == ASSUME CommandInv, Stays, Install PROVE CommandInv'
<1> USE DEF Install
<1>1. pc = "packages"
    OBVIOUS
<1>2. ASSUME acquired' = acquired PROVE OrgsAreSafe /\ holder' = holder
    <2>1. CASE UNCHANGED orgVars
        BY <1>2, <2>1, NothingChanged DEF orgVars
    <2>2. CASE ~op.dryRun /\ Changes("packages", holder[PackageTarget])
        <3>1. op.alias # NoAlias => PackageTarget = op.alias
            BY DEF PackageTarget, Alias
        <3>2. OrgsAreSafe
            BY <1>1, <1>2, <2>2, <3>1, OrgOfStage, Changed
        <3> QED
            BY <2>2, <3>2 DEF Changes
    <2> QED
        BY <2>1, <2>2
<1>3. CASE Fails
    BY <1>1, <1>2, <1>3, FailsInv
<1>4. CASE \E code \in {"SUCCESS", "FAILURE", "AUTH", "PARTIAL"} : End(code)
    <2>1. PICK code \in {"SUCCESS", "FAILURE", "AUTH", "PARTIAL"} : End(code)
        BY <1>4
    <2> QED
        BY <1>1, <1>2, <2>1, EndInv DEF End
<1>5. CASE Composed /\ Go("steps")
    <2>1. pc' = "steps" /\ acquired' = acquired /\ UNCHANGED ending
        BY <1>5 DEF Go
    <2>2. StageInv'
        BY <1>1, <2>1 DEF CommandInv, StageInv, Stays, Creates
    <2>3. Reached'
        BY <1>1, <1>2, <2>1 DEF CommandInv, ClearedInv, AcquiredInv, Reached, Stays, Cleared, Creates
    <2> QED
        BY <1>1, <1>2, <2>1, <2>2, <2>3, StageStep DEF ending
<1> QED
    BY <1>3, <1>4, <1>5

\* A command of a stage in the org of the alias; Done goes on without an end.
LEMMA CommandOfStage ==
    ASSUME CommandInv, Stays, pc \in {"steps", "coverage"}, ~op.dryRun, NEW what,
           InOrg(what, holder[Alias]) \/ UNCHANGED orgVars,
           \/ Fails
           \/ UNCHANGED <<pc, acquired, exit>>
    PROVE  CommandInv'
<1>1. ASSUME acquired' = acquired PROVE OrgsAreSafe /\ holder' = holder
    BY <1>1, InOrgIsSafe, NothingChanged DEF orgVars
<1>2. CASE Fails
    BY <1>1, <1>2, FailsInv
<1>3. CASE UNCHANGED <<pc, acquired, exit>>
    BY <1>1, <1>3, StayInv
<1> QED
    BY <1>2, <1>3

LEMMA QuietStep ==
    ASSUME CommandInv, Stays, pc = "steps", UNCHANGED orgVars, NextStep
    PROVE  CommandInv'
<1>1. UNCHANGED <<pc, acquired, exit, holder, applied>>
    BY DEF NextStep, ending, orgVars
<1> QED
    BY <1>1, NothingChanged, StayInv

LEMMA RunPartInv == ASSUME CommandInv, Stays, RunPart PROVE CommandInv'
<1>1. pc = "steps" /\ ~op.dryRun
    BY DEF RunPart, Selected
<1>2. \/ InOrg(Step, holder[Alias]) \/ UNCHANGED orgVars
    BY DEF RunPart, RunCommandStep, Retried
<1>3. \/ Fails \/ UNCHANGED <<pc, acquired, exit>> \/ (UNCHANGED orgVars /\ Throw("FAILURE"))
    BY DEF RunPart, RunCommandStep, Retried, PartDone, NextStep, ending
<1>4. CASE UNCHANGED orgVars /\ Throw("FAILURE")
    BY <1>1, <1>4, NothingChanged, ThrowInv DEF Throw
<1> QED
    BY <1>1, <1>2, <1>3, <1>4, CommandOfStage

LEMMA UsersInv ==
    ASSUME CommandInv, Stays, ImportDummyUsers \/ ImportMissingUsers
    PROVE  CommandInv'
<1>1. pc = "steps" /\ ~op.dryRun /\ todo # << >>
    BY DEF ImportDummyUsers, ImportMissingUsers, ImportsUsers, Selected
<1>2. CASE ImportDummyUsers
    <2>1. CASE NextStep
        BY <1>1, <1>2, <2>1, QuietStep DEF ImportDummyUsers
    <2>2. CASE Throw("INVALID")
        BY <1>1, <1>2, <2>2, NothingChanged, ThrowInv DEF ImportDummyUsers, Throw
    <2> QED
        BY <1>2, <2>1, <2>2 DEF ImportDummyUsers
<1>3. CASE ImportMissingUsers
    <2>1. InOrg("users", holder[Alias]) \/ UNCHANGED orgVars
        BY <1>3 DEF ImportMissingUsers, RunCommandStep, Retried
    <2>2. \/ Fails \/ UNCHANGED <<pc, acquired, exit>> \/ (UNCHANGED orgVars /\ Throw("FAILURE"))
        BY <1>3 DEF ImportMissingUsers, RunCommandStep, Retried, AssignPermissionSets, NextStep, ending
    <2>3. CASE UNCHANGED orgVars /\ Throw("FAILURE")
        BY <1>1, <2>3, NothingChanged, ThrowInv DEF Throw
    <2> QED
        BY <1>1, <2>1, <2>2, <2>3, CommandOfStage
<1> QED
    BY <1>2, <1>3

LEMMA StepsInv == ASSUME CommandInv, Stays, RunPostSteps PROVE CommandInv'
<1>1. CASE SkipStep
    BY <1>1, QuietStep DEF SkipStep
<1>2. CASE DryStep
    BY <1>2, QuietStep DEF DryStep, Selected
<1> QED
    BY <1>1, <1>2, RunPartInv, UsersInv DEF RunPostSteps

LEMMA TrackingInv == ASSUME CommandInv, Stays, ResetSourceTracking PROVE CommandInv'
<1>1. pc = "steps"
    BY DEF ResetSourceTracking
<1>2. ASSUME Go("refresh"), OrgsAreSafe PROVE CommandInv'
    <2>1. pc' = "refresh" /\ UNCHANGED ending
        BY <1>2 DEF Go
    <2>2. StageInv'
        BY <1>1, <2>1 DEF CommandInv, StageInv, Stays, Creates
    <2>3. Reached'
        BY <2>1 DEF Reached
    <2> QED
        BY <1>1, <1>2, <2>1, <2>2, <2>3, StageStep DEF ending
<1>3. CASE UNCHANGED orgVars /\ Go("refresh")
    BY <1>2, <1>3, NothingChanged DEF Go
<1>4. CASE /\ ~op.dryRun
           /\ RunCommandStep("tracking", InOrg("tracking", holder[Alias]), Go("refresh"))
    <2>1. InOrg("tracking", holder[Alias]) \/ UNCHANGED orgVars
        BY <1>4 DEF RunCommandStep, Retried
    <2>2. \/ Fails \/ UNCHANGED <<pc, acquired, exit>> \/ (UNCHANGED orgVars /\ Throw("FAILURE"))
          \/ InOrg("tracking", holder[Alias]) /\ Go("refresh")
        BY <1>4 DEF RunCommandStep, Retried, ending
    <2>3. CASE UNCHANGED orgVars /\ Throw("FAILURE")
        BY <1>1, <2>3, NothingChanged, ThrowInv DEF Throw
    <2>4. CASE InOrg("tracking", holder[Alias]) /\ Go("refresh")
        BY <1>1, <1>2, <1>4, <2>4, InOrgIsSafe DEF Go
    <2> QED
        BY <1>1, <1>4, <2>1, <2>2, <2>3, <2>4, CommandOfStage
<1> QED
    BY <1>3, <1>4 DEF ResetSourceTracking

LEMMA RefreshInv == ASSUME CommandInv, Stays, RefreshDependencies PROVE CommandInv'
<1> USE DEF RefreshDependencies
<1>1. pc = "refresh"
    OBVIOUS
<1>2. ASSUME acquired' = acquired PROVE OrgsAreSafe
    BY <1>2, NothingChanged, Changed
<1>3. CASE \E code \in {"SUCCESS", "FAILURE", "AUTH", "PARTIAL"} : End(code)
    <2>1. PICK code \in {"SUCCESS", "FAILURE", "AUTH", "PARTIAL"} : End(code)
        BY <1>3
    <2> QED
        BY <1>1, <1>2, <2>1, EndInv DEF End
<1>4. CASE Throw("FAILURE")
    BY <1>1, <1>2, <1>4, ThrowInv DEF Throw
<1> QED
    BY <1>3, <1>4

-----------------------------------------------------------------------------
(* Deleting an org, checking the coverage *)

LEMMA DeleteInv == ASSUME CommandInv, Stays, DeleteCommand PROVE CommandInv'
<1>1. pc = "delete" /\ ~op.dryRun
    BY DEF DeleteCommand, CommandInv, StageInv
<1>2. Deletes(op.alias) \/ UNCHANGED orgVars
    BY DEF DeleteCommand, RunCommandStep, Retried
<1>3. ASSUME acquired' = acquired PROVE OrgsAreSafe
    BY <1>1, <1>2, <1>3, NothingChanged, Deleted
<1>4. \/ End("SUCCESS") \/ Fails \/ UNCHANGED <<pc, acquired, exit>>
      \/ UNCHANGED orgVars /\ Throw("FAILURE")
    BY DEF DeleteCommand, RunCommandStep, Retried, ending
<1>5. CASE UNCHANGED <<pc, acquired, exit>>
    <2>1. StageInv'
        BY <1>1, <1>5 DEF CommandInv, StageInv, Stays, Creates
    <2>2. op.alias # NoAlias => Cleared'
        BY <1>1, <1>2 DEF CommandInv, ClearedInv, CommandTypes, Cleared, Deletes, Stays, orgVars, Names
    <2>3. Reached'
        BY <1>1, <1>5, <2>2 DEF Reached, Stays
    <2> QED
        BY <1>1, <1>3, <1>5, <2>1, <2>3, StageStep
<1>6. CASE End("SUCCESS")
    BY <1>1, <1>3, <1>6, EndInv DEF End
<1>7. CASE Fails
    BY <1>1, <1>3, <1>7, FailsInv
<1>8. CASE UNCHANGED orgVars /\ Throw("FAILURE")
    BY <1>1, <1>3, <1>8, ThrowInv DEF Throw
<1> QED
    BY <1>4, <1>5, <1>6, <1>7, <1>8

LEMMA CoverageInv == ASSUME CommandInv, Stays, CoverageCheck PROVE CommandInv'
<1> DEFINE command == CoverageCommands[part + 1]
<1>1. pc = "coverage"
    BY DEF CoverageCheck
<1>2. \/ UNCHANGED orgVars /\ \E code \in {"SUCCESS", "FAILURE"} : End(code)
      \/ /\ (~op.dryRun /\ InOrg(command, holder[Alias])) \/ UNCHANGED orgVars
         /\ UNCHANGED <<pc, acquired, exit>>
      \/ /\ (~op.dryRun /\ InOrg(command, holder[Alias])) \/ UNCHANGED orgVars
         /\ Fails
    BY DEF CoverageCheck, RunAllTests, Covered, ending
<1> HIDE DEF command
<1>3. CASE UNCHANGED orgVars /\ \E code \in {"SUCCESS", "FAILURE"} : End(code)
    <2>1. PICK code \in {"SUCCESS", "FAILURE"} : End(code)
        BY <1>3
    <2> QED
        BY <1>1, <1>3, <2>1, NothingChanged, EndInv DEF End
<1>4. CASE UNCHANGED orgVars /\ UNCHANGED <<pc, acquired, exit>>
    BY <1>1, <1>4, NothingChanged, StayInv DEF orgVars
<1>5. CASE UNCHANGED orgVars /\ Fails
    BY <1>1, <1>5, NothingChanged, FailsInv
<1>6. CASE /\ ~op.dryRun /\ InOrg(command, holder[Alias])
           /\ Fails \/ UNCHANGED <<pc, acquired, exit>>
    BY <1>1, <1>6, CommandOfStage
<1> QED
    BY <1>2, <1>3, <1>4, <1>5, <1>6

-----------------------------------------------------------------------------
(* Every step *)

LEMMA WorkInv == ASSUME CommandInv, Work PROVE CommandInv'
<1>1. Stays
    BY DEF Work, Stays
<1>2. CASE AssertMutationTarget \/ CliInspectDelete \/ Preauthorize \/ Execute
    BY <1>1, <1>2, AssertInv, CliInspectDeleteInv, PreauthorizeInv, ExecuteInv
<1>3. CASE Acquiring
    <2>1. CASE AcquireByCreation
        BY <1>1, <2>1, ToAcquire, AcquireInv DEF AcquireByCreation
    <2> QED
        BY <1>1, <1>3, <2>1, PoolInv, DiscardInv, ClearInv, FromPoolInv, AcquireInv
           DEF Acquiring, FetchFromPool
<1>4. CASE Configuring
    BY <1>1, <1>4, ConfigureInv, InstallInv, StepsInv, TrackingInv, RefreshInv DEF Configuring
<1>5. CASE DeleteCommand \/ CoverageCheck
    BY <1>1, <1>5, DeleteInv, CoverageInv
<1>6. CASE Read \/ Doctor \/ Recover \/ CheckVersions
    BY <1>1, <1>6, SimpleInv
<1> QED
    BY <1>2, <1>3, <1>4, <1>5, <1>6 DEF Work

LEMMA OutsideInv ==
    ASSUME CommandInv, Cancel \/ SwitchTarget \/ UNCHANGED vars
    PROVE  CommandInv'
<1>1. CASE Cancel
    BY <1>1 DEF Cancel, CommandInv, CommandTypes, StageInv, ChangedInv, ClearedInv, AcquiredInv,
        Cleared, MutationTarget, RefusedChangesNothing, OnlyConfirmedOrgsAreChanged,
        ConfiguresTheAcquiredOrg, OrgChanges, Creates, cursor, ending, orgVars
<1>2. CASE SwitchTarget
    <2>1. target' \in Names
        BY <1>2 DEF SwitchTarget
    <2> QED
        BY <1>2, <2>1 DEF SwitchTarget, CommandInv, CommandTypes, StageInv, ChangedInv, ClearedInv,
            AcquiredInv, Cleared, MutationTarget, RefusedChangesNothing,
            OnlyConfirmedOrgsAreChanged, ConfiguresTheAcquiredOrg, OrgChanges, Creates,
            cursor, ending
<1>3. CASE UNCHANGED vars
    BY <1>3 DEF vars, workflowVars, CommandInv, CommandTypes, StageInv, ChangedInv, ClearedInv,
        AcquiredInv, Cleared, MutationTarget, RefusedChangesNothing,
        OnlyConfirmedOrgsAreChanged, ConfiguresTheAcquiredOrg, OrgChanges, Creates, cursor,
        ending, orgVars
<1> QED
    BY <1>1, <1>2, <1>3

LEMMA NextInv == ASSUME CommandInv, [Next]_vars PROVE CommandInv'
<1>1. CASE Commands
    <2>1. Started
        BY <1>1, CliStarts, PlainStarts, PostStarts DEF Commands
    <2> QED
        BY <2>1, BeginInv, RejectInv DEF Started
<1> QED
    BY <1>1, WorkInv, OutsideInv DEF Next

\* The inductive invariant: where a command may be, what it has changed by
\* then, and that the org it may change is a scratch org, gone or confirmed.
THEOREM CommandInvariant == Spec => []CommandInv
<1> QED
    BY InitInv, NextInv, PTL DEF Spec

\* The confirmations of assertMutationTarget, of the preauthorization and of
\* deleteOrg hold for any classification and any number of retries.
THEOREM OnlyConfirmed == Spec => []OnlyConfirmedOrgsAreChanged
<1>1. CommandInv => OnlyConfirmedOrgsAreChanged
    BY DEF CommandInv, ClearedInv
<1> QED
    BY <1>1, CommandInvariant, PTL

\* A refusal, a rejection and a dry run change nothing, whatever the request.
THEOREM RefusedIsHarmless == Spec => []RefusedChangesNothing
<1>1. CommandInv => RefusedChangesNothing
    BY DEF CommandInv, ChangedInv
<1> QED
    BY <1>1, CommandInvariant, PTL

\* createOrg configures the org it has acquired, after any number of lost
\* replies, and reports it when the configuration fails.
THEOREM AcquiredOrg == Spec => []ConfiguresTheAcquiredOrg
<1>1. CommandInv => ConfiguresTheAcquiredOrg
    BY DEF CommandInv, AcquiredInv
<1> QED
    BY <1>1, CommandInvariant, PTL

-----------------------------------------------------------------------------
(* Cancellation *)

LEMMA SameOrgs == ASSUME applied' = applied PROVE OrgChanges' = OrgChanges
BY DEF OrgChanges

LEMMA LocalChange == ASSUME NEW what, Changes(what, NoOrg) PROVE OrgChanges' = OrgChanges
BY DEF OrgChanges, Changes

\* The signal kills the commands of every stage that gets it.
LEMMA CancelledIsKilled ==
    ASSUME CommandInv, aborted, NEW stage, ~(Composed /\ stage \in {"packages", "refresh"})
    PROVE  Killed(stage)
BY DEF CommandInv, StageInv, Killed, Signalled

LEMMA CancelledWork ==
    ASSUME CommandInv, aborted, Work
    PROVE  OrgChanges' = OrgChanges \/ (Composed /\ pc = "packages")
<1> USE SameOrgs, LocalChange
<1>1. CASE \/ AssertMutationTarget \/ CliInspectDelete \/ Preauthorize \/ Execute
           \/ Read \/ Doctor \/ ResolvePoolDevHub \/ AcquireFromPool \/ ConfigureProject
    BY <1>1 DEF AssertMutationTarget, CliInspectDelete, Preauthorize, Execute, Read, Doctor,
        ResolvePoolDevHub, AcquireFromPool, ConfigureProject, orgVars
<1>2. CASE Recover \/ CheckVersions \/ ClearSources \/ RefreshDependencies
    BY <1>2 DEF Recover, CheckVersions, ClearSources, RefreshDependencies, orgVars
<1>3. CASE DeleteExisting
    BY <1>3, CancelledIsKilled DEF DeleteExisting, orgVars
<1>4. CASE FetchFromPool \/ AcquireByCreation
    <2>1. Killed("fetch") /\ Killed("create")
        BY CancelledIsKilled
    <2> QED
        BY <1>4, <2>1 DEF FetchFromPool, AcquireByCreation, Acquire, Retried, orgVars
<1>5. CASE Install
    BY <1>5, CancelledIsKilled DEF Install, orgVars
<1>6. CASE RunPostSteps \/ ResetSourceTracking
    <2>1. Killed("steps") /\ Killed("tracking")
        BY CancelledIsKilled
    <2> QED
        BY <1>6, <2>1 DEF RunPostSteps, SkipStep, DryStep, RunPart, ImportDummyUsers,
            ImportMissingUsers, ResetSourceTracking, RunCommandStep, Retried, orgVars
<1>7. CASE DeleteCommand
    <2>1. Killed("delete")
        BY CancelledIsKilled
    <2> QED
        BY <1>7, <2>1 DEF DeleteCommand, RunCommandStep, Retried, orgVars
<1>8. CASE CoverageCheck
    BY <1>8 DEF CoverageCheck, CommandInv, StageInv
<1> QED
    BY <1>1, <1>2, <1>3, <1>4, <1>5, <1>6, <1>7, <1>8 DEF Work, Acquiring, Configuring

\* A cancelled operation changes no org any more, but for the packages.
THEOREM CancelStops == Spec => CancelStopsOrgChanges
<1>1. ASSUME CommandInv, [Next]_vars
      PROVE  [aborted /\ OrgChanges' # OrgChanges => Composed /\ pc = "packages"]_vars
    <2>1. CASE aborted /\ Work
        BY <2>1, <1>1, CancelledWork
    <2>2. CASE Commands
        BY <1>1, <2>2 DEF Commands, CommandInv, StageInv, CliCreate, CliDelete, CliConfigure, CliPackages,
            CliRefresh, CliClear, CliCoverage, CliRecover, CliCheckVersions, CliDoctor, CliOrgRead,
            CliPlan, PostOperation, Accept, LoadFails, Begin, Reject
    <2>3. CASE Cancel \/ SwitchTarget
        BY <2>3, SameOrgs DEF Cancel, SwitchTarget, orgVars
    <2> QED
        BY <1>1, <2>1, <2>2, <2>3 DEF Next
<1> QED
    BY <1>1, CommandInvariant, PTL DEF Spec, CancelStopsOrgChanges

-----------------------------------------------------------------------------
(* The workflows: what a stage has behind it *)

LEMMA StepList == CanonicalSteps \in Seq(KnownSteps) /\ ToSet(CanonicalSteps) = KnownSteps
<1>1. Builtin \in Seq(STRING) /\ Custom \in Seq(STRING)
    BY StepNames
<1>2. CanonicalSteps \in Seq(STRING)
    BY <1>1 DEF CanonicalSteps
<1>3. \A i \in DOMAIN CanonicalSteps : CanonicalSteps[i] \in ToSet(CanonicalSteps)
    BY DEF ToSet
<1> HIDE DEF CanonicalSteps
<1> QED
    BY <1>2, <1>3 DEF KnownSteps

\* What a step leaves of the steps to come.
LEMMA StepOfList ==
    ASSUME WalkInv, todo # << >>
    PROVE  /\ Step \in KnownSteps /\ Tail(todo) \in Seq(KnownSteps)
           /\ \A s \in ToSet(todo) : s = Step \/ s \in ToSet(Tail(todo))
<1>1. todo \in Seq(KnownSteps)
    BY DEF WalkInv
<1>2. /\ Step = todo[1] /\ 1 \in DOMAIN todo
      /\ \A i \in DOMAIN todo : i = 1 \/ (i - 1 \in DOMAIN Tail(todo) /\ Tail(todo)[i - 1] = todo[i])
    BY <1>1 DEF Step
<1>3. Step \in KnownSteps /\ Tail(todo) \in Seq(KnownSteps)
    BY <1>1, <1>2
<1>4. ASSUME NEW s \in ToSet(todo), s # Step PROVE s \in ToSet(Tail(todo))
    <2>1. PICK i \in DOMAIN todo : s = todo[i]
        BY DEF ToSet
    <2>2. i - 1 \in DOMAIN Tail(todo) /\ Tail(todo)[i - 1] = s
        BY <1>2, <1>4, <2>1
    <2> QED
        BY <2>2 DEF ToSet
<1> QED
    BY <1>3, <1>4

LEMMA InitWorkflow == Init => WorkflowInv
<1> SUFFICES ASSUME Init PROVE WorkflowInv
    OBVIOUS
<1> USE DEF Init, Plain
<1>1. WalkInv
    BY DEF WalkInv, Composed
<1> QED
    BY <1>1 DEF WorkflowInv, ProgressInv, SuccessIsComplete, Composed, ResetInv

LEMMA StartedWorkflow ==
    ASSUME CommandInv, WorkflowInv, Started
    PROVE  WorkflowInv'
<1>1. /\ pc = "idle" /\ applied' = {} /\ UNCHANGED <<todo, part>> /\ part = 0
    BY DEF Started, Begin, Reject, CommandInv, ChangedInv, WorkflowInv, WalkInv, orgVars
<1>2. CASE \E r, stage : Fits(r, stage) /\ Begin(r, stage)
    <2>1. PICK r, stage : Fits(r, stage) /\ Begin(r, stage)
        BY <1>2
    <2>2. WalkInv'
        BY <1>1, <2>1 DEF Fits, Begin, WorkflowInv, WalkInv, Composed, Creates
    <2>3. exit' = "none" /\ pc' \notin {"steps", "ended"} /\ op' = r
          /\ (Composed' => pc' \notin {"packages", "refresh"})
        BY <1>1, <2>1 DEF Fits, Begin, CommandInv, ChangedInv, Composed, ending
    <2>4. ProgressInv' /\ ResetInv'
        BY <1>1, <2>3 DEF ProgressInv, SuccessIsComplete, ResetInv
    <2> QED
        BY <2>2, <2>4 DEF WorkflowInv
<1>3. CASE \E r : \E code \in {"INVALID", "MISSING", "FAILURE"} : Reject(r, code)
    <2>1. exit' # "SUCCESS" /\ pc' = "ended"
        BY <1>3 DEF Reject
    <2> QED
        BY <1>1, <2>1 DEF WorkflowInv, WalkInv, ProgressInv, SuccessIsComplete, ResetInv
<1> QED
    BY <1>2, <1>3 DEF Started

\* The stages before and beside the packages, the steps and the refresh.
Beside ==
    /\ pc \notin {"idle", "packages", "steps", "refresh", "ended"}
    /\ todo' = todo /\ part' \in Nat
    /\ part' = 0 \/ pc' \in {"coverage", "ended"}
    /\ pc' = "coverage" => part' \in 0 .. 3
    /\ IF Composed
       THEN /\ pc' \in {"execute", "pool", "discard", "clear", "acquire", "fetch", "create",
                        "configure", "ended"}
            /\ pc' = "clear" => Creates
            /\ exit' = "SUCCESS" => op.dryRun
       ELSE pc' \notin {"configure", "steps"}
    /\ \A o \in Orgs : <<"tracking", o>> \in applied' => <<"tracking", o>> \in applied

LEMMA BesideKeeps ==
    ASSUME WorkflowInv, Stays, Beside
    PROVE  WorkflowInv'
<1>1. UNCHANGED <<Composed, Creates, op>>
    BY DEF Stays, Composed, Creates
<1>2. WalkInv'
    BY <1>1 DEF Beside, WorkflowInv, WalkInv
<1>3. ProgressInv'
    BY <1>1 DEF Beside, ProgressInv, SuccessIsComplete
<1>4. ResetInv'
    BY DEF Beside, WorkflowInv, ResetInv
<1> QED
    BY <1>2, <1>3, <1>4 DEF WorkflowInv

\* A workflow that ends without a success has nothing to show.
LEMMA EndsOtherwise ==
    ASSUME WorkflowInv, Stays, pc' = "ended", UNCHANGED <<todo, part>>,
           Composed /\ ~op.dryRun => exit' # "SUCCESS"
    PROVE  WorkflowInv'
<1>1. UNCHANGED <<Composed, Creates, op>>
    BY DEF Stays, Composed, Creates
<1>2. WalkInv'
    BY <1>1 DEF WorkflowInv, WalkInv
<1>3. ProgressInv' /\ ResetInv'
    BY <1>1 DEF ProgressInv, SuccessIsComplete, ResetInv
<1> QED
    BY <1>2, <1>3 DEF WorkflowInv

LEMMA FailureEnds ==
    ASSUME WorkflowInv, Stays,
           Fails \/ \E code \in {"INVALID", "FAILURE", "AUTH", "PARTIAL"} : End(code) \/ Throw(code)
    PROVE  WorkflowInv'
<1>1. PICK code \in {"INVALID", "FAILURE", "AUTH", "PARTIAL"} : End(code) \/ Throw(code)
    BY DEF Fails
<1>2. pc' = "ended" /\ UNCHANGED <<todo, part>> /\ exit' # "SUCCESS"
    BY <1>1 DEF End, Throw, ExitOf
<1> QED
    BY <1>2, EndsOtherwise

\* What the invariants say of such a stage before its step.
LEMMA BesideStage ==
    ASSUME CommandInv, WorkflowInv,
           pc \in {"inspect", "policy", "execute", "pool", "discard", "clear", "acquire", "fetch",
                  "create", "configure", "delete", "read", "doctor", "recover", "versions"}
    PROVE  /\ todo \in Seq(KnownSteps) /\ part = 0 /\ part \in Nat /\ exit = "none"
           /\ Composed => pc \notin {"policy", "delete", "read", "doctor", "recover", "versions"}
           /\ Creates => Composed
           /\ Composed => op.command # "org.delete" /\ (pc = "inspect" => ~Creates)
BY DEF CommandInv, ChangedInv, StageInv, WorkflowInv, WalkInv, Composed, Creates

LEMMA InspectionBeside ==
    ASSUME CommandInv, WorkflowInv, Stays,
           AssertMutationTarget \/ CliInspectDelete \/ Preauthorize \/ Execute
    PROVE  Beside
<1>1. /\ pc \in {"inspect", "policy", "execute"} /\ UNCHANGED <<applied, todo, part>>
      /\ pc' # "clear" \/ ~Composed
    BY DEF AssertMutationTarget, CliInspectDelete, Preauthorize, Execute, orgVars,
        DeleteOrg, End, Throw, Go, Composed
<1>2. part = 0 /\ exit = "none" /\ (Composed => op.command # "org.delete" /\ pc # "policy")
    BY <1>1, BesideStage
<1>3. CASE AssertMutationTarget \/ Preauthorize
    <2>1. pc = "inspect" /\ (Composed => op.command = "project.configure" /\ ~Creates)
        BY <1>1, <1>3, BesideStage DEF AssertMutationTarget, Preauthorize, Composed, Creates
    <2>2. IF Composed THEN pc' \in {"execute", "configure", "ended"} ELSE pc' \notin {"configure", "steps"}
        BY <1>3, <2>1 DEF AssertMutationTarget, Preauthorize, End, Throw, Go, Composed
    <2>3. exit' # "SUCCESS"
        BY <1>2, <1>3 DEF AssertMutationTarget, Preauthorize, End, Throw, Go, ExitOf, ending
    <2> QED
        BY <1>1, <1>2, <2>1, <2>2, <2>3 DEF Beside
<1>4. CASE CliInspectDelete \/ Execute
    BY <1>1, <1>2, <1>4 DEF CliInspectDelete, Execute, DeleteOrg, Beside, End, Throw, Go, ExitOf,
        Composed, Creates, ending
<1> QED
    BY <1>3, <1>4

LEMMA AcquiringBeside ==
    ASSUME CommandInv, WorkflowInv, Stays, Acquiring
    PROVE  Beside
<1>1. pc \in {"pool", "discard", "clear", "acquire", "fetch", "create"}
    BY DEF Acquiring, ResolvePoolDevHub, DeleteExisting, ClearSources, AcquireFromPool, FetchFromPool,
        AcquireByCreation, Acquire
<1>2. /\ part = 0 /\ part \in Nat /\ exit = "none" /\ (Creates => Composed)
      /\ (pc # "clear" => Creates) /\ (Composed => Creates)
    BY <1>1, BesideStage DEF CommandInv, StageInv, WorkflowInv, WalkInv, Composed, Creates
<1>3. CASE ResolvePoolDevHub \/ DeleteExisting \/ AcquireFromPool
    BY <1>1, <1>2, <1>3 DEF ResolvePoolDevHub, DeleteExisting, AcquireFromPool, Deletes, AfterClear,
        Beside, End, Go, Fails, ExitOf, orgVars, ending
<1>4. CASE ClearSources
    BY <1>1, <1>2, <1>4 DEF ClearSources, AfterClear, Changes, Beside, End, Go, Throw, ExitOf,
        orgVars, ending
<1>5. CASE FetchFromPool \/ AcquireByCreation
    <2>1. CASE pc = "acquire" /\ Go("create") /\ UNCHANGED orgVars
        BY <1>1, <1>2, <2>1 DEF Beside, Go, orgVars, ending
    <2>2. CASE Acquire("fetch") \/ Acquire("create")
        BY <1>1, <1>2, <2>2 DEF Acquire, Retried, Beside, End, Throw, Fails, ExitOf, orgVars, ending
    <2> QED
        BY <1>5, <2>1, <2>2 DEF FetchFromPool, AcquireByCreation
<1> QED
    BY <1>3, <1>4, <1>5 DEF Acquiring

LEMMA OthersBeside ==
    ASSUME CommandInv, WorkflowInv, Stays,
           DeleteCommand \/ CoverageCheck \/ Read \/ Doctor \/ Recover \/ CheckVersions
    PROVE  Beside
<1>1. /\ pc \in {"delete", "coverage", "read", "doctor", "recover", "versions"}
      /\ ~Composed /\ todo \in Seq(KnownSteps) /\ part \in Nat
    BY DEF DeleteCommand, CoverageCheck, Read, Doctor, Recover, CheckVersions, CommandInv,
        WorkflowInv, WalkInv
<1>2. part = 0 \/ pc = "coverage"
    BY <1>1 DEF WorkflowInv, WalkInv
<1>3. CASE DeleteCommand
    BY <1>1, <1>2, <1>3 DEF DeleteCommand, RunCommandStep, Retried, Deletes, Beside, End, Throw,
        Fails, orgVars
<1>4. CASE CoverageCheck
    <2> DEFINE command == CoverageCommands[part + 1]
    <2>1. pc = "coverage" /\ part \in 0 .. 3
        BY <1>4 DEF CoverageCheck, WorkflowInv, WalkInv
    <2>2. /\ command \in {"package", "deploy", "tests", "query"}
          /\ command # "query" => part + 1 \in 0 .. 3
        BY <2>1 DEF CoverageCommands
    <2>3. /\ pc' \in {"coverage", "ended"} /\ todo' = todo
          /\ part' = part \/ (command # "query" /\ part' = part + 1)
          /\ applied' = applied \/ applied' = applied \cup {<<command, holder[Alias]>>}
        BY <1>4, <2>1 DEF CoverageCheck, RunAllTests, Covered, InOrg, Changes, End, Fails, orgVars
    <2> HIDE DEF command
    <2> QED
        BY <1>1, <2>1, <2>2, <2>3 DEF Beside
<1>5. CASE Read \/ Doctor \/ Recover \/ CheckVersions
    BY <1>1, <1>2, <1>5 DEF Read, Doctor, Recover, CheckVersions, Changes, Beside, End, Throw,
        Fails, orgVars
<1> QED
    BY <1>3, <1>4, <1>5

LEMMA ConfigureWorkflow ==
    ASSUME CommandInv, WorkflowInv, Stays, ConfigureProject
    PROVE  WorkflowInv'
<1>1. pc = "configure" /\ UNCHANGED <<orgVars, op, part, acquired>> /\ Composed
    BY DEF ConfigureProject, Stays, WorkflowInv, WalkInv, End
<1>2. CASE End("INVALID")
    BY <1>2, FailureEnds
<1>3. CASE /\ ~UnknownStep(op.steps) /\ Alias # NoAlias /\ todo' = CanonicalSteps /\ exit' = exit
           /\ pc' = IF op.skipPackages \/ op.dryRun THEN "steps" ELSE "packages"
    <2>1. part = 0 /\ exit = "none"
        BY <1>1 DEF CommandInv, ChangedInv, WorkflowInv, WalkInv
    <2>2. WalkInv'
        BY <1>1, <1>3, <2>1, StepList DEF WorkflowInv, WalkInv, Composed, Creates
    <2>3. Creates /\ ~op.dryRun => holder[Alias] = acquired
        BY <1>1 DEF CommandInv, StageInv, AcquiredInv, Alias
    <2>4. Composed' /\ ~op'.dryRun => Progress(holder[Alias])'
        BY <1>1, <1>3, <2>1, <2>3, StepList DEF Progress, UnknownStep, Alias, Creates, orgVars
    <2>5. ProgressInv'
        BY <1>3, <2>1, <2>4 DEF ProgressInv, SuccessIsComplete
    <2>6. ResetInv'
        BY <1>1 DEF WorkflowInv, ResetInv, orgVars
    <2> QED
        BY <2>2, <2>5, <2>6 DEF WorkflowInv
<1> QED
    BY <1>2, <1>3 DEF ConfigureProject, ending

LEMMA InstallWorkflow ==
    ASSUME CommandInv, WorkflowInv, Stays, Install
    PROVE  WorkflowInv'
<1>1. pc = "packages" /\ UNCHANGED <<op, todo, part, acquired>>
    BY DEF Install, Stays, Go, End, Fails
<1>2. CASE ~Composed /\ pc' = "ended"
    BY <1>1, <1>2, EndsOtherwise
<1>3. CASE Fails \/ \E code \in {"FAILURE", "AUTH", "PARTIAL"} : End(code)
    BY <1>3, FailureEnds
<1>4. CASE Composed /\ Go("steps")
    <2>1. part = 0 /\ pc' = "steps" /\ exit' = "none"
        BY <1>1, <1>4 DEF CommandInv, ChangedInv, WorkflowInv, WalkInv, Go, ending
    <2>2. WalkInv'
        BY <1>1, <1>4, <2>1 DEF WorkflowInv, WalkInv, Composed, Creates
    <2>3. ASSUME ~op.dryRun PROVE Progress(holder[Alias])'
        <3>1. Progress(holder[Alias]) /\ PackageTarget = Alias
            BY <1>1, <1>4, <2>3 DEF WorkflowInv, ProgressInv, Progress, PackageTarget
        <3>2. /\ holder' = holder /\ Alias' = Alias
              /\ applied' = applied \cup {<<"packages", holder[Alias]>>}
            BY <1>1, <1>4, <2>1, <2>3, <3>1
               DEF Install, Fails, End, Changes, Alias
        <3> QED
            BY <1>1, <2>1, <3>1, <3>2 DEF Progress, Alias, Creates
    <2>4. ProgressInv'
        BY <1>1, <2>1, <2>3 DEF ProgressInv, SuccessIsComplete
    <2>5. ResetInv'
        BY <1>1 DEF WorkflowInv, ResetInv, Install, Changes, orgVars
    <2> QED
        BY <2>2, <2>4, <2>5 DEF WorkflowInv
<1> QED
    BY <1>2, <1>3, <1>4 DEF Install, End

\* On among the steps: at the same one, or behind it.
LEMMA OnAmongSteps ==
    ASSUME CommandInv, WorkflowInv, Stays, pc = "steps", todo # << >>,
           UNCHANGED <<pc, acquired, holder, exit>>, applied \subseteq applied',
           \A o \in Orgs : <<"tracking", o>> \in applied' => <<"tracking", o>> \in applied,
           \/ todo' = todo /\ part' = part
           \/ /\ todo' = todo /\ part' = part + 1
              /\ ~op.dryRun => <<Step, holder[Alias]>> \in applied'
           \/ /\ NextStep
              /\ Step \in op.steps \ Unset /\ ~op.dryRun => <<Step, holder[Alias]>> \in applied'
    PROVE  WorkflowInv'
<1>1. UNCHANGED <<op, Composed, Creates, Alias>> /\ exit = "none"
    BY DEF Stays, Composed, Creates, Alias, CommandInv, ChangedInv
<1>2. Step \in KnownSteps /\ Tail(todo) \in Seq(KnownSteps)
      /\ \A s \in ToSet(todo) : s = Step \/ s \in ToSet(Tail(todo))
    BY StepOfList DEF WorkflowInv
<1>3. WalkInv'
    <2>1. todo \in Seq(KnownSteps) /\ part \in Nat /\ Composed
        BY DEF WorkflowInv, WalkInv
    <2>2. todo' = todo \/ todo' = Tail(todo)
        BY DEF NextStep
    <2>3. todo' \in Seq(KnownSteps)
        BY <1>2, <2>1, <2>2
    <2>4. part' = part \/ part' = part + 1 \/ part' = 0
        BY DEF NextStep
    <2> QED
        BY <1>1, <2>1, <2>3, <2>4 DEF WalkInv
<1>4. ASSUME Composed, ~op.dryRun PROVE Progress(holder[Alias])'
    <2>1. Progress(holder[Alias])
        BY <1>4 DEF WorkflowInv, ProgressInv
    <2>2. CASE todo' = todo /\ part' = part
        BY <1>1, <2>1, <2>2 DEF Progress, Step
    <2>3. CASE todo' = todo /\ part' = part + 1 /\ <<Step, holder[Alias]>> \in applied'
        BY <1>1, <2>1, <2>3 DEF Progress, Step
    <2>4. CASE NextStep /\ (Step \in op.steps \ Unset => <<Step, holder[Alias]>> \in applied')
        BY <1>1, <1>2, <2>1, <2>4 DEF Progress, NextStep
    <2> QED
        BY <1>4, <2>2, <2>3, <2>4
<1>5. ProgressInv' /\ ResetInv'
    BY <1>1, <1>4 DEF WorkflowInv, ProgressInv, SuccessIsComplete, ResetInv
<1> QED
    BY <1>3, <1>5 DEF WorkflowInv

\* A step whose commands have begun has been to the org.
LEMMA BegunStep ==
    ASSUME WorkflowInv, Selected, ~op.dryRun, part = StepCommands
    PROVE  <<Step, holder[Alias]>> \in applied
<1>1. Step \in KnownSteps /\ Composed
    BY StepOfList DEF WorkflowInv, WalkInv, Selected
<1>2. NumCommands[Step] \in Nat \ {0}
    BY <1>1, WorkflowConstants
<1>3. part > 0
    BY <1>2 DEF StepCommands
<1> QED
    BY <1>1, <1>3 DEF WorkflowInv, ProgressInv, Progress, Selected

LEMMA StepsWorkflow ==
    ASSUME CommandInv, WorkflowInv, Stays, RunPostSteps
    PROVE  WorkflowInv'
<1>1. pc = "steps" /\ todo # << >> /\ Composed /\ Step \in KnownSteps /\ Step # "tracking"
    <2>1. pc = "steps" /\ todo # << >>
        BY DEF RunPostSteps, SkipStep, DryStep, RunPart, ImportDummyUsers, ImportMissingUsers,
            ImportsUsers, Selected
    <2> QED
        BY <2>1, StepOfList, StepNames DEF WorkflowInv, WalkInv
<1>2. CASE SkipStep \/ DryStep
    BY <1>1, <1>2, OnAmongSteps DEF SkipStep, DryStep, NextStep, ending, orgVars
<1>3. CASE Fails \/ Throw("INVALID") \/ Throw("FAILURE")
    BY <1>3, FailureEnds
<1>4. CASE RunPart /\ ~(Fails \/ Throw("FAILURE"))
    <2>1. /\ UNCHANGED orgVars \/ Changes(Step, holder[Alias])
          /\ \/ Changes(Step, holder[Alias]) /\ PartDone
             \/ UNCHANGED <<pc, todo, part, acquired, ending>>
        BY <1>4 DEF RunPart, RunCommandStep, Retried, InOrg
    <2>2. /\ holder' = holder /\ applied \subseteq applied'
          /\ \A o \in Orgs : <<"tracking", o>> \in applied' => <<"tracking", o>> \in applied
        BY <1>1, <2>1 DEF Changes, orgVars
    <2>3. UNCHANGED <<pc, acquired, exit>>
        BY <2>1 DEF PartDone, NextStep, ending
    <2>4. \/ todo' = todo /\ part' = part
          \/ /\ (todo' = todo /\ part' = part + 1) \/ NextStep
             /\ <<Step, holder[Alias]>> \in applied'
        BY <2>1 DEF PartDone, Changes
    <2> QED
        BY <1>1, <2>2, <2>3, <2>4, OnAmongSteps
<1>5. CASE (ImportDummyUsers \/ ImportMissingUsers) /\ ~(Fails \/ Throw("INVALID") \/ Throw("FAILURE"))
    <2>1. Selected /\ ~op.dryRun /\ part = StepCommands
        BY <1>5 DEF ImportDummyUsers, ImportMissingUsers, ImportsUsers
    <2>2. /\ UNCHANGED orgVars \/ Changes("users", holder[Alias])
          /\ NextStep \/ UNCHANGED <<pc, todo, part, acquired, ending>>
        BY <1>5 DEF ImportDummyUsers, ImportMissingUsers, AssignPermissionSets, RunCommandStep,
            Retried, InOrg
    <2>3. /\ holder' = holder /\ applied \subseteq applied'
          /\ \A o \in Orgs : <<"tracking", o>> \in applied' => <<"tracking", o>> \in applied
        BY <2>2 DEF Changes, orgVars
    <2>4. <<Step, holder[Alias]>> \in applied'
        BY <2>1, <2>3, BegunStep
    <2>5. UNCHANGED <<pc, acquired, exit>>
        BY <2>2 DEF NextStep, ending
    <2> QED
        BY <1>1, <2>2, <2>3, <2>4, <2>5, OnAmongSteps
<1> QED
    BY <1>2, <1>3, <1>4, <1>5 DEF RunPostSteps

LEMMA ResetWorkflow ==
    ASSUME CommandInv, WorkflowInv, Stays, ResetSourceTracking
    PROVE  WorkflowInv'
<1>1. /\ pc = "steps" /\ todo = << >> /\ UNCHANGED <<op, Composed, Creates, Alias>>
      /\ Composed /\ exit = "none"
    BY DEF ResetSourceTracking, Stays, Composed, Creates, Alias, CommandInv, ChangedInv,
        WorkflowInv, WalkInv
<1>2. CASE Fails \/ Throw("FAILURE")
    BY <1>2, FailureEnds
<1>3. CASE ~(Fails \/ Throw("FAILURE"))
    <2>1. /\ UNCHANGED orgVars \/ Changes("tracking", holder[Alias])
          /\ \/ Go("refresh") /\ ("deploy" \in op.steps /\ ~op.dryRun =>
                                     Changes("tracking", holder[Alias]))
             \/ UNCHANGED <<pc, todo, part, acquired, ending>>
        BY <1>3 DEF ResetSourceTracking, RunCommandStep, Retried, InOrg
    <2>2. /\ holder' = holder /\ applied \subseteq applied'
          /\ UNCHANGED <<todo, part, acquired, exit>>
          /\ \/ pc' = "steps"
             \/ /\ pc' = "refresh"
                /\ "deploy" \in op.steps /\ ~op.dryRun => <<"tracking", holder[Alias]>> \in applied'
        BY <1>1, <2>1 DEF Changes, Go, orgVars, ending
    <2>3. WalkInv'
        BY <1>1, <2>2 DEF WorkflowInv, WalkInv
    <2>4. ASSUME ~op.dryRun PROVE Progress(holder[Alias])'
        <3>1. Progress(holder[Alias])
            BY <1>1, <2>4 DEF WorkflowInv, ProgressInv
        <3> QED
            BY <1>1, <2>2, <2>4, <3>1 DEF Progress
    <2>5. ProgressInv' /\ ResetInv'
        BY <1>1, <2>2, <2>4 DEF ProgressInv, SuccessIsComplete, ResetInv
    <2> QED
        BY <2>3, <2>5 DEF WorkflowInv
<1> QED
    BY <1>2, <1>3

LEMMA RefreshWorkflow ==
    ASSUME CommandInv, WorkflowInv, Stays, RefreshDependencies
    PROVE  WorkflowInv'
<1>1. pc = "refresh" /\ UNCHANGED <<op, Composed, Creates, Alias>>
    BY DEF RefreshDependencies, Stays, Composed, Creates, Alias
<1>2. CASE Throw("FAILURE") \/ \E code \in {"FAILURE", "AUTH", "PARTIAL"} : End(code)
    BY <1>2, FailureEnds
<1>3. CASE /\ End("SUCCESS")
           /\ \/ ~op.refresh /\ UNCHANGED orgVars
              \/ op.refresh /\ IF op.dryRun THEN UNCHANGED orgVars ELSE Changes("sources", NoOrg)
    <2>1. pc' = "ended" /\ UNCHANGED <<todo, part, acquired>>
        BY <1>3 DEF End
    <2>2. CASE ~Composed \/ op.dryRun
        BY <2>1, <2>2, EndsOtherwise
    <2>3. CASE Composed /\ ~op.dryRun
        <3>1. Progress(holder[Alias])
            BY <1>1, <2>3 DEF WorkflowInv, ProgressInv
        <3>2. /\ holder' = holder /\ applied \subseteq applied'
              /\ op.refresh => <<"sources", NoOrg>> \in applied'
            BY <1>3, <2>3 DEF Changes, orgVars
        <3>3. ToSet(todo) = {}
            BY <1>1, <3>1 DEF Progress, ToSet
        <3>4. SuccessIsComplete'
            BY <1>1, <2>1, <3>1, <3>2, <3>3 DEF Progress, SuccessIsComplete
        <3> QED
            BY <1>1, <2>1, <3>4 DEF WorkflowInv, WalkInv, ProgressInv, ResetInv
    <2> QED
        BY <2>2, <2>3
<1> QED
    BY <1>2, <1>3 DEF RefreshDependencies

LEMMA WorkKeepsWorkflow ==
    ASSUME CommandInv, WorkflowInv, Work
    PROVE  WorkflowInv'
<1>1. Stays
    BY DEF Work, Stays
<1>2. CASE \/ AssertMutationTarget \/ CliInspectDelete \/ Preauthorize \/ Execute
           \/ Acquiring \/ DeleteCommand \/ CoverageCheck
           \/ Read \/ Doctor \/ Recover \/ CheckVersions
    BY <1>1, <1>2, InspectionBeside, AcquiringBeside, OthersBeside, BesideKeeps
<1>3. CASE Configuring
    BY <1>1, <1>3, ConfigureWorkflow, InstallWorkflow, StepsWorkflow, ResetWorkflow,
       RefreshWorkflow DEF Configuring
<1> QED
    BY <1>2, <1>3 DEF Work

LEMMA OutsideWorkflow ==
    ASSUME WorkflowInv, Cancel \/ SwitchTarget \/ UNCHANGED vars
    PROVE  WorkflowInv'
<1>1. UNCHANGED <<op, pc, todo, part, acquired, exit, holder, applied>>
    BY DEF Cancel, SwitchTarget, vars, workflowVars, cursor, ending, orgVars
<1>2. WalkInv'
    BY <1>1 DEF WorkflowInv, WalkInv, Composed, Creates
<1>3. ProgressInv'
    BY <1>1 DEF WorkflowInv, ProgressInv, Progress, Step, SuccessIsComplete, Composed, Creates, Alias
<1>4. ResetInv'
    BY <1>1 DEF WorkflowInv, ResetInv
<1> QED
    BY <1>2, <1>3, <1>4 DEF WorkflowInv

LEMMA NextWorkflow == ASSUME CommandInv, WorkflowInv, [Next]_vars PROVE WorkflowInv'
<1>1. CASE Commands
    BY <1>1, CliStarts, PlainStarts, PostStarts, StartedWorkflow DEF Commands
<1> QED
    BY <1>1, WorkKeepsWorkflow, OutsideWorkflow DEF Next

\* Where the workflows are, and what they have behind them.
THEOREM WorkflowInvariant == Spec => []WorkflowInv
<1> QED
    BY CommandInvariant, InitWorkflow, NextWorkflow, PTL DEF Spec

\* The success of createOrg and of configureProject leaves no stage out,
\* whatever was retried, cancelled or fallen back from.
THEOREM SuccessMeansComplete == Spec => []SuccessIsComplete
<1>1. WorkflowInv => SuccessIsComplete
    BY DEF WorkflowInv, ProgressInv
<1> QED
    BY <1>1, WorkflowInvariant, PTL

-----------------------------------------------------------------------------
(* The reset of the tracking *)

\* Only the stage behind the steps resets it.
LEMMA ResetIsLast ==
    ASSUME CommandInv, WorkflowInv, Work, NEW o \in Orgs,
           <<"tracking", o>> \in applied' \ applied
    PROVE  <<"deploy", o>> \in applied
<1>1. Stays
    BY DEF Work, Stays
<1>2. ~Beside
    BY DEF Beside
<1>3. ConfigureProject \/ Install \/ RunPostSteps \/ ResetSourceTracking \/ RefreshDependencies
    BY <1>1, <1>2, InspectionBeside, AcquiringBeside, OthersBeside DEF Work, Configuring
<1>4. ~ConfigureProject /\ ~Install /\ ~RefreshDependencies
    BY DEF ConfigureProject, Install, RefreshDependencies, Changes, orgVars
<1>5. ~RunPostSteps
    <2>1. todo # << >> /\ RunPostSteps => Step # "tracking"
        BY StepOfList, StepNames DEF WorkflowInv
    <2>2. RunPostSteps => todo # << >>
        BY DEF RunPostSteps, SkipStep, DryStep, RunPart, ImportDummyUsers, ImportMissingUsers,
            ImportsUsers, Selected
    <2>3. RunPostSteps => UNCHANGED orgVars \/ Changes(Step, holder[Alias]) \/ Changes("users", holder[Alias])
        BY DEF RunPostSteps, SkipStep, DryStep, RunPart, ImportDummyUsers, ImportMissingUsers,
            RunCommandStep, Retried, InOrg
    <2> QED
        BY <2>1, <2>2, <2>3 DEF Changes, orgVars
<1>6. /\ ResetSourceTracking /\ pc = "steps" /\ todo = << >>
      /\ "deploy" \in op.steps /\ ~op.dryRun /\ Changes("tracking", holder[Alias])
    BY <1>3, <1>4, <1>5 DEF ResetSourceTracking, RunCommandStep, Retried, InOrg, orgVars
<1>7. o = holder[Alias] /\ Progress(holder[Alias])
    BY <1>6 DEF Changes, WorkflowInv, WalkInv, ProgressInv
<1>8. ToSet(todo) = {} /\ "deploy" \in op.steps \ Unset
    BY <1>6, StepNames DEF ToSet
<1> QED
    BY <1>7, <1>8 DEF Progress

\* What can follow it is its repetition and the dependency sources.
LEMMA OnlySourcesFollow ==
    ASSUME WorkflowInv, Work, NEW o \in Orgs, <<"tracking", o>> \in applied
    PROVE  \A c \in applied' \ applied : c[1] \in {"tracking", "sources"}
<1>1. pc \in {"refresh", "ended"} \/ (pc = "steps" /\ todo = << >>)
    BY DEF WorkflowInv, ResetInv
<1>2. ResetSourceTracking \/ RefreshDependencies
    BY <1>1 DEF Work, AssertMutationTarget, CliInspectDelete, Preauthorize, Execute, Acquiring,
        ResolvePoolDevHub, DeleteExisting, ClearSources, AcquireFromPool, FetchFromPool,
        AcquireByCreation, Acquire, Configuring, ConfigureProject, Install, RunPostSteps, SkipStep,
        DryStep, RunPart, ImportDummyUsers, ImportMissingUsers, ImportsUsers, Selected,
        DeleteCommand, CoverageCheck, Read, Doctor, Recover, CheckVersions
<1>3. \/ UNCHANGED applied
      \/ \E what \in {"tracking", "sources"} : \E p :
            applied' = applied \cup {<<what, p>>}
    BY <1>2 DEF ResetSourceTracking, RefreshDependencies, RunCommandStep, Retried, InOrg, Changes, orgVars
<1> QED
    BY <1>3

\* The tracking is reset after the deployment and nothing is deployed after it
\* (org-workflow.ts l.528).
THEOREM TrackingFollows == Spec => TrackingFollowsDeployment
<1> DEFINE Reset(changes) == {o \in Orgs : <<"tracking", o>> \in changes}
<1>1. ASSUME CommandInv, WorkflowInv, [Next]_vars
      PROVE  [/\ \A o \in Reset(applied' \ applied) : <<"deploy", o>> \in applied
              /\ Reset(applied) # {} =>
                     \A c \in applied' \ applied : c[1] \in {"tracking", "sources"}]_vars
    <2>1. CASE Work
        BY <1>1, <2>1, ResetIsLast, OnlySourcesFollow
    <2>2. CASE Commands
        <3>1. Started
            BY <2>2, CliStarts, PlainStarts, PostStarts DEF Commands
        <3>2. applied' = applied
            BY <3>1 DEF Started, Begin, Reject, orgVars
        <3> QED
            BY <3>2
    <2>3. CASE Cancel \/ SwitchTarget
        BY <2>3 DEF Cancel, SwitchTarget, orgVars
    <2> QED
        BY <1>1, <2>1, <2>2, <2>3 DEF Next
<1> QED
    BY <1>1, CommandInvariant, WorkflowInvariant, PTL DEF Spec, TrackingFollowsDeployment

-----------------------------------------------------------------------------
(* No command goes on for ever *)

StageRank ==
    [idle |-> 20, inspect |-> 19, execute |-> 18, policy |-> 17, pool |-> 16, discard |-> 15,
     clear |-> 14, acquire |-> 13, fetch |-> 12, create |-> 11, configure |-> 10, packages |-> 9,
     steps |-> 8, refresh |-> 7, delete |-> 6, coverage |-> 5, read |-> 4, doctor |-> 3,
     recover |-> 2, versions |-> 1, ended |-> 0]

\* A later stage, or a later step, command or attempt of the same one.
Nearer ==
    \/ StageRank[pc'] < StageRank[pc]
    \/ /\ pc' = pc
       /\ \/ Len(todo') < Len(todo)
          \/ todo' = todo /\ (part' > part \/ (part' = part /\ attempt' > attempt))

\* Of all of these there are so many and no more.
Bounded ==
    /\ pc \in DOMAIN StageRank /\ attempt \in 1 .. MaxAttempts
    /\ pc = "steps" => IF todo = << >> THEN part = 0 ELSE part \in 0 .. StepCommands

Closer == Bounded' /\ Nearer

LEMMA RankOfStage ==
    /\ DOMAIN StageRank = {"idle", "inspect", "execute", "policy", "pool", "discard", "clear",
           "acquire", "fetch", "create", "configure", "packages", "steps", "refresh", "delete",
           "coverage", "read", "doctor", "recover", "versions", "ended"}
    /\ \A stage \in DOMAIN StageRank : StageRank[stage] \in Nat
BY DEF StageRank

LEMMA CommandsOfStep == ASSUME WalkInv, todo # << >> PROVE StepCommands \in Nat \ {0}
<1>1. Step \in KnownSteps
    BY StepOfList DEF WalkInv, Step
<1> QED
    BY <1>1, WorkflowConstants DEF StepCommands

\* A stage is entered at its first command.
LEMMA EnteredAtTheStart ==
    ASSUME Bounded, WalkInv', attempt' \in 1 .. MaxAttempts, part' = 0 \/ pc' # "steps",
           pc' \in DOMAIN StageRank, StageRank[pc'] < StageRank[pc]
    PROVE  Closer
<1>1. pc' = "steps" /\ todo' # << >> => StepCommands' \in Nat \ {0}
    <2>1. (WalkInv /\ todo # << >> => StepCommands \in Nat \ {0})'
        BY CommandsOfStep, PTL
    <2> QED
        BY <2>1
<1>2. Bounded'
    BY <1>1 DEF Bounded
<1> QED
    BY <1>2 DEF Closer, Nearer

LEMMA EndIsCloser ==
    ASSUME Bounded, WalkInv', attempt' \in 1 .. MaxAttempts, pc # "ended", pc' = "ended"
    PROVE  Closer
<1>1. StageRank[pc'] < StageRank[pc]
    BY DEF Bounded, StageRank
<1> QED
    BY <1>1, EnteredAtTheStart, RankOfStage

\* One more attempt.
LEMMA RetryIsCloser ==
    ASSUME Bounded, Stays, UNCHANGED <<pc, todo, part>>, attempt' = attempt + 1,
           attempt' \in 1 .. MaxAttempts
    PROVE  Closer
<1>1. StepCommands' = StepCommands
    BY DEF StepCommands, Step, Stays
<1> QED
    BY <1>1, WorkflowConstants DEF Closer, Bounded, Nearer

LEMMA OneAttempt ==
    ASSUME NEW stage, NEW Effect, NEW Lost, NEW Done, Retried(stage, Effect, Lost, Done),
           Bounded, WalkInv', Stays, pc # "ended"
    PROVE  Closer \/ (Done /\ attempt' = 1)
<1>1. CASE attempt < MaxAttempts /\ attempt' = attempt + 1 /\ UNCHANGED <<pc, todo, part>>
    BY <1>1, RetryIsCloser, WorkflowConstants DEF Bounded
<1>2. CASE attempt' = 1 /\ pc' = "ended"
    BY <1>2, EndIsCloser, WorkflowConstants
<1> QED
    BY <1>1, <1>2, Zenon DEF Retried, Fails, End, Throw

\* Everything but the retried commands and the post-steps goes to a later stage.
LaterStage ==
    /\ UNCHANGED attempt
    /\ part' = 0 \/ pc' # "steps"
    /\ pc' \in DOMAIN StageRank /\ StageRank[pc'] < StageRank[pc]

LEMMA LaterIsCloser == ASSUME Bounded, WalkInv', LaterStage PROVE Closer
BY EnteredAtTheStart DEF LaterStage, Bounded

LEMMA EndIsLater ==
    ASSUME Bounded, pc # "ended", pc' = "ended", UNCHANGED attempt
    PROVE  LaterStage
BY DEF LaterStage, Bounded, StageRank

LEMMA InspectionIsLater ==
    ASSUME Bounded, AssertMutationTarget \/ CliInspectDelete \/ Preauthorize \/ Execute
    PROVE  LaterStage
<1>1. CASE pc' = "ended" /\ pc # "ended" /\ UNCHANGED attempt
    BY <1>1, EndIsLater
<1>2. CASE AssertMutationTarget /\ pc' # "ended"
    BY <1>2 DEF AssertMutationTarget, Go, End, Throw, LaterStage, StageRank
<1>3. CASE CliInspectDelete /\ pc' # "ended"
    BY <1>3 DEF CliInspectDelete, DeleteOrg, Go, End, LaterStage, StageRank
<1>4. CASE Preauthorize /\ pc' # "ended"
    BY <1>4 DEF Preauthorize, Go, End, LaterStage, StageRank
<1>5. CASE Execute /\ pc' # "ended"
    BY <1>5 DEF Execute, DeleteOrg, Go, End, Throw, LaterStage, StageRank
<1>6. pc # "ended" /\ UNCHANGED attempt
    BY DEF AssertMutationTarget, CliInspectDelete, Preauthorize, Execute
<1> QED
    BY <1>1, <1>2, <1>3, <1>4, <1>5, <1>6

LEMMA OthersAreLater ==
    ASSUME Bounded, WalkInv,
           \/ ResolvePoolDevHub \/ DeleteExisting \/ ClearSources \/ AcquireFromPool
           \/ ConfigureProject \/ Install \/ RefreshDependencies
           \/ Read \/ Doctor \/ Recover \/ CheckVersions
    PROVE  LaterStage
<1>1. pc # "ended" /\ UNCHANGED attempt
    BY DEF ResolvePoolDevHub, DeleteExisting, ClearSources, AcquireFromPool, ConfigureProject,
        Install, RefreshDependencies, Read, Doctor, Recover, CheckVersions
<1>2. CASE pc' = "ended"
    BY <1>1, <1>2, EndIsLater
<1>3. CASE pc' # "ended"
    <2> USE DEF LaterStage, StageRank, Go, End, Throw, Fails, AfterClear
    <2>1. CASE ResolvePoolDevHub \/ DeleteExisting \/ ClearSources \/ AcquireFromPool
        BY <1>1, <1>3, <2>1 DEF ResolvePoolDevHub, DeleteExisting, ClearSources, AcquireFromPool
    <2>2. CASE ConfigureProject \/ Install
        BY <1>1, <1>3, <2>2 DEF ConfigureProject, Install, WalkInv
    <2>3. CASE RefreshDependencies \/ Read \/ Doctor \/ Recover \/ CheckVersions
        BY <1>1, <1>3, <2>3 DEF RefreshDependencies, Read, Doctor, Recover, CheckVersions
    <2> QED
        BY <2>1, <2>2, <2>3
<1> QED
    BY <1>2, <1>3

LEMMA AcquisitionIsCloser ==
    ASSUME Bounded, WalkInv', Stays, FetchFromPool \/ AcquireByCreation
    PROVE  Closer
<1>1. CASE pc = "acquire" /\ Go("create") /\ UNCHANGED attempt
    <2>1. LaterStage
        BY <1>1 DEF LaterStage, Go, StageRank
    <2> QED
        BY <2>1, LaterIsCloser
<1>2. ASSUME NEW stage \in {"fetch", "create"}, Acquire(stage) PROVE Closer
    <2>1. PICK o \in unused : Retried(stage,
              /\ unused' = unused \ {o} /\ applied' = applied \cup {<<stage, o>>}
              /\ target' = op.alias /\ holder' = [holder EXCEPT ![op.alias] = o],
              /\ unused' = unused \ {o} /\ applied' = applied \cup {<<stage, o>>}
              /\ UNCHANGED <<holder, target>>,
              /\ acquired' = o /\ pc' = "configure"
              /\ UNCHANGED <<todo, part, ending>>)
        BY <1>2 DEF Acquire
    <2>2. pc = stage
        BY <1>2 DEF Acquire
    <2>3. Closer \/ (pc' = "configure" /\ attempt' = 1)
        BY <2>1, <2>2, OneAttempt
    <2>4. CASE pc' = "configure" /\ attempt' = 1
        <3>1. pc' \in DOMAIN StageRank /\ StageRank[pc'] < StageRank[pc]
            BY <2>2, <2>4 DEF StageRank
        <3> QED
            BY <2>4, <3>1, EnteredAtTheStart, WorkflowConstants
    <2> QED
        BY <2>3, <2>4
<1> QED
    BY <1>1, <1>2 DEF FetchFromPool, AcquireByCreation

LEMMA NextStepIsCloser ==
    ASSUME Bounded, WalkInv, WalkInv', pc = "steps", todo # << >>, NextStep,
           attempt' \in 1 .. MaxAttempts
    PROVE  Closer
<1>1. Len(todo') < Len(todo)
    BY DEF NextStep, WalkInv
<1>2. todo' # << >> => StepCommands' \in Nat \ {0}
    <2>1. (WalkInv /\ todo # << >> => StepCommands \in Nat \ {0})'
        BY CommandsOfStep, PTL
    <2> QED
        BY <2>1
<1> QED
    BY <1>1, <1>2 DEF NextStep, Closer, Nearer, Bounded

LEMMA StepsAreCloser ==
    ASSUME Bounded, WalkInv, WalkInv', Stays, RunPostSteps
    PROVE  Closer
<1>1. pc = "steps" /\ todo # << >> /\ StepCommands \in Nat \ {0}
    <2>1. pc = "steps" /\ todo # << >>
        BY DEF RunPostSteps, SkipStep, DryStep, RunPart, ImportDummyUsers, ImportMissingUsers,
            ImportsUsers, Selected
    <2> QED
        BY <2>1, CommandsOfStep
<1>2. 1 \in 1 .. MaxAttempts
    BY WorkflowConstants
<1>3. CASE SkipStep \/ DryStep
    BY <1>1, <1>3, NextStepIsCloser DEF SkipStep, DryStep, Bounded
<1>4. CASE (Fails \/ Throw("INVALID")) /\ attempt' \in 1 .. MaxAttempts
    BY <1>1, <1>4, EndIsCloser DEF Fails, End, Throw
<1>5. CASE RunPart
    <2>1. Closer \/ (PartDone /\ attempt' = 1)
        BY <1>1, <1>5, OneAttempt DEF RunPart, RunCommandStep
    <2>2. CASE NextStep /\ attempt' = 1
        BY <1>1, <1>2, <2>2, NextStepIsCloser
    <2>3. CASE part' = part + 1 /\ UNCHANGED <<pc, todo>> /\ attempt' = 1
        <3>1. part \in 0 .. StepCommands /\ part < StepCommands /\ StepCommands' = StepCommands
            BY <1>1, <1>5, <2>3 DEF RunPart, Bounded, StepCommands, Step, Stays
        <3> QED
            BY <1>1, <1>2, <2>3, <3>1 DEF Closer, Nearer, Bounded
    <2> QED
        BY <2>1, <2>2, <2>3 DEF PartDone
<1>6. CASE ImportDummyUsers
    <2>1. attempt' \in 1 .. MaxAttempts
        BY <1>6 DEF ImportDummyUsers, Bounded
    <2> QED
        BY <1>1, <1>4, <1>6, <2>1, NextStepIsCloser DEF ImportDummyUsers
<1>7. CASE ImportMissingUsers
    <2>1. CASE Fails /\ UNCHANGED attempt
        BY <1>4, <2>1 DEF Bounded
    <2>2. CASE RunCommandStep("steps", InOrg("users", holder[Alias]), AssignPermissionSets)
        <3>1. Closer \/ (AssignPermissionSets /\ attempt' = 1)
            BY <1>1, <2>2, OneAttempt DEF RunCommandStep
        <3> QED
            BY <1>1, <1>2, <1>4, <3>1, NextStepIsCloser DEF AssignPermissionSets
    <2> QED
        BY <1>7, <2>1, <2>2 DEF ImportMissingUsers
<1> QED
    BY <1>3, <1>5, <1>6, <1>7 DEF RunPostSteps

LEMMA ResetIsCloser ==
    ASSUME Bounded, WalkInv', Stays, ResetSourceTracking
    PROVE  Closer
<1>1. pc = "steps" /\ 1 \in 1 .. MaxAttempts /\ attempt \in 1 .. MaxAttempts
    BY WorkflowConstants DEF ResetSourceTracking, Bounded
<1>2. CASE Go("refresh") /\ attempt' \in {1, attempt}
    <2>1. pc' \in DOMAIN StageRank /\ StageRank[pc'] < StageRank[pc]
        BY <1>1, <1>2 DEF Go, StageRank
    <2> QED
        BY <1>1, <1>2, <2>1, EnteredAtTheStart DEF Go
<1>3. CASE RunCommandStep("tracking", InOrg("tracking", holder[Alias]), Go("refresh"))
    BY <1>1, <1>2, <1>3, OneAttempt DEF RunCommandStep
<1> QED
    BY <1>2, <1>3 DEF ResetSourceTracking

LEMMA DeletionIsCloser ==
    ASSUME Bounded, WalkInv', Stays, DeleteCommand
    PROVE  Closer
<1>1. pc = "delete" /\ 1 \in 1 .. MaxAttempts
    BY WorkflowConstants DEF DeleteCommand
<1>2. Closer \/ (End("SUCCESS") /\ attempt' = 1)
    BY <1>1, OneAttempt DEF DeleteCommand, RunCommandStep
<1> QED
    BY <1>1, <1>2, EndIsCloser DEF End

LEMMA CoverageIsCloser ==
    ASSUME Bounded, WalkInv, WalkInv', CoverageCheck
    PROVE  Closer
<1>1. pc = "coverage" /\ UNCHANGED attempt /\ attempt \in 1 .. MaxAttempts
    BY DEF CoverageCheck, Bounded
<1>2. CASE pc' = "ended"
    BY <1>1, <1>2, EndIsCloser
<1>3. CASE pc' # "ended"
    <2>1. part' = part + 1 /\ UNCHANGED <<pc, todo>> /\ part \in Nat
        BY <1>3 DEF CoverageCheck, RunAllTests, Fails, End, WalkInv
    <2> QED
        BY <1>1, <2>1 DEF Closer, Nearer, Bounded
<1> QED
    BY <1>2, <1>3

LEMMA WorkIsCloser == ASSUME Bounded, WalkInv, WalkInv', Work PROVE Closer
<1>1. Stays
    BY DEF Work, Stays
<1>2. CASE AssertMutationTarget \/ CliInspectDelete \/ Preauthorize \/ Execute
    BY <1>2, InspectionIsLater, LaterIsCloser
<1>3. CASE \/ ResolvePoolDevHub \/ DeleteExisting \/ ClearSources \/ AcquireFromPool
           \/ ConfigureProject \/ Install \/ RefreshDependencies
           \/ Read \/ Doctor \/ Recover \/ CheckVersions
    BY <1>3, OthersAreLater, LaterIsCloser
<1> QED
    BY <1>1, <1>2, <1>3, AcquisitionIsCloser, StepsAreCloser, ResetIsCloser, DeletionIsCloser,
        CoverageIsCloser DEF Work, Acquiring, Configuring

LEMMA NextStaysBounded ==
    ASSUME Bounded, WalkInv, WalkInv', [Next]_vars
    PROVE  Bounded'
<1>1. CASE Commands
    <2>1. Started
        BY <1>1, CliStarts, PlainStarts, PostStarts DEF Commands
    <2>2. UNCHANGED attempt /\ pc' \in DOMAIN StageRank \ {"steps"}
        BY <2>1, RankOfStage DEF Started, Fits, Begin, Reject
    <2> QED
        BY <2>2 DEF Bounded
<1>2. CASE Work
    BY <1>2, WorkIsCloser DEF Closer
<1>3. CASE Cancel \/ SwitchTarget \/ UNCHANGED vars
    <2>1. UNCHANGED <<op, pc, todo, part, attempt>>
        BY <1>3 DEF Cancel, SwitchTarget, vars, workflowVars, cursor
    <2> QED
        BY <2>1 DEF Bounded, StepCommands, Step
<1> QED
    BY <1>1, <1>2, <1>3 DEF Next

\* Every command has its number of attempts, and every step its commands.
THEOREM AttemptsAreBounded == Spec => []Bounded
<1>1. Init => Bounded
    BY RankOfStage, WorkflowConstants DEF Init, Bounded
<1>2. WorkflowInv => WalkInv
    BY DEF WorkflowInv
<1> QED
    BY <1>1, <1>2, WorkflowInvariant, NextStaysBounded, PTL DEF Spec

\* Each step of a command that is running brings it nearer its end: to a later
\* stage, or to fewer post-steps, or to a later command or attempt of the same
\* one.  A retry of runCommandStep, the fallback of the pool, the skipped steps
\* and the single restart of the tests lead back to no earlier stage.
THEOREM EveryStepGetsNearer == Spec => [][Work => Nearer]_vars
<1>1. WorkflowInv => WalkInv
    BY DEF WorkflowInv
<1>2. Bounded /\ WalkInv /\ WalkInv' /\ [Next]_vars => [Work => Nearer]_vars
    BY WorkIsCloser DEF Closer
<1> QED
    BY <1>1, <1>2, WorkflowInvariant, AttemptsAreBounded, PTL DEF Spec
=============================================================================
