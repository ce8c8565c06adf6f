---------------------------- MODULE P360JobCreation ----------------------------
(***************************************************************************)
(* The synchronous half of the P360 archive integration: a decision is     *)
(* released or an attachment is published, and P360_ArchiveJobService gets *)
(* or creates the one job of that event inside the same transaction.       *)
(*                                                                         *)
(* A save of decisions locks their rows to the end of its transaction.     *)
(* Nothing else is locked: a transaction finds only the committed jobs its *)
(* user may see and those it has inserted itself, and the unique index on  *)
(* Idempotency_Key__c makes an insert wait for, and then collide with, a   *)
(* row of the same key that another transaction has inserted.              *)
(*                                                                         *)
(* A save of many records that lets the good ones through is a save of     *)
(* those alone, so every save below is all or nothing.                     *)
(***************************************************************************)
EXTENDS Naturals

CONSTANTS
    Decisions,    \* decisions that can be released
    Attachments,  \* content versions that can be published
    Documents,    \* application and agreement documents: no caller yet
    Txns,         \* transactions that may run at once
    Users,
    Internal,     \* the users who see every job row
    Releasers,    \* the users with P360_Archive_Release
    NoOwner,
    MaxBody       \* bound: edits of a decision since its release

ASSUME CreationConstants ==
    /\ Internal \subseteq Users
    /\ Releasers \subseteq Users
    /\ NoOwner \notin Users
    /\ Decisions \cap (Attachments \cup Documents) = {}
    /\ MaxBody \in Nat

Events == Decisions \cup Attachments \cup Documents

VARIABLES
    gate,    \* the archive-processing flag
    ready,   \* Ready_For_P360_Archive__c, "absent" before the decision exists
    body,    \* edits of the decision's ordinary fields since its release
    linked,  \* the decision's application has an Access_Request__c
    owner,   \* per event: the owner of its committed job row, or NoOwner
    signal,  \* observation: the save that released it with the flag on and a link
    pc,      \* per transaction: where it is
    user,    \* per transaction: the running user
    on,      \* per transaction: the flag, read once and kept
    change,  \* per transaction: what it does to the decisions it holds
    rows,    \* per transaction: the decisions it holds locked
    todo,    \* per transaction: the events still to get a job
    owed,    \* observation: the decisions its save releases with a link
    made,    \* per transaction: the events whose row it has inserted
    got      \* per transaction: what the service has answered

orgVars == <<ready, body, linked, owner, signal>>
txnVars == <<pc, user, on, change, rows, todo, owed, made, got>>
vars == <<gate, orgVars, txnVars>>

Changes == {"none", "release", "reset", "edit", "references"}
Unasked == [e \in Events |-> "unasked"]

TypeOK ==
    /\ gate \in BOOLEAN
    /\ ready \in [Decisions -> {"absent", "no", "yes"}]
    /\ body \in [Decisions -> 0 .. MaxBody]
    /\ linked \in [Decisions -> BOOLEAN]
    /\ owner \in [Events -> Users \cup {NoOwner}]
    /\ signal \in [Decisions -> {"none", "insert", "update"}]
    /\ pc \in [Txns -> {"idle", "find", "insert", "refind"}]
    /\ user \in [Txns -> Users \cup {NoOwner}]
    /\ on \in [Txns -> BOOLEAN]
    /\ change \in [Txns -> Changes]
    /\ rows \in [Txns -> SUBSET Decisions]
    /\ todo \in [Txns -> SUBSET Events]
    /\ owed \in [Txns -> SUBSET Decisions]
    /\ made \in [Txns -> SUBSET Events]
    /\ got \in [Txns -> [Events -> {"unasked", "row", "null"}]]

Init ==
    /\ gate = FALSE
    /\ ready = [d \in Decisions |-> "absent"]
    /\ body = [d \in Decisions |-> 0]
    /\ linked = [d \in Decisions |-> FALSE]
    /\ owner = [e \in Events |-> NoOwner]
    /\ signal = [d \in Decisions |-> "none"]
    /\ pc = [t \in Txns |-> "idle"]
    /\ user = [t \in Txns |-> NoOwner]
    /\ on = [t \in Txns |-> FALSE]
    /\ change = [t \in Txns |-> "none"]
    /\ rows = [t \in Txns |-> {}]
    /\ todo = [t \in Txns |-> {}]
    /\ owed = [t \in Txns |-> {}]
    /\ made = [t \in Txns |-> {}]
    /\ got = [t \in Txns |-> Unasked]

ToggleGate == gate' = ~gate /\ UNCHANGED <<orgVars, txnVars>>

-----------------------------------------------------------------------------
(* Saving decisions: the guard before, the handler after.                  *)

(* beforeInsert, and the only trigger an insert has.                       *)
InsertDecision(u, d, r, link) ==
    /\ ready[d] = "absent"
    /\ gate /\ r = "yes" => u \in Releasers
    /\ ready' = [ready EXCEPT ![d] = r]
    /\ linked' = [linked EXCEPT ![d] = link]
    /\ signal' = [signal EXCEPT ![d] =
                    IF gate /\ r = "yes" /\ link THEN "insert" ELSE "none"]
    /\ UNCHANGED <<gate, body, owner, txnVars>>

(* The application gets its Access_Request__c later.                       *)
LinkApplication(d) ==
    /\ ready[d] # "absent"
    /\ ~linked[d]
    /\ linked' = [linked EXCEPT ![d] = TRUE]
    /\ UNCHANGED <<gate, ready, body, owner, signal, txnVars>>

(* beforeUpdate for one record: after the release the flag stays and only  *)
(* the technical references change, before it only a releaser sets it.     *)
Accepted(u, d, c) ==
    gate => IF ready[d] = "yes" THEN c \in {"release", "references"}
            ELSE c = "release" => u \in Releasers

(* onAfterUpdate: the newly released decisions with an access request.     *)
Released(S, c) ==
    IF gate /\ c = "release" THEN {d \in S : ready[d] # "yes" /\ linked[d]}
    ELSE {}

Unlocked(S) == \A t \in Txns : rows[t] \cap S = {}

Begin(t, u, c, S, E) ==
    /\ pc[t] = "idle"
    /\ pc' = [pc EXCEPT ![t] = "find"]
    /\ user' = [user EXCEPT ![t] = u]
    /\ on' = [on EXCEPT ![t] = gate]
    /\ change' = [change EXCEPT ![t] = c]
    /\ rows' = [rows EXCEPT ![t] = S]
    /\ todo' = [todo EXCEPT ![t] = E]
    /\ owed' = [owed EXCEPT ![t] = Released(S, c)]
    /\ UNCHANGED <<gate, made, got>>

(* Mutants of SaveDecisions: rows that are not locked, and a handler that  *)
(* looks at the first record only.                                         *)
SaveDecisionsUnlocked(t, u, S, c) ==
    /\ S # {} /\ \A d \in S : ready[d] # "absent" /\ Accepted(u, d, c)
    /\ c = "edit" => \A d \in S : body[d] < MaxBody
    /\ Begin(t, u, c, S, Released(S, c))
    /\ UNCHANGED orgVars
SaveDecisionsFirstOnly(t, u, S, c) ==
    /\ S # {} /\ \A d \in S : ready[d] # "absent" /\ Accepted(u, d, c)
    /\ c = "edit" => \A d \in S : body[d] < MaxBody
    /\ Unlocked(S)
    /\ Begin(t, u, c, S, Released({CHOOSE d \in S : TRUE}, c))
    /\ UNCHANGED orgVars

SaveDecisions(t, u, S, c) ==
    /\ S # {}
    /\ \A d \in S : ready[d] # "absent" /\ Accepted(u, d, c)
    /\ c = "edit" => \A d \in S : body[d] < MaxBody
    /\ Unlocked(S)
    /\ Begin(t, u, c, S, Released(S, c))
    /\ UNCHANGED orgVars

(* P360_ContentVersionArchiveHandler.afterInsert: only a version published *)
(* on an application with an access request is an event, with a fresh id.  *)
PublishAttachment(t, u, v, onApplication) ==
    /\ owner[v] = NoOwner
    /\ \A t2 \in Txns : v \notin todo[t2] \cup made[t2]
    /\ Begin(t, u, "none", {}, IF gate /\ onApplication THEN {v} ELSE {})
    /\ UNCHANGED orgVars

(* A direct call of getOrCreateApplicationDocumentJob or its agreement     *)
(* sibling, which no trigger makes; the flag is not asked.                 *)
RequestJob(t, u, e) ==
    /\ Begin(t, u, "none", {}, {e})
    /\ UNCHANGED orgVars

-----------------------------------------------------------------------------
(* getOrCreate...Job, one event after the other.                           *)

Visible(t, e) ==
    \/ e \in made[t]
    \/ owner[e] # NoOwner /\ (user[t] \in Internal \/ owner[e] = user[t])

Answer(t, e, a) ==
    /\ got' = [got EXCEPT ![t][e] = a]
    /\ todo' = [todo EXCEPT ![t] = @ \ {e}]
    /\ pc' = [pc EXCEPT ![t] = "find"]

(* The events are taken one at a time: the one that is asked for is the    *)
(* only one left with the answer "null" while the transaction is past the  *)
(* first look-up.                                                          *)
FindJob(t, e) ==
    /\ pc[t] = "find"
    /\ e \in todo[t]
    /\ \/ /\ Visible(t, e)
          /\ Answer(t, e, "row")
       \/ /\ ~Visible(t, e)
          /\ pc' = [pc EXCEPT ![t] = "insert"]
          /\ got' = [got EXCEPT ![t][e] = "null"]
          /\ UNCHANGED todo
    /\ UNCHANGED <<gate, orgVars, user, on, change, rows, owed, made>>

Asked(t, e) == e \in todo[t] /\ got[t][e] = "null"

InsertedElsewhere(t, e) == \E t2 \in Txns \ {t} : e \in made[t2]

(* Mutant of InsertJob: an upsert on the key.                              *)
UpsertJob(t, e) ==
    /\ pc[t] = "insert"
    /\ Asked(t, e)
    /\ ~InsertedElsewhere(t, e)
    /\ made' = [made EXCEPT ![t] = @ \cup {e}]
    /\ Answer(t, e, "row")
    /\ UNCHANGED <<gate, orgVars, user, on, change, rows, owed>>

(* The insert waits while another transaction holds the key.               *)
InsertJob(t, e) ==
    /\ pc[t] = "insert"
    /\ Asked(t, e)
    /\ ~InsertedElsewhere(t, e)
    /\ \/ /\ owner[e] = NoOwner
          /\ made' = [made EXCEPT ![t] = @ \cup {e}]
          /\ Answer(t, e, "row")
       \/ /\ owner[e] # NoOwner
          /\ pc' = [pc EXCEPT ![t] = "refind"]
          /\ UNCHANGED <<todo, made, got>>
    /\ UNCHANGED <<gate, orgVars, user, on, change, rows, owed>>

(* After DUPLICATE_VALUE the service returns what the look-up finds.       *)
RefindJob(t, e) ==
    /\ pc[t] = "refind"
    /\ Asked(t, e)
    /\ Answer(t, e, IF Visible(t, e) THEN "row" ELSE "null")
    /\ UNCHANGED <<gate, orgVars, user, on, change, rows, owed, made>>

End(t) ==
    /\ pc' = [pc EXCEPT ![t] = "idle"]
    /\ on' = [on EXCEPT ![t] = FALSE]
    /\ change' = [change EXCEPT ![t] = "none"]
    /\ rows' = [rows EXCEPT ![t] = {}]
    /\ todo' = [todo EXCEPT ![t] = {}]
    /\ owed' = [owed EXCEPT ![t] = {}]
    /\ made' = [made EXCEPT ![t] = {}]
    /\ got' = [got EXCEPT ![t] = Unasked]
    /\ user' = [user EXCEPT ![t] = NoOwner]

Commit(t) ==
    /\ pc[t] = "find"
    /\ todo[t] = {}
    /\ owner' = [e \in Events |-> IF e \in made[t] THEN user[t] ELSE owner[e]]
    /\ ready' = [d \in Decisions |->
                    IF d \in rows[t] /\ change[t] = "release" THEN "yes"
                    ELSE IF d \in rows[t] /\ change[t] = "reset" THEN "no"
                    ELSE ready[d]]
    /\ body' = [d \in Decisions |->
                    IF ready'[d] # "yes" THEN 0
                    ELSE IF d \in rows[t] /\ change[t] = "edit" THEN body[d] + 1
                    ELSE body[d]]
    /\ signal' = [d \in Decisions |->
                    IF d \in owed[t] THEN "update" ELSE signal[d]]
    /\ End(t)
    /\ UNCHANGED <<gate, linked>>

(* Any error, or a wait for a row lock or an index entry that times out.   *)
Rollback(t) ==
    /\ pc[t] # "idle"
    /\ End(t)
    /\ UNCHANGED <<gate, orgVars>>

-----------------------------------------------------------------------------

ServiceStep(t, e) == FindJob(t, e) \/ InsertJob(t, e) \/ RefindJob(t, e)

Save(t) ==
    \E u \in Users, S \in SUBSET Decisions, c \in Changes \ {"none"} :
        SaveDecisions(t, u, S, c)

Next ==
    \/ ToggleGate
    \/ \E u \in Users, d \in Decisions, r \in {"no", "yes"}, link \in BOOLEAN :
        InsertDecision(u, d, r, link)
    \/ \E d \in Decisions : LinkApplication(d)
    \/ \E t \in Txns :
        \/ Save(t)
        \/ \E u \in Users, v \in Attachments, p \in BOOLEAN :
            PublishAttachment(t, u, v, p)
        \/ \E u \in Users, e \in Documents : RequestJob(t, u, e)
        \/ \E e \in Events : ServiceStep(t, e)
        \/ Commit(t)
        \/ Rollback(t)

Spec == Init /\ [][Next]_vars

-----------------------------------------------------------------------------
(* What the triggers, the service and the unique index promise together.   *)

(* A decision released by an update with the flag on and a link has its    *)
(* job from the moment the release is committed, whatever other            *)
(* transactions hold, find or roll back (handler l.37-76, service l.36-59).*)
UpdateReleaseQueued ==
    \A d \in Decisions : signal[d] = "update" => owner[d] # NoOwner

(* No job without a committed release of its decision: a release that is   *)
(* rolled back, refused or made with the flag off leaves nothing to        *)
(* archive (handler l.44-53).                                              *)
JobsHaveReleases ==
    \A d \in Decisions : owner[d] # NoOwner => signal[d] = "update"

(* The row a transaction is given is a committed one or its own: never one *)
(* that another transaction may still take back (service l.36, l.52-57).   *)
AnswersAreRows ==
    \A t \in Txns, e \in Events :
        got[t][e] = "row" => owner[e] # NoOwner \/ e \in made[t]

(* Of two transactions that create the same job one inserts it and the     *)
(* other gets that row; only a user to whom the row is invisible is left   *)
(* without an answer (service l.55-57, Private external sharing).          *)
NullOnlyToStrangers ==
    \A t \in Txns, e \in Events :
        got[t][e] = "null" /\ e \notin todo[t] =>
            owner[e] # NoOwner /\ ~Visible(t, e)

(* Once released, a decision changes only by a transaction that began with *)
(* the flag off: no save that passed the guard before the release commits  *)
(* after it (guard l.44-76, under the row lock of the save).               *)
LockedAfterRelease ==
    [][\A d \in Decisions :
        ready[d] = "yes" /\ (ready'[d] # "yes" \/ body'[d] # body[d]) =>
            \E t \in Txns : d \in rows[t] /\ ~on[t]]_vars

(* A decision's save never waits for the job another save is inserting:    *)
(* the row lock it holds keeps the others out (handler l.66-75).           *)
SavesDoNotWait ==
    \A t \in Txns, d \in Decisions :
        pc[t] = "insert" /\ Asked(t, d) => ~InsertedElsewhere(t, d)

(* Transactions that overlap, collide and roll back are together an outbox: *)
(* what P360JobOutbox does in one step is never seen half done, nothing    *)
(* that is in it is taken out or written over, and a row is made by a user *)
(* who asked for it (handler l.37-77, service l.24-61, the unique key).    *)
ReleasedDecisions == {d \in Decisions : signal[d] = "update"}
Outbox == INSTANCE P360JobOutbox
    WITH Others <- Attachments \cup Documents, released <- ReleasedDecisions
FollowsOutbox == Outbox!Spec

-----------------------------------------------------------------------------
(* The inductive invariant behind the promises above.                      *)

(* An idle transaction has nothing; every other one has a user.            *)
IdleInv ==
    \A t \in Txns :
        IF pc[t] = "idle"
        THEN /\ rows[t] = {} /\ owed[t] = {}
             /\ todo[t] = {} /\ made[t] = {} /\ got[t] = Unasked
        ELSE user[t] \in Users

(* A decision is held by one transaction, for which what the guard has     *)
(* seen of it is still true.                                               *)
LockInv ==
    \A t \in Txns :
        /\ \A t2 \in Txns \ {t} : rows[t] \cap rows[t2] = {}
        /\ \A d \in rows[t] :
            /\ ready[d] # "absent"
            /\ change[t] = "edit" => body[d] < MaxBody
            /\ on[t] /\ ready[d] = "yes" => change[t] \in {"release", "references"}

(* A key has one row: committed, or of one transaction.                    *)
KeyInv ==
    \A t \in Txns : \A e \in made[t] :
        /\ owner[e] = NoOwner
        /\ \A t2 \in Txns \ {t} : e \notin made[t2]

(* Jobs of decisions are made only by the save that releases them, and of  *)
(* what it releases all that is no longer to do has its job.               *)
OwedInv ==
    \A t \in Txns :
        /\ owed[t] \subseteq rows[t]
        /\ \A d \in Decisions :
            /\ d \in todo[t] \cup made[t] => d \in owed[t]
            /\ d \in owed[t] \ todo[t] => owner[d] # NoOwner \/ d \in made[t]

(* One event is asked for at a time; the second look-up follows a row that *)
(* is committed.                                                           *)
AskedInv ==
    \A t \in Txns : \A e \in Events :
        Asked(t, e) =>
            /\ pc[t] \in {"insert", "refind"}
            /\ pc[t] = "refind" => owner[e] # NoOwner
            /\ \A e2 \in Events : Asked(t, e2) => e2 = e

(* Released decisions exist.                                               *)
SignalInv ==
    \A d \in Decisions : signal[d] = "update" => ready[d] # "absent"

CreationInv ==
    /\ TypeOK
    /\ IdleInv
    /\ LockInv
    /\ KeyInv
    /\ OwedInv
    /\ AskedInv
    /\ SignalInv
    /\ UpdateReleaseQueued
    /\ JobsHaveReleases
    /\ AnswersAreRows
    /\ NullOnlyToStrangers

(* A transaction is a save, which makes jobs of the decisions it releases, *)
(* or makes one job of another event.                                      *)
OneKind ==
    \A t \in Txns :
        \/ todo[t] \cup made[t] \subseteq owed[t]
        \/ owed[t] = {} /\ \E e \in Events \ Decisions : todo[t] \cup made[t] \subseteq {e}
=============================================================================
