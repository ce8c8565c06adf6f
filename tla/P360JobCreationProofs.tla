------------------------ MODULE P360JobCreationProofs ------------------------
(***************************************************************************)
(* Proofs about P360JobCreation, for any number of decisions, attachments, *)
(* documents, users and overlapping transactions: a release and its job    *)
(* are committed together, the service answers with rows that stay, saves  *)
(* do not wait for each other inside the service, and a released decision  *)
(* stays locked.                                                           *)
(***************************************************************************)
EXTENDS P360JobCreation, TLAPS

LEMMA InitInv == Init => CreationInv
<1> SUFFICES ASSUME Init PROVE CreationInv
    OBVIOUS
<1> USE CreationConstants DEF Init
<1>1. TypeOK
  <2>1. /\ body \in [Decisions -> 0 .. MaxBody]
        /\ owner \in [Events -> Users \cup {NoOwner}]
        /\ user \in [Txns -> Users \cup {NoOwner}]
      OBVIOUS
  <2>2. got \in [Txns -> [Events -> {"unasked", "row", "null"}]]
      BY DEF Unasked
  <2>3. /\ change \in [Txns -> Changes]
        /\ rows \in [Txns -> SUBSET Decisions] /\ owed \in [Txns -> SUBSET Decisions]
        /\ todo \in [Txns -> SUBSET Events] /\ made \in [Txns -> SUBSET Events]
      BY DEF Changes
  <2>4. /\ gate \in BOOLEAN
        /\ linked \in [Decisions -> BOOLEAN]
        /\ on \in [Txns -> BOOLEAN]
      OBVIOUS
  <2>5. /\ ready \in [Decisions -> {"absent", "no", "yes"}]
        /\ signal \in [Decisions -> {"none", "insert", "update"}]
        /\ pc \in [Txns -> {"idle", "find", "insert", "refind"}]
      OBVIOUS
  <2> QED
      BY <2>1, <2>2, <2>3, <2>4, <2>5, Zenon DEF TypeOK
<1>2. IdleInv
    BY DEF IdleInv
<1>3. LockInv
    BY DEF LockInv
<1>4. KeyInv
    BY DEF KeyInv
<1>5. OwedInv
    BY DEF OwedInv
<1>6. AskedInv
    BY DEF AskedInv, Asked
<1>7. SignalInv /\ UpdateReleaseQueued /\ JobsHaveReleases
    BY DEF SignalInv, UpdateReleaseQueued, JobsHaveReleases, Events
<1>8. AnswersAreRows /\ NullOnlyToStrangers
    BY DEF AnswersAreRows, NullOnlyToStrangers, Unasked
<1> QED
    BY <1>1, <1>2, <1>3, <1>4, <1>5, <1>6, <1>7, <1>8 DEF CreationInv

-----------------------------------------------------------------------------
(* Steps outside the transactions.                                         *)

LEMMA ToggleInv ==
    ASSUME CreationInv, ToggleGate \/ UNCHANGED vars
    PROVE  CreationInv'
<1> USE DEF CreationInv
<1>1. UNCHANGED <<ready, body, linked, owner, signal, pc, user, on, change,
                  rows, todo, owed, made, got>>
    BY DEF ToggleGate, vars, orgVars, txnVars
<1>2. gate' \in BOOLEAN
    BY DEF ToggleGate, vars, TypeOK
<1>3. TypeOK'
    BY <1>1, <1>2 DEF TypeOK
<1>4. IdleInv' /\ LockInv' /\ KeyInv' /\ OwedInv'
    BY <1>1 DEF IdleInv, LockInv, KeyInv, OwedInv
<1>5. AskedInv' /\ SignalInv'
    BY <1>1 DEF AskedInv, Asked, SignalInv
<1>6. UpdateReleaseQueued' /\ JobsHaveReleases' /\ AnswersAreRows'
    BY <1>1 DEF UpdateReleaseQueued, JobsHaveReleases, AnswersAreRows
<1>7. NullOnlyToStrangers'
    BY <1>1 DEF NullOnlyToStrangers, Visible
<1> QED
    BY <1>3, <1>4, <1>5, <1>6, <1>7

(* What does not exist is held by nobody, and has no job.                  *)
LEMMA InsertInv ==
    ASSUME CreationInv, NEW u \in Users, NEW d \in Decisions,
           NEW r \in {"no", "yes"}, NEW link \in BOOLEAN,
           InsertDecision(u, d, r, link)
    PROVE  CreationInv'
<1> USE DEF CreationInv
<1>1. /\ ready[d] = "absent"
      /\ ready' = [ready EXCEPT ![d] = r]
      /\ linked' = [linked EXCEPT ![d] = link]
      /\ \E s \in {"insert", "none"} : signal' = [signal EXCEPT ![d] = s]
      /\ UNCHANGED <<gate, body, owner, pc, user, on, change, rows, todo, owed,
                     made, got>>
    BY DEF InsertDecision, txnVars
<1>2. PICK s \in {"insert", "none"} : signal' = [signal EXCEPT ![d] = s]
    BY <1>1
<1>3. TypeOK'
    BY <1>1, <1>2 DEF TypeOK
<1>4. IdleInv' /\ KeyInv' /\ OwedInv'
    BY <1>1 DEF IdleInv, KeyInv, OwedInv
<1>5. LockInv'
    BY <1>1 DEF LockInv, TypeOK
<1>6. AskedInv'
    BY <1>1 DEF AskedInv, Asked
<1>7. owner[d] = NoOwner
    BY <1>1 DEF JobsHaveReleases, SignalInv
<1>8. SignalInv' /\ UpdateReleaseQueued' /\ JobsHaveReleases'
    BY <1>1, <1>2, <1>7 DEF SignalInv, UpdateReleaseQueued, JobsHaveReleases, TypeOK
<1>9. AnswersAreRows' /\ NullOnlyToStrangers'
    BY <1>1 DEF AnswersAreRows, NullOnlyToStrangers, Visible
<1> QED
    BY <1>3, <1>4, <1>5, <1>6, <1>8, <1>9

LEMMA LinkInv ==
    ASSUME CreationInv, NEW d \in Decisions, LinkApplication(d)
    PROVE  CreationInv'
<1> USE DEF CreationInv
<1>1. /\ linked' \in [Decisions -> BOOLEAN]
      /\ UNCHANGED <<gate, ready, body, owner, signal, pc, user, on, change,
                     rows, todo, owed, made, got>>
    BY DEF LinkApplication, txnVars, TypeOK
<1>2. TypeOK'
    BY <1>1 DEF TypeOK
<1>3. IdleInv' /\ LockInv' /\ KeyInv' /\ OwedInv'
    BY <1>1 DEF IdleInv, LockInv, KeyInv, OwedInv
<1>4. AskedInv' /\ SignalInv'
    BY <1>1 DEF AskedInv, Asked, SignalInv
<1>5. UpdateReleaseQueued' /\ JobsHaveReleases' /\ AnswersAreRows'
    BY <1>1 DEF UpdateReleaseQueued, JobsHaveReleases, AnswersAreRows
<1>6. NullOnlyToStrangers'
    BY <1>1 DEF NullOnlyToStrangers, Visible
<1> QED
    BY <1>2, <1>3, <1>4, <1>5, <1>6

-----------------------------------------------------------------------------
(* A transaction begins: with decisions nobody holds and the guard has     *)
(* accepted, and with jobs to make only of decisions it releases.          *)
LEMMA BeginInv ==
    ASSUME CreationInv, NEW t \in Txns, NEW u \in Users, NEW c \in Changes,
           NEW S \in SUBSET Decisions, NEW E \in SUBSET Events,
           Begin(t, u, c, S, E), UNCHANGED orgVars,
           Unlocked(S),
           \A d \in S : ready[d] # "absent" /\ Accepted(u, d, c),
           c = "edit" => \A d \in S : body[d] < MaxBody,
           E \cap Decisions = Released(S, c)
    PROVE  CreationInv'
<1> USE DEF CreationInv
<1>1. /\ pc[t] = "idle"
      /\ pc' = [pc EXCEPT ![t] = "find"]
      /\ user' = [user EXCEPT ![t] = u]
      /\ on' = [on EXCEPT ![t] = gate]
      /\ change' = [change EXCEPT ![t] = c]
      /\ rows' = [rows EXCEPT ![t] = S]
      /\ todo' = [todo EXCEPT ![t] = E]
      /\ owed' = [owed EXCEPT ![t] = Released(S, c)]
      /\ UNCHANGED <<gate, made, got, ready, body, linked, owner, signal>>
    BY DEF Begin, orgVars
<1>2. Released(S, c) \subseteq S
    BY DEF Released
<1>3. /\ rows[t] = {} /\ owed[t] = {} /\ todo[t] = {} /\ made[t] = {}
      /\ got[t] = Unasked
    BY <1>1 DEF IdleInv
<1>4. TypeOK'
    BY <1>1, <1>2 DEF TypeOK
<1>5. IdleInv'
    BY <1>1 DEF IdleInv, TypeOK
<1>6. LockInv'
  <2>1. \A t1 \in Txns \ {t} : rows[t1] \cap S = {}
      BY DEF Unlocked
  <2>2. \A t1 \in Txns, t2 \in Txns : t1 # t2 => rows'[t1] \cap rows'[t2] = {}
      BY <1>1, <2>1 DEF LockInv, TypeOK
  <2>3. ASSUME NEW d \in S, gate, ready[d] = "yes"
        PROVE  c \in {"release", "references"}
      BY <2>3 DEF Accepted
  <2>4. ASSUME NEW t1 \in Txns, NEW d \in rows'[t1]
        PROVE  /\ ready'[d] # "absent"
               /\ change'[t1] = "edit" => body'[d] < MaxBody
               /\ on'[t1] /\ ready'[d] = "yes" =>
                    change'[t1] \in {"release", "references"}
    <3>1. CASE t1 = t
        BY <1>1, <2>3, <2>4, <3>1 DEF TypeOK
    <3>2. CASE t1 # t
        BY <1>1, <2>4, <3>2 DEF LockInv, TypeOK
    <3> QED
        BY <3>1, <3>2
  <2> QED
      BY <2>2, <2>4 DEF LockInv
<1>7. KeyInv'
    BY <1>1 DEF KeyInv
<1>8. OwedInv'
    BY <1>1, <1>2, <1>3 DEF OwedInv, TypeOK
<1>9. AskedInv'
  <2> SUFFICES ASSUME NEW t1 \in Txns, NEW e \in Events, Asked(t1, e)'
               PROVE  /\ pc'[t1] \in {"insert", "refind"}
                      /\ pc'[t1] = "refind" => owner'[e] # NoOwner
                      /\ \A e2 \in Events : Asked(t1, e2)' => e2 = e
      BY DEF AskedInv
  <2>1. t1 # t
      BY <1>1, <1>3 DEF Asked, Unasked
  <2>2. \A e2 \in Events : Asked(t1, e2)' <=> Asked(t1, e2)
      BY <2>1, <1>1 DEF Asked, TypeOK
  <2> QED
      BY <1>1, <2>1, <2>2 DEF AskedInv, TypeOK
<1>10. SignalInv' /\ UpdateReleaseQueued' /\ JobsHaveReleases' /\ AnswersAreRows'
    BY <1>1 DEF SignalInv, UpdateReleaseQueued, JobsHaveReleases, AnswersAreRows
<1>11. NullOnlyToStrangers'
  <2> SUFFICES ASSUME NEW t1 \in Txns, NEW e \in Events,
                      got'[t1][e] = "null", e \notin todo'[t1]
               PROVE  owner'[e] # NoOwner /\ ~Visible(t1, e)'
      BY DEF NullOnlyToStrangers
  <2>1. t1 # t
      BY <1>1, <1>3 DEF Unasked
  <2> QED
      BY <1>1, <2>1 DEF NullOnlyToStrangers, Visible, TypeOK
<1> QED
    BY <1>4, <1>5, <1>6, <1>7, <1>8, <1>9, <1>10, <1>11

LEMMA SaveInv ==
    ASSUME CreationInv, NEW t \in Txns, Save(t)
    PROVE  CreationInv'
<1>1. PICK u \in Users, S \in SUBSET Decisions, c \in Changes :
        SaveDecisions(t, u, S, c)
    BY DEF Save
<1>2. /\ Released(S, c) \subseteq Decisions
      /\ Released(S, c) \subseteq Events
      /\ Released(S, c) \cap Decisions = Released(S, c)
    BY DEF Released, Events
<1> QED
    BY <1>1, <1>2, BeginInv DEF SaveDecisions

(* The other two begin without decisions.                                  *)
LEMMA OtherBeginInv ==
    ASSUME CreationInv, NEW t \in Txns, NEW u \in Users,
           NEW E \in SUBSET (Attachments \cup Documents),
           Begin(t, u, "none", {}, E), UNCHANGED orgVars
    PROVE  CreationInv'
<1>1. E \in SUBSET Events /\ E \cap Decisions = {} /\ Released({}, "none") = {}
    BY CreationConstants DEF Events, Released
<1>2. Unlocked({}) /\ "none" \in Changes
    BY DEF Unlocked, Changes
<1> QED
    BY <1>1, <1>2, BeginInv

-----------------------------------------------------------------------------
(* The service.                                                            *)

(* What a step of the service changes of one transaction: an answer, or    *)
(* the place where it is and the first look-up; and the row it inserts.    *)
LEMMA AnswerInv ==
    ASSUME CreationInv, NEW t \in Txns, NEW e \in Events, NEW a \in {"row", "null"},
           pc[t] \in {"find", "insert", "refind"}, e \in todo[t],
           pc[t] # "find" => Asked(t, e),
           Answer(t, e, a),
           UNCHANGED <<gate, orgVars, user, on, change, rows, owed>>,
           \/ UNCHANGED made
           \/ /\ made' = [made EXCEPT ![t] = @ \cup {e}]
              /\ owner[e] = NoOwner /\ ~InsertedElsewhere(t, e)
              /\ a = "row",
           a = "row" => owner[e] # NoOwner \/ e \in made'[t],
           a = "null" => owner[e] # NoOwner /\ ~Visible(t, e)
    PROVE  CreationInv'
<1> USE DEF CreationInv
<1>1. /\ got' = [got EXCEPT ![t][e] = a]
      /\ todo' = [todo EXCEPT ![t] = @ \ {e}]
      /\ pc' = [pc EXCEPT ![t] = "find"]
      /\ UNCHANGED <<gate, ready, body, linked, owner, signal, user, on, change,
                     rows, owed>>
    BY DEF Answer, orgVars
<1>2. /\ made' \in [Txns -> SUBSET Events]
      /\ \A t1 \in Txns \ {t} : made'[t1] = made[t1]
      /\ made[t] \subseteq made'[t] /\ made'[t] \subseteq made[t] \cup {e}
      /\ e \in made'[t] \ made[t] =>
            owner[e] = NoOwner /\ ~InsertedElsewhere(t, e) /\ a = "row"
  <2>1. CASE UNCHANGED made
      BY <2>1 DEF TypeOK
  <2>2. CASE /\ made' = [made EXCEPT ![t] = @ \cup {e}]
             /\ owner[e] = NoOwner /\ ~InsertedElsewhere(t, e)
             /\ a = "row"
    <3>1. made[t] \cup {e} \in SUBSET Events
        BY DEF TypeOK
    <3>2. made'[t] = made[t] \cup {e}
        BY <2>2 DEF TypeOK
    <3>3. \A t1 \in Txns \ {t} : made'[t1] = made[t1]
        BY <2>2 DEF TypeOK
    <3>4. made' \in [Txns -> SUBSET Events]
        BY <2>2, <3>1 DEF TypeOK
    <3> QED
        BY <2>2, <3>2, <3>3, <3>4
  <2> QED
      BY <2>1, <2>2
<1>3. /\ \A t1 \in Txns \ {t} : got'[t1] = got[t1] /\ todo'[t1] = todo[t1]
                               /\ pc'[t1] = pc[t1]
      /\ \A e2 \in Events \ {e} : got'[t][e2] = got[t][e2]
      /\ got'[t][e] = a /\ todo'[t] = todo[t] \ {e} /\ pc'[t] = "find"
    BY <1>1 DEF TypeOK
<1>4. TypeOK'
  <2>1. got' \in [Txns -> [Events -> {"unasked", "row", "null"}]]
      BY <1>1 DEF TypeOK
  <2> QED
      BY <1>1, <1>2, <2>1 DEF TypeOK
<1>5. IdleInv'
    BY <1>1, <1>2, <1>3 DEF IdleInv
<1>6. LockInv'
    BY <1>1 DEF LockInv
<1>7. KeyInv'
  <2>1. \A t1 \in Txns : \A f \in made'[t1] : owner'[f] = NoOwner
      BY <1>1, <1>2 DEF KeyInv
  <2>2. \A t1 \in Txns, t2 \in Txns : t1 # t2 =>
            \A f \in made'[t1] : f \notin made'[t2]
      BY <1>2 DEF KeyInv, InsertedElsewhere
  <2> QED
      BY <2>1, <2>2 DEF KeyInv
<1>8. OwedInv'
  <2>0. \A t1 \in Txns : owed'[t1] \subseteq rows'[t1]
      BY <1>1 DEF OwedInv
  <2> SUFFICES ASSUME NEW t1 \in Txns, NEW d \in Decisions
               PROVE  /\ d \in todo'[t1] \cup made'[t1] => d \in owed'[t1]
                      /\ d \in owed'[t1] \ todo'[t1] =>
                            owner'[d] # NoOwner \/ d \in made'[t1]
      BY <2>0 DEF OwedInv
  <2>1. CASE t1 # t
      BY <2>1, <1>1, <1>2, <1>3 DEF OwedInv
  <2>2. CASE t1 = t
      BY <2>2, <1>1, <1>2, <1>3 DEF OwedInv
  <2> QED
      BY <2>1, <2>2
<1>9. AskedInv'
  <2>1. \A e2 \in Events : ~Asked(t, e2)'
      BY <1>3 DEF AskedInv, Asked
  <2>2. \A t1 \in Txns \ {t} : \A e2 \in Events : Asked(t1, e2)' <=> Asked(t1, e2)
      BY <1>3 DEF Asked
  <2> QED
      BY <1>1, <1>3, <2>1, <2>2 DEF AskedInv
<1>10. SignalInv' /\ UpdateReleaseQueued' /\ JobsHaveReleases'
    BY <1>1 DEF SignalInv, UpdateReleaseQueued, JobsHaveReleases
<1>11. AnswersAreRows'
  <2> SUFFICES ASSUME NEW t1 \in Txns, NEW f \in Events, got'[t1][f] = "row"
               PROVE  owner'[f] # NoOwner \/ f \in made'[t1]
      BY DEF AnswersAreRows
  <2>1. CASE t1 = t /\ f = e
      BY <2>1, <1>1, <1>3
  <2>2. CASE ~(t1 = t /\ f = e)
      BY <2>2, <1>1, <1>2, <1>3 DEF AnswersAreRows
  <2> QED
      BY <2>1, <2>2
<1>12. NullOnlyToStrangers'
  <2> SUFFICES ASSUME NEW t1 \in Txns, NEW f \in Events,
                      got'[t1][f] = "null", f \notin todo'[t1]
               PROVE  owner'[f] # NoOwner /\ ~Visible(t1, f)'
      BY DEF NullOnlyToStrangers
  <2>1. CASE t1 = t /\ f = e
      BY <2>1, <1>1, <1>3 DEF Visible
  <2>2. CASE t1 = t /\ f # e
      BY <2>2, <1>1, <1>2, <1>3 DEF NullOnlyToStrangers, Visible
  <2>3. CASE t1 # t
      BY <2>3, <1>1, <1>2, <1>3 DEF NullOnlyToStrangers, Visible
  <2> QED
      BY <2>1, <2>2, <2>3
<1> QED
    BY <1>4, <1>5, <1>6, <1>7, <1>8, <1>9, <1>10, <1>11, <1>12

LEMMA FindInv ==
    ASSUME CreationInv, NEW t \in Txns, NEW e \in Events, FindJob(t, e)
    PROVE  CreationInv'
<1> USE DEF CreationInv
<1>1. /\ pc[t] = "find" /\ e \in todo[t]
      /\ UNCHANGED <<gate, orgVars, user, on, change, rows, owed, made>>
      /\ UNCHANGED <<gate, ready, body, linked, owner, signal, user, on, change,
                     rows, owed, made>>
    BY DEF FindJob, orgVars
<1>2. CASE Visible(t, e) /\ Answer(t, e, "row")
  <2>1. owner[e] # NoOwner \/ e \in made'[t]
      BY <1>1, <1>2 DEF Visible
  <2> QED
      BY <1>1, <1>2, <2>1, AnswerInv
<1>3. CASE /\ pc' = [pc EXCEPT ![t] = "insert"]
           /\ got' = [got EXCEPT ![t][e] = "null"]
           /\ UNCHANGED todo
  <2>1. /\ \A t1 \in Txns \ {t} : got'[t1] = got[t1] /\ pc'[t1] = pc[t1]
        /\ \A e2 \in Events \ {e} : got'[t][e2] = got[t][e2]
        /\ got'[t][e] = "null" /\ pc'[t] = "insert"
      BY <1>3 DEF TypeOK
  <2>2. TypeOK'
    <3>1. got' \in [Txns -> [Events -> {"unasked", "row", "null"}]]
        BY <1>3 DEF TypeOK
    <3> QED
        BY <1>1, <1>3, <3>1 DEF TypeOK
  <2>3. IdleInv'
      BY <1>1, <1>3, <2>1 DEF IdleInv
  <2>4. LockInv' /\ KeyInv' /\ OwedInv'
      BY <1>1, <1>3 DEF LockInv, KeyInv, OwedInv
  <2>5. AskedInv'
    <3>1. \A e2 \in Events : ~Asked(t, e2)
        BY <1>1 DEF AskedInv
    <3>2. \A e2 \in Events : Asked(t, e2)' => e2 = e
        BY <1>3, <2>1, <3>1 DEF Asked
    <3>3. \A t1 \in Txns \ {t} : \A e2 \in Events : Asked(t1, e2)' <=> Asked(t1, e2)
        BY <1>3, <2>1 DEF Asked
    <3> QED
        BY <1>1, <2>1, <3>2, <3>3 DEF AskedInv
  <2>6. SignalInv' /\ UpdateReleaseQueued' /\ JobsHaveReleases'
      BY <1>1 DEF SignalInv, UpdateReleaseQueued, JobsHaveReleases
  <2>7. AnswersAreRows'
    <3> SUFFICES ASSUME NEW t1 \in Txns, NEW f \in Events, got'[t1][f] = "row"
                 PROVE  owner'[f] # NoOwner \/ f \in made'[t1]
        BY DEF AnswersAreRows
    <3>1. got[t1][f] = "row"
        BY <2>1
    <3> QED
        BY <1>1, <3>1 DEF AnswersAreRows
  <2>8. NullOnlyToStrangers'
    <3> SUFFICES ASSUME NEW t1 \in Txns, NEW f \in Events,
                        got'[t1][f] = "null", f \notin todo'[t1]
                 PROVE  owner'[f] # NoOwner /\ ~Visible(t1, f)'
        BY DEF NullOnlyToStrangers
    <3>1. got[t1][f] = "null" /\ f \notin todo[t1]
        BY <1>1, <1>3, <2>1
    <3> QED
        BY <1>1, <3>1 DEF NullOnlyToStrangers, Visible
  <2> QED
      BY <2>2, <2>3, <2>4, <2>5, <2>6, <2>7, <2>8
<1> QED
    BY <1>2, <1>3 DEF FindJob

LEMMA InsertJobInv ==
    ASSUME CreationInv, NEW t \in Txns, NEW e \in Events, InsertJob(t, e)
    PROVE  CreationInv'
<1> USE DEF CreationInv
<1>1. /\ pc[t] = "insert" /\ Asked(t, e) /\ ~InsertedElsewhere(t, e)
      /\ e \in todo[t]
      /\ UNCHANGED <<gate, orgVars, user, on, change, rows, owed>>
    BY DEF InsertJob, Asked
<1>2. CASE /\ owner[e] = NoOwner
           /\ made' = [made EXCEPT ![t] = @ \cup {e}]
           /\ Answer(t, e, "row")
  <2>1. e \in made'[t]
      BY <1>2 DEF TypeOK
  <2> QED
      BY <1>1, <1>2, <2>1, AnswerInv
<1>3. CASE /\ owner[e] # NoOwner
           /\ pc' = [pc EXCEPT ![t] = "refind"]
           /\ UNCHANGED <<todo, made, got>>
  <2>1. UNCHANGED <<gate, ready, body, linked, owner, signal, user, on, change,
                    rows, owed>>
      BY <1>1 DEF orgVars
  <2>2. TypeOK'
      BY <1>3, <2>1 DEF TypeOK
  <2>3. IdleInv'
      BY <1>1, <1>3, <2>1 DEF IdleInv, TypeOK
  <2>4. LockInv' /\ KeyInv' /\ OwedInv'
      BY <1>3, <2>1 DEF LockInv, KeyInv, OwedInv
  <2>5. AskedInv'
    <3>1. \A t1 \in Txns, e2 \in Events : Asked(t1, e2)' <=> Asked(t1, e2)
        BY <1>3 DEF Asked
    <3>2. \A e2 \in Events : Asked(t, e2) => e2 = e
        BY <1>1 DEF AskedInv
    <3> QED
        BY <1>3, <2>1, <3>1, <3>2 DEF AskedInv, TypeOK
  <2>6. SignalInv' /\ UpdateReleaseQueued' /\ JobsHaveReleases' /\ AnswersAreRows'
      BY <1>3, <2>1 DEF SignalInv, UpdateReleaseQueued, JobsHaveReleases, AnswersAreRows
  <2>7. NullOnlyToStrangers'
      BY <1>3, <2>1 DEF NullOnlyToStrangers, Visible
  <2> QED
      BY <2>2, <2>3, <2>4, <2>5, <2>6, <2>7
<1> QED
    BY <1>2, <1>3 DEF InsertJob

LEMMA RefindInv ==
    ASSUME CreationInv, NEW t \in Txns, NEW e \in Events, RefindJob(t, e)
    PROVE  CreationInv'
<1> USE DEF CreationInv
<1>1. /\ pc[t] = "refind" /\ Asked(t, e) /\ e \in todo[t]
      /\ UNCHANGED <<gate, orgVars, user, on, change, rows, owed>>
      /\ UNCHANGED made
    BY DEF RefindJob, Asked
<1>2. owner[e] # NoOwner
    BY <1>1 DEF AskedInv
<1>3. CASE Visible(t, e)
    BY <1>1, <1>2, <1>3, AnswerInv DEF RefindJob
<1>4. CASE ~Visible(t, e)
    BY <1>1, <1>2, <1>4, AnswerInv DEF RefindJob
<1> QED
    BY <1>3, <1>4

-----------------------------------------------------------------------------
(* The end of a transaction.                                               *)

(* What End leaves of a transaction, and of the others.                    *)
LEMMA EndLeaves ==
    ASSUME TypeOK, NEW t \in Txns, End(t)
    PROVE  /\ \A t1 \in Txns \ {t} :
                /\ pc'[t1] = pc[t1] /\ user'[t1] = user[t1] /\ on'[t1] = on[t1]
                /\ change'[t1] = change[t1] /\ rows'[t1] = rows[t1]
                /\ todo'[t1] = todo[t1] /\ owed'[t1] = owed[t1]
                /\ made'[t1] = made[t1] /\ got'[t1] = got[t1]
           /\ pc'[t] = "idle" /\ rows'[t] = {} /\ todo'[t] = {} /\ owed'[t] = {}
           /\ made'[t] = {} /\ got'[t] = Unasked
BY DEF End, TypeOK

LEMMA EndTypes ==
    ASSUME TypeOK, NEW t \in Txns, End(t)
    PROVE  /\ pc' \in [Txns -> {"idle", "find", "insert", "refind"}]
           /\ user' \in [Txns -> Users \cup {NoOwner}]
           /\ on' \in [Txns -> BOOLEAN]
           /\ change' \in [Txns -> Changes]
           /\ rows' \in [Txns -> SUBSET Decisions]
           /\ todo' \in [Txns -> SUBSET Events]
           /\ owed' \in [Txns -> SUBSET Decisions]
           /\ made' \in [Txns -> SUBSET Events]
           /\ got' \in [Txns -> [Events -> {"unasked", "row", "null"}]]
<1>1. Unasked \in [Events -> {"unasked", "row", "null"}]
    BY DEF Unasked
<1>2. got' \in [Txns -> [Events -> {"unasked", "row", "null"}]]
    BY <1>1 DEF End, TypeOK
<1>3. "none" \in Changes
    BY DEF Changes
<1> QED
    BY <1>2, <1>3 DEF End, TypeOK

(* Ending a transaction keeps what is said of the others, as long as the   *)
(* committed rows only grow, by what it had inserted itself.               *)
LEMMA EndInv ==
    ASSUME CreationInv, NEW t \in Txns, End(t),
           owner' \in [Events -> Users \cup {NoOwner}],
           \A e \in Events : owner'[e] # owner[e] => owner[e] = NoOwner /\ e \in made[t]
    PROVE  /\ IdleInv' /\ KeyInv' /\ OwedInv' /\ AskedInv'
           /\ AnswersAreRows' /\ NullOnlyToStrangers'
<1> USE DEF CreationInv
<1>1. /\ \A t1 \in Txns \ {t} :
            /\ pc'[t1] = pc[t1] /\ user'[t1] = user[t1]
            /\ rows'[t1] = rows[t1]
            /\ todo'[t1] = todo[t1] /\ owed'[t1] = owed[t1]
            /\ made'[t1] = made[t1] /\ got'[t1] = got[t1]
      /\ pc'[t] = "idle" /\ rows'[t] = {} /\ todo'[t] = {} /\ owed'[t] = {}
      /\ made'[t] = {} /\ got'[t] = Unasked
    BY EndLeaves
<1>2. \A e \in Events : owner[e] # NoOwner => owner'[e] = owner[e]
    OBVIOUS
<1>3. \A t1 \in Txns \ {t} : \A e \in made[t1] : e \in Events /\ owner'[e] = owner[e]
    BY DEF KeyInv, TypeOK
<1>4. \A e \in Events : Unasked[e] = "unasked"
    BY DEF Unasked
<1>5. IdleInv'
    BY <1>1 DEF IdleInv
<1>6. KeyInv'
    BY <1>1, <1>3 DEF KeyInv
<1>7. OwedInv'
  <2>0. \A t1 \in Txns : owed'[t1] \subseteq rows'[t1]
      BY <1>1 DEF OwedInv
  <2> SUFFICES ASSUME NEW t1 \in Txns, NEW d \in Decisions
               PROVE  /\ d \in todo'[t1] \cup made'[t1] => d \in owed'[t1]
                      /\ d \in owed'[t1] \ todo'[t1] =>
                            owner'[d] # NoOwner \/ d \in made'[t1]
      BY <2>0 DEF OwedInv
  <2>1. d \in Events
      BY DEF Events
  <2>2. CASE t1 = t
      BY <1>1, <2>2
  <2>3. CASE t1 # t
      BY <1>1, <1>2, <2>1, <2>3 DEF OwedInv
  <2> QED
      BY <2>2, <2>3
<1>8. AskedInv'
  <2> SUFFICES ASSUME NEW t1 \in Txns, NEW e \in Events, Asked(t1, e)'
               PROVE  /\ pc'[t1] \in {"insert", "refind"}
                      /\ pc'[t1] = "refind" => owner'[e] # NoOwner
                      /\ \A e2 \in Events : Asked(t1, e2)' => e2 = e
      BY DEF AskedInv
  <2>1. t1 # t
      BY <1>1 DEF Asked
  <2>2. \A e2 \in Events : Asked(t1, e2)' <=> Asked(t1, e2)
      BY <1>1, <2>1 DEF Asked
  <2> QED
      BY <1>1, <1>2, <2>1, <2>2 DEF AskedInv
<1>9. AnswersAreRows'
  <2> SUFFICES ASSUME NEW t1 \in Txns, NEW f \in Events, got'[t1][f] = "row"
               PROVE  owner'[f] # NoOwner \/ f \in made'[t1]
      BY DEF AnswersAreRows
  <2>1. t1 # t
      BY <1>1, <1>4
  <2> QED
      BY <1>1, <1>2, <2>1 DEF AnswersAreRows
<1>10. NullOnlyToStrangers'
  <2> SUFFICES ASSUME NEW t1 \in Txns, NEW f \in Events,
                      got'[t1][f] = "null", f \notin todo'[t1]
               PROVE  owner'[f] # NoOwner /\ ~Visible(t1, f)'
      BY DEF NullOnlyToStrangers
  <2>1. t1 # t
      BY <1>1, <1>4
  <2> QED
      BY <1>1, <1>2, <2>1 DEF NullOnlyToStrangers, Visible
<1> QED
    BY <1>5, <1>6, <1>7, <1>8, <1>9, <1>10

LEMMA RollbackInv ==
    ASSUME CreationInv, NEW t \in Txns, Rollback(t)
    PROVE  CreationInv'
<1> USE DEF CreationInv
<1>1. End(t) /\ UNCHANGED <<gate, ready, body, linked, owner, signal>>
    BY DEF Rollback, orgVars
<1>2. TypeOK'
    BY <1>1, EndTypes DEF TypeOK
<1>3. /\ IdleInv' /\ KeyInv' /\ OwedInv' /\ AskedInv'
      /\ AnswersAreRows' /\ NullOnlyToStrangers'
    BY <1>1, EndInv DEF TypeOK
<1>4. LockInv'
    BY <1>1, EndLeaves DEF LockInv
<1>5. SignalInv' /\ UpdateReleaseQueued' /\ JobsHaveReleases'
    BY <1>1 DEF SignalInv, UpdateReleaseQueued, JobsHaveReleases
<1> QED
    BY <1>2, <1>3, <1>4, <1>5

(* The rows a commit makes visible, and the decisions it changes, are its  *)
(* own; and for every decision it releases there is a row.                 *)
LEMMA CommitInv ==
    ASSUME CreationInv, NEW t \in Txns, Commit(t)
    PROVE  CreationInv'
<1> USE DEF CreationInv
<1>1. /\ pc[t] = "find" /\ todo[t] = {} /\ End(t)
      /\ owner' = [e \in Events |-> IF e \in made[t] THEN user[t] ELSE owner[e]]
      /\ signal' = [d \in Decisions |->
                        IF d \in owed[t] THEN "update" ELSE signal[d]]
      /\ UNCHANGED <<gate, linked>>
    BY DEF Commit
<1>2. user[t] \in Users
    BY <1>1 DEF IdleInv
<1>3. /\ owner' \in [Events -> Users \cup {NoOwner}]
      /\ \A e \in Events : /\ e \in made[t] => owner'[e] # NoOwner /\ owner[e] = NoOwner
                           /\ e \notin made[t] => owner'[e] = owner[e]
    BY <1>1, <1>2, CreationConstants DEF TypeOK, KeyInv
<1>4. /\ ready' \in [Decisions -> {"absent", "no", "yes"}]
      /\ \A d \in Decisions \ rows[t] : ready'[d] = ready[d]
      /\ \A d \in Decisions : ready[d] # "absent" => ready'[d] # "absent"
      /\ \A d \in Decisions : d \in rows[t] => ready'[d] # "absent"
  <2>1. ready' = [d \in Decisions |->
                    IF d \in rows[t] /\ change[t] = "release" THEN "yes"
                    ELSE IF d \in rows[t] /\ change[t] = "reset" THEN "no"
                    ELSE ready[d]]
      BY DEF Commit
  <2> QED
      BY <2>1 DEF TypeOK, LockInv
<1>5. /\ body' \in [Decisions -> 0 .. MaxBody]
      /\ \A d \in Decisions \ rows[t] : body'[d] \in {0, body[d]}
  <2>1. body' = [d \in Decisions |->
                    IF ready'[d] # "yes" THEN 0
                    ELSE IF d \in rows[t] /\ change[t] = "edit" THEN body[d] + 1
                    ELSE body[d]]
      BY DEF Commit
  <2>2. \A d \in rows[t] : change[t] = "edit" => body[d] < MaxBody
      BY DEF LockInv
  <2> QED
      BY <2>1, <2>2, CreationConstants DEF TypeOK
<1>6. TypeOK'
  <2>1. signal' \in [Decisions -> {"none", "insert", "update"}]
      BY <1>1 DEF TypeOK
  <2> QED
      BY <1>1, <1>3, <1>4, <1>5, <2>1, EndTypes DEF TypeOK
<1>7. /\ IdleInv' /\ KeyInv' /\ OwedInv' /\ AskedInv'
      /\ AnswersAreRows' /\ NullOnlyToStrangers'
    BY <1>1, <1>3, EndInv
<1>8. LockInv'
  <2>1. \A t1 \in Txns, t2 \in Txns : t1 # t2 => rows'[t1] \cap rows'[t2] = {}
      BY <1>1, EndLeaves DEF LockInv
  <2>2. ASSUME NEW t1 \in Txns, NEW d \in rows'[t1]
        PROVE  /\ ready'[d] # "absent"
               /\ change'[t1] = "edit" => body'[d] < MaxBody
               /\ on'[t1] /\ ready'[d] = "yes" =>
                    change'[t1] \in {"release", "references"}
    <3>1. t1 # t /\ d \in rows[t1] /\ change'[t1] = change[t1] /\ on'[t1] = on[t1]
        BY <1>1, <2>2, EndLeaves
    <3>2. d \in Decisions /\ d \notin rows[t]
        BY <3>1 DEF LockInv, TypeOK
    <3>3. change[t1] = "edit" => 0 < MaxBody /\ body[d] < MaxBody
        BY <3>1, <3>2, CreationConstants DEF LockInv, TypeOK
    <3> QED
        BY <1>4, <1>5, <3>1, <3>2, <3>3 DEF LockInv
  <2> QED
      BY <2>1, <2>2 DEF LockInv
<1>9. SignalInv' /\ UpdateReleaseQueued' /\ JobsHaveReleases'
  <2> SUFFICES ASSUME NEW d \in Decisions
               PROVE  /\ signal'[d] = "update" => ready'[d] # "absent"
                      /\ signal'[d] = "update" => owner'[d] # NoOwner
                      /\ owner'[d] # NoOwner => signal'[d] = "update"
      BY DEF SignalInv, UpdateReleaseQueued, JobsHaveReleases
  <2>1. d \in Events
      BY DEF Events
  <2>2. CASE d \in owed[t]
    <3>1. owner[d] # NoOwner \/ d \in made[t]
        BY <1>1, <2>2 DEF OwedInv
    <3>2. d \in rows[t]
        BY <2>2 DEF OwedInv
    <3> QED
        BY <1>1, <1>3, <1>4, <2>1, <2>2, <3>1, <3>2
  <2>3. CASE d \notin owed[t]
    <3>1. d \notin made[t]
        BY <2>3 DEF OwedInv
    <3> QED
        BY <1>1, <1>3, <1>4, <2>1, <2>3, <3>1
           DEF SignalInv, UpdateReleaseQueued, JobsHaveReleases
  <2> QED
      BY <2>2, <2>3
<1> QED
    BY <1>6, <1>7, <1>8, <1>9

-----------------------------------------------------------------------------

LEMMA CreationInvStep == CreationInv /\ [Next]_vars => CreationInv'
<1> SUFFICES ASSUME CreationInv, [Next]_vars PROVE CreationInv'
    OBVIOUS
<1>1. CASE ToggleGate \/ UNCHANGED vars
    BY <1>1, ToggleInv
<1>2. ASSUME NEW u \in Users, NEW d \in Decisions, NEW r \in {"no", "yes"},
             NEW link \in BOOLEAN, InsertDecision(u, d, r, link)
      PROVE  CreationInv'
    BY <1>2, InsertInv
<1>3. ASSUME NEW d \in Decisions, LinkApplication(d) PROVE CreationInv'
    BY <1>3, LinkInv
<1>4. ASSUME NEW t \in Txns, NEW u \in Users, NEW v \in Attachments,
             NEW p \in BOOLEAN, PublishAttachment(t, u, v, p)
      PROVE  CreationInv'
  <2>1. (IF gate /\ p THEN {v} ELSE {}) \in SUBSET (Attachments \cup Documents)
      OBVIOUS
  <2> QED
      BY <1>4, <2>1, OtherBeginInv DEF PublishAttachment
<1>5. ASSUME NEW t \in Txns, NEW u \in Users, NEW e \in Documents,
             RequestJob(t, u, e)
      PROVE  CreationInv'
  <2>1. {e} \in SUBSET (Attachments \cup Documents)
      OBVIOUS
  <2> QED
      BY <1>5, <2>1, OtherBeginInv DEF RequestJob
<1>6. ASSUME NEW t \in Txns, Save(t) \/ Commit(t) \/ Rollback(t) PROVE CreationInv'
    BY <1>6, SaveInv, CommitInv, RollbackInv
<1>7. ASSUME NEW t \in Txns, NEW e \in Events, ServiceStep(t, e) PROVE CreationInv'
    BY <1>7, FindInv, InsertJobInv, RefindInv DEF ServiceStep
<1> QED
    BY <1>1, <1>2, <1>3, <1>4, <1>5, <1>6, <1>7 DEF Next

(* Locks, keys and what is owed are kept by every step of any number of    *)
(* overlapping transactions.                                               *)
THEOREM CreationInvariant == Spec => []CreationInv
<1> QED
    BY InitInv, CreationInvStep, PTL DEF Spec

(* A decision released by an update, with the flag on and a link, has its  *)
(* job from the commit of the release on (handler l.37-76).                *)
THEOREM ReleasesAreQueued == Spec => []UpdateReleaseQueued
<1>1. CreationInv => UpdateReleaseQueued
    BY DEF CreationInv
<1> QED
    BY <1>1, CreationInvariant, PTL

(* No job without the committed release of its decision (handler l.44-53). *)
THEOREM JobsAreReleased == Spec => []JobsHaveReleases
<1>1. CreationInv => JobsHaveReleases
    BY DEF CreationInv
<1> QED
    BY <1>1, CreationInvariant, PTL

(* The service answers with a committed row or one of its own transaction  *)
(* (service l.36, l.52-57).                                                *)
THEOREM AnswersStay == Spec => []AnswersAreRows
<1>1. CreationInv => AnswersAreRows
    BY DEF CreationInv
<1> QED
    BY <1>1, CreationInvariant, PTL

(* Null is answered only about a row the user may not see (service l.55).  *)
THEOREM NullIsForStrangers == Spec => []NullOnlyToStrangers
<1>1. CreationInv => NullOnlyToStrangers
    BY DEF CreationInv
<1> QED
    BY <1>1, CreationInvariant, PTL

(* A save that inserts the job of a decision holds that decision, so that  *)
(* no other transaction is inserting it (handler l.66-75).                 *)
THEOREM NoWaiting == Spec => []SavesDoNotWait
<1>1. CreationInv => SavesDoNotWait
  <2> SUFFICES ASSUME CreationInv, NEW t \in Txns, NEW d \in Decisions,
                      Asked(t, d), NEW t2 \in Txns \ {t}, d \in made[t2]
               PROVE  FALSE
      BY DEF SavesDoNotWait, InsertedElsewhere
  <2>1. d \in rows[t] /\ d \in rows[t2]
      BY DEF CreationInv, OwedInv, Asked
  <2> QED
      BY <2>1 DEF CreationInv, LockInv
<1> QED
    BY <1>1, CreationInvariant, PTL

(* A released decision is changed only by a transaction that began with    *)
(* the flag off (guard l.44-76).                                           *)
THEOREM ReleasedStaysLocked == Spec => LockedAfterRelease
<1>1. CreationInv /\ [Next]_vars =>
        \A d \in Decisions :
            ready[d] = "yes" /\ (ready'[d] # "yes" \/ body'[d] # body[d]) =>
                \E t \in Txns : d \in rows[t] /\ ~on[t]
  <2> SUFFICES ASSUME CreationInv, [Next]_vars, NEW d \in Decisions,
                      ready[d] = "yes", ready'[d] # "yes" \/ body'[d] # body[d]
               PROVE  \E t \in Txns : d \in rows[t] /\ ~on[t]
      OBVIOUS
  <2>1. TypeOK /\ LockInv
      BY DEF CreationInv
  <2>2. \E t \in Txns : Commit(t)
    <3>1. ~UNCHANGED <<ready, body>>
        OBVIOUS
    <3>2. ~\E u \in Users, d2 \in Decisions, r \in {"no", "yes"}, link \in BOOLEAN :
            InsertDecision(u, d2, r, link)
        BY <2>1 DEF InsertDecision, TypeOK
    <3> QED
        BY <3>1, <3>2 DEF Next, vars, orgVars, ToggleGate, LinkApplication, Save,
           SaveDecisions, PublishAttachment, RequestJob, ServiceStep, FindJob,
           InsertJob, RefindJob, Rollback
  <2>3. PICK t \in Txns : Commit(t)
      BY <2>2
  <2>4. ready'[d] = IF d \in rows[t] /\ change[t] = "release" THEN "yes"
                    ELSE IF d \in rows[t] /\ change[t] = "reset" THEN "no"
                    ELSE ready[d]
      BY <2>3 DEF Commit
  <2>5. body'[d] = IF ready'[d] # "yes" THEN 0
                   ELSE IF d \in rows[t] /\ change[t] = "edit" THEN body[d] + 1
                   ELSE body[d]
      BY <2>3 DEF Commit
  <2>6. d \in rows[t] /\ change[t] \notin {"release", "references"}
      BY <2>4, <2>5
  <2>7. ~on[t]
      BY <2>1, <2>6 DEF LockInv
  <2> QED
      BY <2>6, <2>7
<1> QED
    BY <1>1, CreationInvariant, PTL DEF Spec, LockedAfterRelease

-----------------------------------------------------------------------------
(* The transactions as an outbox.                                          *)

LEMMA InitOneKind == Init => OneKind
BY DEF Init, OneKind

LEMMA BeginOneKind ==
    ASSUME TypeOK, OneKind, NEW t \in Txns, NEW u, NEW c, NEW S, NEW E, Begin(t, u, c, S, E),
           \/ E \subseteq Released(S, c)
           \/ Released(S, c) = {} /\ \E e \in Events \ Decisions : E \subseteq {e},
           made[t] = {}
    PROVE  OneKind'
<1>1. /\ made' = made /\ todo'[t] = E /\ owed'[t] = Released(S, c)
      /\ \A t1 \in Txns \ {t} : todo'[t1] = todo[t1] /\ owed'[t1] = owed[t1]
    BY DEF Begin, TypeOK
<1> QED
    BY <1>1 DEF OneKind

LEMMA OneKindStep == CreationInv /\ OneKind /\ [Next]_vars => OneKind'
<1> SUFFICES ASSUME CreationInv, OneKind, [Next]_vars PROVE OneKind'
    OBVIOUS
<1>1. TypeOK /\ IdleInv
    BY DEF CreationInv
<1>2. CASE UNCHANGED <<todo, made, owed>>
    BY <1>2 DEF OneKind
<1>3. ASSUME NEW t \in Txns, Save(t) PROVE OneKind'
  <2>1. PICK u \in Users, S \in SUBSET Decisions, c \in Changes \ {"none"} :
            Begin(t, u, c, S, Released(S, c))
      BY <1>3 DEF Save, SaveDecisions
  <2>2. made[t] = {}
      BY <1>1, <2>1 DEF Begin, IdleInv
  <2> QED
      BY <1>1, <2>1, <2>2, BeginOneKind
<1>4. ASSUME NEW t \in Txns, NEW u \in Users, NEW e \in Attachments \cup Documents,
             NEW E \in {{}, {e}}, Begin(t, u, "none", {}, E)
      PROVE  OneKind'
  <2>1. Released({}, "none") = {} /\ e \in Events \ Decisions
      BY CreationConstants DEF Released, Events
  <2>2. made[t] = {}
      BY <1>1, <1>4 DEF Begin, IdleInv
  <2> QED
      BY <1>1, <1>4, <2>1, <2>2, BeginOneKind
<1>5. ASSUME NEW t \in Txns, NEW e \in Events, ServiceStep(t, e) PROVE OneKind'
  <2>1. /\ owed' = owed /\ \A t1 \in Txns \ {t} : todo'[t1] = todo[t1] /\ made'[t1] = made[t1]
        /\ todo'[t] \cup made'[t] \subseteq todo[t] \cup made[t]
      BY <1>1, <1>5 DEF ServiceStep, FindJob, InsertJob, RefindJob, Asked, Answer, TypeOK
  <2> QED
      BY <2>1 DEF OneKind
<1>6. ASSUME NEW t \in Txns, End(t) PROVE OneKind'
    BY <1>1, <1>6, EndLeaves DEF OneKind
<1> QED
    BY <1>2, <1>3, <1>4, <1>5, <1>6
    DEF Next, vars, orgVars, txnVars, ToggleGate, InsertDecision, LinkApplication,
        PublishAttachment, RequestJob, Commit, Rollback

(* A commit is one step of the outbox, or none.                            *)
LEMMA CommitIsOutboxStep ==
    ASSUME CreationInv, OneKind, NEW t \in Txns, Commit(t)
    PROVE  [Outbox!Next]_<<ReleasedDecisions, owner>>
<1>1. /\ TypeOK /\ user[t] \in Users /\ todo[t] = {}
      /\ owed[t] \subseteq Decisions /\ made[t] \subseteq Events
      /\ \A e \in made[t] : owner[e] = NoOwner
    BY DEF CreationInv, IdleInv, KeyInv, TypeOK, Commit
<1>2. ReleasedDecisions' = ReleasedDecisions \cup owed[t]
    BY <1>1 DEF Commit, ReleasedDecisions
<1>3. owner' = [e \in Events |-> IF e \in made[t] THEN user[t] ELSE owner[e]]
    BY DEF Commit
<1>4. Events = Decisions \cup (Attachments \cup Documents)
    BY DEF Events
<1>5. CASE made[t] \subseteq owed[t]
  <2>1. \A e \in Events : e \in made[t] <=> e \in owed[t] /\ owner[e] = NoOwner
    <3>1. \A d \in owed[t] : owner[d] # NoOwner \/ d \in made[t]
        BY <1>1 DEF CreationInv, OwedInv
    <3> QED
        BY <1>1, <1>5, <3>1
  <2>2. Outbox!Release(user[t], owed[t])
      BY <1>2, <1>3, <1>4, <2>1 DEF Outbox!Release
  <2> QED
      BY <1>1, <2>2 DEF Outbox!Next
<1>6. CASE owed[t] = {} /\ made[t] # {}
  <2>1. PICK e \in Attachments \cup Documents : made[t] = {e}
      BY <1>1, <1>4, <1>6 DEF OneKind
  <2>2. owner' = [owner EXCEPT ![e] = user[t]]
      BY <1>1, <1>3, <2>1 DEF TypeOK
  <2>3. Outbox!Ask(user[t], e)
      BY <1>1, <1>2, <1>6, <2>1, <2>2 DEF Outbox!Ask
  <2> QED
      BY <1>1, <2>3 DEF Outbox!Next
<1> QED
    BY <1>5, <1>6 DEF OneKind

(* Nothing else is seen of the transactions.                               *)
LEMMA OtherStepsAreHidden ==
    ASSUME CreationInv, [Next]_vars, ~\E t \in Txns : Commit(t)
    PROVE  UNCHANGED <<ReleasedDecisions, owner>>
<1>1. CASE UNCHANGED <<signal, owner>>
    BY <1>1 DEF ReleasedDecisions
<1>2. ASSUME NEW u \in Users, NEW d \in Decisions, NEW r \in {"no", "yes"},
             NEW link \in BOOLEAN, InsertDecision(u, d, r, link)
      PROVE  UNCHANGED <<ReleasedDecisions, owner>>
  <2>1. signal[d] # "update" /\ signal'[d] # "update"
      BY <1>2 DEF InsertDecision, CreationInv, SignalInv, TypeOK
  <2>2. \A d1 \in Decisions \ {d} : signal'[d1] = signal[d1]
      BY <1>2 DEF InsertDecision, CreationInv, TypeOK
  <2> QED
      BY <1>2, <2>1, <2>2 DEF InsertDecision, ReleasedDecisions
<1> QED
    BY <1>1, <1>2
    DEF Next, vars, orgVars, ToggleGate, LinkApplication, Save, SaveDecisions, Begin,
        PublishAttachment, RequestJob, ServiceStep, FindJob, InsertJob, RefindJob, Rollback

(* Whatever overlaps, collides or is rolled back: a release and its job    *)
(* appear in one step, and no job is lost, made twice or given to another  *)
(* user (handler l.37-77, service l.24-61).                                *)
THEOREM ImplementsOutbox == Spec => FollowsOutbox
<1>1. Init => Outbox!Init
    BY DEF Init, Outbox!Init, ReleasedDecisions, Events
<1>2. CreationInv /\ OneKind /\ [Next]_vars => [Outbox!Next]_<<ReleasedDecisions, owner>>
    BY CommitIsOutboxStep, OtherStepsAreHidden
<1>3. Spec => []OneKind
    BY CreationInvariant, InitOneKind, OneKindStep, PTL DEF Spec
<1> QED
    BY <1>1, <1>2, <1>3, CreationInvariant, PTL DEF Spec, FollowsOutbox, Outbox!Spec
=============================================================================
