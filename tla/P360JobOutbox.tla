---------------------------- MODULE P360JobOutbox ----------------------------
(***************************************************************************)
(* What P360JobCreation promises to whoever works off the job table: a     *)
(* transactional outbox.  A release and the job that tells of it appear in *)
(* one step, a job appears once, under the user who made it, and stays; no *)
(* transactions, locks, look-ups, collisions or flags, which are how the   *)
(* triggers and the service get there.                                     *)
(***************************************************************************)

CONSTANTS
    Decisions,
    Others,    \* the events that need no release
    Users, NoOwner

VARIABLES
    released,  \* the decisions whose release P360 is to hear of
    owner      \* per event: the owner of its job, or NoOwner

Init == released = {} /\ owner = [e \in Decisions \cup Others |-> NoOwner]

(* The job of a decision that was released before is the one it has.       *)
Release(u, D) ==
    /\ released' = released \cup D
    /\ owner' = [e \in Decisions \cup Others |->
                    IF e \in D /\ owner[e] = NoOwner THEN u ELSE owner[e]]

Ask(u, e) ==
    /\ owner[e] = NoOwner
    /\ owner' = [owner EXCEPT ![e] = u]
    /\ UNCHANGED released

Next ==
    \E u \in Users :
        \/ \E D \in SUBSET Decisions : Release(u, D)
        \/ \E e \in Others : Ask(u, e)

Spec == Init /\ [][Next]_<<released, owner>>
=============================================================================
