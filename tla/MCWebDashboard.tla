---------------------------- MODULE MCWebDashboard ----------------------------
(* Small instances of WebDashboard for TLC. *)
EXTENDS WebDashboard, TLC

OpSymmetry == Permutations(Ops)
=============================================================================
