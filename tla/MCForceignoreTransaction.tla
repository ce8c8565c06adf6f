----------------------- MODULE MCForceignoreTransaction -----------------------
(* Small instances of ForceignoreTransaction for TLC. *)
EXTENDS ForceignoreTransaction, TLC

RunSymmetry == Permutations(Runs)
=============================================================================
