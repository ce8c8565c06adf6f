--------------------------- MODULE MCApplicationForm ---------------------------
(* Small instances of ApplicationForm for TLC.  No property is a liveness
   property, so that symmetry is sound. *)
EXTENDS ApplicationForm, TLC

Symmetry == Permutations(Pages) \cup Permutations(Apps) \cup Permutations(Records)
=============================================================================
