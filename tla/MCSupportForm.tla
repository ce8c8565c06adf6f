----------------------------- MODULE MCSupportForm -----------------------------
(* Small instances of SupportForm for TLC.  No property is a liveness property,
   so that symmetry is sound. *)
EXTENDS SupportForm, TLC

Symmetry == Permutations(Inquiries) \cup Permutations(Files)
=============================================================================
