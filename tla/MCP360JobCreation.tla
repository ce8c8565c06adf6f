-------------------------- MODULE MCP360JobCreation --------------------------
(* Small instances of P360JobCreation for TLC. *)
EXTENDS P360JobCreation, TLC

(* A case worker who may release, an external user who may not.  One more  *)
(* case worker would be the first to the service and the second to the     *)
(* guard.                                                                  *)
MCInternal == {"officer"}
MCReleasers == {"officer"}
MCUsers == MCInternal \cup {"citizen"}

CreationSymmetry == Permutations(Txns) \cup Permutations(Decisions)
=============================================================================
