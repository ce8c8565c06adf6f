-------------------------- MODULE MCP360ArchiveJobs --------------------------
(* Small instances of P360ArchiveJobs for TLC. *)
EXTENDS P360ArchiveJobs

(* The second wait is longer than the first, as in the code's schedule.    *)
MCBackoff == <<1, 2>>
=============================================================================
