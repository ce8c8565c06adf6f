--------------------------- MODULE MCPackageInstall ---------------------------
(* A small instance of PackageInstall for TLC. *)
EXTENDS PackageInstall

(* The second package is the one with a key.                               *)
MCNeedsKey == {2}
=============================================================================
