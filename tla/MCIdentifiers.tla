--------------------------- MODULE MCIdentifiers ---------------------------
(* Instances of Identifiers for TLC. *)
EXTENDS Identifiers

CONSTANTS r1, r2
============================================================================
