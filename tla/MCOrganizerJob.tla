--------------------------- MODULE MCOrganizerJob ---------------------------
(* Instances of OrganizerJob for TLC. *)
EXTENDS OrganizerJob

CONSTANTS p1, p2, p3, r1

List3 == <<p3, p2, p1>>
============================================================================
