-------------------------- MODULE MCTenantRegistry --------------------------
(* Instances of TenantRegistry for TLC. *)
EXTENDS TenantRegistry, TLC

CONSTANTS r1, r2, w, n1, n2, n3, n4

ThreeTenants == {[id |-> 1, name |-> n1], [id |-> 2, name |-> n2], [id |-> 3, name |-> n3]}

RequestSymmetry == Permutations(Request)
============================================================================
