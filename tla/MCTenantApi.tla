---------------------------- MODULE MCTenantApi ----------------------------
(* Instances of TenantApi for TLC. *)
EXTENDS TenantApi, TLC

CONSTANTS r1, r2, r3, p1, p2, p3, c1, c2

Line(p, n) == [player |-> p, score |-> n]

(* Two files of two rows that share a participant. *)
TwoFiles == {<<Line(p1, 10), Line(p2, 20)>>, <<Line(p2, 5), Line(p1, 5)>>}
(* A file that repeats a participant, an empty one, one with a participant    *)
(* who does not exist, and one that does not parse.                            *)
MixedFiles == {<<Line(p1, 10), Line(p1, 5)>>, <<>>, <<Line(p1, 10), Line(p3, 1)>>, <<Line(p1, 0)>>}
Unparsable == {<<Line(p1, 0)>>}
OneFile == {<<Line(p1, 10)>>}
None == {}

RequestSymmetry == Permutations(Request)
============================================================================
