----------------------------- MODULE MCBenchLoad -----------------------------
(* Instances of BenchLoad for TLC. *)
EXTENDS BenchLoad

CONSTANTS b1, s1, s2
============================================================================
