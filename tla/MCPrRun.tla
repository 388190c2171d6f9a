------------------------------ MODULE MCPrRun ------------------------------
(* A small instance of PrRun for TLC. *)
EXTENDS PrRun, TLC

CONSTANTS ann, bob, agent, editorial, final, q1, t1, t2, s1, s2, draft

(* The texts and speakers of the one quote are interchangeable. *)
Interchangeable == Permutations({t1, t2}) \cup Permutations({s1, s2})
=============================================================================
