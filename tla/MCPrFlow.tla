------------------------------ MODULE MCPrFlow ------------------------------
(* A small instance of PrFlow for TLC: the owner, and one reviewer who holds *)
(* the only review row and is comms lead and legal; no quotes.              *)
EXTENDS PrFlow, TLC

CONSTANTS ann, agent, editorial, final, r1, r2

StoredSteps == {"intake", "research", "angle", "draft", "qa", "fact_check"}
AnnHoldsAll == editorial :> ann
Slots == Permutations(Request)

(* Bound: where reviews are checked, the creation of the run was not cut    *)
(* short (PrFlowIntake is about that).                                      *)
MCCreated == latest # 0 => Stored("intake")
=============================================================================
