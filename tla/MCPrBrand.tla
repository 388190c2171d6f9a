----------------------------- MODULE MCPrBrand -----------------------------
(* A small instance of PrBrand for TLC: an admin named one by one, an admin *)
(* by domain, and a person who may become comms lead.                      *)
EXTENDS PrBrand, TLC

CONSTANTS root, boss, mia, a1, a2, a3

MCSymmetry == Permutations({a1, a2, a3})

(* Bound: three requests in flight, saves and suggestions together. *)
MCInFlight ==
  Cardinality({p \in Person : saving[p] # NoSave})
    + Cardinality({a \in Asking : asking[a] # NoAsk}) <= 3
=============================================================================
