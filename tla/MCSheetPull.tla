---------------------------- MODULE MCSheetPull ----------------------------
(* A small instance of SheetPull for TLC. *)
EXTENDS SheetPull, TLC

CONSTANTS ads, social, totals, upload, east, west, p1, p2

(* Bound: an earlier deployment has stored the steady platforms, and the    *)
(* workbook has every tab to begin with.                                    *)
MCStart ==
  /\ {r \in stored : r.at = 0} = [of : Steady, at : {0}]
  /\ trouble = 0 => book = Sheet

(* Bound: one file is uploaded. *)
MCOneFile ==
  Cardinality({r \in stored \cup UNION {disk[i] : i \in Instance} : r.of \in File}) <= 1

MCSymmetry == Permutations({east, west}) \cup Permutations({p1, p2})
=============================================================================
