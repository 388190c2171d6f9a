---------------------------- MODULE MCSheetRows ----------------------------
(* Small instances of SheetRows for TLC. *)
EXTENDS SheetRows

CONSTANTS c1, c2

MCSymmetry == Permutations({c1, c2})

MCMail == 1 .. 3
MCDate == <<2, 1, 2>>
MCWants ==
  {[m \in Mail |-> CASE m = 1 -> "again" [] m = 3 -> "review" [] OTHER -> "no"],
   [m \in Mail |-> IF m = 1 THEN "no" ELSE "read"]}
(* Her own row above an unread one; and the order of the first release,    *)
(* oldest first, for the sort.                                             *)
MCFirstSheets ==
  {<<HerRow, NewRow(1, "review")>>, <<NewRow(2, "review"), NewRow(1, "review")>>}
(* Nothing is promised after a crossing: those states are checked, and no  *)
(* further ones explored.                                                  *)
MCUncrossed == ~crossed
=============================================================================
