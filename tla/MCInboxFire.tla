---------------------------- MODULE MCInboxFire ----------------------------
(* Small instances of InboxFire for TLC. *)
EXTENDS InboxFire, TLC

CONSTANTS f1, f2

MCSymmetry == Permutations({f1, f2})
=============================================================================
