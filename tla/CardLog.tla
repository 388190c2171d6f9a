------------------------------ MODULE CardLog ------------------------------
(***************************************************************************)
(* What the PR Writer promises about a brand's card: it is a list of       *)
(* revisions that only grows, each one made by a person who had the one    *)
(* before it on the screen, so nobody's changes are written over unseen;   *)
(* and the boilerplate of each was approved in the words it has. PrBrand   *)
(* is shown to implement it.                                               *)
(***************************************************************************)
EXTENDS Integers, Sequences

CONSTANTS
  Revision,  \* what a revision may be: [saw, words, approved, ...]
  NoWords    \* an empty boilerplate, or no approval of one

VARIABLE revs  \* the revisions, oldest first

(* What there was stays, and one revision is added. saw: the number of the *)
(* revision its author had open; approved: the words that were approved.   *)
Last(s) == s[Len(s)]
Save ==
  /\ revs' \in Seq(Revision)
  /\ Len(revs') = Len(revs) + 1
  /\ \A n \in 1 .. Len(revs) : revs'[n] = revs[n]
  /\ Last(revs)'.saw = Len(revs)
  /\ Last(revs)'.words # NoWords => Last(revs)'.approved = Last(revs)'.words

Spec == revs = <<>> /\ [][Save]_revs
=============================================================================
