------------------------------ MODULE PrBrand ------------------------------
(***************************************************************************)
(* A brand's card in the PR Writer and the lease on suggestions for it     *)
(* (pr_writer.save_card, suggest_card; firestore_repo.save_brand_card,     *)
(* lease_pr_brand_task). A save reads the card once, checks who may change *)
(* what and works out the document on that reading, and then replaces the  *)
(* card in a transaction if it is still at the revision the person's page  *)
(* had. A suggestion is searched and read under a lease that is held by a  *)
(* person, not by a request.                                               *)
(*                                                                         *)
(* Of the card: who the comms lead is, for all reviewers, and its          *)
(* boilerplate, for all texts. Left out: the checks of a body by itself,   *)
(* reviewers who are no members, and what is suggested.                    *)
(***************************************************************************)
EXTENDS Integers, Sequences, FiniteSets

CONSTANTS
  Person,
  Admin,       \* user.is_admin
  ExactAdmin,  \* the admins that are named one by one
  Lead,        \* who may be entered as comms lead
  Words,       \* boilerplates
  Nobody, NoWords,
  Asking,      \* slots for suggestions in flight
  RevisionsCap \* bound: the revisions of a card

ASSUME BrandAssumption ==
  /\ ExactAdmin \subseteq Admin /\ Admin \subseteq Person /\ Lead \subseteq Person
  /\ Nobody \notin Person /\ NoWords \notin Words
  /\ RevisionsCap \in Nat

VARIABLES
  revision, card,  \* brand_cards/{id}: its revision, 0 without a card
  history,         \* history[n]: brand_cards/{id}/history/n, create-only
  page,            \* page[p]: the revision p has open, or -1
  saving,          \* saving[p]: p's save on its way, or NoSave
  lease,           \* pr_leases/card_suggest__{id}: by, and whether its time is past
  asking,          \* asking[a]: a suggestion in flight: by, and at
  tardy            \* the people who have outstayed a lease and are not done yet

cardVars == <<revision, card, history, page, saving>>
leaseVars == <<lease, asking, tardy>>
vars == <<cardVars, leaseVars>>

-----------------------------------------------------------------------------
(* approved: the words that were on the screen of who approved them. saw:  *)
(* the revision that was on the author's. Both are history.                *)
Card ==
  [lead : Lead \cup {Nobody}, words : Words \cup {NoWords}, approved : Words \cup {NoWords},
   saw : Nat]
NoCard == [lead |-> Nobody, words |-> NoWords, approved |-> NoWords, saw |-> 0]

NoSave == [base |-> -1, doc |-> NoCard]
Save == [base : Nat \cup {-1}, doc : Card]
Ask == [by : Person \cup {Nobody}, at : {"free", "lease", "reading"}]
NoAsk == [by |-> Nobody, at |-> "free"]

TypeOK ==
  /\ revision \in 0 .. RevisionsCap /\ card \in Card
  /\ history \in [1 .. revision - 1 -> Card]
  /\ page \in [Person -> Nat \cup {-1}]
  /\ saving \in [Person -> Save]
  /\ lease \in [by : Person \cup {Nobody}, past : BOOLEAN]
  /\ asking \in [Asking -> Ask]
  /\ tardy \subseteq Person

Init ==
  /\ revision = 0 /\ card = NoCard /\ history = <<>>
  /\ page = [p \in Person |-> -1] /\ saving = [p \in Person |-> NoSave]
  /\ lease = [by |-> Nobody, past |-> FALSE]
  /\ asking = [a \in Asking |-> NoAsk] /\ tardy = {}

-----------------------------------------------------------------------------
(* GET: the page shows the card as it is, or that there is none. *)
Open(p) ==
  /\ page' = [page EXCEPT ![p] = revision]
  /\ UNCHANGED <<revision, card, history, saving, leaseVars>>

(* _card_editable; and who reviews is for the exact admins to change.      *)
MayEdit(p) == p \in Admin \/ (revision > 0 /\ card.lead = p)
MayAssign(p, lead) == lead = card.lead \/ p \in ExactAdmin

(* to_store: approval fields are the body's when the words changed, and    *)
(* carried over otherwise. Changed words need an approval in the body.     *)
Approved(words, approval) == IF words = card.words THEN card.approved ELSE approval
Document(p, lead, words, approval) ==
  [lead |-> lead, words |-> words, approved |-> Approved(words, approval), saw |-> page[p]]

(* save_card reads the card and passes its checks on that reading; the     *)
(* revision it will insist on is the page's.                               *)
BaseOnServer(p) == revision  \* variant
Base(p) == page[p]
LoadSave(p) ==
  /\ saving[p] = NoSave /\ page[p] # -1 /\ revision < RevisionsCap
  /\ MayEdit(p)
  /\ \E lead \in Lead \cup {Nobody}, words \in Words \cup {NoWords},
        approval \in Words \cup {NoWords} :
       /\ MayAssign(p, lead)
       /\ approval \in {words, NoWords}
       /\ words # card.words /\ words # NoWords => approval = words
       /\ saving' = [saving EXCEPT ![p] =
            [base |-> Base(p), doc |-> Document(p, lead, words, approval)]]
  /\ UNCHANGED <<revision, card, history, page, leaseVars>>

(* save_brand_card, one transaction: the prior revision is kept and the    *)
(* card replaced. The answer with the new revision may not arrive.         *)
InTimeAlways(p) == TRUE  \* variant
InTime(p) == revision = saving[p].base
SupersededOnCreate ==  \* variant
  [n \in 0 .. revision |-> IF n = revision THEN card ELSE history[n]]
Superseded == [n \in 1 .. revision |-> IF n = revision THEN card ELSE history[n]]
WriteCard(p) ==
  /\ saving[p] # NoSave
  /\ InTime(p)
  /\ card' = saving[p].doc
  /\ history' = Superseded
  /\ revision' = revision + 1
  /\ saving' = [saving EXCEPT ![p] = NoSave]
  /\ page' \in {page, [page EXCEPT ![p] = revision + 1]}
  /\ UNCHANGED leaseVars

(* BrandCardConflict: the answer shows the card as it is by now. *)
Conflict(p) ==
  /\ saving[p] # NoSave
  /\ ~InTime(p)
  /\ saving' = [saving EXCEPT ![p] = NoSave]
  /\ page' = [page EXCEPT ![p] = revision]
  /\ UNCHANGED <<revision, card, history, leaseVars>>

(* The request dies before its transaction. *)
DropSave(p) ==
  /\ saving[p] # NoSave
  /\ saving' = [saving EXCEPT ![p] = NoSave]
  /\ UNCHANGED <<revision, card, history, page, leaseVars>>

-----------------------------------------------------------------------------
(* suggest_card: for who may edit the card. *)
LoadAsk(a, p) ==
  /\ asking[a] = NoAsk
  /\ MayEdit(p)
  /\ asking' = [asking EXCEPT ![a] = [by |-> p, at |-> "lease"]]
  /\ UNCHANGED <<cardVars, lease, tardy>>

(* lease_pr_brand_task: in force, the request is turned away. *)
InForce == lease.by # Nobody /\ ~lease.past
TakeLease(a) ==
  /\ asking[a].at = "lease"
  /\ IF InForce
     THEN asking' = [asking EXCEPT ![a] = NoAsk] /\ UNCHANGED lease
     ELSE /\ asking' = [asking EXCEPT ![a].at = "reading"]
          /\ lease' = [by |-> asking[a].by, past |-> FALSE]
  /\ UNCHANGED <<cardVars, tardy>>

Reading(a) == asking[a].at = "reading"
ReadsStill(p, but) == \E b \in Asking \ {but} : asking[b] = [by |-> p, at |-> "reading"]
(* A request is over; who has no other one reading is late no more. *)
Over(a) ==
  /\ asking' = [asking EXCEPT ![a] = NoAsk]
  /\ tardy' = IF ReadsStill(asking[a].by, a) THEN tardy ELSE tardy \ {asking[a].by}

(* release_pr_brand_task, in any case: only a lease of the same person's. *)
ReleasedByAny(p) == TRUE  \* variant
ReleasedBy(p) == lease.by = p
Release(a) ==
  /\ Reading(a)
  /\ lease' = IF ReleasedBy(asking[a].by) THEN [by |-> Nobody, past |-> FALSE] ELSE lease
  /\ Over(a)
  /\ UNCHANGED cardVars

(* The request dies: the lease stays. *)
Crash(a) ==
  /\ asking[a] # NoAsk
  /\ Over(a)
  /\ UNCHANGED <<cardVars, lease>>

(* The lease runs out, and if its holder is reading still, that one is late. *)
Lapse ==
  /\ InForce
  /\ lease' = [lease EXCEPT !.past = TRUE]
  /\ tardy' = IF \E a \in Asking : asking[a] = [by |-> lease.by, at |-> "reading"]
              THEN tardy \cup {lease.by} ELSE tardy
  /\ UNCHANGED <<cardVars, asking>>

-----------------------------------------------------------------------------
Next ==
  \/ \E p \in Person : Open(p) \/ LoadSave(p) \/ WriteCard(p) \/ Conflict(p) \/ DropSave(p)
  \/ \E a \in Asking : (\E p \in Person : LoadAsk(a, p)) \/ TakeLease(a) \/ Release(a) \/ Crash(a)
  \/ Lapse

Spec == Init /\ [][Next]_vars

-----------------------------------------------------------------------------
(* Nobody's changes are written over unseen: the card with its history is  *)
(* the log of CardLog (save_brand_card's revision check).                  *)
Revs == [n \in 1 .. revision |-> IF n = revision THEN card ELSE history[n]]
Log == INSTANCE CardLog WITH revs <- Revs, Revision <- Card
IsCardLog == Log!Spec

(* Whatever was checked on an earlier reading holds of the card that is    *)
(* replaced: an admin or its comms lead replaces it, and only an admin who *)
(* is named one by one changes who reviews.                                *)
EditorsAreItsOwn ==
  [][\A p \in Person : WriteCard(p) =>
       /\ p \in Admin \/ (revision > 0 /\ card.lead = p)
       /\ card'.lead # card.lead => p \in ExactAdmin]_vars

(* One suggestion at a time spends search and model calls on a brand. Who  *)
(* outstays the lease may overlap with the next one, but costs nobody else *)
(* theirs: two people who are in time never read at once.                  *)
OneReadsTheSite ==
  \A a, b \in Asking :
    Reading(a) /\ Reading(b) /\ a # b => asking[a].by \in tardy \/ asking[b].by \in tardy
=============================================================================
