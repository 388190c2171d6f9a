--------------------------- MODULE PrBrandProofs ---------------------------
(***************************************************************************)
(* Proofs about PrBrand, for any people, admins, boilerplates, requests in *)
(* flight and number of revisions.                                         *)
(***************************************************************************)
EXTENDS PrBrand, TLAPS

-----------------------------------------------------------------------------
(* Types; and a page or a save never names a revision that is to come.     *)
NotAhead ==
  \A p \in Person :
    page[p] <= revision /\ saving[p].base <= revision /\ saving[p].base < RevisionsCap
TypeInv == TypeOK /\ NotAhead

(* The card before its first save is a card; *)
LEMMA NoCardType == NoCard \in Card
BY DEF NoCard, Card

(* no save is a save; *)
LEMMA NoSaveType == NoSave \in Save
BY NoCardType DEF NoSave, Save

(* no request is a request. *)
LEMMA NoAskType == NoAsk \in Ask
BY DEF NoAsk, Ask

(* At the start every variable has its type. *)
LEMMA TypeInit == Init => TypeInv
BY NoCardType, NoSaveType, NoAskType, BrandAssumption
   DEF Init, TypeInv, TypeOK, NotAhead, NoSave

(* A fresh lease is one. *)
LEMMA LeaseType ==
  ASSUME NEW by \in Person \cup {Nobody}
  PROVE  [by |-> by, past |-> FALSE] \in [by : Person \cup {Nobody}, past : BOOLEAN]
OBVIOUS

(* The document of a save is a card, whatever the body. *)
LEMMA DocumentType ==
  ASSUME TypeOK, NEW p \in Person, NEW lead \in Lead \cup {Nobody},
         NEW words \in Words \cup {NoWords}, NEW approval \in Words \cup {NoWords}, page[p] # -1
  PROVE  Document(p, lead, words, approval) \in Card
<1>1. Approved(words, approval) \in Words \cup {NoWords}
  BY DEF Approved, TypeOK, Card
<1>2. page[p] \in Nat
  BY DEF TypeOK
<1> QED BY <1>1, <1>2 DEF Document, Card

(* Every step keeps the types. *)
LEMMA TypeStep == TypeInv /\ [Next]_vars => TypeInv'
<1> SUFFICES ASSUME TypeInv, [Next]_vars PROVE TypeInv'
  OBVIOUS
<1> USE BrandAssumption DEF TypeInv
<1>1. ASSUME NEW p \in Person, Open(p) PROVE TypeInv'
  BY <1>1 DEF Open, leaseVars, TypeOK, NotAhead
<1>2. ASSUME NEW p \in Person, LoadSave(p) PROVE TypeInv'
  <2>1. PICK lead \in Lead \cup {Nobody}, words \in Words \cup {NoWords},
             approval \in Words \cup {NoWords} :
          saving' = [saving EXCEPT ![p] =
            [base |-> Base(p), doc |-> Document(p, lead, words, approval)]]
    BY <1>2 DEF LoadSave
  <2>2. page[p] # -1
    BY <1>2 DEF LoadSave
  <2>3. Base(p) \in Nat \cup {-1} /\ Base(p) <= revision /\ Base(p) < RevisionsCap
    BY <1>2 DEF LoadSave, Base, TypeOK, NotAhead
  <2>4. [base |-> Base(p), doc |-> Document(p, lead, words, approval)] \in Save
    BY <2>2, <2>3, DocumentType DEF Save
  <2>5. saving' \in [Person -> Save]
    BY <2>1, <2>4 DEF TypeOK
  <2>6. UNCHANGED <<revision, card, history, page, lease, asking, tardy>>
    BY <1>2 DEF LoadSave, leaseVars
  <2>7. \A q \in Person : saving'[q].base <= revision /\ saving'[q].base < RevisionsCap
    BY <2>1, <2>3 DEF TypeOK, NotAhead
  <2> QED BY <2>5, <2>6, <2>7 DEF TypeOK, NotAhead
<1>3. ASSUME NEW p \in Person, WriteCard(p) PROVE TypeInv'
  <2>1. saving[p] \in Save /\ saving[p] # NoSave /\ saving[p].base = revision
    BY <1>3 DEF WriteCard, InTime, TypeOK
  <2>2. card' \in Card
    BY <1>3, <2>1 DEF WriteCard, Save
  <2>3. revision' = revision + 1 /\ revision' \in 0 .. RevisionsCap
    BY <1>3 DEF WriteCard, InTime, TypeOK, NotAhead
  <2>4. history' \in [1 .. revision' - 1 -> Card]
    BY <1>3, <2>3 DEF WriteCard, Superseded, TypeOK
  <2>5. saving' \in [Person -> Save] /\ page' \in [Person -> Nat \cup {-1}]
    BY <1>3, NoSaveType DEF WriteCard, TypeOK
  <2>6. NotAhead'
    BY <1>3, <2>3 DEF WriteCard, TypeOK, NotAhead, NoSave, Save
  <2>7. UNCHANGED <<lease, asking, tardy>>
    BY <1>3 DEF WriteCard, leaseVars
  <2> QED BY <2>2, <2>3, <2>4, <2>5, <2>6, <2>7 DEF TypeOK
<1>4. ASSUME NEW p \in Person, Conflict(p) \/ DropSave(p) PROVE TypeInv'
  BY <1>4, NoSaveType DEF Conflict, DropSave, leaseVars, TypeOK, NotAhead, NoSave
<1>5. ASSUME NEW a \in Asking, NEW p \in Person, LoadAsk(a, p) PROVE TypeInv'
  BY <1>5 DEF LoadAsk, cardVars, TypeOK, NotAhead, Ask
<1>6. ASSUME NEW a \in Asking, TakeLease(a) PROVE TypeInv'
  <2>1. UNCHANGED <<revision, card, history, page, saving, tardy>>
    BY <1>6 DEF TakeLease, cardVars
  <2>2. asking' \in [Asking -> Ask]
    BY <1>6, NoAskType DEF TakeLease, TypeOK, Ask
  <2>3. asking[a].by \in Person \cup {Nobody}
    BY DEF TypeOK, Ask
  <2>4. lease' = lease \/ lease' = [by |-> asking[a].by, past |-> FALSE]
    BY <1>6 DEF TakeLease
  <2>5. lease' \in [by : Person \cup {Nobody}, past : BOOLEAN]
    BY <2>3, <2>4, LeaseType DEF TypeOK
  <2> QED BY <2>1, <2>2, <2>5 DEF TypeOK, NotAhead
<1>7. ASSUME NEW a \in Asking, Release(a) \/ Crash(a) PROVE TypeInv'
  <2>1. UNCHANGED <<revision, card, history, page, saving>>
    BY <1>7 DEF Release, Crash, cardVars
  <2>2. asking' \in [Asking -> Ask] /\ tardy' \subseteq Person
    BY <1>7, NoAskType DEF Release, Crash, Over, TypeOK
  <2>3. lease' = lease \/ lease' = [by |-> Nobody, past |-> FALSE]
    BY <1>7 DEF Release, Crash
  <2>4. lease' \in [by : Person \cup {Nobody}, past : BOOLEAN]
    BY <2>3, LeaseType DEF TypeOK
  <2> QED BY <2>1, <2>2, <2>4 DEF TypeOK, NotAhead
<1>8. ASSUME Lapse PROVE TypeInv'
  BY <1>8 DEF Lapse, InForce, cardVars, TypeOK, NotAhead
<1>9. CASE UNCHANGED vars
  BY <1>9 DEF vars, cardVars, leaseVars, TypeOK, NotAhead
<1> QED BY <1>1, <1>2, <1>3, <1>4, <1>5, <1>6, <1>7, <1>8, <1>9 DEF Next

(* The state of the card and of the lease is always well formed. *)
THEOREM BrandTypeOK == Spec => []TypeOK
<1>1. Spec => []TypeInv
  BY TypeInit, TypeStep, PTL DEF Spec
<1> QED BY <1>1, PTL DEF TypeInv

-----------------------------------------------------------------------------
(* A save that is still in time was checked against the very card it is to *)
(* replace: whatever has been saved since would have put it out of time.   *)
Sound(c) == c.words # NoWords => c.approved = c.words
Fits(p) ==
  /\ saving[p].doc.saw = revision
  /\ Sound(saving[p].doc)
  /\ p \in Admin \/ (revision > 0 /\ card.lead = p)
  /\ saving[p].doc.lead = card.lead \/ p \in ExactAdmin
SaveInv == Sound(card) /\ \A p \in Person : InTime(p) => Fits(p)

(* At the start there is nothing to save. *)
LEMMA SaveInit == Init => SaveInv
BY DEF Init, SaveInv, Sound, NoCard, InTime, NoSave

(* Every step keeps what saves were checked against. *)
LEMMA SaveStep == TypeInv /\ SaveInv /\ [Next]_vars => SaveInv'
<1> SUFFICES ASSUME TypeInv, SaveInv, [Next]_vars PROVE SaveInv'
  OBVIOUS
<1> USE BrandAssumption
<1>1. ASSUME NEW p \in Person, LoadSave(p) PROVE SaveInv'
  <2>1. PICK lead \in Lead \cup {Nobody}, words \in Words \cup {NoWords},
             approval \in Words \cup {NoWords} :
          /\ MayAssign(p, lead)
          /\ words # card.words /\ words # NoWords => approval = words
          /\ saving' = [saving EXCEPT ![p] =
               [base |-> Base(p), doc |-> Document(p, lead, words, approval)]]
    BY <1>1 DEF LoadSave
  <2>2. UNCHANGED <<revision, card>>
    BY <1>1 DEF LoadSave
  <2>3. saving' = [q \in Person |-> IF q = p
          THEN [base |-> Base(p), doc |-> Document(p, lead, words, approval)] ELSE saving[q]]
    BY <2>1 DEF TypeInv, TypeOK
  <2>4. Sound(Document(p, lead, words, approval))
    BY <2>1 DEF Sound, Document, Approved, SaveInv
  <2>5. Base(p) = revision => Document(p, lead, words, approval).saw = revision
    BY DEF Base, Document
  <2>6. p \in Admin \/ (revision > 0 /\ card.lead = p)
    BY <1>1 DEF LoadSave, MayEdit
  <2>7. Document(p, lead, words, approval).lead = card.lead \/ p \in ExactAdmin
    BY <2>1 DEF MayAssign, Document
  <2>8. ASSUME NEW q \in Person, InTime(q)' PROVE Fits(q)'
    <3>1. CASE q = p
      BY <2>2, <2>3, <2>4, <2>5, <2>6, <2>7, <2>8, <3>1 DEF InTime, Fits
    <3>2. CASE q # p
      BY <2>2, <2>3, <2>8, <3>2 DEF InTime, Fits, SaveInv
    <3> QED BY <3>1, <3>2
  <2> QED BY <2>2, <2>8 DEF SaveInv
<1>2. ASSUME NEW p \in Person, WriteCard(p) PROVE SaveInv'
  <2>1. Sound(card)'
    BY <1>2 DEF WriteCard, SaveInv, Fits, Sound
  <2>2. revision' = revision + 1 /\ revision \in Nat
    BY <1>2 DEF WriteCard, TypeInv, TypeOK
  <2>3. \A q \in Person : ~InTime(q)'
    BY <1>2, <2>2 DEF WriteCard, InTime, TypeInv, TypeOK, NotAhead, NoSave, Save
  <2> QED BY <2>1, <2>3 DEF SaveInv
<1>3. ASSUME NEW p \in Person, Conflict(p) \/ DropSave(p) PROVE SaveInv'
  BY <1>3 DEF Conflict, DropSave, SaveInv, InTime, Fits, NoSave, TypeInv, TypeOK
<1>4. CASE UNCHANGED <<revision, card, saving>>
  BY <1>4 DEF SaveInv, InTime, Fits, Sound
<1>5. ASSUME NEW p \in Person, Open(p) PROVE UNCHANGED <<revision, card, saving>>
  BY <1>5 DEF Open
<1>6. ASSUME NEW a \in Asking,
             (\E p \in Person : LoadAsk(a, p)) \/ TakeLease(a) \/ Release(a) \/ Crash(a)
      PROVE  UNCHANGED <<revision, card, saving>>
  BY <1>6 DEF LoadAsk, TakeLease, Release, Crash, cardVars
<1>7. Lapse \/ UNCHANGED vars => UNCHANGED <<revision, card, saving>>
  BY DEF Lapse, vars, cardVars
<1> QED BY <1>1, <1>2, <1>3, <1>4, <1>5, <1>6, <1>7 DEF Next

(* A save in time fits the card it replaces, always. *)
LEMMA SaveAlways == Spec => [](TypeInv /\ SaveInv)
BY TypeInit, TypeStep, SaveInit, SaveStep, PTL DEF Spec

(* Whatever was checked on an earlier reading holds of the card that is    *)
(* replaced: who replaces it may, and who changes the reviewers may.       *)
THEOREM EditorsAre == Spec => EditorsAreItsOwn
<1>1. TypeInv /\ SaveInv /\ [Next]_vars =>
        [\A p \in Person : WriteCard(p) =>
           /\ p \in Admin \/ (revision > 0 /\ card.lead = p)
           /\ card'.lead # card.lead => p \in ExactAdmin]_vars
  BY DEF WriteCard, SaveInv, Fits
<1> QED BY <1>1, SaveAlways, PTL DEF Spec, EditorsAreItsOwn

-----------------------------------------------------------------------------
(* The refinement: a write of the card is a save of the log, and no other  *)
(* step changes a revision.                                                *)
LEMMA WriteIsSave ==
  ASSUME TypeInv, SaveInv, NEW p \in Person, WriteCard(p)
  PROVE  Log!Save
<1> USE BrandAssumption
<1>1. /\ revision \in Nat /\ revision' = revision + 1
      /\ card \in Card /\ card' \in Card /\ history \in [1 .. revision - 1 -> Card]
  BY DEF WriteCard, TypeInv, TypeOK, Save
<1>2. history' = [n \in 1 .. revision |-> IF n = revision THEN card ELSE history[n]]
  BY DEF WriteCard, Superseded
<1>3. Revs \in Seq(Card) /\ Len(Revs) = revision
  BY <1>1 DEF Revs
<1>4. Revs' = [n \in 1 .. revision + 1 |-> IF n = revision + 1 THEN card' ELSE history'[n]]
  BY <1>1 DEF Revs
<1>5. Revs' \in Seq(Card) /\ Len(Revs') = revision + 1
  BY <1>1, <1>2, <1>4
<1>6. \A n \in 1 .. revision : Revs'[n] = Revs[n]
  BY <1>1, <1>2, <1>4 DEF Revs
<1>7. Revs'[Len(Revs')] = card'
  BY <1>1, <1>4, <1>5
<1>8. card'.saw = revision /\ (card'.words # NoWords => card'.approved = card'.words)
  BY DEF WriteCard, SaveInv, Fits, Sound
<1> QED BY <1>3, <1>5, <1>6, <1>7, <1>8 DEF Log!Save, Log!Last

(* Only a write of the card adds a revision. *)
LEMMA OthersKeepRevs ==
  ASSUME TypeInv, [Next]_vars, \A p \in Person : ~WriteCard(p)
  PROVE  UNCHANGED Revs
<1>1. UNCHANGED <<revision, card, history>>
  BY DEF Next, Open, LoadSave, Conflict, DropSave, LoadAsk, TakeLease, Release, Crash, Lapse,
         vars, cardVars
<1> QED BY <1>1 DEF Revs

(* Nobody's changes are written over unseen: the card with its history is  *)
(* a log in which each revision was made on the one before it.             *)
THEOREM BrandIsCardLog == Spec => IsCardLog
<1>1. Init => Revs = <<>>
  BY DEF Init, Revs
<1>2. TypeInv /\ SaveInv /\ [Next]_vars => [Log!Save]_Revs
  BY WriteIsSave, OthersKeepRevs
<1> QED BY <1>1, <1>2, SaveAlways, PTL DEF Spec, IsCardLog, Log!Spec

-----------------------------------------------------------------------------
(* A request is somebody's; and whoever reads in time holds the lease, in  *)
(* force.                                                                  *)
Asked == \A a \in Asking : asking[a].at # "free" => asking[a].by \in Person
HoldsIt ==
  \A a \in Asking : Reading(a) =>
    asking[a].by \in tardy \/ (lease.by = asking[a].by /\ ~lease.past)
ReadInv == TypeOK /\ Asked /\ HoldsIt /\ OneReadsTheSite

(* At the start nobody reads the site. *)
LEMMA ReadInit == Init => ReadInv
BY TypeInit DEF Init, ReadInv, TypeInv, Asked, HoldsIt, OneReadsTheSite, Reading, NoAsk

(* A request that ends makes nobody else late or in time, and takes a lease *)
(* from nobody who reads in time.                                          *)
LEMMA OverKeeps ==
  ASSUME ReadInv, NEW a \in Asking, Over(a), Reading(a) \/ UNCHANGED lease,
         lease' \in {lease, [by |-> Nobody, past |-> FALSE]},
         lease' # lease => lease.by = asking[a].by
  PROVE  (HoldsIt /\ OneReadsTheSite)'
<1>1. asking' = [b \in Asking |-> IF b = a THEN NoAsk ELSE asking[b]]
  BY DEF Over, ReadInv, TypeOK
<1>2. \A b \in Asking : Reading(b)' => b # a /\ Reading(b) /\ asking'[b] = asking[b]
  BY <1>1 DEF Reading, NoAsk
<1>3. ASSUME NEW b \in Asking, Reading(b)', asking[b].by \notin tardy' PROVE asking[b].by \notin tardy
  <2>1. CASE asking[b].by = asking[a].by
    <3>1. asking[b] = [by |-> asking[a].by, at |-> "reading"] /\ b # a
      BY <1>2, <1>3, <2>1 DEF Reading, ReadInv, TypeOK, Ask
    <3> QED BY <3>1, <1>3 DEF Over, ReadsStill
  <2>2. CASE asking[b].by # asking[a].by
    BY <1>3, <2>2 DEF Over
  <2> QED BY <2>1, <2>2
<1>4. OneReadsTheSite'
  BY <1>2, <1>3 DEF OneReadsTheSite, ReadInv
<1>5. ASSUME NEW b \in Asking, Reading(b)', asking[b].by \notin tardy'
      PROVE  lease'.by = asking[b].by /\ ~lease'.past
  <2>1. Reading(b) /\ b # a /\ asking[b].by \notin tardy
    BY <1>2, <1>3, <1>5
  <2>2. lease.by = asking[b].by /\ ~lease.past
    BY <2>1 DEF ReadInv, HoldsIt
  <2>3. CASE lease' = lease
    BY <2>2, <2>3
  <2>4. CASE lease' # lease
    <3>1. Reading(a) /\ asking[a].by = asking[b].by
      BY <2>2, <2>4
    <3> QED BY <3>1, <2>1 DEF ReadInv, OneReadsTheSite
  <2> QED BY <2>3, <2>4
<1>6. HoldsIt'
  BY <1>2, <1>5 DEF HoldsIt, ReadInv
<1> QED BY <1>4, <1>6

(* Every step keeps what is known of who asked. *)
LEMMA AskedStep == ReadInv /\ [Next]_vars => Asked'
BY DEF ReadInv, TypeOK, Ask, Asked, Next, Open, LoadSave, WriteCard, Conflict, DropSave, LoadAsk,
       TakeLease, Release, Crash, Lapse, Over, NoAsk, vars, leaseVars

(* Every step keeps one reader at the site. *)
LEMMA ReadStep == ReadInv /\ TypeOK' /\ [Next]_vars => ReadInv'
<1> SUFFICES ASSUME ReadInv, TypeOK', [Next]_vars PROVE (HoldsIt /\ OneReadsTheSite)'
  BY AskedStep DEF ReadInv
<1> USE BrandAssumption
<1>1. ASSUME NEW a \in Asking, NEW p \in Person, LoadAsk(a, p)
      PROVE  (HoldsIt /\ OneReadsTheSite)'
  <2>1. asking' = [b \in Asking |-> IF b = a THEN [by |-> p, at |-> "lease"] ELSE asking[b]]
    BY <1>1 DEF LoadAsk, ReadInv, TypeOK
  <2>2. UNCHANGED <<lease, tardy>>
    BY <1>1 DEF LoadAsk
  <2>3. \A b \in Asking : Reading(b)' => Reading(b) /\ asking'[b] = asking[b]
    BY <2>1 DEF Reading
  <2> QED BY <2>2, <2>3 DEF ReadInv, HoldsIt, OneReadsTheSite
<1>2. ASSUME NEW a \in Asking, TakeLease(a) PROVE (HoldsIt /\ OneReadsTheSite)'
  <2>1. UNCHANGED tardy
    BY <1>2 DEF TakeLease
  <2>2. CASE InForce
    <3>1. asking' = [b \in Asking |-> IF b = a THEN NoAsk ELSE asking[b]] /\ UNCHANGED lease
      BY <1>2, <2>2 DEF TakeLease, ReadInv, TypeOK
    <3>2. \A b \in Asking : Reading(b)' => Reading(b) /\ asking'[b] = asking[b]
      BY <3>1 DEF Reading, NoAsk
    <3> QED BY <2>1, <3>1, <3>2 DEF ReadInv, HoldsIt, OneReadsTheSite
  <2>3. CASE ~InForce
    <3>1. /\ asking' = [b \in Asking |-> IF b = a THEN [asking[a] EXCEPT !.at = "reading"]
                                         ELSE asking[b]]
          /\ lease' = [by |-> asking[a].by, past |-> FALSE]
      BY <1>2, <2>3 DEF TakeLease, ReadInv, TypeOK
    <3>2. asking[a] \in Ask /\ asking[a].at = "lease"
      BY <1>2 DEF TakeLease, ReadInv, TypeOK
    <3>3. asking'[a].by = asking[a].by
      BY <3>1, <3>2 DEF Ask
    <3>4. \A b \in Asking : Reading(b) => asking[b].by \in tardy
      BY <2>3 DEF InForce, ReadInv, Asked, HoldsIt, Reading
    <3>5. \A b \in Asking : b # a /\ Reading(b)' =>
            Reading(b) /\ asking'[b] = asking[b]
      BY <3>1 DEF Reading
    <3> QED BY <2>1, <3>1, <3>3, <3>4, <3>5 DEF HoldsIt, OneReadsTheSite
  <2> QED BY <2>2, <2>3
<1>3. ASSUME NEW a \in Asking, Release(a) PROVE (HoldsIt /\ OneReadsTheSite)'
  <2>1. Reading(a) /\ Over(a) /\ lease' \in {lease, [by |-> Nobody, past |-> FALSE]}
    BY <1>3 DEF Release
  <2>2. lease' # lease => lease.by = asking[a].by
    BY <1>3 DEF Release, ReleasedBy
  <2> QED BY <2>1, <2>2, OverKeeps
<1>4. ASSUME NEW a \in Asking, Crash(a) PROVE (HoldsIt /\ OneReadsTheSite)'
  BY <1>4, OverKeeps DEF Crash
<1>5. ASSUME Lapse PROVE (HoldsIt /\ OneReadsTheSite)'
  <2>1. UNCHANGED asking /\ tardy \subseteq tardy'
    BY <1>5 DEF Lapse
  <2>2. \A b \in Asking : Reading(b) => asking[b].by \in tardy'
    <3> SUFFICES ASSUME NEW b \in Asking, Reading(b), asking[b].by \notin tardy
                 PROVE  asking[b].by \in tardy'
      BY <2>1
    <3>1. asking[b] = [by |-> lease.by, at |-> "reading"]
      BY DEF ReadInv, HoldsIt, Reading, TypeOK, Ask
    <3> QED BY <1>5, <3>1 DEF Lapse
  <2> QED BY <2>1, <2>2 DEF ReadInv, HoldsIt, OneReadsTheSite, Reading
<1>6. CASE UNCHANGED leaseVars
  BY <1>6 DEF leaseVars, ReadInv, HoldsIt, OneReadsTheSite, Reading
<1>7. ASSUME NEW p \in Person,
             Open(p) \/ LoadSave(p) \/ WriteCard(p) \/ Conflict(p) \/ DropSave(p)
      PROVE  UNCHANGED leaseVars
  BY <1>7 DEF Open, LoadSave, WriteCard, Conflict, DropSave
<1>8. UNCHANGED vars => UNCHANGED leaseVars
  BY DEF vars
<1> QED BY <1>1, <1>2, <1>3, <1>4, <1>5, <1>6, <1>7, <1>8 DEF Next

(* Two people who are in time never read a brand's site at once, whatever  *)
(* dies, and however late a third one is.                                  *)
THEOREM OneReads == Spec => []OneReadsTheSite
<1>1. Spec => []TypeInv
  BY TypeInit, TypeStep, PTL DEF Spec
<1>2. TypeInv' => TypeOK'
  BY DEF TypeInv
<1> QED BY <1>1, <1>2, ReadInit, ReadStep, PTL DEF Spec, ReadInv
=============================================================================
