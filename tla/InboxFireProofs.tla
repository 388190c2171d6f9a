-------------------------- MODULE InboxFireProofs --------------------------
(* Proofs about InboxFire. *)
EXTENDS InboxFire, TLAPS

USE FireAssumption DEF storeVars, mailVars, sheetVars, Goto, Leave, Trouble, Whim

(* A slot without a fire knows nothing. *)
LEMMA BlankType == Blank \in Knowledge
<1>1. <<>> \in [{} -> Tries]
  OBVIOUS
<1>2. <<>> \in Bookkeeping
  BY <1>1 DEF Bookkeeping
<1> QED BY <1>2 DEF Blank, Knowledge, Grants, History

(* What a fire reads off the document is knowledge. *)
LEMMA AsReadType == ASSUME TypeOK, NEW f \in Slot PROVE AsRead(work[f]) \in Knowledge
<1> DEFINE g == IF link = "down" THEN "none" ELSE "current"
<1>1. work[f] \in Knowledge /\ checkpoint \in [id : History, at : History] /\ backfill \in History
      /\ breaker.failures \in 0 .. TRIPS
  BY DEF TypeOK
<1>2. g \in Grants
  BY DEF Grants
<1> HIDE DEF g
<1>3. [work[f] EXCEPT !.grant = g, !.point = checkpoint, !.bf = backfill,
                      !.failures = breaker.failures] \in Knowledge
  BY <1>1, <1>2 DEF Knowledge
<1> QED BY <1>3 DEF AsRead, g

(* What changes, and what does not. *)
LEMMA AsReadFields ==
  ASSUME NEW w \in Knowledge
  PROVE  /\ AsRead(w).began = w.began /\ AsRead(w).point = checkpoint /\ AsRead(w).bf = backfill
         /\ link = "down" => AsRead(w).grant = "none"
<1> DEFINE g == IF link = "down" THEN "none" ELSE "current"
           r == [w EXCEPT !.grant = g, !.point = checkpoint, !.bf = backfill,
                          !.failures = breaker.failures]
<1> HIDE DEF g
<1>1. r.began = w.began /\ r.point = checkpoint /\ r.bf = backfill /\ r.grant = g
  BY DEF Knowledge
<1> HIDE DEF r
<1>2. AsRead(w) = r
  BY DEF AsRead, r, g
<1> QED BY <1>1, <1>2 DEF g

(* Types: the steps that change a slot and the lease only. *)
LEMMA EasySteps ==
  ASSUME TypeOK, NEW f \in Slot,
         Start(f) \/ TakeLease(f) \/ Recheck(f) \/ ReadMap(f) \/ HistoryExpired(f) \/ Answered(f)
         \/ Refused(f) \/ MarkRevoked(f) \/ Release(f) \/ Outage(f)
  PROVE  TypeOK'
<1> USE BlankType
<1>1. CASE Start(f)
  BY <1>1 DEF Start, TypeOK, Step, Knowledge
<1>2. CASE TakeLease(f)
  <2>1. work' \in [Slot -> Knowledge]
    BY <1>2, AsReadType DEF TakeLease, TypeOK
  <2>3. lease' \in [by : Slot \cup {None}, expired : BOOLEAN]
    <3>1. CASE LeaseFree
      <4>1. lease' = [by |-> f, expired |-> FALSE]
        BY <1>2, <3>1 DEF TakeLease
      <4> QED BY <4>1
    <3>2. CASE ~LeaseFree
      BY <1>2, <3>2 DEF TakeLease, TypeOK
    <3> QED BY <3>1, <3>2
  <2>4. pc' \in [Slot -> Step]
    BY <1>2 DEF TakeLease, TypeOK, Step
  <2>5. UNCHANGED <<mailVars, link, checkpoint, backfill, tracked, breaker, sheetVars, trouble,
                    forgotten, behind>>
    BY <1>2 DEF TakeLease
  <2> QED BY <2>1, <2>3, <2>4, <2>5 DEF TypeOK
<1>3. CASE ReadMap(f)
  <2>1. [work[f] EXCEPT !.map = OnSheet] \in Knowledge
    BY DEF TypeOK, Knowledge, OnSheet
  <2>2. work' \in [Slot -> Knowledge]
    BY <1>3, <2>1 DEF ReadMap, TypeOK
  <2> QED BY <1>3, <2>2 DEF ReadMap, TypeOK, Step
<1>4. CASE HistoryExpired(f)
  BY <1>4 DEF HistoryExpired, TypeOK, Step, Knowledge
<1>5. CASE Answered(f)
  BY <1>5 DEF Answered, TypeOK, Step
<1>6. CASE Refused(f)
  BY <1>6 DEF Refused, TypeOK, Step
<1>7. CASE MarkRevoked(f)
  BY <1>7 DEF MarkRevoked, TypeOK, Step
<1>8. CASE Release(f)
  BY <1>8 DEF Release, TypeOK, Step
<1>9. CASE Outage(f)
  BY <1>9 DEF Outage, TypeOK, Step
<1>10. CASE Recheck(f)
  BY <1>10, AsReadType DEF Recheck, TypeOK
<1> QED BY <1>1, <1>2, <1>3, <1>4, <1>5, <1>6, <1>7, <1>8, <1>9, <1>10

(* Where a relisting goes on from is between its ends. *)
LEMMA CursorBetween ==
  ASSUME NEW from \in Nat, NEW to \in 0 .. from
  PROVE  Cursor(from, to) \in to .. from
<1>1. PAGE * ((from - to) \div PAGE) \in 0 .. (from - to)
  <2>1. from - to \in Nat
    OBVIOUS
  <2> QED BY <2>1, Z3
<1> QED BY <1>1 DEF Cursor

(* What a fire gathers is bookkeeping it may keep. *)
LEMMA GatherType ==
  ASSUME TypeOK, NEW f \in Slot, NEW new \in SUBSET Mail, NEW all \in BOOLEAN,
         NEW point \in History, Gather(f, new, all, point)
  PROVE  TypeOK'
<1>1. PICK retried \in SUBSET Due, down \in 0 .. work[f].bf :
        \E answered \in SUBSET (Taken(f, new \cup (down + 1 .. work[f].bf)) \cup
                               {m \in retried : m \in work[f].map /\ m \notin gone}) :
          work' = [work EXCEPT ![f] =
            [work[f] EXCEPT !.unread = Taken(f, new \cup (down + 1 .. work[f].bf)) \ answered,
                      !.answered = answered \cap Taken(f, new \cup (down + 1 .. work[f].bf)),
                      !.again = answered \cap {m \in retried : m \in work[f].map /\ m \notin gone},
                      !.tries = [m \in retried |-> NextTry(f, m, answered)],
                      !.save = SaveIfAll(all, point), !.bf = Cursor(work[f].bf, down),
                      !.point = Blank.point, !.map = {}, !.fresh = 0]]
  BY DEF Gather
<1> DEFINE taken == Taken(f, new \cup (down + 1 .. work[f].bf))
           asked == {m \in retried : m \in work[f].map /\ m \notin gone}
<1>2. PICK answered \in SUBSET (taken \cup asked) :
          work' = [work EXCEPT ![f] =
            [work[f] EXCEPT !.unread = taken \ answered, !.answered = answered \cap taken,
                      !.again = answered \cap asked,
                      !.tries = [m \in retried |-> NextTry(f, m, answered)],
                      !.save = SaveIfAll(all, point), !.bf = Cursor(work[f].bf, down),
                      !.point = Blank.point, !.map = {}, !.fresh = 0]]
  BY <1>1
<1>3. work[f].bf \in History /\ work[f] \in Knowledge
  BY DEF TypeOK, Knowledge
<1>4. taken \subseteq Mail
  <2>1. down \in Int /\ work[f].bf \in Int /\ 0 <= down /\ work[f].bf <= MailCap
    BY <1>3 DEF History
  <2>2. down + 1 .. work[f].bf \subseteq Mail
    BY <2>1 DEF Mail
  <2> QED BY <2>2 DEF Taken
<1>5. [m \in retried |-> NextTry(f, m, answered)] \in Bookkeeping
  <2>1. ASSUME NEW m \in retried PROVE NextTry(f, m, answered) \in Tries
    <3>1. m \in Mail /\ tracked[m].due /\ tracked[m] \in Tries
      BY DEF TypeOK, Due
    <3>2. tracked[m].attempts \in 0 .. MAX_RETRIES
      BY <3>1 DEF Tries
    <3>3. CASE m \notin work[f].map \/ m \in gone
      <4>1. NextTry(f, m, answered) = [attempts |-> tracked[m].attempts, due |-> FALSE]
        BY <3>3 DEF NextTry
      <4> QED BY <4>1, <3>2 DEF Tries
    <3>4. CASE ~(m \notin work[f].map \/ m \in gone)
      <4> DEFINE n == tracked[m].attempts + 1
                 due == m \notin answered /\ n < 1 + MAX_RETRIES
      <4>1. NextTry(f, m, answered) = [attempts |-> n, due |-> due]
        BY <3>4 DEF NextTry
      <4>2. n \in 0 .. 1 + MAX_RETRIES /\ (due => n <= MAX_RETRIES)
        BY <3>2
      <4>3. due \in BOOLEAN
        OBVIOUS
      <4> HIDE DEF n, due
      <4> QED BY <4>1, <4>2, <4>3 DEF Tries
    <3> QED BY <3>3, <3>4
  <2>2. retried \subseteq Mail
    BY DEF Due
  <2> QED BY <2>1, <2>2 DEF Bookkeeping
<1>6. Cursor(work[f].bf, down) \in History
  BY <1>3, CursorBetween DEF History
<1>7. SaveIfAll(all, point) \in History \cup {None}
  BY DEF SaveIfAll
<1>8. Blank.point \in [id : History, at : History]
  BY DEF Blank, History
<1>9. work' \in [Slot -> Knowledge]
  <2> DEFINE t == [m \in retried |-> NextTry(f, m, answered)]
             k == [work[f] EXCEPT !.unread = taken \ answered, !.answered = answered \cap taken,
                      !.again = answered \cap asked, !.tries = t,
                      !.save = SaveIfAll(all, point), !.bf = Cursor(work[f].bf, down),
                      !.point = Blank.point, !.map = {}, !.fresh = 0]
  <2>1. asked \subseteq Mail
    BY <1>3 DEF Due
  <2>2. 0 \in History
    BY DEF History
  <2>3. k \in Knowledge
    <3> DEFINE u == taken \ answered
               a == answered \cap taken
               g == answered \cap asked
               s == SaveIfAll(all, point)
               c == Cursor(work[f].bf, down)
               z == Blank.point
    <3>1. u \in SUBSET Mail /\ a \in SUBSET Mail /\ g \in SUBSET Mail
      BY <1>4, <2>1
    <3>2. t \in Bookkeeping /\ s \in History \cup {None} /\ c \in History
          /\ z \in [id : History, at : History]
      BY <1>5, <1>6, <1>7, <1>8
    <3> HIDE DEF u, a, g, s, c, z, t
    <3>3. [work[f] EXCEPT !.unread = u, !.answered = a, !.again = g, !.tries = t,
                          !.save = s, !.bf = c, !.point = z, !.map = {}, !.fresh = 0] \in Knowledge
      BY <1>3, <2>2, <3>1, <3>2 DEF Knowledge
    <3> QED BY <3>3 DEF u, a, g, s, c, z, t
  <2>4. work' = [work EXCEPT ![f] = k]
    BY <1>2
  <2> HIDE DEF k
  <2> QED BY <2>3, <2>4 DEF TypeOK
<1>10. /\ pc' = [pc EXCEPT ![f] = "write"]
       /\ UNCHANGED <<mailVars, storeVars, sheetVars, trouble, forgotten, behind>>
  BY DEF Gather
<1> QED BY <1>9, <1>10 DEF TypeOK, Step

(* Types: the listings; *)
LEMMA ListingSteps ==
  ASSUME TypeOK, NEW f \in Slot, ListHistory(f) \/ Relist(f)
  PROVE  TypeOK'
<1>0. /\ arrived \in History /\ work[f] \in Knowledge
      /\ \A i \in History, j \in History : i + 1 .. j \subseteq Mail
  BY DEF TypeOK, History, Mail
<1>1. CASE ListHistory(f)
  <2>1. PICK to \in work[f].point.id .. arrived :
          Gather(f, work[f].point.id + 1 .. to, to = arrived, arrived)
    BY <1>1 DEF ListHistory
  <2>2. work[f].point.id \in History /\ to \in History
    BY <1>0 DEF Knowledge, History
  <2>3. work[f].point.id + 1 .. to \in SUBSET Mail /\ (to = arrived) \in BOOLEAN
    BY <1>0, <2>2
  <2> QED BY <1>0, <2>1, <2>3, GatherType
<1>2. CASE Relist(f)
  <2>1. PICK downTo \in LastComplete(f) .. arrived :
          Gather(f, downTo + 1 .. arrived, downTo = LastComplete(f), work[f].fresh)
    BY <1>2 DEF Relist
  <2>2. downTo \in History /\ work[f].fresh \in History
    BY <1>0 DEF Knowledge, History, LastComplete
  <2>3. downTo + 1 .. arrived \in SUBSET Mail /\ (downTo = LastComplete(f)) \in BOOLEAN
    BY <1>0, <2>2
  <2> QED BY <2>1, <2>2, <2>3, GatherType
<1> QED BY <1>1, <1>2

(* the batches of a fire that is over; *)
LEMMA BatchEdits ==
  ASSUME TypeOK, NEW f \in Slot
  PROVE  Drop(f) \subseteq Batch /\ SetAdrift(f) \subseteq Batch
BY DEF TypeOK, Drop, SetAdrift, Batch

(* the rows, and the ways a fire is cut short; *)
LEMMA SheetSteps ==
  ASSUME TypeOK, NEW f \in Slot, WriteRows(f) \/ LeaseLost(f) \/ GiveUp(f) \/ Crash(f)
  PROVE  TypeOK'
<1> USE BlankType
<1>1. CASE WriteRows(f)
  <2> DEFINE b == [by |-> f, new |-> FreshlyAbsent(f), unread |-> work[f].unread,
                   again |-> work[f].again \cap OnSheet]
  <2>1. work[f] \in Knowledge
    BY DEF TypeOK
  <2>2. b \in Batch
    BY <2>1 DEF FreshlyAbsent, Batch, Knowledge
  <2> HIDE DEF b
  <2>3. /\ \/ pc' = [pc EXCEPT ![f] = "tracking"]
           \/ pc' = [pc EXCEPT ![f] = "idle"]
           \/ pc' = [pc EXCEPT ![f] = "sent"]
        /\ work' = work \/ work' = [work EXCEPT ![f] = Blank]
        /\ flight' = flight \/ flight' = flight \cup {b}
        /\ lease' = lease \/ lease' = [lease EXCEPT !.expired = FALSE]
        /\ UNCHANGED <<mailVars, link, checkpoint, backfill, tracked, breaker, log, handled,
                       trouble, forgotten, behind>>
    BY <1>1 DEF WriteRows, b
  <2>4. pc' \in [Slot -> Step] /\ work' \in [Slot -> Knowledge]
    BY <2>3 DEF TypeOK, Step
  <2>5. flight' \subseteq Batch /\ lease' \in [by : Slot \cup {None}, expired : BOOLEAN]
    BY <2>2, <2>3 DEF TypeOK
  <2> QED BY <2>3, <2>4, <2>5 DEF TypeOK
<1>2. CASE LeaseLost(f)
  BY <1>2, BatchEdits DEF LeaseLost, TypeOK, Step
<1>3. CASE GiveUp(f)
  BY <1>3, BatchEdits DEF GiveUp, TypeOK, Step
<1>4. CASE Crash(f)
  BY <1>4, BatchEdits DEF Crash, TypeOK, Step
<1> QED BY <1>1, <1>2, <1>3, <1>4

(* the writes to the store; *)
LEMMA SavingSteps ==
  ASSUME TypeOK, NEW f \in Slot, SaveTracking(f) \/ SaveConnection(f) \/ RecordFailure(f)
  PROVE  TypeOK'
<1>0. work[f] \in Knowledge
  BY DEF TypeOK
<1>1. CASE SaveTracking(f)
  <2>1. ASSUME NEW m \in DOMAIN work[f].tries PROVE work[f].tries[m] \in Tries
    BY <1>0 DEF Knowledge, Bookkeeping
  <2>2. ASSUME NEW m \in DOMAIN FirstTries(f) PROVE FirstTries(f)[m] \in Tries
    <3> DEFINE due == m \in work[f].unread /\ 1 < 1 + MAX_RETRIES
    <3>1. FirstTries(f)[m] = [attempts |-> 1, due |-> due]
      BY DEF FirstTries
    <3>2. due \in BOOLEAN /\ (due => 1 <= MAX_RETRIES) /\ 1 \in 0 .. 1 + MAX_RETRIES
      OBVIOUS
    <3> HIDE DEF due
    <3> QED BY <3>1, <3>2 DEF Tries
  <2>3. tracked' \in [Mail -> Tries]
    BY <1>1, <2>1, <2>2 DEF SaveTracking, TypeOK
  <2> QED BY <1>1, <2>3 DEF SaveTracking, TypeOK, Step
<1>2. CASE SaveConnection(f)
  <2>1. checkpoint' \in [id : History, at : History] /\ backfill' \in History
    BY <1>0, <1>2 DEF SaveConnection, TypeOK, Knowledge
  <2>2. breaker' \in [failures : 0 .. TRIPS, open : BOOLEAN]
    BY <1>2 DEF SaveConnection, TypeOK
  <2>3. forgotten' \subseteq Mail
    BY <1>2 DEF SaveConnection, TypeOK, Forgets
  <2> QED BY <1>2, <2>1, <2>2, <2>3 DEF SaveConnection, TypeOK, Step
<1>3. CASE RecordFailure(f)
  <2>1. Counted(work[f].failures) \in 0 .. TRIPS
    BY <1>0 DEF Knowledge, Counted
  <2>2. breaker' \in [failures : 0 .. TRIPS, open : BOOLEAN]
    BY <1>3, <2>1 DEF RecordFailure, TypeOK
  <2> QED BY <1>3, <2>2 DEF RecordFailure, TypeOK, Step
<1> QED BY <1>1, <1>2, <1>3

(* and everything else. *)
LEMMA OtherSteps ==
  ASSUME TypeOK, \/ \E b \in flight : Land(b)
                 \/ LeaseExpires \/ CoolOff \/ Arrive
                 \/ \E m \in Mail : DeleteMail(m) \/ RemoveRow(m)
                 \/ RevokeAtGoogle \/ Disconnect \/ Connect
                 \/ UNCHANGED vars
  PROVE  TypeOK'
<1>1. ASSUME NEW b \in flight, Land(b) PROVE TypeOK'
  <2>1. log' \in [Mail -> {"absent", "review", "read"}]
    BY <1>1 DEF Land, TypeOK
  <2>2. pc' \in [Slot -> Step]
    BY <1>1 DEF Land, TypeOK, Step
  <2>3. handled' \subseteq Mail
    BY <1>1 DEF Land, TypeOK, Batch
  <2> QED BY <1>1, <2>1, <2>2, <2>3 DEF Land, TypeOK
<1>2. CASE LeaseExpires
  <2>1. lease' \in [by : Slot \cup {None}, expired : BOOLEAN]
    BY <1>2 DEF LeaseExpires, TypeOK
  <2>2. trouble' \in 0 .. TroubleCap /\ behind' \in BOOLEAN
    <3>1. \/ UNCHANGED <<trouble, behind>>
          \/ Trouble /\ behind' = TRUE
      BY <1>2 DEF LeaseExpires
    <3>2. trouble \in 0 .. TroubleCap /\ behind \in BOOLEAN
      BY DEF TypeOK
    <3>3. CASE UNCHANGED <<trouble, behind>>
      BY <3>2, <3>3
    <3>4. CASE Trouble /\ behind' = TRUE
      BY <3>2, <3>4
    <3> QED BY <3>1, <3>3, <3>4
  <2> QED BY <1>2, <2>1, <2>2 DEF LeaseExpires, TypeOK
<1>3. CASE CoolOff
  BY <1>3 DEF CoolOff, TypeOK
<1>4. CASE Arrive
  BY <1>4 DEF Arrive, TypeOK, History
<1>5. ASSUME NEW m \in Mail, DeleteMail(m) \/ RemoveRow(m) PROVE TypeOK'
  <2>1. CASE DeleteMail(m)
    BY <2>1 DEF DeleteMail, TypeOK
  <2>2. CASE RemoveRow(m)
    <3>1. log' \in [Mail -> {"absent", "review", "read"}] /\ whims' \in 0 .. WhimCap
      BY <2>2 DEF RemoveRow, TypeOK
    <3>2. behind' \in BOOLEAN
      BY <2>2 DEF RemoveRow, TypeOK
    <3> QED BY <2>2, <3>1, <3>2 DEF RemoveRow, TypeOK
  <2> QED BY <1>5, <2>1, <2>2
<1>6. CASE RevokeAtGoogle
  BY <1>6 DEF RevokeAtGoogle, TypeOK
<1>7. CASE Disconnect
  <2>1. Untracked \in Tries /\ 0 \in History
    BY DEF Untracked, Tries, History
  <2> QED BY <1>7, <2>1 DEF Disconnect, TypeOK
<1>8. CASE Connect
  <2>1. ASSUME NEW f \in Slot PROVE Superseded(work[f]) \in Knowledge
    <3> DEFINE g == IF work[f].grant = "current" THEN "former" ELSE work[f].grant
    <3>1. work[f] \in Knowledge
      BY DEF TypeOK
    <3>2. g \in Grants
      BY <3>1 DEF Knowledge, Grants
    <3> HIDE DEF g
    <3>3. [work[f] EXCEPT !.grant = g] \in Knowledge
      BY <3>1, <3>2 DEF Knowledge
    <3> QED BY <3>3 DEF Superseded, g
  <2>2. work' \in [Slot -> Knowledge]
    BY <1>8, <2>1 DEF Connect, TypeOK
  <2>3. behind' \in BOOLEAN
    BY <1>8 DEF Connect, TypeOK
  <2>4. whims' \in 0 .. WhimCap
    BY <1>8 DEF Connect, TypeOK
  <2> QED BY <1>8, <2>2, <2>3, <2>4 DEF Connect, TypeOK
<1>9. CASE UNCHANGED vars
  BY <1>9 DEF TypeOK, vars
<1> QED BY <1>1, <1>2, <1>3, <1>4, <1>5, <1>6, <1>7, <1>8, <1>9

(* At the start every variable has its type. *)
LEMMA TypeInit == Init => TypeOK
<1>1. Untracked \in Tries /\ 0 \in History
  BY DEF Untracked, Tries, History
<1>2. ASSUME Init PROVE checkpoint \in [id : History, at : History] /\ backfill \in History
  BY <1>2 DEF Init, History
<1>3. ASSUME Init PROVE tracked \in [Mail -> Tries] /\ work \in [Slot -> Knowledge]
  BY <1>1, <1>3, BlankType DEF Init
<1>4. ASSUME Init PROVE pc \in [Slot -> Step]
  BY <1>4 DEF Init, Step
<1>5. ASSUME Init
      PROVE  /\ log \in [Mail -> {"absent", "review", "read"}]
             /\ lease \in [by : Slot \cup {None}, expired : BOOLEAN]
             /\ breaker \in [failures : 0 .. TRIPS, open : BOOLEAN]
  BY <1>5 DEF Init
<1>6. ASSUME Init PROVE arrived \in History /\ gone = {} /\ whims = 0 /\ trouble = 0 /\ link = "up"
                        /\ flight = {} /\ handled = {} /\ forgotten = {} /\ behind = FALSE
  BY <1>6 DEF Init, History
<1> QED BY <1>2, <1>3, <1>4, <1>5, <1>6 DEF TypeOK

(* Every step keeps the types. *)
LEMMA TypeNext == TypeOK /\ [Next]_vars => TypeOK'
BY EasySteps, ListingSteps, SheetSteps, SavingSteps, OtherSteps DEF Next, FireStep

(* Every variable keeps its type; a row is asked again at most MAX_RETRIES   *)
(* times however its fires overlap (pipeline._tracking, _retry).             *)
THEOREM FireTypeOK == Spec => []TypeOK
BY TypeInit, TypeNext, PTL DEF Spec

-----------------------------------------------------------------------------
(* The sheet. A batch adds mails that are not on the sheet when it lands:    *)
(* nothing was added since it was planned, or it would have been refused.    *)
SheetInv ==
  /\ OnSheet \subseteq handled
  /\ \A b \in flight : b.new \cap OnSheet = {}

(* A step that leaves the sheet alone and sends nothing for a mail that is on *)
(* it.                                                                        *)
LEMMA SheetQuiet ==
  ASSUME SheetInv, log' = log, handled' = handled,
         \A b \in flight' : b.new \cap OnSheet = {}
  PROVE  SheetInv'
BY DEF SheetInv, OnSheet

(* What becomes of the batches of a fire that is over. *)
LEMMA EditedBatches ==
  ASSUME TypeOK, NEW f \in Slot
  PROVE  /\ \A b \in Drop(f) \cup SetAdrift(f) : \E c \in flight : b.new = c.new
         /\ \A b \in Drop(f) : b \in flight /\ b.by # f
         /\ \A b \in SetAdrift(f) :
              b.by = None \/ \E c \in flight : c.by # f /\ b.by = c.by /\ b.new = c.new
<1>1. \A c \in flight : c \in Batch
  BY DEF TypeOK
<1> QED BY <1>1 DEF Drop, SetAdrift, Batch

(* Every step keeps the batches and the sheet in agreement. *)
LEMMA SheetNext == TypeOK /\ SheetInv /\ [Next]_vars => SheetInv'
<1> SUFFICES ASSUME TypeOK, SheetInv, [Next]_vars PROVE SheetInv'
  OBVIOUS
<1>1. \A b \in flight : b.new \cap OnSheet = {}
  BY DEF SheetInv
<1>2. ASSUME NEW f \in Slot, FireStep(f) \/ Recheck(f) \/ Outage(f), ~WriteRows(f), ~LeaseLost(f)
      PROVE  SheetInv'
  <2>1. UNCHANGED sheetVars
    BY <1>2 DEF FireStep, Start, TakeLease, Recheck, ReadMap, ListHistory, HistoryExpired, Relist,
       Gather, Answered, Refused, SaveTracking, SaveConnection, RecordFailure, MarkRevoked, Release, Outage
  <2> QED BY <2>1, <1>1, SheetQuiet
<1>3. ASSUME NEW f \in Slot, WriteRows(f) PROVE SheetInv'
  <2> DEFINE b == [by |-> f, new |-> FreshlyAbsent(f), unread |-> work[f].unread,
                   again |-> work[f].again \cap OnSheet]
  <2>1. flight' \subseteq flight \cup {b} /\ log' = log /\ handled' = handled
    BY <1>3 DEF WriteRows
  <2>2. b.new \cap OnSheet = {}
    BY DEF FreshlyAbsent
  <2> QED BY <1>1, <2>1, <2>2, SheetQuiet
<1>4. ASSUME NEW f \in Slot, LeaseLost(f) \/ GiveUp(f) \/ Crash(f) PROVE SheetInv'
  <2>1. (flight' = Drop(f) \/ flight' = SetAdrift(f)) /\ log' = log /\ handled' = handled
    BY <1>4 DEF LeaseLost, GiveUp, Crash
  <2> QED BY <1>1, <2>1, EditedBatches, SheetQuiet
<1>5. ASSUME NEW b \in flight, Land(b) PROVE SheetInv'
  <2>1. \A m \in Mail : log'[m] # "absent" => log[m] # "absent" \/ m \in b.new
    BY <1>5 DEF Land, OnSheet
  <2> QED BY <1>5, <2>1 DEF Land, SheetInv, OnSheet
<1>6. ASSUME NEW m \in Mail, DeleteMail(m) \/ RemoveRow(m) PROVE SheetInv'
  <2>1. /\ \A n \in Mail : log'[n] # "absent" => log[n] # "absent"
        /\ flight' = flight /\ handled' = handled
    BY <1>6 DEF DeleteMail, RemoveRow, TypeOK
  <2> QED BY <2>1 DEF SheetInv, OnSheet
<1>7. CASE LeaseExpires \/ CoolOff \/ Arrive \/ RevokeAtGoogle \/ Disconnect \/ Connect
           \/ UNCHANGED vars
  <2>1. UNCHANGED sheetVars
    BY <1>7 DEF LeaseExpires, CoolOff, Arrive, RevokeAtGoogle, Disconnect, Connect, vars
  <2> QED BY <2>1, <1>1, SheetQuiet
<1> QED BY <1>2, <1>3, <1>4, <1>5, <1>6, <1>7 DEF Next, FireStep

(* They agree, always. *)
LEMMA SheetInvariant == Spec => [](TypeOK /\ SheetInv)
<1>1. Init => SheetInv
  BY DEF Init, SheetInv, OnSheet
<1> QED BY <1>1, SheetNext, TypeInit, TypeNext, PTL DEF Spec

(* Each step of the poll is a step of the mail log or leaves the log alone. *)
LEMMA LogNext == TypeOK /\ TypeOK' /\ SheetInv /\ [Next]_vars => [Log!Next]_(Log!logVars)
<1> SUFFICES ASSUME TypeOK, TypeOK', SheetInv, [Next]_vars PROVE log' = log \/ Log!Next
  BY DEF Log!logVars
<1>1. ASSUME NEW b \in flight, Land(b) PROVE Log!Next
  <2>1. log' \in [Mail -> {"absent", "review", "read"}] /\ log \in [Mail -> {"absent", "review", "read"}]
    BY DEF TypeOK
  <2>2. ASSUME NEW m \in Mail
        PROVE  \/ log'[m] = log[m]
               \/ log[m] = "absent" /\ log'[m] \in {"review", "read"}
               \/ log[m] = "review" /\ log'[m] = "read"
    <3>1. log'[m] = IF m \in b.new THEN (IF m \in b.unread THEN "review" ELSE "read")
                    ELSE IF m \in b.again \cap OnSheet THEN "read" ELSE log[m]
      BY <1>1 DEF Land
    <3>2. m \in b.new => log[m] = "absent"
      BY DEF SheetInv, OnSheet
    <3>3. m \in OnSheet => log[m] \in {"review", "read"}
      BY <2>1 DEF OnSheet
    <3> QED BY <3>1, <3>2, <3>3
  <2>3. Log!Write
    BY <2>1, <2>2 DEF Log!Write, Log!Shown
  <2> QED BY <2>3 DEF Log!Next
<1>2. ASSUME NEW m \in Mail, RemoveRow(m) PROVE Log!Next
  <2>1. Log!Remove(m)
    BY <1>2 DEF RemoveRow, OnSheet, Log!Remove, Log!Absent
  <2> QED BY <2>1 DEF Log!Next
<1>3. ASSUME NEW f \in Slot, FireStep(f) \/ Recheck(f) \/ Outage(f) \/ GiveUp(f) \/ Crash(f)
      PROVE  log' = log
  BY <1>3 DEF FireStep, Start, TakeLease, Recheck, ReadMap, ListHistory, HistoryExpired, Relist, Gather,
     Answered, Refused, SaveTracking, SaveConnection, RecordFailure, MarkRevoked, Release, Outage,
     WriteRows, LeaseLost, GiveUp, Crash
<1>4. CASE LeaseExpires \/ CoolOff \/ Arrive \/ RevokeAtGoogle \/ Disconnect \/ Connect
           \/ (\E m \in Mail : DeleteMail(m)) \/ UNCHANGED vars
  BY <1>4 DEF LeaseExpires, CoolOff, Arrive, RevokeAtGoogle, Disconnect, Connect, DeleteMail, vars
<1> QED BY <1>1, <1>2, <1>3, <1>4 DEF Next

(* However the fires overlap, are killed or have their batches land late,    *)
(* what happens to the sheet is what MailLog promises: no mail has two rows  *)
(* and no row is written over (pipeline.fire, sheet_writer.write_rows).      *)
THEOREM PollIsMailLog == Spec => IsMailLog
<1>1. Init => Log!Init
  BY DEF Init, Log!Init, Log!Shown
<1>2. TypeOK /\ TypeOK' /\ SheetInv /\ [Next]_vars => [Log!Next]_(Log!logVars)
  BY LogNext
<1> QED BY <1>1, <1>2, SheetInvariant, PTL DEF Spec, IsMailLog, Log!Spec

-----------------------------------------------------------------------------
(* No mail is lost. z is the last mail there was when she connected: what    *)
(* came before it is the backfill's, what comes after it the checkpoint's.   *)
(* Whatever any fire has read, gathered or saved, at any time since, covers  *)
(* the mails up to its checkpoint from z on, and down to its cursor from z.  *)
(* A fire begun before she connected covers no backfill of this connection:  *)
(* what it strikes off is forgotten.                                         *)
Swept(lo, hi, also) ==
  \A m \in Mail : lo < m /\ m <= hi => m \in handled \cup gone \cup forgotten \cup also
Gathered(f) == work[f].unread \cup work[f].answered

FireInv(f, z) ==
  /\ pc[f] # "idle" => work[f].began <= arrived
  /\ pc[f] \in {"leased", "list", "relist"} =>
       /\ work[f].point.at <= work[f].point.id /\ work[f].point.id <= arrived
       /\ Swept(z, work[f].point.id, {})
       /\ work[f].grant = "current" => Swept(work[f].bf, z, {})
  /\ pc[f] \in {"list", "relist"} => work[f].map \subseteq handled
  /\ pc[f] = "relist" => work[f].began <= work[f].fresh /\ work[f].fresh <= arrived
  /\ pc[f] \in {"write", "sent", "landed", "tracking", "saving"} =>
       /\ work[f].grant = "current" => Swept(work[f].bf, z, Gathered(f))
       /\ work[f].save # None => /\ work[f].began <= work[f].save /\ work[f].save <= arrived
                                 /\ Swept(z, work[f].save, Gathered(f))
  /\ pc[f] \in {"landed", "tracking", "saving"} => Gathered(f) \subseteq handled
FlightInv ==
  \A b \in flight, f \in Slot :
    b.by = f => pc[f] = "sent" /\ Gathered(f) \subseteq handled \cup b.new
StoreInv(z) ==
  /\ z <= arrived /\ checkpoint.at <= checkpoint.id /\ checkpoint.id <= arrived
  /\ Swept(z, checkpoint.id, {}) /\ Swept(backfill, z, {})
CoverInv(z) == StoreInv(z) /\ FlightInv /\ \A f \in Slot : FireInv(f, z)

(* A fire that takes no part in a step still covers what it covered. *)
LEMMA Bystander ==
  ASSUME TypeOK, TypeOK', NEW z \in History, NEW f \in Slot, FireInv(f, z),
         pc'[f] = pc[f], work'[f] = work[f], handled \subseteq handled', gone \subseteq gone',
         forgotten \subseteq forgotten',
         arrived <= arrived'
  PROVE  FireInv(f, z)'
<1>1. work[f] \in Knowledge /\ arrived \in Int /\ arrived' \in Int
  BY DEF TypeOK, History
<1>2. /\ work[f].began \in Int /\ work[f].point.id \in Int /\ work[f].fresh \in Int
      /\ work[f].save # None => work[f].save \in Int
  BY <1>1 DEF Knowledge, History
<1> QED BY <1>1, <1>2 DEF FireInv, Swept, Gathered

(* So does the store, when checkpoint and backfill stay. *)
LEMMA StoreStays ==
  ASSUME TypeOK, TypeOK', NEW z \in History, StoreInv(z), checkpoint' = checkpoint,
         backfill' = backfill, handled \subseteq handled', gone \subseteq gone',
         forgotten \subseteq forgotten',
         arrived <= arrived'
  PROVE  StoreInv(z)'
<1>1. z \in Int /\ checkpoint.id \in Int /\ arrived \in Int /\ arrived' \in Int
  BY DEF TypeOK, History
<1> QED BY <1>1 DEF StoreInv, Swept

(* So do the batches in flight. *)
LEMMA FlightStays ==
  ASSUME TypeOK, TypeOK', FlightInv, flight' = flight, handled' = handled,
         NEW f \in Slot, pc[f] # "sent",
         \A g \in Slot \ {f} : pc'[g] = pc[g] /\ work'[g] = work[g]
  PROVE  FlightInv'
BY DEF FlightInv, Gathered

(* One step of fire f, if what f then knows is covered. *)
LEMMA FireAlone ==
  ASSUME TypeOK, TypeOK', NEW z \in History, CoverInv(z), NEW f \in Slot,
         \A g \in Slot \ {f} : pc'[g] = pc[g] /\ work'[g] = work[g],
         UNCHANGED <<arrived, gone, handled>>, forgotten \subseteq forgotten',
         FireInv(f, z)', StoreInv(z)', FlightInv'
  PROVE  CoverInv(z)'
<1>1. arrived \in Int
  BY DEF TypeOK, History
<1>2. ASSUME NEW g \in Slot PROVE FireInv(g, z)'
  <2>1. CASE g = f
    BY <2>1
  <2>2. CASE g # f
    <3>1. FireInv(g, z) /\ pc'[g] = pc[g] /\ work'[g] = work[g] /\ arrived <= arrived'
      BY <1>1, <2>2 DEF CoverInv
    <3> QED BY <3>1, Bystander
  <2> QED BY <2>1, <2>2
<1> QED BY <1>2 DEF CoverInv

(* Coverage, step by step: before the listing; *)
LEMMA EarlySteps ==
  ASSUME TypeOK, TypeOK', SheetInv, NEW z \in History, CoverInv(z), NEW f \in Slot,
         Start(f) \/ TakeLease(f) \/ Recheck(f) \/ ReadMap(f) \/ HistoryExpired(f)
  PROVE  CoverInv(z)'
<1>1. /\ work[f] \in Knowledge /\ arrived \in Int /\ FireInv(f, z)
      /\ work \in [Slot -> Knowledge] /\ pc \in [Slot -> Step]
  BY DEF TypeOK, CoverInv, History
<1>2. /\ \A g \in Slot \ {f} : pc'[g] = pc[g] /\ work'[g] = work[g]
      /\ UNCHANGED <<arrived, gone, handled, forgotten, checkpoint, backfill, flight>> /\ pc[f] # "sent"
  BY <1>1 DEF Start, TakeLease, Recheck, ReadMap, HistoryExpired
<1>3. StoreInv(z)' /\ FlightInv'
  <2>1. arrived <= arrived' /\ StoreInv(z) /\ FlightInv
    BY <1>1, <1>2 DEF CoverInv
  <2> QED BY <1>2, <2>1, StoreStays, FlightStays
<1>4. FireInv(f, z)'
  <2>1. CASE Start(f)
    <3>1. pc'[f] = "starting" /\ work'[f].began = arrived
      BY <1>1, <2>1 DEF Start, Knowledge
    <3>2. work'[f].began <= arrived'
      BY <1>1, <1>2, <3>1
    <3> QED BY <3>1, <3>2 DEF FireInv
  <2>2. CASE TakeLease(f)
    <3>1. CASE LeaseFree
      <4>1. /\ pc'[f] = "leased" /\ work'[f].began = work[f].began
            /\ work'[f].point = checkpoint /\ work'[f].bf = backfill /\ pc[f] = "starting"
        <5>1. work'[f] = AsRead(work[f]) /\ pc'[f] = "leased" /\ pc[f] = "starting"
          BY <1>1, <2>2, <3>1 DEF TakeLease
        <5> QED BY <1>1, <5>1, AsReadFields
      <4>2. StoreInv(z)
        BY DEF CoverInv
      <4> QED BY <1>1, <1>2, <4>1, <4>2 DEF FireInv, StoreInv, Swept
    <3>2. CASE ~LeaseFree
      <4>1. pc'[f] = "idle"
        BY <1>1, <2>2, <3>2 DEF TakeLease
      <4> QED BY <4>1 DEF FireInv
    <3> QED BY <3>1, <3>2
  <2>3. CASE ReadMap(f)
    <3>1. CASE MayRead(f) /\ Goto(f, "list") /\ work' = [work EXCEPT ![f].map = OnSheet]
      <4>1. /\ pc'[f] = "list" /\ work'[f].began = work[f].began /\ work'[f].bf = work[f].bf
            /\ work'[f].point = work[f].point /\ work'[f].map = OnSheet /\ pc[f] = "leased"
            /\ work'[f].grant = work[f].grant
        BY <1>1, <2>3, <3>1 DEF ReadMap, Knowledge
      <4> QED BY <1>1, <1>2, <4>1 DEF FireInv, SheetInv, Swept
    <3>2. CASE Goto(f, "revoked") /\ work' = work
      <4>1. pc'[f] = "revoked" /\ work' = work /\ pc[f] = "leased"
        BY <1>1, <2>3, <3>2 DEF ReadMap
      <4> QED BY <1>1, <1>2, <4>1 DEF FireInv
    <3> QED BY <2>3, <3>1, <3>2 DEF ReadMap
  <2>4. CASE HistoryExpired(f)
    <3>1. /\ pc'[f] = "relist" /\ work'[f].began = work[f].began /\ work'[f].bf = work[f].bf
          /\ work'[f].point = work[f].point /\ work'[f].map = work[f].map
          /\ work'[f].fresh = arrived /\ pc[f] = "list" /\ work'[f].grant = work[f].grant
      BY <1>1, <2>4 DEF HistoryExpired, Knowledge
    <3> QED BY <1>1, <1>2, <3>1 DEF FireInv, Swept
  <2>5. CASE Recheck(f)
    <3>1. /\ pc'[f] = "leased" /\ work'[f].began = work[f].began
          /\ work'[f].point = checkpoint /\ work'[f].bf = backfill /\ pc[f] = "leased"
      <4>1. work'[f] = AsRead(work[f]) /\ pc'[f] = "leased" /\ pc[f] = "leased"
        BY <1>1, <2>5 DEF Recheck
      <4> QED BY <1>1, <4>1, AsReadFields
    <3>2. StoreInv(z)
      BY DEF CoverInv
    <3> QED BY <1>1, <1>2, <3>1, <3>2 DEF FireInv, StoreInv, Swept
  <2> QED BY <2>1, <2>2, <2>3, <2>4, <2>5
<1> QED BY <1>2, <1>3, <1>4, FireAlone

(* What a fire has gathered, with what is on the sheet already, covers the   *)
(* mail up to what it will save, and the backfill down to its new cursor.    *)
LEMMA GatherCovers ==
  ASSUME TypeOK, TypeOK', NEW z \in History, CoverInv(z), NEW f \in Slot,
         pc[f] \in {"list", "relist"}, NEW new \in SUBSET Mail, NEW all \in BOOLEAN,
         NEW point \in History, Gather(f, new, all, point),
         work[f].began <= point, point <= arrived,
         all => \A m \in Mail : work[f].point.id < m /\ m <= point => m \in new
  PROVE  CoverInv(z)'
<1>1. /\ work[f] \in Knowledge /\ arrived \in Int /\ FireInv(f, z)
      /\ work \in [Slot -> Knowledge] /\ pc \in [Slot -> Step] /\ work[f].bf \in Nat
      /\ work[f].point.id \in Int
  BY DEF TypeOK, CoverInv, Knowledge, History
<1>2. /\ pc' = [pc EXCEPT ![f] = "write"]
      /\ UNCHANGED <<mailVars, storeVars, sheetVars, trouble, forgotten, behind>>
      /\ \E k : work' = [work EXCEPT ![f] = k]
  BY DEF Gather
<1>3. PICK down \in 0 .. work[f].bf :
        /\ Gathered(f)' = Taken(f, new \cup (down + 1 .. work[f].bf))
        /\ work'[f].bf = Cursor(work[f].bf, down)
        /\ work'[f].save = SaveIfAll(all, point)
        /\ work'[f].began = work[f].began /\ work'[f].grant = work[f].grant
  <2>1. PICK retried \in SUBSET Due, down \in 0 .. work[f].bf :
          \E answered \in SUBSET (Taken(f, new \cup (down + 1 .. work[f].bf)) \cup
                                 {m \in retried : m \in work[f].map /\ m \notin gone}) :
            work' = [work EXCEPT ![f] =
              [work[f] EXCEPT !.unread = Taken(f, new \cup (down + 1 .. work[f].bf)) \ answered,
                !.answered = answered \cap Taken(f, new \cup (down + 1 .. work[f].bf)),
                !.again = answered \cap {m \in retried : m \in work[f].map /\ m \notin gone},
                !.tries = [m \in retried |-> NextTry(f, m, answered)],
                !.save = SaveIfAll(all, point), !.bf = Cursor(work[f].bf, down),
                !.point = Blank.point, !.map = {}, !.fresh = 0]]
    BY DEF Gather
  <2> DEFINE taken == Taken(f, new \cup (down + 1 .. work[f].bf))
             asked == {m \in retried : m \in work[f].map /\ m \notin gone}
  <2>2. PICK answered \in SUBSET (taken \cup asked) :
            work' = [work EXCEPT ![f] =
              [work[f] EXCEPT !.unread = taken \ answered, !.answered = answered \cap taken,
                !.again = answered \cap asked,
                !.tries = [m \in retried |-> NextTry(f, m, answered)],
                !.save = SaveIfAll(all, point), !.bf = Cursor(work[f].bf, down),
                !.point = Blank.point, !.map = {}, !.fresh = 0]]
    BY <2>1
  <2>3. /\ work'[f].unread = taken \ answered /\ work'[f].answered = answered \cap taken
        /\ work'[f].bf = Cursor(work[f].bf, down) /\ work'[f].save = SaveIfAll(all, point)
        /\ work'[f].began = work[f].began /\ work'[f].grant = work[f].grant
    <3> HIDE DEF taken, asked
    <3> QED BY <1>1, <2>2 DEF Knowledge
  <2>4. Gathered(f)' = taken
    <3> HIDE DEF taken
    <3> QED BY <2>3 DEF Gathered
  <2> QED BY <2>3, <2>4
<1>4. /\ \A g \in Slot \ {f} : pc'[g] = pc[g] /\ work'[g] = work[g]
      /\ pc'[f] = "write" /\ pc[f] # "sent"
  BY <1>1, <1>2
<1>5. StoreInv(z)' /\ FlightInv'
  <2>1. arrived <= arrived' /\ StoreInv(z) /\ FlightInv
    BY <1>1, <1>2 DEF CoverInv
  <2> QED BY <1>2, <1>4, <2>1, StoreStays, FlightStays
<1>6. Cursor(work[f].bf, down) \in down .. work[f].bf
  BY <1>1, CursorBetween
<1>7. /\ work[f].map \subseteq handled
      /\ Swept(z, work[f].point.id, {})
      /\ work[f].grant = "current" => Swept(work[f].bf, z, {})
  BY <1>1 DEF FireInv
<1>8. ASSUME work[f].grant = "current" PROVE Swept(work[f].bf, z, Gathered(f))'
  <2> SUFFICES ASSUME NEW m \in Mail, Cursor(work[f].bf, down) < m, m <= z
               PROVE  m \in handled \cup gone \cup forgotten \cup Gathered(f)'
    BY <1>2, <1>3 DEF Swept
  <2>1. m \in Int /\ z \in Int /\ down \in Int /\ work[f].bf \in Int
    BY <1>1 DEF Mail, History
  <2>2. CASE work[f].bf < m
    BY <1>7, <1>8, <2>2 DEF Swept
  <2>3. CASE ~(work[f].bf < m)
    <3>1. m \in down + 1 .. work[f].bf
      BY <1>6, <2>1, <2>3
    <3>2. m \in Gathered(f)' \/ m \in handled \/ m \in gone
      BY <1>3, <1>7, <3>1 DEF Taken
    <3> QED BY <3>2
  <2> QED BY <2>2, <2>3
<1>9. ASSUME work'[f].save # None
      PROVE  /\ work'[f].save = point
             /\ Swept(z, point, Gathered(f))'
  <2>1. all /\ work'[f].save = point
    BY <1>3, <1>9 DEF SaveIfAll
  <2> SUFFICES ASSUME NEW m \in Mail, z < m, m <= point
               PROVE  m \in handled \cup gone \cup forgotten \cup Gathered(f)'
    BY <1>2, <2>1 DEF Swept
  <2>2. m \in Int /\ z \in Int /\ point \in Int
    BY DEF Mail, History
  <2>3. CASE m <= work[f].point.id
    BY <1>7, <2>3 DEF Swept
  <2>4. CASE ~(m <= work[f].point.id)
    <3>1. m \in new
      BY <1>1, <2>1, <2>2, <2>4
    <3>2. m \in Gathered(f)' \/ m \in handled \/ m \in gone
      BY <1>3, <1>7, <3>1 DEF Taken
    <3> QED BY <3>2
  <2> QED BY <2>3, <2>4
<1>10. FireInv(f, z)'
  <2>1. point \in Int /\ work[f].began \in Int
    BY <1>1 DEF Knowledge, History
  <2>2. /\ work'[f].began = work[f].began /\ arrived' = arrived
        /\ work[f].began <= arrived /\ work'[f].grant = work[f].grant
    BY <1>1, <1>2, <1>3, <2>1
  <2> QED BY <1>4, <1>8, <1>9, <2>1, <2>2 DEF FireInv
<1>11. UNCHANGED <<arrived, gone, handled, forgotten>>
  BY <1>2
<1> QED BY <1>4, <1>5, <1>10, <1>11, FireAlone

(* the listings; *)
LEMMA ListingCovers ==
  ASSUME TypeOK, TypeOK', NEW z \in History, CoverInv(z), NEW f \in Slot,
         ListHistory(f) \/ Relist(f)
  PROVE  CoverInv(z)'
<1>1. /\ arrived \in History /\ work[f] \in Knowledge /\ FireInv(f, z)
      /\ \A i \in History, j \in History : i + 1 .. j \subseteq Mail
      /\ arrived \in Int /\ work[f].began \in Int
  <2>1. /\ arrived \in History /\ work[f] \in Knowledge /\ FireInv(f, z)
        /\ arrived \in Int /\ work[f].began \in Int
    BY DEF TypeOK, History, CoverInv, Knowledge
  <2>2. \A i \in History, j \in History : i + 1 .. j \subseteq Mail
    BY DEF History, Mail
  <2> QED BY <2>1, <2>2
<1>2. /\ work[f].began <= arrived /\ work[f].point.id \in History /\ work[f].point.at \in History
      /\ work[f].fresh \in History
  BY <1>1 DEF FireInv, Knowledge, ListHistory, Relist
<1>3. CASE ListHistory(f)
  <2>1. PICK to \in work[f].point.id .. arrived :
          Gather(f, work[f].point.id + 1 .. to, to = arrived, arrived)
    BY <1>3 DEF ListHistory
  <2> DEFINE new == work[f].point.id + 1 .. to
             all == to = arrived
  <2>2. to \in History
    BY <1>1, <1>2 DEF History
  <2>3. new \in SUBSET Mail /\ all \in BOOLEAN
    BY <1>1, <1>2, <2>2
  <2>4. all => \A m \in Mail : work[f].point.id < m /\ m <= arrived => m \in new
    BY <1>1, <1>2 DEF Mail, History
  <2>5. pc[f] \in {"list", "relist"} /\ Gather(f, new, all, arrived) /\ arrived <= arrived
    BY <1>1, <1>3, <2>1 DEF ListHistory
  <2> HIDE DEF new, all
  <2> QED BY <1>1, <1>2, <2>3, <2>4, <2>5, GatherCovers
<1>4. CASE Relist(f)
  <2>1. PICK downTo \in LastComplete(f) .. arrived :
          Gather(f, downTo + 1 .. arrived, downTo = LastComplete(f), work[f].fresh)
    BY <1>4 DEF Relist
  <2> DEFINE new == downTo + 1 .. arrived
             all == downTo = LastComplete(f)
  <2>2. downTo \in History
    BY <1>1, <1>2 DEF LastComplete, History
  <2>3. new \in SUBSET Mail /\ all \in BOOLEAN
    BY <1>1, <2>2
  <2>4. pc[f] = "relist" /\ work[f].point.at <= work[f].point.id
        /\ work[f].began <= work[f].fresh /\ work[f].fresh <= arrived
    BY <1>1, <1>4 DEF Relist, FireInv
  <2>5. all => \A m \in Mail : work[f].point.id < m /\ m <= work[f].fresh => m \in new
    <3> SUFFICES ASSUME all, NEW m \in Mail, work[f].point.id < m, m <= work[f].fresh PROVE m \in new
      OBVIOUS
    <3>1. m \in Int /\ work[f].point.id \in Int /\ work[f].point.at \in Int /\ work[f].fresh \in Int
      BY <1>2 DEF Mail, History
    <3> QED BY <1>1, <2>2, <2>4, <3>1 DEF LastComplete, History
  <2>6. pc[f] \in {"list", "relist"} /\ Gather(f, new, all, work[f].fresh)
    BY <2>1, <2>4
  <2> HIDE DEF new, all
  <2> QED BY <1>2, <2>3, <2>4, <2>5, <2>6, GatherCovers
<1> QED BY <1>3, <1>4

(* A fire that stops, or has nothing left but to give its lease back. *)
LEMMA Stopping ==
  ASSUME TypeOK, TypeOK', NEW z \in History, CoverInv(z), NEW f \in Slot,
         pc[f] # "idle",
         \/ pc' = [pc EXCEPT ![f] = "idle"] /\ work' = [work EXCEPT ![f] = Blank]
         \/ /\ \/ pc' = [pc EXCEPT ![f] = "failed"]
               \/ pc' = [pc EXCEPT ![f] = "unreachable"]
               \/ pc' = [pc EXCEPT ![f] = "release"]
            /\ work' = work,
         \/ flight' = Drop(f) \/ flight' = SetAdrift(f)
         \/ flight' = flight /\ pc[f] # "sent",
         UNCHANGED <<arrived, gone, handled, forgotten>>, StoreInv(z)'
  PROVE  CoverInv(z)'
<1>1. /\ pc \in [Slot -> Step] /\ work \in [Slot -> Knowledge] /\ FireInv(f, z)
      /\ FlightInv /\ StoreInv(z)
  BY DEF TypeOK, CoverInv
<1>2. /\ \A g \in Slot \ {f} : pc'[g] = pc[g] /\ work'[g] = work[g]
      /\ \/ pc'[f] = "idle"
         \/ pc'[f] \in {"failed", "unreachable", "release"} /\ work'[f] = work[f]
  BY <1>1
<1>3. FireInv(f, z)'
  BY <1>1, <1>2 DEF FireInv
<1>4. FlightInv'
  <2> SUFFICES ASSUME NEW b \in flight', NEW g \in Slot, b.by = g
               PROVE  pc'[g] = "sent" /\ Gathered(g)' \subseteq handled' \cup b.new
    BY DEF FlightInv
  <2>1. g # None
    OBVIOUS
  <2>2. PICK c \in flight : c.by = g /\ c.by # f /\ b.new = c.new
    <3>1. CASE flight' = Drop(f) \/ flight' = SetAdrift(f)
      BY <2>1, <3>1, EditedBatches
    <3>2. CASE flight' = flight /\ pc[f] # "sent"
      BY <1>1, <3>2 DEF FlightInv
    <3> QED BY <3>1, <3>2
  <2> QED BY <1>1, <1>2, <2>2 DEF FlightInv, Gathered
<1> QED BY <1>2, <1>3, <1>4, FireAlone

(* the ways out; *)
LEMMA LeavingCovers ==
  ASSUME TypeOK, TypeOK', NEW z \in History, CoverInv(z), NEW f \in Slot,
         \/ LeaseLost(f) \/ GiveUp(f) \/ Crash(f) \/ Outage(f)
         \/ RecordFailure(f) \/ MarkRevoked(f) \/ Release(f)
  PROVE  CoverInv(z)'
<1>1. UNCHANGED <<arrived, gone, handled, forgotten, checkpoint, backfill>> /\ pc[f] # "idle"
  BY DEF LeaseLost, GiveUp, Crash, Outage, RecordFailure, MarkRevoked, Release
<1>2. StoreInv(z)'
  <2>1. arrived <= arrived' /\ StoreInv(z)
    BY <1>1 DEF TypeOK, History, CoverInv
  <2> QED BY <1>1, <2>1, StoreStays
<1>3. /\ \/ pc' = [pc EXCEPT ![f] = "idle"] /\ work' = [work EXCEPT ![f] = Blank]
         \/ /\ \/ pc' = [pc EXCEPT ![f] = "failed"]
               \/ pc' = [pc EXCEPT ![f] = "unreachable"]
               \/ pc' = [pc EXCEPT ![f] = "release"]
            /\ work' = work
      /\ \/ flight' = Drop(f) \/ flight' = SetAdrift(f)
         \/ flight' = flight /\ pc[f] # "sent"
  BY DEF LeaseLost, GiveUp, Crash, Outage, RecordFailure, MarkRevoked, Release
<1> QED BY <1>1, <1>2, <1>3, Stopping

(* the rows; *)
LEMMA WritingCovers ==
  ASSUME TypeOK, TypeOK', SheetInv, NEW z \in History, CoverInv(z), NEW f \in Slot, WriteRows(f)
  PROVE  CoverInv(z)'
<1> DEFINE b == [by |-> f, new |-> FreshlyAbsent(f), unread |-> work[f].unread,
                 again |-> work[f].again \cap OnSheet]
<1>1. /\ pc \in [Slot -> Step] /\ work \in [Slot -> Knowledge] /\ FireInv(f, z) /\ FlightInv
      /\ StoreInv(z) /\ arrived \in Int /\ pc[f] = "write"
  BY DEF TypeOK, CoverInv, WriteRows, History
<1>2. UNCHANGED <<arrived, gone, handled, forgotten, checkpoint, backfill>>
  BY DEF WriteRows
<1>3. StoreInv(z)'
  <2>1. arrived <= arrived'
    BY <1>1, <1>2
  <2> QED BY <1>1, <1>2, <2>1, StoreStays
<1>4. CASE Leave(f) /\ flight' = flight
  BY <1>1, <1>2, <1>3, <1>4, Stopping
<1>5. CASE Goto(f, "tracking") /\ work' = work /\ flight' = flight /\ FreshlyAbsent(f) = {}
  <2>1. Gathered(f) \subseteq handled
    BY <1>5 DEF Gathered, FreshlyAbsent, SheetInv
  <2>2. /\ \A g \in Slot \ {f} : pc'[g] = pc[g] /\ work'[g] = work[g]
        /\ pc'[f] = "tracking" /\ work'[f] = work[f]
    BY <1>1, <1>5
  <2>3. FireInv(f, z)'
    BY <1>1, <1>2, <2>1, <2>2 DEF FireInv, Gathered, Swept
  <2>4. FlightInv'
    BY <1>1, <1>2, <1>5, <2>2, FlightStays
  <2> QED BY <1>2, <1>3, <2>2, <2>3, <2>4, FireAlone
<1>6. CASE Goto(f, "sent") /\ work' = work /\ flight' = flight \cup {b}
  <2>1. Gathered(f) \subseteq handled \cup b.new
    BY DEF Gathered, FreshlyAbsent, SheetInv
  <2>2. /\ \A g \in Slot \ {f} : pc'[g] = pc[g] /\ work'[g] = work[g]
        /\ pc'[f] = "sent" /\ work'[f] = work[f]
    BY <1>1, <1>6
  <2>3. FireInv(f, z)'
    BY <1>1, <1>2, <2>2 DEF FireInv, Gathered, Swept
  <2>4. FlightInv'
    <3> SUFFICES ASSUME NEW c \in flight', NEW g \in Slot, c.by = g
                 PROVE  pc'[g] = "sent" /\ Gathered(g)' \subseteq handled \cup c.new
      BY <1>2 DEF FlightInv
    <3>1. CASE c = b
      BY <2>1, <2>2, <3>1 DEF Gathered
    <3>2. CASE c # b
      <4>1. c \in flight /\ pc[g] = "sent" /\ g # f
        BY <1>1, <1>6, <3>2 DEF FlightInv
      <4> QED BY <1>1, <2>2, <4>1 DEF FlightInv, Gathered
    <3> QED BY <3>1, <3>2
  <2> QED BY <1>2, <1>3, <2>2, <2>3, <2>4, FireAlone
<1>7. \/ Leave(f) /\ flight' = flight
      \/ Goto(f, "tracking") /\ work' = work /\ flight' = flight /\ FreshlyAbsent(f) = {}
      \/ Goto(f, "sent") /\ work' = work /\ flight' = flight \cup {b}
  BY DEF WriteRows, Writes, FreshlyAbsent
<1> QED BY <1>4, <1>5, <1>6, <1>7

(* the answers and the saves; *)
LEMMA LateCovers ==
  ASSUME TypeOK, TypeOK', NEW z \in History, CoverInv(z), NEW f \in Slot,
         Answered(f) \/ Refused(f) \/ SaveTracking(f) \/ SaveConnection(f)
  PROVE  CoverInv(z)'
<1>1. /\ pc \in [Slot -> Step] /\ work[f] \in Knowledge /\ FireInv(f, z) /\ FlightInv
      /\ StoreInv(z) /\ arrived \in Int
  BY DEF TypeOK, CoverInv, History
<1>2. UNCHANGED <<arrived, gone, handled, flight, work>> /\ forgotten \subseteq forgotten'
  BY DEF Answered, Refused, SaveTracking, SaveConnection
<1>3. \A g \in Slot \ {f} : pc'[g] = pc[g] /\ work'[g] = work[g]
  BY <1>1, <1>2 DEF Answered, Refused, SaveTracking, SaveConnection
<1>4. FireInv(f, z)'
  <2>1. CASE Answered(f)
    <3>1. pc[f] = "landed" /\ pc'[f] = "tracking"
      BY <1>1, <2>1 DEF Answered
    <3> QED BY <1>1, <1>2, <3>1 DEF FireInv, Gathered, Swept
  <2>2. CASE Refused(f)
    <3>1. pc[f] = "sent" /\ pc'[f] = "write"
      BY <1>1, <2>2 DEF Refused
    <3> QED BY <1>1, <1>2, <3>1 DEF FireInv, Gathered, Swept
  <2>3. CASE SaveTracking(f)
    <3>1. pc[f] = "tracking" /\ pc'[f] = "saving"
      BY <1>1, <2>3 DEF SaveTracking
    <3> QED BY <1>1, <1>2, <3>1 DEF FireInv, Gathered, Swept
  <2>4. CASE SaveConnection(f)
    <3>1. pc[f] = "saving" /\ pc'[f] = "release"
      BY <1>1, <2>4 DEF SaveConnection
    <3> QED BY <1>1, <1>2, <3>1 DEF FireInv
  <2> QED BY <2>1, <2>2, <2>3, <2>4
<1>5. StoreInv(z)'
  <2>1. CASE SaveConnection(f)
    <3>1. /\ backfill' = work[f].bf
          /\ \/ checkpoint' = checkpoint
             \/ work[f].save # None /\ checkpoint' = [id |-> work[f].save, at |-> work[f].began]
      BY <2>1 DEF SaveConnection
    <3>2. /\ Gathered(f) \subseteq handled
          /\ work[f].grant = "current" => Swept(work[f].bf, z, Gathered(f))
          /\ work[f].save # None => /\ work[f].began <= work[f].save /\ work[f].save <= arrived
                                    /\ Swept(z, work[f].save, Gathered(f))
      BY <1>1, <2>1 DEF FireInv, SaveConnection
    <3>3. Swept(backfill, z, {})'
      <4>1. CASE work[f].grant = "current"
        BY <1>2, <3>1, <3>2, <4>1 DEF Swept
      <4>2. CASE work[f].grant # "current"
        <5> SUFFICES ASSUME NEW m \in Mail, work[f].bf < m, m <= z
                     PROVE  m \in handled \cup gone \cup forgotten'
          BY <1>2, <3>1 DEF Swept
        <5>1. m \in Int /\ backfill \in Int
          BY DEF TypeOK, Mail, History
        <5>2. CASE m <= backfill
          BY <2>1, <4>2, <5>2 DEF SaveConnection, Forgets
        <5>3. CASE backfill < m
          BY <1>1, <1>2, <5>3 DEF StoreInv, Swept
        <5> QED BY <5>1, <5>2, <5>3
      <4> QED BY <4>1, <4>2
    <3>4. Swept(z, checkpoint.id, {})'
      BY <1>1, <1>2, <3>1, <3>2 DEF Swept, StoreInv
    <3>5. z <= arrived' /\ checkpoint'.at <= checkpoint'.id /\ checkpoint'.id <= arrived'
      BY <1>1, <1>2, <3>1, <3>2 DEF StoreInv
    <3> QED BY <3>3, <3>4, <3>5 DEF StoreInv
  <2>2. CASE ~SaveConnection(f)
    <3>1. checkpoint' = checkpoint /\ backfill' = backfill /\ arrived <= arrived'
      BY <1>1, <1>2, <2>2 DEF Answered, Refused, SaveTracking
    <3> QED BY <1>1, <1>2, <3>1, StoreStays
  <2> QED BY <2>1, <2>2
<1>6. FlightInv'
  <2>1. CASE Refused(f)
    <3>1. \A b \in flight : b.by # f
      BY <2>1 DEF Refused
    <3> QED BY <1>1, <1>2, <1>3, <3>1 DEF FlightInv, Gathered
  <2>2. CASE ~Refused(f)
    <3>1. pc[f] # "sent"
      BY <2>2 DEF Answered, SaveTracking, SaveConnection
    <3> QED BY <1>1, <1>2, <1>3, <3>1, FlightStays
  <2> QED BY <2>1, <2>2
<1> QED BY <1>2, <1>3, <1>4, <1>5, <1>6, FireAlone

(* a batch that lands; *)
LEMMA LandingCovers ==
  ASSUME TypeOK, TypeOK', NEW z \in History, CoverInv(z), NEW b \in flight, Land(b)
  PROVE  CoverInv(z)'
<1>1. /\ pc \in [Slot -> Step] /\ arrived \in Int /\ FlightInv /\ StoreInv(z)
      /\ \A f \in Slot : FireInv(f, z)
  BY DEF TypeOK, CoverInv, History
<1>2. /\ handled' = handled \cup b.new /\ flight' = {} /\ work' = work
      /\ UNCHANGED <<arrived, gone, forgotten, checkpoint, backfill>>
      /\ pc' = IF b.by # None /\ pc[b.by] = "sent" THEN [pc EXCEPT ![b.by] = "landed"] ELSE pc
  BY DEF Land
<1>3. StoreInv(z)' /\ FlightInv'
  <2>1. arrived <= arrived' /\ handled \subseteq handled'
    BY <1>1, <1>2
  <2>2. StoreInv(z)'
    BY <1>1, <1>2, <2>1, StoreStays
  <2> QED BY <1>2, <2>2 DEF FlightInv
<1>4. ASSUME NEW f \in Slot PROVE FireInv(f, z)'
  <2>1. CASE pc'[f] = pc[f]
    <3>1. /\ FireInv(f, z) /\ work'[f] = work[f] /\ handled \subseteq handled'
          /\ gone \subseteq gone' /\ arrived <= arrived' /\ forgotten \subseteq forgotten'
      BY <1>1, <1>2
    <3> QED BY <2>1, <3>1, Bystander
  <2>2. CASE pc'[f] # pc[f]
    <3>1. b.by = f /\ pc[f] = "sent" /\ pc'[f] = "landed"
      BY <1>1, <1>2, <2>2
    <3>2. Gathered(f) \subseteq handled'
      BY <1>1, <1>2, <3>1 DEF FlightInv
    <3> QED BY <1>1, <1>2, <3>1, <3>2 DEF FireInv, Gathered, Swept
  <2> QED BY <2>1, <2>2
<1> QED BY <1>3, <1>4 DEF CoverInv

(* everything else. *)
LEMMA OutsideCovers ==
  ASSUME TypeOK, TypeOK', NEW z \in History, CoverInv(z),
         \/ LeaseExpires \/ CoolOff \/ Arrive \/ RevokeAtGoogle \/ Disconnect \/ UNCHANGED vars
         \/ \E m \in Mail : DeleteMail(m) \/ RemoveRow(m)
  PROVE  CoverInv(z)'
<1>1. arrived \in Int /\ FlightInv /\ StoreInv(z) /\ (\A f \in Slot : FireInv(f, z))
  BY DEF TypeOK, CoverInv, History
<1>2. /\ UNCHANGED <<pc, work, flight, handled, forgotten>> /\ gone \subseteq gone' /\ arrived <= arrived'
      /\ \/ UNCHANGED <<checkpoint, backfill>>
         \/ checkpoint' = [id |-> 0, at |-> 0] /\ backfill' = arrived /\ arrived' = arrived
            /\ gone' = gone
  BY <1>1 DEF LeaseExpires, CoolOff, Arrive, RevokeAtGoogle, Disconnect, DeleteMail, RemoveRow, vars
<1>3. \A f \in Slot : FireInv(f, z)'
  BY <1>1, <1>2, Bystander
<1>4. FlightInv'
  BY <1>1, <1>2 DEF FlightInv, Gathered
<1>5. StoreInv(z)'
  <2>1. CASE UNCHANGED <<checkpoint, backfill>>
    BY <1>1, <1>2, <2>1, StoreStays
  <2>2. CASE checkpoint' = [id |-> 0, at |-> 0] /\ backfill' = arrived /\ arrived' = arrived
             /\ gone' = gone
    <3>1. z \in Int /\ z >= 0 /\ arrived \in Int /\ arrived >= 0
      BY DEF TypeOK, History
    <3> QED BY <1>1, <1>2, <2>2, <3>1 DEF StoreInv, Swept, Mail
  <2> QED BY <1>2, <2>1, <2>2
<1> QED BY <1>3, <1>4, <1>5 DEF CoverInv

(* She connects: z is the mail there is now. What the fires at work have     *)
(* read is of before, and covers nothing more.                               *)
LEMMA ConnectCovers ==
  ASSUME TypeOK, TypeOK', NEW z \in History, CoverInv(z), Connect
  PROVE  CoverInv(arrived)'
<1>1. /\ checkpoint' = [id |-> arrived, at |-> arrived] /\ backfill' = arrived
      /\ UNCHANGED <<arrived, gone, flight, pc, handled, forgotten>> /\ arrived \in Int
  BY DEF Connect, TypeOK, History
<1>2. FlightInv /\ \A f \in Slot : FireInv(f, z) /\ work[f] \in Knowledge
  BY DEF CoverInv, TypeOK
<1>3. ASSUME NEW f \in Slot
      PROVE  /\ work'[f].began = work[f].began /\ work'[f].point = work[f].point
             /\ work'[f].map = work[f].map /\ work'[f].fresh = work[f].fresh
             /\ work'[f].save = work[f].save /\ Gathered(f)' = Gathered(f)
             /\ AtWork(f) => work'[f].grant # "current"
  <2>1. CASE AtWork(f)
    <3>1. work'[f] = Superseded(work[f])
      BY <2>1 DEF Connect
    <3> QED BY <1>2, <3>1 DEF Superseded, Knowledge, Gathered
  <2>2. CASE ~AtWork(f)
    <3>1. work'[f] = work[f]
      BY <2>2 DEF Connect
    <3> QED BY <2>2, <3>1 DEF Gathered
  <2> QED BY <2>1, <2>2
<1>4. ASSUME NEW f \in Slot PROVE FireInv(f, arrived)'
  <2>1. /\ work[f].began \in Int /\ work[f].point.id \in Int
        /\ work[f].save # None => work[f].save \in Int
    BY <1>2 DEF Knowledge, History
  <2>2. \A hi \in Int : hi <= arrived => \A also : Swept(arrived, hi, also)'
    BY <1>1 DEF Swept, Mail
  <2>3. FireInv(f, z)
    BY <1>2
  <2>4. pc[f] \in {"leased", "list", "relist"} =>
          /\ work'[f].point.at <= work'[f].point.id /\ work'[f].point.id <= arrived
          /\ Swept(arrived, work[f].point.id, {})' /\ work'[f].grant # "current"
    BY <1>1, <1>3, <2>1, <2>2, <2>3 DEF FireInv, AtWork, Swept
  <2>5. pc[f] \in {"write", "sent", "landed", "tracking", "saving"} =>
          /\ work'[f].grant # "current"
          /\ work'[f].save # None => /\ work'[f].began <= work'[f].save /\ work'[f].save <= arrived
                                     /\ Swept(arrived, work[f].save, Gathered(f))'
    BY <1>1, <1>3, <2>1, <2>2, <2>3 DEF FireInv, AtWork, Swept
  <2> QED BY <1>1, <1>3, <2>3, <2>4, <2>5 DEF FireInv
<1>5. FlightInv'
  BY <1>1, <1>2, <1>3 DEF FlightInv
<1>6. StoreInv(arrived)'
  BY <1>1 DEF StoreInv, Swept, Mail
<1> QED BY <1>1, <1>4, <1>5, <1>6 DEF CoverInv

Covered == \E z \in History : CoverInv(z)

(* At the start what has arrived is for the backfill. *)
LEMMA CoverInit == Init => Covered
<1> SUFFICES ASSUME Init PROVE Covered
  OBVIOUS
<1>1. arrived \in History /\ arrived \in Int
  BY DEF Init, History
<1>2. \A f \in Slot : FireInv(f, arrived)
  BY DEF Init, FireInv
<1>3. StoreInv(arrived)
  BY <1>1 DEF Init, StoreInv, Swept, Mail
<1>4. FlightInv
  BY DEF Init, FlightInv
<1> QED BY <1>1, <1>2, <1>3, <1>4 DEF Covered, CoverInv

(* Every step keeps every mail covered. *)
LEMMA CoverNext == TypeOK /\ TypeOK' /\ SheetInv /\ Covered /\ [Next]_vars => Covered'
<1> SUFFICES ASSUME TypeOK, TypeOK', SheetInv, Covered, [Next]_vars PROVE Covered'
  OBVIOUS
<1>1. PICK z \in History : CoverInv(z)
  BY DEF Covered
<1>2. CASE Connect
  <2>1. CoverInv(arrived)' /\ arrived' \in History
    BY <1>1, <1>2, ConnectCovers DEF CoverInv, TypeOK
  <2> QED BY <2>1 DEF Covered
<1>3. CASE ~Connect
  <2>1. CoverInv(z)'
    <3>1. ASSUME NEW f \in Slot, FireStep(f) \/ Recheck(f) \/ GiveUp(f) \/ Outage(f) \/ Crash(f)
          PROVE  CoverInv(z)'
      BY <1>1, <3>1, EarlySteps, ListingCovers, WritingCovers, LateCovers, LeavingCovers DEF FireStep
    <3>2. ASSUME NEW b \in flight, Land(b) PROVE CoverInv(z)'
      BY <1>1, <3>2, LandingCovers
    <3>3. CASE LeaseExpires \/ CoolOff \/ Arrive \/ RevokeAtGoogle \/ Disconnect \/ UNCHANGED vars
               \/ \E m \in Mail : DeleteMail(m) \/ RemoveRow(m)
      BY <1>1, <3>3, OutsideCovers
    <3> QED BY <1>3, <3>1, <3>2, <3>3 DEF Next
  <2> QED BY <2>1 DEF Covered
<1> QED BY <1>2, <1>3

(* A mail that is covered is not lost. *)
LEMMA CoveredIsNotLost == TypeOK /\ Covered => NoMailLost
<1> SUFFICES ASSUME TypeOK, NEW z \in History, CoverInv(z), NEW m \in 1 .. arrived
             PROVE  m \in handled \cup gone \cup forgotten \/ m > checkpoint.id \/ m <= backfill
  BY DEF Covered, NoMailLost
<1>1. m \in Mail /\ m \in Int /\ z \in Int /\ checkpoint.id \in Int /\ backfill \in Int
  BY DEF TypeOK, Mail, History
<1> QED BY <1>1 DEF CoverInv, StoreInv, Swept

(* No mail is lost, whatever number of fires overlap, outlive their leases,  *)
(* are killed between any two steps or save over one another, and whenever   *)
(* she disconnects and comes back, but for the mails of the new connection's *)
(* backfill that a fire begun before it strikes off (pipeline.connect,       *)
(* _fire_leased, _persist, _new_mail_ids, _backfill).                        *)
THEOREM NoMailIsLost == Spec => []NoMailLost
<1>1. Spec => [](TypeOK /\ SheetInv /\ Covered)
  BY TypeInit, CoverInit, SheetInvariant, TypeNext, CoverNext, PTL DEF Spec
<1> QED BY <1>1, CoveredIsNotLost, PTL

-----------------------------------------------------------------------------
(* Rows that need review. As long as nothing has put the tracking behind     *)
(* the sheet, at most one fire gathers, writes and tracks: while she is      *)
(* connected it is the one that holds the lease, and after she disconnects   *)
(* no other finds a token on the document. What it knows then stays true of  *)
(* the sheet until it has saved it.                                          *)
HasToken(f) == AtWork(f) /\ work[f].grant # "none"
Writing == {"write", "sent", "landed", "tracking"}
Active(f) == pc[f] \in {"list", "relist"} \cup Writing

LeaseInv ==
  /\ \A f \in Slot : AtWork(f) => link = "down" \/ (lease.by = f /\ ~lease.expired)
  /\ \A f, g \in Slot : HasToken(f) /\ HasToken(g) => f = g
  /\ \A f \in Slot : Active(f) => HasToken(f)

(* A batch in flight is what its fire still means to write. *)
BatchInv ==
  \A b \in flight, f \in Slot : b.by = f =>
    /\ pc[f] = "sent"
    /\ b.unread = work[f].unread /\ b.new = work[f].unread \cup work[f].answered
    /\ b.again \subseteq work[f].again /\ work[f].again \cap OnSheet \subseteq b.again

(* A fire writes mails that are on no row, or answers rows it asked again;   *)
(* what it will save of a row fits what the sheet says once the batch is on. *)
Settled(m, try) == m \in gone \/ try.due \/ try.attempts = 1 + MAX_RETRIES
KnowInv(f) ==
  /\ pc[f] \in {"list", "relist"} => OnSheet \subseteq work[f].map
  /\ pc[f] \in Writing =>
       /\ work[f].unread \cap work[f].answered = {}
       /\ Gathered(f) \cap DOMAIN work[f].tries = {}
       /\ work[f].again \subseteq DOMAIN work[f].tries
       /\ \A m \in DOMAIN work[f].tries : work[f].tries[m].due => log[m] = "review" \/ m \in gone
       /\ \A m \in work[f].again : ~work[f].tries[m].due
       /\ \A m \in DOMAIN work[f].tries \ work[f].again : Settled(m, work[f].tries[m])
  /\ pc[f] \in {"write", "sent"} => Gathered(f) \cap OnSheet = {}
  /\ pc[f] \in {"landed", "tracking"} =>
       /\ \A m \in work[f].unread : log[m] = "review"
       /\ \A m \in work[f].answered \cup work[f].again : log[m] # "review"

(* Tracking and sheet agree on the rows that need review, but for those a    *)
(* fire has just written and is about to track.                              *)
Tracking(f) == pc[f] \in {"landed", "tracking"}
TrackInv ==
  \A m \in Mail \ gone :
    /\ log[m] = "review" =>
         AwaitsRetry(m) \/ \E f \in Slot : Tracking(f) /\ m \in work[f].unread
    /\ tracked[m].due =>
         log[m] = "review" \/ \E f \in Slot : Tracking(f) /\ m \in work[f].again

AgreeInv == BatchInv /\ TrackInv /\ \A f \in Slot : KnowInv(f)
ReviewInv == ~behind => LeaseInv /\ AgreeInv

(* Once behind, always behind. *)
LEMMA BehindStays == TypeOK /\ [Next]_vars => (behind => behind')
<1> SUFFICES ASSUME TypeOK, [Next]_vars, behind PROVE behind'
  OBVIOUS
<1>1. behind = TRUE
  BY DEF TypeOK
<1>2. ASSUME NEW f \in Slot, FireStep(f) \/ Recheck(f) \/ GiveUp(f) \/ Outage(f) \/ Crash(f)
      PROVE  behind'
  BY <1>1, <1>2 DEF FireStep, Start, TakeLease, Recheck, ReadMap, ListHistory, HistoryExpired, Relist,
     Gather, WriteRows, LeaseLost, Answered, Refused, SaveTracking, SaveConnection, RecordFailure,
     MarkRevoked, Release, GiveUp, Outage, Crash
<1>3. CASE \/ \E b \in flight : Land(b)
           \/ LeaseExpires \/ CoolOff
           \/ Arrive \/ (\E m \in Mail : DeleteMail(m) \/ RemoveRow(m))
           \/ RevokeAtGoogle \/ Disconnect \/ Connect \/ UNCHANGED vars
  BY <1>1, <1>3 DEF Land, LeaseExpires, CoolOff, Arrive, DeleteMail, RemoveRow, RevokeAtGoogle,
     Disconnect, Connect, vars
<1> QED BY <1>2, <1>3 DEF Next

(* What a fire gathers leaves its token alone. *)
LEMMA GatherKeepsToken ==
  ASSUME TypeOK, NEW f \in Slot, NEW new, NEW all, NEW point, Gather(f, new, all, point)
  PROVE  work'[f].grant = work[f].grant
<1>1. PICK retried \in SUBSET Due, down \in 0 .. work[f].bf :
        \E answered \in SUBSET (Taken(f, new \cup (down + 1 .. work[f].bf)) \cup
                               {m \in retried : m \in work[f].map /\ m \notin gone}) :
          work' = [work EXCEPT ![f] =
            [work[f] EXCEPT !.unread = Taken(f, new \cup (down + 1 .. work[f].bf)) \ answered,
              !.answered = answered \cap Taken(f, new \cup (down + 1 .. work[f].bf)),
              !.again = answered \cap {m \in retried : m \in work[f].map /\ m \notin gone},
              !.tries = [m \in retried |-> NextTry(f, m, answered)],
              !.save = SaveIfAll(all, point), !.bf = Cursor(work[f].bf, down),
              !.point = Blank.point, !.map = {}, !.fresh = 0]]
  BY DEF Gather
<1> DEFINE taken == Taken(f, new \cup (down + 1 .. work[f].bf))
           asked == {m \in retried : m \in work[f].map /\ m \notin gone}
<1>2. PICK answered \in SUBSET (taken \cup asked) :
          work' = [work EXCEPT ![f] =
            [work[f] EXCEPT !.unread = taken \ answered, !.answered = answered \cap taken,
              !.again = answered \cap asked,
              !.tries = [m \in retried |-> NextTry(f, m, answered)],
              !.save = SaveIfAll(all, point), !.bf = Cursor(work[f].bf, down),
              !.point = Blank.point, !.map = {}, !.fresh = 0]]
  BY <1>1
<1>3. work \in [Slot -> Knowledge] /\ work[f] \in Knowledge
  BY DEF TypeOK
<1> HIDE DEF taken, asked
<1> QED BY <1>2, <1>3 DEF Knowledge

(* A step that leaves the lease and what others do alone, of a fire that     *)
(* goes on, keeping its token, or stops.                                     *)
LEMMA LeaseAlone ==
  ASSUME LeaseInv, NEW f \in Slot, link' = link, lease' = lease,
         \A g \in Slot \ {f} : pc'[g] = pc[g] /\ work'[g].grant = work[g].grant,
         \/ ~AtWork(f)' /\ ~Active(f)'
         \/ AtWork(f) /\ work'[f].grant = work[f].grant /\ (Active(f)' => Active(f))
  PROVE  LeaseInv'
BY DEF LeaseInv, AtWork, HasToken, Active, Writing

(* One fire at a time, as far as it matters. *)
LEMMA LeaseOfOne ==
  ASSUME TypeOK, TypeOK', LeaseInv, ~behind', NEW f \in Slot,
         FireStep(f) \/ Recheck(f) \/ GiveUp(f) \/ Outage(f) \/ Crash(f)
  PROVE  LeaseInv'
<1>1. /\ pc \in [Slot -> Step] /\ pc' \in [Slot -> Step] /\ None \notin Slot
      /\ work \in [Slot -> Knowledge] /\ work[f] \in Knowledge
  BY DEF TypeOK
<1>2. \A g \in Slot \ {f} : pc'[g] = pc[g] /\ work'[g] = work[g]
  <2>1. CASE ListHistory(f) \/ Relist(f)
    <3>1. PICK new, all, point : Gather(f, new, all, point)
      BY <2>1, Zenon DEF ListHistory, Relist
    <3>2. pc' = [pc EXCEPT ![f] = "write"] /\ \E k : work' = [work EXCEPT ![f] = k]
      BY <3>1 DEF Gather
    <3> QED BY <1>1, <3>2
  <2>2. CASE TakeLease(f) \/ Recheck(f)
    <3> HIDE DEF Knowledge
    <3>1. \E k, l : (work' = work \/ work' = [work EXCEPT ![f] = k])
                   /\ (pc' = pc \/ pc' = [pc EXCEPT ![f] = l])
      BY <2>2 DEF TakeLease, Recheck
    <3> QED BY <1>1, <3>1
  <2>3. CASE ~(ListHistory(f) \/ Relist(f) \/ TakeLease(f) \/ Recheck(f))
    BY <1>1, <2>3 DEF FireStep, Start, ReadMap, HistoryExpired,
       WriteRows, LeaseLost, Answered, Refused, SaveTracking, SaveConnection, RecordFailure,
       MarkRevoked, Release, GiveUp, Outage, Crash
  <2> QED BY <2>1, <2>2, <2>3
<1>3. CASE TakeLease(f)
  <2>1. link' = link /\ pc'[f] \in {"idle", "leased"}
    BY <1>1, <1>3 DEF TakeLease
  <2>2. CASE LeaseFree
    <3>1. lease' = [by |-> f, expired |-> FALSE] /\ work'[f] = AsRead(work[f])
      BY <1>1, <1>3, <2>2 DEF TakeLease
    <3>2. \A g \in Slot : AtWork(g) => link = "down"
      BY <1>1, <2>2 DEF LeaseInv, LeaseFree
    <3>3. link = "down" => work'[f].grant = "none"
      BY <1>1, <3>1, AsReadFields
    <3>4. \A g \in Slot \ {f} : (AtWork(g)' <=> AtWork(g)) /\ (HasToken(g)' <=> HasToken(g))
                                /\ (Active(g)' <=> Active(g))
      BY <1>2 DEF AtWork, HasToken, Active, Writing
    <3>5. ~Active(f)' /\ (link = "down" => ~HasToken(f)')
      BY <2>1, <3>3 DEF Active, Writing, HasToken
    <3>6. \A g, h \in Slot : HasToken(g)' /\ HasToken(h)' => g = h
      BY <3>2, <3>4, <3>5 DEF LeaseInv, HasToken
    <3> QED BY <2>1, <3>1, <3>2, <3>4, <3>5, <3>6 DEF LeaseInv
  <2>3. CASE ~LeaseFree
    <3>1. lease' = lease /\ pc'[f] = "idle"
      BY <1>1, <1>3, <2>3 DEF TakeLease
    <3>2. ~AtWork(f)' /\ ~Active(f)'
      BY <3>1 DEF AtWork, Active, Writing
    <3> QED BY <1>2, <2>1, <3>1, <3>2, LeaseAlone
  <2> QED BY <2>2, <2>3
<1>4. CASE Recheck(f)
  <2>1. /\ link' = link /\ lease' = lease /\ pc' = pc /\ pc[f] = "leased"
        /\ work'[f] = AsRead(work[f])
    BY <1>1, <1>4 DEF Recheck
  <2>2. link = "down" => work'[f].grant = "none"
    BY <1>1, <2>1, AsReadFields
  <2>3. \A g \in Slot \ {f} : HasToken(g)' => HasToken(g) /\ AtWork(g)
    BY <1>2, <2>1 DEF AtWork, HasToken
  <2>4. \A g \in Slot : link # "down" /\ AtWork(g) => g = f
    BY <2>1 DEF LeaseInv, AtWork
  <2>5. \A g, h \in Slot : HasToken(g)' /\ HasToken(h)' => g = h
    BY <2>2, <2>3, <2>4 DEF LeaseInv, HasToken
  <2>6. \A g \in Slot : (AtWork(g)' <=> AtWork(g)) /\ (Active(g)' <=> Active(g) /\ g # f)
    BY <2>1 DEF AtWork, Active, Writing
  <2>7. \A g \in Slot : Active(g)' => HasToken(g)'
    BY <1>2, <2>1, <2>6 DEF LeaseInv, HasToken, AtWork
  <2> QED BY <2>1, <2>5, <2>6, <2>7 DEF LeaseInv
<1>5. CASE ReadMap(f)
  <2>1. /\ link' = link /\ lease' = lease /\ pc[f] = "leased" /\ work'[f].grant = work[f].grant
        /\ \/ pc'[f] = "list" /\ work[f].grant # "none"
           \/ pc'[f] = "revoked"
    BY <1>1, <1>5 DEF ReadMap, MayRead, Knowledge
  <2>2. AtWork(f) /\ AtWork(f)' /\ (HasToken(f)' <=> HasToken(f)) /\ (Active(f)' => HasToken(f)')
    BY <2>1 DEF AtWork, HasToken, Active, Writing
  <2>3. \A g \in Slot \ {f} : (AtWork(g)' <=> AtWork(g)) /\ (HasToken(g)' <=> HasToken(g))
                              /\ (Active(g)' <=> Active(g))
    BY <1>2 DEF AtWork, HasToken, Active, Writing
  <2> QED BY <2>1, <2>2, <2>3 DEF LeaseInv
<1>6. CASE Release(f)
  <2>1. /\ link' = link /\ pc[f] = "release" /\ pc'[f] = "idle"
        /\ lease' = lease \/ lease.by = f
    BY <1>1, <1>6 DEF Release
  <2>2. ~AtWork(f)' /\ ~Active(f)' /\ ~HasToken(f)'
    BY <2>1 DEF AtWork, Active, Writing, HasToken
  <2>3. \A g \in Slot \ {f} : (AtWork(g)' <=> AtWork(g)) /\ (HasToken(g)' <=> HasToken(g))
                              /\ (Active(g)' <=> Active(g))
    BY <1>2 DEF AtWork, HasToken, Active, Writing
  <2> QED BY <2>1, <2>2, <2>3 DEF LeaseInv
<1>7. CASE MarkRevoked(f)
  <2>1. link' = "down" /\ pc'[f] = "release" /\ pc[f] = "revoked" /\ work' = work
    BY <1>1, <1>7 DEF MarkRevoked
  <2>2. \A g \in Slot : (HasToken(g)' <=> HasToken(g)) /\ (Active(g)' <=> Active(g))
    BY <1>2, <2>1 DEF AtWork, HasToken, Active, Writing
  <2> QED BY <2>1, <2>2 DEF LeaseInv
<1>8. CASE WriteRows(f)
  <2>1. /\ link' = link /\ pc[f] = "write" /\ AtWork(f) /\ Active(f)
        /\ pc'[f] = "idle" \/ (pc'[f] \in {"tracking", "sent"} /\ work'[f] = work[f])
        /\ lease' = lease \/ (lease.by = f /\ lease'.by = f /\ ~lease'.expired)
    BY <1>1, <1>8 DEF WriteRows, TypeOK, AtWork, Active, Writing
  <2>2. \/ ~AtWork(f)' /\ ~Active(f)' /\ ~HasToken(f)'
        \/ AtWork(f)' /\ Active(f)' /\ (HasToken(f)' <=> HasToken(f))
    BY <2>1 DEF AtWork, Active, Writing, HasToken
  <2>3. \A g \in Slot \ {f} : (AtWork(g)' <=> AtWork(g)) /\ (HasToken(g)' <=> HasToken(g))
                              /\ (Active(g)' <=> Active(g))
    BY <1>2 DEF AtWork, HasToken, Active, Writing
  <2>4. HasToken(f)
    BY <2>1 DEF LeaseInv
  <2> QED BY <2>1, <2>2, <2>3, <2>4 DEF LeaseInv
<1>9. CASE Start(f)
  <2>1. link' = link /\ lease' = lease /\ pc'[f] = "starting"
    BY <1>1, <1>9 DEF Start
  <2>2. ~AtWork(f)' /\ ~Active(f)'
    BY <2>1 DEF AtWork, Active, Writing
  <2> QED BY <1>2, <2>1, <2>2, LeaseAlone
<1>10. CASE ListHistory(f) \/ Relist(f)
  <2>1. /\ link' = link /\ lease' = lease /\ pc[f] \in {"list", "relist"} /\ pc'[f] = "write"
    BY <1>1, <1>10 DEF ListHistory, Relist, Gather
  <2>2. work'[f].grant = work[f].grant
    BY <1>10, GatherKeepsToken DEF ListHistory, Relist
  <2>3. AtWork(f) /\ Active(f)
    BY <2>1 DEF AtWork, Active
  <2> QED BY <1>2, <2>1, <2>2, <2>3, LeaseAlone
<1>11. CASE \/ HistoryExpired(f) \/ Answered(f) \/ Refused(f)
            \/ LeaseLost(f) \/ SaveTracking(f) \/ SaveConnection(f) \/ RecordFailure(f)
            \/ GiveUp(f) \/ Outage(f) \/ Crash(f)
  <2>1. link' = link /\ lease' = lease
    BY <1>11 DEF HistoryExpired, Answered, Refused, LeaseLost,
       SaveTracking, SaveConnection, RecordFailure, GiveUp, Outage, Crash
  <2>2. \/ pc'[f] = "idle"
        \/ /\ pc[f] \notin {"idle", "starting"} /\ work'[f].grant = work[f].grant
           /\ Active(f)' => Active(f)
    BY <1>1, <1>11 DEF HistoryExpired, Answered, Refused, LeaseLost, SaveTracking, SaveConnection,
       RecordFailure, GiveUp, Outage, Crash, Active, Writing, Knowledge
  <2>3. \/ ~AtWork(f)' /\ ~Active(f)'
        \/ AtWork(f) /\ work'[f].grant = work[f].grant /\ (Active(f)' => Active(f))
    BY <2>2 DEF AtWork, Active, Writing
  <2> QED BY <1>2, <2>1, <2>3, LeaseAlone
<1> QED BY <1>3, <1>4, <1>5, <1>6, <1>7, <1>8, <1>9, <1>10, <1>11 DEF FireStep

(* While nothing is behind, one fire at most is at work. *)
LEMMA LeaseNext ==
  ASSUME TypeOK, TypeOK', LeaseInv, ~behind', [Next]_vars
  PROVE  LeaseInv'
<1>1. pc \in [Slot -> Step]
  BY DEF TypeOK
<1>2. ASSUME NEW b \in flight, Land(b) PROVE LeaseInv'
  <2>1. /\ \A g \in Slot : (AtWork(g)' <=> AtWork(g)) /\ (Active(g)' <=> Active(g))
        /\ UNCHANGED <<work, link, lease>>
    BY <1>1, <1>2 DEF Land, AtWork, Active, Writing
  <2> QED BY <2>1 DEF LeaseInv, HasToken
<1>3. CASE LeaseExpires
  <2>1. lease.by \in Slot /\ pc[lease.by] \in {"idle", "starting"}
    BY <1>3 DEF LeaseExpires, TypeOK
  <2>2. \A g \in Slot : AtWork(g) => link = "down"
    BY <2>1 DEF LeaseInv, AtWork
  <2>3. UNCHANGED <<link, pc, work>>
    BY <1>3 DEF LeaseExpires
  <2> QED BY <2>2, <2>3 DEF LeaseInv, AtWork, HasToken, Active
<1>4. CASE Disconnect
  <2>1. UNCHANGED <<pc, work>> /\ link' = "down"
    BY <1>4 DEF Disconnect
  <2> QED BY <2>1 DEF LeaseInv, AtWork, HasToken, Active
<1>5. CASE Connect
  <2>1. \A g \in Slot : ~AtWork(g) /\ pc'[g] = pc[g]
    BY <1>5 DEF Connect
  <2>2. \A g \in Slot : ~AtWork(g)' /\ ~Active(g)'
    BY <2>1 DEF AtWork, Active, Writing
  <2> QED BY <2>2 DEF LeaseInv, HasToken
<1>6. CASE CoolOff \/ Arrive \/ RevokeAtGoogle \/ (\E m \in Mail : DeleteMail(m) \/ RemoveRow(m))
           \/ UNCHANGED vars
  <2>1. pc' = pc /\ work' = work /\ lease' = lease /\ (link' = link \/ link = "up")
    BY <1>6 DEF CoolOff, Arrive, RevokeAtGoogle, DeleteMail, RemoveRow, vars
  <2> QED BY <2>1 DEF LeaseInv, AtWork, HasToken, Active
<1> QED BY <1>2, <1>3, <1>4, <1>5, <1>6, LeaseOfOne DEF Next

(* What another fire knows is not touched by a step that leaves its row of   *)
(* the bookkeeping and the sheet alone.                                      *)
LEMMA KnowStays ==
  ASSUME NEW g \in Slot, KnowInv(g), pc'[g] = pc[g], work'[g] = work[g], log' = log,
         gone \subseteq gone'
  PROVE  KnowInv(g)'
BY DEF KnowInv, Gathered, OnSheet, Settled

(* A step of f that leaves sheet, tracking and flight alone. *)
LEMMA AgreeAlone ==
  ASSUME TypeOK, TypeOK', AgreeInv, NEW f \in Slot,
         \A g \in Slot \ {f} : pc'[g] = pc[g] /\ work'[g] = work[g],
         UNCHANGED <<log, gone, tracked, flight>>, KnowInv(f)',
         Tracking(f) => Tracking(f)' /\ work'[f] = work[f],
         pc[f] = "sent" => \A b \in flight : b.by # f
  PROVE  AgreeInv'
<1>1. \A g \in Slot : KnowInv(g)'
  <2> TAKE g \in Slot
  <2>1. CASE g = f
    BY <2>1
  <2>2. CASE g # f
    <3>1. KnowInv(g) /\ pc'[g] = pc[g] /\ work'[g] = work[g] /\ log' = log /\ gone \subseteq gone'
      BY <2>2 DEF AgreeInv
    <3> QED BY <3>1, KnowStays
  <2> QED BY <2>1, <2>2
<1>2. BatchInv'
  <2> SUFFICES ASSUME NEW b \in flight, NEW g \in Slot, b.by = g
               PROVE  /\ pc'[g] = "sent"
                      /\ b.unread = work'[g].unread
                      /\ b.new = work'[g].unread \cup work'[g].answered
                      /\ b.again \subseteq work'[g].again
                      /\ work'[g].again \cap OnSheet' \subseteq b.again
    BY DEF BatchInv
  <2>1. pc[g] = "sent" /\ OnSheet' = OnSheet
    BY DEF AgreeInv, BatchInv, OnSheet
  <2>2. g # f
    BY <2>1
  <2> QED BY <2>1, <2>2 DEF AgreeInv, BatchInv
<1>3. TrackInv'
  <2>1. \A g \in Slot : Tracking(g) => Tracking(g)' /\ work'[g] = work[g]
    BY DEF Tracking
  <2> QED BY <2>1 DEF AgreeInv, TrackInv, AwaitsRetry
<1> QED BY <1>1, <1>2, <1>3 DEF AgreeInv

(* Agreement, step by step: the steps that gather and land nothing; *)
LEMMA AgreePlain ==
  ASSUME TypeOK, TypeOK', AgreeInv, NEW f \in Slot,
         \/ Start(f) \/ TakeLease(f) \/ Recheck(f) \/ ReadMap(f) \/ HistoryExpired(f) \/ Answered(f)
         \/ Refused(f) \/ SaveConnection(f) \/ RecordFailure(f) \/ MarkRevoked(f) \/ Release(f)
         \/ Outage(f)
  PROVE  AgreeInv'
<1>1. pc \in [Slot -> Step] /\ work \in [Slot -> Knowledge]
  BY DEF TypeOK
<1>2. /\ \A g \in Slot \ {f} : pc'[g] = pc[g] /\ work'[g] = work[g]
      /\ UNCHANGED <<log, gone, tracked, flight>>
  BY <1>1 DEF Start, TakeLease, Recheck, ReadMap, HistoryExpired, Answered, Refused, SaveConnection,
     RecordFailure, MarkRevoked, Release, Outage
<1>3. ASSUME pc'[f] \notin {"list", "relist"} \cup Writing PROVE KnowInv(f)'
  BY <1>3 DEF KnowInv, Writing
<1>4. CASE Start(f) \/ TakeLease(f) \/ Recheck(f) \/ SaveConnection(f) \/ RecordFailure(f)
           \/ MarkRevoked(f) \/ Release(f) \/ Outage(f)
  <2>1. /\ pc[f] \notin {"sent", "landed", "tracking"}
        /\ pc'[f] \notin {"list", "relist"} \cup Writing
    BY <1>1, <1>4 DEF Start, TakeLease, Recheck, SaveConnection, RecordFailure, MarkRevoked, Release,
       Outage, Writing
  <2> QED BY <1>2, <1>3, <2>1, AgreeAlone DEF Tracking
<1>5. CASE ReadMap(f)
  <2>1. /\ pc[f] = "leased"
        /\ \/ pc'[f] = "list" /\ work'[f].map = OnSheet
           \/ pc'[f] = "revoked"
    BY <1>1, <1>5 DEF ReadMap, Knowledge
  <2>2. OnSheet' = OnSheet
    BY <1>2 DEF OnSheet
  <2>3. KnowInv(f)'
    BY <2>1, <2>2 DEF KnowInv, Writing
  <2> QED BY <1>2, <2>1, <2>3, AgreeAlone DEF Tracking
<1>6. CASE HistoryExpired(f)
  <2>1. pc[f] = "list" /\ pc'[f] = "relist" /\ work'[f].map = work[f].map
    BY <1>1, <1>6 DEF HistoryExpired, Knowledge
  <2>2. OnSheet' = OnSheet
    BY <1>2 DEF OnSheet
  <2>3. KnowInv(f)'
    BY <2>1, <2>2 DEF KnowInv, Writing, AgreeInv
  <2> QED BY <1>2, <2>1, <2>3, AgreeAlone DEF Tracking
<1>7. CASE Answered(f)
  <2>1. pc[f] = "landed" /\ pc'[f] = "tracking" /\ work'[f] = work[f]
    BY <1>1, <1>7 DEF Answered
  <2>2. KnowInv(f)'
    BY <1>2, <2>1 DEF KnowInv, Writing, AgreeInv, Gathered, Settled
  <2> QED BY <1>2, <2>1, <2>2, AgreeAlone DEF Tracking
<1>8. CASE Refused(f)
  <2>1. pc[f] = "sent" /\ pc'[f] = "write" /\ work'[f] = work[f] /\ \A b \in flight : b.by # f
    BY <1>1, <1>8 DEF Refused
  <2>2. OnSheet' = OnSheet
    BY <1>2 DEF OnSheet
  <2>3. KnowInv(f)'
    BY <1>2, <2>1, <2>2 DEF KnowInv, Writing, AgreeInv, Gathered, Settled
  <2> QED BY <1>2, <2>1, <2>3, AgreeAlone DEF Tracking
<1> QED BY <1>4, <1>5, <1>6, <1>7, <1>8

(* What a fire asks again is due and on its sheet; how each try is recorded. *)
LEMMA TryRecorded ==
  ASSUME TypeOK, NEW f \in Slot, NEW m \in Due, NEW answered
  PROVE  /\ NextTry(f, m, answered).due => m \in work[f].map /\ m \notin gone /\ m \notin answered
         /\ \/ m \in gone \/ m \notin work[f].map \/ m \in answered
            \/ NextTry(f, m, answered).due
            \/ NextTry(f, m, answered).attempts = 1 + MAX_RETRIES
<1>1. m \in Mail /\ tracked[m].due /\ tracked[m] \in Tries
  BY DEF TypeOK, Due
<1>2. tracked[m].attempts \in 0 .. MAX_RETRIES
  BY <1>1 DEF Tries
<1>3. CASE m \notin work[f].map \/ m \in gone
  BY <1>3 DEF NextTry
<1>4. CASE ~(m \notin work[f].map \/ m \in gone)
  <2> DEFINE n == tracked[m].attempts + 1
             due == m \notin answered /\ n < 1 + MAX_RETRIES
  <2>1. NextTry(f, m, answered) = [attempts |-> n, due |-> due]
    BY <1>4 DEF NextTry
  <2>2. due <=> m \notin answered /\ n < 1 + MAX_RETRIES
    OBVIOUS
  <2>3. n <= 1 + MAX_RETRIES /\ n \in Int
    BY <1>2
  <2> HIDE DEF n, due
  <2> QED BY <1>4, <2>1, <2>2, <2>3
<1> QED BY <1>3, <1>4

(* what a listing gathers; *)
LEMMA AgreeGather ==
  ASSUME TypeOK, TypeOK', LeaseInv, AgreeInv, NEW f \in Slot, pc[f] \in {"list", "relist"},
         NEW new \in SUBSET Mail, NEW all \in BOOLEAN, NEW point \in History,
         Gather(f, new, all, point)
  PROVE  AgreeInv'
<1>0. /\ pc \in [Slot -> Step] /\ work \in [Slot -> Knowledge] /\ KnowInv(f)
      /\ pc' = [pc EXCEPT ![f] = "write"]
      /\ UNCHANGED <<mailVars, storeVars, sheetVars, trouble, forgotten, behind>>
  BY DEF TypeOK, AgreeInv, Gather
<1>1. PICK retried \in SUBSET Due, down \in 0 .. work[f].bf :
        \E answered \in SUBSET (Taken(f, new \cup (down + 1 .. work[f].bf)) \cup
                               {m \in retried : m \in work[f].map /\ m \notin gone}) :
          work' = [work EXCEPT ![f] =
            [work[f] EXCEPT !.unread = Taken(f, new \cup (down + 1 .. work[f].bf)) \ answered,
                      !.answered = answered \cap Taken(f, new \cup (down + 1 .. work[f].bf)),
                      !.again = answered \cap {m \in retried : m \in work[f].map /\ m \notin gone},
                      !.tries = [m \in retried |-> NextTry(f, m, answered)],
                      !.save = SaveIfAll(all, point), !.bf = Cursor(work[f].bf, down),
                      !.point = Blank.point, !.map = {}, !.fresh = 0]]
  BY DEF Gather
<1> DEFINE taken == Taken(f, new \cup (down + 1 .. work[f].bf))
           asked == {m \in retried : m \in work[f].map /\ m \notin gone}
<1>2. PICK answered \in SUBSET (taken \cup asked) :
          work' = [work EXCEPT ![f] =
            [work[f] EXCEPT !.unread = taken \ answered, !.answered = answered \cap taken,
                      !.again = answered \cap asked,
                      !.tries = [m \in retried |-> NextTry(f, m, answered)],
                      !.save = SaveIfAll(all, point), !.bf = Cursor(work[f].bf, down),
                      !.point = Blank.point, !.map = {}, !.fresh = 0]]
  BY <1>1
<1>3. /\ work'[f].unread = taken \ answered /\ work'[f].answered = answered \cap taken
      /\ work'[f].again = answered \cap asked
      /\ work'[f].tries = [m \in retried |-> NextTry(f, m, answered)]
      /\ \A g \in Slot \ {f} : pc'[g] = pc[g] /\ work'[g] = work[g]
      /\ pc'[f] = "write"
  BY <1>0, <1>2 DEF Knowledge
<1>4. taken \cap work[f].map = {} /\ taken \cap gone = {} /\ OnSheet \subseteq work[f].map
  BY <1>0 DEF Taken, KnowInv
<1>5. \A m \in retried : m \in gone \/ (log[m] = "review" /\ m \in work[f].map)
  <2> SUFFICES ASSUME NEW m \in retried, m \notin gone
               PROVE  log[m] = "review" /\ m \in work[f].map
    OBVIOUS
  <2>1. m \in Mail /\ tracked[m].due
    BY DEF Due
  <2>2. \A g \in Slot : ~Tracking(g)
    BY DEF LeaseInv, HasToken, Active, Tracking, Writing
  <2>3. log[m] = "review"
    BY <2>1, <2>2 DEF AgreeInv, TrackInv
  <2> QED BY <1>4, <2>1, <2>3 DEF OnSheet
<1> HIDE DEF taken
<1>6. /\ work'[f].unread \cap work'[f].answered = {}
      /\ Gathered(f)' = taken
      /\ Gathered(f)' \cap DOMAIN work'[f].tries = {}
      /\ work'[f].again \subseteq DOMAIN work'[f].tries
      /\ Gathered(f)' \cap OnSheet = {}
  BY <1>3, <1>4, <1>5 DEF Gathered
<1>7. ASSUME NEW m \in retried
      PROVE  /\ work'[f].tries[m].due => (log[m] = "review" \/ m \in gone) /\ m \notin work'[f].again
             /\ m \notin work'[f].again => Settled(m, work'[f].tries[m])
  <2>1. work'[f].tries[m] = NextTry(f, m, answered) /\ m \in Due
    BY <1>3
  <2> QED BY <1>3, <1>5, <2>1, TryRecorded DEF Settled
<1>8. OnSheet' = OnSheet /\ log' = log /\ gone' = gone
  BY <1>0 DEF OnSheet
<1>9. DOMAIN work'[f].tries = retried
  BY <1>3
<1>10. KnowInv(f)'
  BY <1>3, <1>6, <1>7, <1>8, <1>9 DEF KnowInv, Writing, Settled
<1> QED BY <1>0, <1>3, <1>10, AgreeAlone DEF Tracking

(* the listings; *)
LEMMA AgreeListing ==
  ASSUME TypeOK, TypeOK', LeaseInv, AgreeInv, NEW f \in Slot, ListHistory(f) \/ Relist(f)
  PROVE  AgreeInv'
<1>0. /\ arrived \in History /\ work[f] \in Knowledge
      /\ \A i \in History, j \in History : i + 1 .. j \subseteq Mail
  BY DEF TypeOK, History, Mail
<1>1. CASE ListHistory(f)
  <2>1. PICK to \in work[f].point.id .. arrived :
          Gather(f, work[f].point.id + 1 .. to, to = arrived, arrived)
    BY <1>1 DEF ListHistory
  <2>2. work[f].point.id \in History /\ to \in History /\ pc[f] = "list"
    BY <1>0, <1>1 DEF Knowledge, History, ListHistory
  <2>3. work[f].point.id + 1 .. to \in SUBSET Mail /\ (to = arrived) \in BOOLEAN
    BY <1>0, <2>2
  <2> QED BY <1>0, <2>1, <2>2, <2>3, AgreeGather
<1>2. CASE Relist(f)
  <2>1. PICK downTo \in LastComplete(f) .. arrived :
          Gather(f, downTo + 1 .. arrived, downTo = LastComplete(f), work[f].fresh)
    BY <1>2 DEF Relist
  <2>2. downTo \in History /\ work[f].fresh \in History /\ pc[f] = "relist"
    BY <1>0, <1>2 DEF Knowledge, History, LastComplete, Relist
  <2>3. downTo + 1 .. arrived \in SUBSET Mail /\ (downTo = LastComplete(f)) \in BOOLEAN
    BY <1>0, <2>2
  <2> QED BY <2>1, <2>2, <2>3, AgreeGather
<1> QED BY <1>1, <1>2

(* The rest of a step of f: what others know stays, whatever happens to the *)
(* batches, if those still in flight are other fires' own.                   *)
LEMMA AgreeOthers ==
  ASSUME TypeOK, TypeOK', AgreeInv, NEW f \in Slot,
         \A g \in Slot \ {f} : pc'[g] = pc[g] /\ work'[g] = work[g],
         UNCHANGED <<log, gone>>, KnowInv(f)',
         \A b \in flight', g \in Slot : b.by = g => b \in flight /\ g # f
  PROVE  BatchInv' /\ \A g \in Slot : KnowInv(g)'
<1>1. \A g \in Slot : KnowInv(g)'
  <2> TAKE g \in Slot
  <2>1. CASE g = f
    BY <2>1
  <2>2. CASE g # f
    <3>1. KnowInv(g) /\ pc'[g] = pc[g] /\ work'[g] = work[g] /\ log' = log /\ gone \subseteq gone'
      BY <2>2 DEF AgreeInv
    <3> QED BY <3>1, KnowStays
  <2> QED BY <2>1, <2>2
<1>2. OnSheet' = OnSheet
  BY DEF OnSheet
<1>3. BatchInv'
  BY <1>2 DEF AgreeInv, BatchInv
<1> QED BY <1>1, <1>3

(* the batches of a fire that is over are another's; *)
LEMMA KeptBatches ==
  ASSUME TypeOK, NEW f \in Slot, NEW b \in Drop(f) \cup SetAdrift(f), NEW g \in Slot, b.by = g
  PROVE  b \in flight /\ g # f
<1>1. CASE b \in Drop(f)
  BY <1>1 DEF Drop
<1>2. CASE b \in SetAdrift(f)
  <2>1. PICK c \in flight : b = [c EXCEPT !.by = IF c.by = f THEN None ELSE c.by]
    BY <1>2 DEF SetAdrift
  <2>2. c \in Batch /\ g # None
    BY DEF TypeOK
  <2>3. b.by = IF c.by = f THEN None ELSE c.by
    BY <2>1, <2>2 DEF Batch
  <2>4. c.by # f
    BY <2>2, <2>3
  <2>5. b = c
    BY <2>1, <2>2, <2>4 DEF Batch
  <2> QED BY <2>4, <2>5
<1> QED BY <1>1, <1>2

(* the ways out; *)
LEMMA AgreeLeaving ==
  ASSUME TypeOK, TypeOK', AgreeInv, ~behind', NEW f \in Slot,
         LeaseLost(f) \/ GiveUp(f) \/ Crash(f)
  PROVE  AgreeInv'
<1>1. pc \in [Slot -> Step] /\ work \in [Slot -> Knowledge]
  BY DEF TypeOK
<1>2. /\ \A g \in Slot \ {f} : pc'[g] = pc[g] /\ work'[g] = work[g]
      /\ UNCHANGED <<log, gone, tracked>>
      /\ flight' = Drop(f) \/ flight' = SetAdrift(f)
      /\ pc'[f] \in {"idle", "failed", "unreachable"}
  BY <1>1 DEF LeaseLost, GiveUp, Crash
<1>3. pc[f] \notin {"landed", "tracking"}
  BY DEF LeaseLost, GiveUp, Crash
<1>4. KnowInv(f)'
  BY <1>2 DEF KnowInv, Writing
<1>5. \A b \in flight', g \in Slot : b.by = g => b \in flight /\ g # f
  BY <1>2, KeptBatches
<1>6. TrackInv'
  <2>1. \A g \in Slot : Tracking(g) => Tracking(g)' /\ work'[g] = work[g]
    BY <1>2, <1>3 DEF Tracking
  <2> QED BY <1>2, <2>1 DEF AgreeInv, TrackInv, AwaitsRetry
<1> QED BY <1>2, <1>4, <1>5, <1>6, AgreeOthers DEF AgreeInv

(* The batch: nothing else has come on the sheet since it was listed. *)
LEMMA AgreeWriting ==
  ASSUME TypeOK, TypeOK', AgreeInv, NEW f \in Slot, WriteRows(f)
  PROVE  AgreeInv'
<1> DEFINE b == [by |-> f, new |-> FreshlyAbsent(f), unread |-> work[f].unread,
                 again |-> work[f].again \cap OnSheet]
<1>1. /\ pc \in [Slot -> Step] /\ work \in [Slot -> Knowledge] /\ KnowInv(f) /\ pc[f] = "write"
      /\ work[f] \in Knowledge
  BY DEF TypeOK, AgreeInv, WriteRows
<1>2. /\ UNCHANGED <<log, gone, tracked>>
      /\ \/ Leave(f) /\ flight' = flight
         \/ Goto(f, "tracking") /\ work' = work /\ flight' = flight /\ FreshlyAbsent(f) = {}
            /\ work[f].again \cap OnSheet = {}
         \/ Goto(f, "sent") /\ work' = work /\ flight' = flight \cup {b}
  BY DEF WriteRows, Writes, FreshlyAbsent
<1>3. \A g \in Slot \ {f} : pc'[g] = pc[g] /\ work'[g] = work[g]
  BY <1>1, <1>2
<1>4. FreshlyAbsent(f) = Gathered(f) /\ Gathered(f) \cap OnSheet = {}
  BY <1>1 DEF FreshlyAbsent, KnowInv, Gathered
<1>5. \A c \in flight : c.by # f
  BY <1>1 DEF AgreeInv, BatchInv
<1>6. OnSheet' = OnSheet
  BY <1>2 DEF OnSheet
<1>7. TrackInv'
  <2>1. \A g \in Slot : Tracking(g) => Tracking(g)' /\ work'[g] = work[g]
    BY <1>1, <1>3 DEF Tracking
  <2> QED BY <1>2, <2>1 DEF AgreeInv, TrackInv, AwaitsRetry
<1>8. CASE Leave(f) /\ flight' = flight
  <2>1. KnowInv(f)'
    BY <1>1, <1>8 DEF KnowInv, Writing
  <2> QED BY <1>2, <1>3, <1>5, <1>7, <1>8, <2>1, AgreeOthers DEF AgreeInv
<1>9. CASE /\ Goto(f, "tracking") /\ work' = work /\ flight' = flight /\ FreshlyAbsent(f) = {}
           /\ work[f].again \cap OnSheet = {}
  <2>1. pc'[f] = "tracking" /\ work'[f] = work[f] /\ Gathered(f) = {}
    BY <1>1, <1>4, <1>9
  <2>2. \A m \in work[f].again : log[m] # "review"
    BY <1>1, <1>9 DEF OnSheet, Knowledge
  <2>3. KnowInv(f)'
    BY <1>1, <1>2, <2>1, <2>2 DEF KnowInv, Writing, Gathered, Settled
  <2> QED BY <1>2, <1>3, <1>5, <1>7, <1>9, <2>3, AgreeOthers DEF AgreeInv
<1>10. CASE Goto(f, "sent") /\ work' = work /\ flight' = flight \cup {b}
  <2>1. pc'[f] = "sent" /\ work'[f] = work[f]
    BY <1>1, <1>10
  <2>2. KnowInv(f)'
    BY <1>1, <1>2, <1>6, <2>1 DEF KnowInv, Writing, Gathered, Settled
  <2>3. \A g \in Slot : KnowInv(g)'
    <3> TAKE g \in Slot
    <3>1. CASE g = f
      BY <2>2, <3>1
    <3>2. CASE g # f
      <4>1. KnowInv(g) /\ pc'[g] = pc[g] /\ work'[g] = work[g] /\ log' = log /\ gone \subseteq gone'
        BY <1>2, <1>3, <3>2 DEF AgreeInv
      <4> QED BY <4>1, KnowStays
    <3> QED BY <3>1, <3>2
  <2>4. BatchInv'
    <3> SUFFICES ASSUME NEW c \in flight', NEW g \in Slot, c.by = g
                 PROVE  /\ pc'[g] = "sent"
                        /\ c.unread = work'[g].unread
                        /\ c.new = work'[g].unread \cup work'[g].answered
                        /\ c.again \subseteq work'[g].again
                        /\ work'[g].again \cap OnSheet' \subseteq c.again
      BY DEF BatchInv
    <3>1. CASE c = b
      BY <1>4, <1>6, <2>1, <3>1 DEF Gathered
    <3>2. CASE c # b
      <4>1. c \in flight /\ g # f
        BY <1>5, <1>10, <3>2
      <4> QED BY <1>3, <1>6, <4>1 DEF AgreeInv, BatchInv
    <3> QED BY <3>1, <3>2
  <2> QED BY <1>7, <2>3, <2>4 DEF AgreeInv
<1> QED BY <1>2, <1>8, <1>9, <1>10

(* It lands: the rows of its mails appear, those it answered are read. *)
LEMMA AgreeLanding ==
  ASSUME TypeOK, TypeOK', LeaseInv, AgreeInv, ~behind', NEW b \in flight, Land(b)
  PROVE  AgreeInv'
<1>1. PICK f \in Slot : b.by = f
  BY DEF Land, TypeOK, Batch
<1>2. /\ pc \in [Slot -> Step] /\ work[f] \in Knowledge /\ f # None
      /\ log \in [Mail -> {"absent", "review", "read"}]
  BY DEF TypeOK
<1>3. /\ pc[f] = "sent" /\ b.unread = work[f].unread /\ b.new = Gathered(f)
      /\ b.again \subseteq work[f].again /\ work[f].again \cap OnSheet \subseteq b.again
  BY <1>1 DEF AgreeInv, BatchInv, Gathered
<1>4. /\ pc' = [pc EXCEPT ![f] = "landed"] /\ work' = work /\ flight' = {}
      /\ UNCHANGED <<gone, tracked>>
      /\ log' = [m \in Mail |->
                   IF m \in b.new THEN (IF m \in b.unread THEN "review" ELSE "read")
                   ELSE IF m \in b.again \cap OnSheet THEN "read" ELSE log[m]]
  BY <1>1, <1>2, <1>3 DEF Land
<1>5. \A g \in Slot : Active(g) => g = f
  BY <1>3 DEF LeaseInv, HasToken, Active, Writing
<1>6. /\ KnowInv(f) /\ pc'[f] = "landed" /\ work'[f] = work[f]
      /\ work[f].unread \subseteq Mail /\ work[f].answered \subseteq Mail /\ work[f].again \subseteq Mail
      /\ DOMAIN work[f].tries \subseteq Mail
  BY <1>2, <1>4 DEF AgreeInv, Knowledge, Bookkeeping
<1>7. /\ \A m \in work[f].unread : log'[m] = "review"
      /\ \A m \in work[f].answered : log'[m] = "read"
      /\ \A m \in work[f].again : log'[m] # "review"
      /\ \A m \in Mail \ (Gathered(f) \cup work[f].again) : log'[m] = log[m]
  <2>1. /\ work[f].unread \cap work[f].answered = {}
        /\ Gathered(f) \cap DOMAIN work[f].tries = {} /\ work[f].again \subseteq DOMAIN work[f].tries
    BY <1>3, <1>6 DEF KnowInv, Writing
  <2>2. \A m \in work[f].unread \cup work[f].answered : m \in b.new
    BY <1>3 DEF Gathered
  <2>3. \A m \in work[f].again : m \notin b.new
    BY <1>3, <2>1
  <2>4. \A m \in work[f].again : log'[m] # "review"
    <3> TAKE m \in work[f].again
    <3>1. CASE m \in OnSheet
      BY <1>3, <1>4, <1>6, <2>3, <3>1
    <3>2. CASE m \notin OnSheet
      BY <1>4, <1>6, <2>3, <3>2 DEF OnSheet
    <3> QED BY <3>1, <3>2
  <2>5. \A m \in Mail \ (Gathered(f) \cup work[f].again) : log'[m] = log[m]
    BY <1>3, <1>4
  <2> QED BY <1>3, <1>4, <1>6, <2>1, <2>2, <2>4, <2>5
<1>8. KnowInv(f)'
  <2>1. \A m \in DOMAIN work[f].tries : work[f].tries[m].due => log'[m] = "review" \/ m \in gone
    <3> SUFFICES ASSUME NEW m \in DOMAIN work[f].tries, work[f].tries[m].due
                 PROVE  log'[m] = "review" \/ m \in gone
      OBVIOUS
    <3>1. m \notin Gathered(f) /\ m \notin work[f].again /\ (log[m] = "review" \/ m \in gone)
      BY <1>3, <1>6 DEF KnowInv, Writing
    <3> QED BY <1>6, <1>7, <3>1
  <2>2. \A m \in work[f].answered \cup work[f].again : log'[m] # "review"
    BY <1>7
  <2> QED BY <1>3, <1>4, <1>6, <1>7, <2>1, <2>2 DEF KnowInv, Writing, Gathered, Settled
<1>9. \A g \in Slot : KnowInv(g)'
  <2> TAKE g \in Slot
  <2>1. CASE g = f
    BY <1>8, <2>1
  <2>2. CASE g # f
    <3>1. ~Active(g) /\ pc'[g] = pc[g]
      BY <1>2, <1>4, <1>5, <2>2
    <3> QED BY <3>1 DEF KnowInv, Active, Writing
  <2> QED BY <2>1, <2>2
<1>10. BatchInv'
  BY <1>4 DEF BatchInv
<1>11. TrackInv'
  <2>0. Tracking(f)' /\ \A g \in Slot : ~Tracking(g)
    BY <1>3, <1>5, <1>6 DEF Tracking, Active, Writing
  <2> SUFFICES ASSUME NEW m \in Mail, m \notin gone
               PROVE  /\ log'[m] = "review" =>
                           AwaitsRetry(m) \/ m \in work[f].unread
                      /\ tracked[m].due => log'[m] = "review" \/ m \in work[f].again
    BY <1>4, <1>6, <2>0 DEF TrackInv, AwaitsRetry
  <2>1. /\ log[m] = "review" => AwaitsRetry(m)
        /\ tracked[m].due => log[m] = "review"
    BY <2>0 DEF AgreeInv, TrackInv
  <2>2. m \in Gathered(f) => log[m] = "absent"
    BY <1>3, <1>6 DEF KnowInv, OnSheet
  <2>3. CASE m \in Gathered(f) \cup work[f].again
    BY <1>7, <2>1, <2>2, <2>3 DEF Gathered
  <2>4. CASE m \notin Gathered(f) \cup work[f].again
    BY <1>7, <2>1, <2>4
  <2> QED BY <2>3, <2>4
<1> QED BY <1>9, <1>10, <1>11 DEF AgreeInv

(* The tracking catches up with the sheet. *)
LEMMA AgreeTracking ==
  ASSUME TypeOK, TypeOK', LeaseInv, AgreeInv, NEW f \in Slot, SaveTracking(f)
  PROVE  AgreeInv'
<1>1. /\ pc \in [Slot -> Step] /\ KnowInv(f) /\ pc[f] = "tracking" /\ pc'[f] = "saving"
      /\ work' = work /\ UNCHANGED <<log, gone, flight>>
      /\ \A g \in Slot \ {f} : pc'[g] = pc[g]
  BY DEF TypeOK, AgreeInv, SaveTracking
<1>2. \A m \in Mail : tracked'[m] =
        IF m \in DOMAIN work[f].tries THEN work[f].tries[m]
        ELSE IF m \in Gathered(f)
             THEN [attempts |-> 1, due |-> m \in work[f].unread /\ 1 < 1 + MAX_RETRIES]
             ELSE tracked[m]
  BY DEF SaveTracking, FirstTries, Gathered
<1>3. \A g \in Slot : Active(g) => g = f
  BY <1>1 DEF LeaseInv, HasToken, Active, Writing
<1>4. KnowInv(f)'
  BY <1>1 DEF KnowInv, Writing
<1>5. \A b \in flight', g \in Slot : b.by = g => b \in flight /\ g # f
  BY <1>1 DEF AgreeInv, BatchInv
<1>6. BatchInv' /\ \A g \in Slot : KnowInv(g)'
  <2>1. \A g \in Slot \ {f} : pc'[g] = pc[g] /\ work'[g] = work[g]
    BY <1>1
  <2> QED BY <1>1, <1>4, <1>5, <2>1, AgreeOthers
<1>7. TrackInv'
  <2> SUFFICES ASSUME NEW m \in Mail, m \notin gone
               PROVE  /\ log[m] = "review" => AwaitsRetry(m)'
                      /\ tracked'[m].due => log[m] = "review"
    BY <1>1 DEF TrackInv
  <2>1. \A g \in Slot : Tracking(g) => g = f
    BY <1>3 DEF Active, Tracking, Writing
  <2>2. CASE m \in DOMAIN work[f].tries
    <3>1. tracked'[m] = work[f].tries[m]
      BY <1>2, <2>2
    <3> QED BY <1>1, <2>2, <3>1 DEF KnowInv, Writing, Settled, AwaitsRetry
  <2>3. CASE m \notin DOMAIN work[f].tries /\ m \in Gathered(f)
    <3> DEFINE due == m \in work[f].unread /\ 1 < 1 + MAX_RETRIES
    <3>1. tracked'[m] = [attempts |-> 1, due |-> due]
      BY <1>2, <2>3
    <3>2. /\ m \in work[f].unread => log[m] = "review"
          /\ m \notin work[f].unread => log[m] # "review"
      BY <1>1, <2>3 DEF KnowInv, Gathered
    <3>3. m \in work[f].unread => due \/ 1 = 1 + MAX_RETRIES
      OBVIOUS
    <3>4. due => m \in work[f].unread
      OBVIOUS
    <3> HIDE DEF due
    <3> QED BY <3>1, <3>2, <3>3, <3>4 DEF AwaitsRetry
  <2>4. CASE m \notin DOMAIN work[f].tries /\ m \notin Gathered(f)
    <3>1. tracked'[m] = tracked[m]
      BY <1>2, <2>4
    <3>2. m \notin work[f].unread /\ m \notin work[f].again
      BY <1>1, <2>4 DEF KnowInv, Writing, Gathered
    <3> QED BY <2>1, <3>1, <3>2 DEF AgreeInv, TrackInv, AwaitsRetry
  <2> QED BY <2>2, <2>3, <2>4
<1> QED BY <1>6, <1>7 DEF AgreeInv

(* everything else. *)
LEMMA AgreeOutside ==
  ASSUME TypeOK, TypeOK', AgreeInv, ~behind',
         \/ LeaseExpires \/ CoolOff \/ Arrive \/ RevokeAtGoogle \/ Disconnect \/ Connect
         \/ \E m \in Mail : DeleteMail(m) \/ RemoveRow(m)
         \/ UNCHANGED vars
  PROVE  AgreeInv'
<1>1. UNCHANGED <<pc, flight>> /\ gone \subseteq gone' /\ \A f \in Slot : work'[f] = work[f]
  <2>1. CASE Connect
    BY <2>1 DEF Connect
  <2>2. CASE ~Connect
    BY <2>2 DEF LeaseExpires, CoolOff, Arrive, RevokeAtGoogle, Disconnect, DeleteMail, RemoveRow,
       vars
  <2> QED BY <2>1, <2>2
<1>2. CASE log' = log
  <2>1. /\ \A m \in Mail : log[m] = "review" => tracked'[m] = tracked[m]
        /\ \A m \in Mail : tracked'[m].due => tracked'[m] = tracked[m]
    <3>1. CASE tracked' = tracked
      BY <3>1
    <3>2. CASE tracked' # tracked
      <4>1. Disconnect
        BY <3>2 DEF LeaseExpires, CoolOff, Arrive, RevokeAtGoogle, Connect, DeleteMail, RemoveRow,
           vars
      <4> QED BY <4>1 DEF Disconnect, Untracked
    <3> QED BY <3>1, <3>2
  <2>2. \A f \in Slot : KnowInv(f)'
    BY <1>1, <1>2, KnowStays DEF AgreeInv
  <2>3. OnSheet' = OnSheet
    BY <1>2 DEF OnSheet
  <2>4. BatchInv'
    BY <1>1, <2>3 DEF AgreeInv, BatchInv
  <2>5. TrackInv'
    BY <1>1, <1>2, <2>1 DEF AgreeInv, TrackInv, AwaitsRetry, Tracking
  <2> QED BY <2>2, <2>4, <2>5 DEF AgreeInv
<1>3. CASE log' # log
  <2>1. PICK m \in Mail : RemoveRow(m)
    BY <1>3 DEF LeaseExpires, CoolOff, Arrive, RevokeAtGoogle, Disconnect, Connect, DeleteMail, vars
  <2>2. /\ log[m] # "review" /\ UNCHANGED <<gone, tracked>>
        /\ \A n \in Mail : log'[n] = IF n = m THEN "absent" ELSE log[n]
    BY <2>1 DEF RemoveRow, TypeOK
  <2>3. OnSheet' \subseteq OnSheet /\ \A n \in Mail : log'[n] = "review" <=> log[n] = "review"
    BY <2>2 DEF OnSheet
  <2>4. ASSUME NEW f \in Slot PROVE KnowInv(f)'
    <3>1. work[f] \in Knowledge /\ KnowInv(f) /\ pc'[f] = pc[f] /\ work'[f] = work[f]
      BY <1>1 DEF TypeOK, AgreeInv
    <3>2. /\ work[f].unread \subseteq Mail /\ work[f].answered \subseteq Mail
          /\ work[f].again \subseteq Mail /\ DOMAIN work[f].tries \subseteq Mail
      BY <3>1 DEF Knowledge, Bookkeeping
    <3> QED BY <2>2, <2>3, <3>1, <3>2 DEF KnowInv, Gathered, Settled
  <2>5. BatchInv'
    BY <1>1, <2>3 DEF AgreeInv, BatchInv
  <2>6. TrackInv'
    BY <1>1, <2>2, <2>3 DEF AgreeInv, TrackInv, AwaitsRetry, Tracking
  <2> QED BY <2>4, <2>5, <2>6 DEF AgreeInv
<1> QED BY <1>2, <1>3

(* Every step keeps both. *)
LEMMA ReviewNext == TypeOK /\ TypeOK' /\ ReviewInv /\ [Next]_vars => ReviewInv'
<1> SUFFICES ASSUME TypeOK, TypeOK', LeaseInv, AgreeInv, [Next]_vars, ~behind'
             PROVE  LeaseInv' /\ AgreeInv'
  BY BehindStays DEF ReviewInv
<1>1. LeaseInv'
  BY LeaseNext
<1>2. ASSUME NEW f \in Slot, FireStep(f) \/ Recheck(f) \/ GiveUp(f) \/ Outage(f) \/ Crash(f)
      PROVE  AgreeInv'
  BY <1>2, AgreePlain, AgreeListing, AgreeWriting, AgreeLeaving, AgreeTracking DEF FireStep
<1>3. ASSUME NEW b \in flight, Land(b) PROVE AgreeInv'
  BY <1>3, AgreeLanding
<1>4. ASSUME \/ LeaseExpires \/ CoolOff \/ Arrive \/ RevokeAtGoogle \/ Disconnect \/ Connect
             \/ (\E m \in Mail : DeleteMail(m) \/ RemoveRow(m)) \/ UNCHANGED vars
      PROVE  AgreeInv'
  BY <1>4, AgreeOutside
<1>5. AgreeInv'
  BY <1>2, <1>3, <1>4 DEF Next
<1> QED BY <1>1, <1>5

(* At the start no row needs review. *)
LEMMA ReviewInit == Init => ReviewInv
<1> SUFFICES ASSUME Init PROVE LeaseInv /\ AgreeInv
  BY DEF ReviewInv
<1>1. LeaseInv
  BY DEF Init, LeaseInv, AtWork, HasToken, Active, Writing
<1>2. BatchInv /\ \A f \in Slot : KnowInv(f)
  BY DEF Init, BatchInv, KnowInv, Writing
<1>3. TrackInv
  BY DEF Init, TrackInv, Untracked
<1> QED BY <1>1, <1>2, <1>3 DEF AgreeInv

(* A row that needs review is asked again, at any time no fire runs, until   *)
(* its tries are used up or its mail is deleted: whatever the order in which *)
(* fires start, fail, are refused or die before their rows land, and         *)
(* whatever she deletes, unless a fire was stopped after its rows landed or  *)
(* outlived its lease, or she disconnected, connected while a fire was at    *)
(* work or removed a row that needs review (pipeline.connect, _persist,      *)
(* _tracking, _retry).                                                       *)
THEOREM ReviewRowsAreTracked == Spec => []ReviewRowsTracked
<1>1. Spec => []ReviewInv
  BY ReviewInit, ReviewNext, FireTypeOK, PTL DEF Spec
<1>2. ReviewInv => ReviewRowsTracked
  BY DEF ReviewInv, AgreeInv, TrackInv, ReviewRowsTracked, ReviewRowsBelongToRetry, Tracking
<1> QED BY <1>1, <1>2, PTL

=============================================================================
