-------------------------- MODULE SheetRowsProofs --------------------------
(* Proofs about SheetRows: the stamp, and what a batch does to the rows it  *)
(* was planned on (the facts about rows themselves are in SheetRowsOrder).  *)
EXTENDS SheetRowsOrder

(* The batches in flight were planned on the sequence the tab has now, and    *)
(* none of their callers has a stamp on it; nor has a caller that read that   *)
(* sequence and no stamp of its own. The sort is sent once.                   *)
ReadInv(p) ==
  pc[p] = "rows" => /\ saw[p].seq \in Nat /\ saw[p].seq <= sequence
                    /\ saw[p].seq = sequence /\ ~saw[p].own => ~Stamped(p)
SorterInv ==
  pc[Sorter] \in {"shape", "rows"} => ~Stamped(Sorter) /\ \A b \in flight : b.by # Sorter
StampInv ==
  /\ sequence \in Nat
  /\ DOMAIN pc = Proc /\ DOMAIN saw = Proc
  /\ \A b \in flight : b.on = sequence /\ ~Stamped(b.by)
  /\ \A p \in Proc : ReadInv(p)
  /\ SorterInv

(* At the start nothing is in flight and nothing has landed. *)
LEMMA StampInit == Init => StampInv
BY DEF Init, StampInv, ReadInv, SorterInv, Stamped, Proc

(* A step that lands nothing and only takes batches out of flight or puts in *)
(* one of a process that has not landed any.                                 *)
LEMMA NothingLands ==
  ASSUME StampInv, NEW p \in Proc, UNCHANGED <<sequence, landed>>,
         DOMAIN pc' = Proc, DOMAIN saw' = Proc,
         \A q \in Proc \ {p} : pc'[q] = pc[q] /\ saw'[q] = saw[q],
         pc'[p] = "rows" => saw'[p] = [seq |-> sequence, own |-> Stamped(p)],
         \A b \in flight' : b \in flight \/ (b.by = p /\ b.on = sequence /\ ~Stamped(p)),
         p = Sorter /\ pc'[p] \in {"shape", "rows"} => pc[p] = "shape" /\ flight' \subseteq flight
  PROVE  StampInv'
<1>1. \A q : Stamped(q)' <=> Stamped(q)
  BY DEF Stamped
<1>2. \A b \in flight' : b.on = sequence' /\ ~Stamped(b.by)'
  BY <1>1 DEF StampInv
<1>3. ASSUME NEW q \in Proc PROVE ReadInv(q)'
  <2>1. CASE q = p
    BY <1>1, <2>1 DEF ReadInv, StampInv
  <2>2. CASE q # p
    BY <1>1, <2>2 DEF ReadInv, StampInv
  <2> QED BY <2>1, <2>2
<1>4. SorterInv'
  <2>1. CASE p = Sorter
    BY <1>1, <2>1 DEF SorterInv, StampInv
  <2>2. CASE p # Sorter
    <3>1. pc'[Sorter] = pc[Sorter]
      BY <2>2 DEF Proc
    <3> QED BY <1>1, <2>2, <3>1 DEF SorterInv, StampInv
  <2> QED BY <2>1, <2>2
<1> QED BY <1>2, <1>3, <1>4 DEF StampInv

(* A landing takes the stamp, so that nothing else in flight can land, and *)
(* its caller had none.                                                    *)
LEMMA LandStamp ==
  ASSUME StampInv, NEW b \in flight, Land(b)
  PROVE  StampInv' /\ ~Stamped(b.by)
<1>1. /\ sequence' = sequence + 1 /\ landed' = landed \cup {<<b.by, b.try>>} /\ pc' = pc /\ saw' = saw
      /\ sequence \in Nat /\ b.on = sequence
  BY DEF Land, callVars, StampInv
<1>2. flight' = {}
  <2>1. flight' = {c \in flight \ {b} : c.on = sequence + 1}
    BY <1>1 DEF Land, MayLand
  <2> QED BY <1>1, <2>1 DEF StampInv
<1>3. \A p \in Proc : ReadInv(p)'
  BY <1>1 DEF ReadInv, StampInv
<1>4. SorterInv'
  <2>1. ASSUME pc[Sorter] \in {"shape", "rows"} PROVE ~Stamped(Sorter)'
    <3>1. ~Stamped(Sorter) /\ b.by # Sorter
      BY <2>1 DEF StampInv, SorterInv
    <3> QED BY <1>1, <3>1 DEF Stamped
  <2> QED BY <1>1, <1>2, <2>1 DEF SorterInv
<1> QED BY <1>1, <1>2, <1>3, <1>4 DEF StampInv

(* Every step keeps it. *)
LEMMA StampNext == StampInv /\ [Next]_vars => StampInv'
<1> SUFFICES ASSUME StampInv, [Next]_vars PROVE StampInv'
  OBVIOUS
<1>0. SheetAssumption /\ DOMAIN pc = Proc /\ DOMAIN saw = Proc
  BY SheetAssumption DEF StampInv
<1>1. ASSUME NEW c \in Call, NEW w \in Wants, Begin(c, w) PROVE StampInv'
  <2>1. /\ c \in Proc /\ c # Sorter /\ pc' = [pc EXCEPT ![c] = "shape"]
        /\ UNCHANGED <<sequence, landed, flight, saw>>
    BY <1>0, <1>1 DEF Begin, Goto, sheetVars, Proc
  <2> QED BY <1>0, <2>1, NothingLands
<1>2. ASSUME NEW p \in Proc, ReadShape(p) PROVE StampInv'
  <2>1. /\ UNCHANGED <<sequence, landed, flight>> /\ pc[p] = "shape"
        /\ \/ pc' = [pc EXCEPT ![p] = "over"] /\ saw' = saw
           \/ /\ pc' = [pc EXCEPT ![p] = "rows"]
              /\ saw' = [saw EXCEPT ![p] = [seq |-> sequence, own |-> Stamped(p)]]
    BY <1>2 DEF ReadShape, Over, Goto, SeenAs, sheetVars
  <2> QED BY <1>0, <2>1, NothingLands
<1>3. ASSUME NEW c \in Call, ReadRows(c) PROVE StampInv'
  <2> DEFINE b == Batch(c, want[c], rows, saw[c].seq)
  <2>1. /\ UNCHANGED <<sequence, landed>> /\ saw' = [saw EXCEPT ![c] = NothingSeen]
        /\ pc[c] = "rows" /\ c \in Proc /\ c # Sorter
        /\ \/ pc' = [pc EXCEPT ![c] = "over"] /\ flight' = flight
           \/ /\ pc' = [pc EXCEPT ![b.by] = "wait"] /\ ~saw[c].own
              /\ flight' = MayLand(flight \cup {b}, sequence)
    BY <1>0, <1>3 DEF ReadRows, Over, Send, Goto, sheetVars, Proc
  <2>2. b.by = c /\ b.on = saw[c].seq
    BY DEF Batch
  <2>3. ASSUME NEW x \in flight' PROVE x \in flight \/ (x.by = c /\ x.on = sequence /\ ~Stamped(c))
    <3> HIDE DEF b
    <3> QED BY <2>1, <2>2 DEF MayLand, StampInv, ReadInv
  <2> HIDE DEF b
  <2> QED BY <1>0, <2>1, <2>2, <2>3, NothingLands
<1>4. CASE ReadDates
  <2> DEFINE b == SortBatch(saw[Sorter].seq)
  <2>1. /\ UNCHANGED <<sequence, landed>> /\ saw' = [saw EXCEPT ![Sorter] = NothingSeen]
        /\ pc[Sorter] = "rows" /\ Sorter \in Proc
        /\ \/ pc' = [pc EXCEPT ![Sorter] = "mark"] /\ flight' = flight
           \/ pc' = [pc EXCEPT ![Sorter] = "over"] /\ flight' = flight
           \/ pc' = [pc EXCEPT ![b.by] = "wait"] /\ flight' = MayLand(flight \cup {b}, sequence)
    BY <1>4 DEF ReadDates, Over, Send, Goto, sheetVars, Proc
  <2>2. b.by = Sorter
    BY DEF SortBatch
  <2>3. ASSUME NEW x \in flight'
        PROVE  x \in flight \/ (x.by = Sorter /\ x.on = sequence /\ ~Stamped(Sorter))
    <3>1. ~Stamped(Sorter)
      BY <2>1 DEF StampInv, SorterInv
    <3> HIDE DEF b
    <3> QED BY <2>1, <2>2, <3>1 DEF MayLand
  <2> HIDE DEF b
  <2> QED BY <1>0, <2>1, <2>2, <2>3, NothingLands
<1>5. ASSUME NEW c \in Call, HearApplied(c) \/ HearRefused(c) \/ Unsure(c) PROVE StampInv'
  <2>1. /\ UNCHANGED <<sequence, landed, saw>> /\ flight' \subseteq flight /\ c \in Proc /\ c # Sorter
        /\ pc' = [pc EXCEPT ![c] = "over"] \/ pc' = [pc EXCEPT ![c] = "shape"]
    BY <1>0, <1>5 DEF HearApplied, HearRefused, Unsure, TryAgain, Over, Goto, sheetVars, Proc
  <2> QED BY <1>0, <2>1, NothingLands
<1>6. CASE HearSort \/ CheckOrder \/ MarkInOrder
  <2>1. /\ UNCHANGED <<sequence, landed, saw, flight>> /\ Sorter \in Proc
        /\ \/ pc' = [pc EXCEPT ![Sorter] = "over"] \/ pc' = [pc EXCEPT ![Sorter] = "check"]
           \/ pc' = [pc EXCEPT ![Sorter] = "mark"]
    BY <1>6 DEF HearSort, CheckOrder, MarkInOrder, Over, Goto, sheetVars, Proc
  <2> QED BY <1>0, <2>1, NothingLands
<1>7. CASE Personal \/ UNCHANGED vars
  <2>1. UNCHANGED <<sequence, landed, saw, flight, pc>>
    BY <1>7 DEF Personal, MoveRow, RemoveRow, WriteOnRow, TypeRow, Edit, callVars, sheetVars, vars
  <2>2. \A q : Stamped(q)' <=> Stamped(q)
    BY <2>1 DEF Stamped
  <2> QED BY <2>1, <2>2 DEF StampInv, ReadInv, SorterInv
<1>8. ASSUME NEW b \in flight, Land(b) PROVE StampInv'
  BY <1>8, LandStamp
<1> QED BY <1>1, <1>2, <1>3, <1>4, <1>5, <1>6, <1>7, <1>8 DEF Next, CallStep, SorterStep

(* Whatever answers are lost, late or refused, whoever holds the lease, and   *)
(* whatever the person does to the rows, no two batches of one write_rows     *)
(* call are ever applied (sheet_writer.write_rows, sheet_layout.rows_stamp).  *)
THEOREM NoBatchLandsTwice == Spec => OneBatchLands
<1>1. StampInv /\ [Next]_vars => [\A b \in flight : Land(b) => ~Stamped(b.by)]_vars
  BY LandStamp
<1> QED BY <1>1, StampInit, StampNext, PTL DEF Spec, OneBatchLands

-----------------------------------------------------------------------------
(* Types. A batch in flight is the sort or a plan of indices, of an attempt  *)
(* that the call may make, planned when the person had moved no more rows    *)
(* than she has now.                                                         *)
IsSent(b) ==
  /\ b.by \in Proc /\ b.try \in 1 .. WRITE_ATTEMPTS
  /\ b.sort \in BOOLEAN /\ b.moves \in Nat
  /\ b.sort => DOMAIN b.at = {} /\ DOMAIN b.again = {}
  /\ ~b.sort => IsBatch(b)
SheetType ==
  /\ rows \in Seq(Row)
  /\ sequence \in Nat /\ landed \subseteq Proc \X (1 .. WRITE_ATTEMPTS) /\ marked \in BOOLEAN
FlightType == \A b \in flight : IsSent(b) /\ b.moves <= moves
CallType ==
  /\ pc \in [Proc -> {"idle", "shape", "rows", "wait", "check", "mark", "over"}]
  /\ want \in [Call -> [Mail -> {"no", "review", "read", "again"}]]
  /\ attempt \in [Proc -> 1 .. WRITE_ATTEMPTS + 1]
  /\ saw \in [Proc -> [seq : Nat, own : BOOLEAN]]
  /\ refusal \in [Call -> Nat \cup {-1}]
  /\ \A c \in Call : pc[c] = "wait" => attempt[c] <= WRITE_ATTEMPTS
PersonType ==
  /\ edits \in 0 .. EditsCap /\ moves \in 0 .. edits
  /\ crossed \in BOOLEAN /\ reordered \in BOOLEAN
TypeInv == SheetType /\ FlightType /\ CallType /\ PersonType

(* At the start every variable has its type. *)
LEMMA TypeInit == Init => TypeInv
<1> SUFFICES ASSUME Init PROVE TypeInv
  OBVIOUS
<1>1. SheetType
  BY StartAssumption DEF Init, SheetType
<1>2. FlightType
  BY DEF Init, FlightType
<1>3. PersonType
  <2>1. EditsCap \in Nat
    BY SheetAssumption
  <2>2. edits = 0 /\ moves = 0 /\ crossed = FALSE /\ reordered = FALSE
    BY DEF Init
  <2>3. 0 \in 0 .. EditsCap /\ 0 \in 0 .. 0
    BY <2>1
  <2> QED BY <2>2, <2>3, Zenon DEF PersonType
<1>4. CallType
  BY SheetAssumption DEF Init, CallType, WantNothing, NothingSeen, Proc
<1> QED BY <1>1, <1>2, <1>3, <1>4 DEF TypeInv

(* The steps that do not touch the rows: the calls' and the sorter's own. *)
Quiet ==
  \/ \E c \in Call : CallStep(c)
  \/ \E p \in Proc : ReadShape(p)
  \/ SorterStep

(* They leave the sheet and the person's counters alone. *)
LEMMA QuietRows ==
  ASSUME Quiet
  PROVE  UNCHANGED <<rows, sequence, landed, edits, moves, crossed, reordered>>
BY DEF Quiet, CallStep, SorterStep, Begin, ReadShape, ReadRows, ReadDates, HearApplied, HearRefused,
       Unsure, TryAgain, HearSort, CheckOrder, MarkInOrder, sheetVars, personVars

(* What they put in flight was planned on the rows as they are. *)
LEMMA QuietFlight ==
  ASSUME TypeInv, Quiet, NEW b \in flight'
  PROVE  b \in flight \/ (IsSent(b) /\ b.moves = moves /\ (~b.sort => Fits(b, rows)))
<1>1. ASSUME NEW c \in Call, NEW w \in Wants, Begin(c, w) PROVE b \in flight
  BY <1>1 DEF Begin
<1>2. ASSUME NEW p \in Proc, ReadShape(p) PROVE b \in flight
  BY <1>2 DEF ReadShape
<1>3. ASSUME NEW c \in Call, ReadRows(c), b \notin flight
      PROVE  IsSent(b) /\ b.moves = moves /\ (~b.sort => Fits(b, rows))
  <2>1. b = Batch(c, want[c], rows, saw[c].seq) /\ ~(attempt[c] > WRITE_ATTEMPTS)
    BY <1>3 DEF ReadRows, Send, MayLand
  <2>2. rows \in Seq(Row)
    BY DEF TypeInv, SheetType
  <2>3. IsBatch(b) /\ Fits(b, rows) /\ ~b.sort
    BY <2>1, <2>2, PlannedFits
  <2>4. b.by = c /\ b.try = attempt[c] /\ b.moves = moves /\ b.sort = FALSE
    BY <2>1 DEF Batch
  <2>5. attempt[c] \in 1 .. WRITE_ATTEMPTS /\ moves \in Nat /\ c \in Proc
    BY <2>1, SheetAssumption DEF TypeInv, CallType, PersonType, Proc
  <2> QED BY <2>3, <2>4, <2>5 DEF IsSent
<1>4. ASSUME ReadDates, b \notin flight
      PROVE  IsSent(b) /\ b.moves = moves /\ (~b.sort => Fits(b, rows))
  <2>1. b = SortBatch(saw[Sorter].seq)
    BY <1>4 DEF ReadDates, Send, MayLand
  <2>2. /\ b.by = Sorter /\ b.try = 1 /\ b.moves = moves /\ b.sort = TRUE
        /\ DOMAIN b.at = {} /\ DOMAIN b.again = {}
    BY <2>1 DEF SortBatch
  <2>3. 1 \in 1 .. WRITE_ATTEMPTS /\ moves \in Nat /\ Sorter \in Proc
    BY SheetAssumption DEF TypeInv, PersonType, Proc
  <2> QED BY <2>2, <2>3 DEF IsSent
<1>5. ASSUME NEW c \in Call, HearApplied(c) \/ HearRefused(c) \/ Unsure(c) PROVE b \in flight
  BY <1>5 DEF HearApplied, HearRefused, Unsure
<1>6. CASE HearSort \/ CheckOrder \/ MarkInOrder
  BY <1>6 DEF HearSort, CheckOrder, MarkInOrder
<1> QED BY <1>1, <1>2, <1>3, <1>4, <1>5, <1>6 DEF Quiet, CallStep, SorterStep

(* A call that ends keeps the types, *)
LEMMA OverTypes ==
  ASSUME CallType, NEW p \in Proc, Over(p), saw' \in [Proc -> [seq : Nat, own : BOOLEAN]]
  PROVE  CallType'
<1>1. /\ pc' = [pc EXCEPT ![p] = "over"] /\ attempt' = [attempt EXCEPT ![p] = 1]
      /\ want' = IF p \in Call THEN [want EXCEPT ![p] = WantNothing] ELSE want
      /\ refusal' = IF p \in Call THEN [refusal EXCEPT ![p] = -1] ELSE refusal
  BY DEF Over, Goto
<1>2. WantNothing \in [Mail -> {"no", "review", "read", "again"}]
  BY DEF WantNothing
<1>3. want' \in [Call -> [Mail -> {"no", "review", "read", "again"}]]
  BY <1>1, <1>2 DEF CallType
<1>4. refusal' \in [Call -> Nat \cup {-1}]
  BY <1>1 DEF CallType
<1>5. attempt' \in [Proc -> 1 .. WRITE_ATTEMPTS + 1]
  BY <1>1, SheetAssumption DEF CallType
<1>6. pc' \in [Proc -> {"idle", "shape", "rows", "wait", "check", "mark", "over"}]
  BY <1>1 DEF CallType
<1>7. ASSUME NEW c \in Call, pc'[c] = "wait" PROVE attempt'[c] <= WRITE_ATTEMPTS
  <2>1. c \in Proc /\ c # p
    BY <1>1, <1>7 DEF Proc, CallType
  <2> QED BY <1>1, <1>7, <2>1 DEF CallType
<1> QED BY <1>3, <1>4, <1>5, <1>6, <1>7 DEF CallType

(* and so does one that goes on. *)
LEMMA GotoTypes ==
  ASSUME CallType, NEW p \in Proc, NEW l \in {"shape", "rows", "wait", "check", "mark"}, Goto(p, l),
         UNCHANGED <<want, attempt, refusal>>, saw' \in [Proc -> [seq : Nat, own : BOOLEAN]],
         p \in Call /\ l = "wait" => attempt[p] <= WRITE_ATTEMPTS
  PROVE  CallType'
<1>1. pc' = [pc EXCEPT ![p] = l]
  BY DEF Goto
<1>2. pc' \in [Proc -> {"idle", "shape", "rows", "wait", "check", "mark", "over"}]
  BY <1>1 DEF CallType
<1>3. ASSUME NEW c \in Call, pc'[c] = "wait" PROVE attempt'[c] <= WRITE_ATTEMPTS
  <2>1. c \in Proc
    BY DEF Proc
  <2> QED BY <1>1, <1>3, <2>1 DEF CallType
<1> QED BY <1>2, <1>3 DEF CallType

(* So do all of these steps. *)
LEMMA QuietCalls ==
  ASSUME TypeInv, Quiet
  PROVE  CallType' /\ marked' \in BOOLEAN
<1>0. CallType /\ sequence \in Nat /\ marked \in BOOLEAN /\ \A c \in Call : c \in Proc /\ c # Sorter
  BY SheetAssumption DEF TypeInv, SheetType, Proc
<1>a. Sorter \in Proc /\ \A p \in Proc : Stamped(p) \in BOOLEAN
  BY DEF Proc, Stamped
<1>b. saw \in [Proc -> [seq : Nat, own : BOOLEAN]]
  BY <1>0 DEF CallType
<1>c. ASSUME NEW p \in Proc PROVE [saw EXCEPT ![p] = NothingSeen] \in [Proc -> [seq : Nat, own : BOOLEAN]]
  BY <1>b DEF NothingSeen
<1>1. ASSUME NEW c \in Call, NEW w \in Wants, Begin(c, w) PROVE CallType' /\ marked' = marked
  <2>1. w \in [Mail -> {"no", "review", "read", "again"}]
    BY StartAssumption
  <2>2. /\ want' = [want EXCEPT ![c] = w] /\ pc' = [pc EXCEPT ![c] = "shape"]
        /\ UNCHANGED <<attempt, saw, refusal, marked>>
    BY <1>1 DEF Begin, Goto, sheetVars
  <2> QED BY <1>0, <2>1, <2>2 DEF CallType
<1>2. ASSUME NEW p \in Proc, ReadShape(p) PROVE CallType' /\ marked' = marked
  <2>1. marked' = marked
    BY <1>2 DEF ReadShape, sheetVars
  <2>2. CASE Over(p) /\ UNCHANGED saw
    BY <1>0, <1>b, <2>1, <2>2, OverTypes
  <2>3. CASE saw' = [saw EXCEPT ![p] = SeenAs(p)] /\ Goto(p, "rows") /\ UNCHANGED <<want, attempt, refusal>>
    <3>1. SeenAs(p) \in [seq : Nat, own : BOOLEAN]
      BY <1>0, <1>a DEF SeenAs
    <3>2. saw' \in [Proc -> [seq : Nat, own : BOOLEAN]]
      BY <1>b, <2>3, <3>1
    <3> QED BY <1>0, <2>1, <2>3, <3>2, GotoTypes
  <2> QED BY <1>2, <2>2, <2>3 DEF ReadShape
<1>3. ASSUME NEW c \in Call, ReadRows(c) PROVE CallType' /\ marked' = marked
  <2>1. marked' = marked /\ saw' \in [Proc -> [seq : Nat, own : BOOLEAN]]
    BY <1>0, <1>c, <1>3 DEF ReadRows, sheetVars
  <2>2. CASE Over(c)
    BY <1>0, <2>1, <2>2, OverTypes
  <2>3. CASE Goto(c, "wait") /\ UNCHANGED <<want, attempt, refusal>> /\ ~(attempt[c] > WRITE_ATTEMPTS)
    <3>1. attempt[c] <= WRITE_ATTEMPTS
      BY <1>0, <2>3, SheetAssumption DEF CallType
    <3> QED BY <1>0, <2>1, <2>3, <3>1, GotoTypes
  <2>4. Over(c) \/ (Goto(c, "wait") /\ UNCHANGED <<want, attempt, refusal>> /\ ~(attempt[c] > WRITE_ATTEMPTS))
    <3>1. Batch(c, want[c], rows, saw[c].seq).by = c
      BY DEF Batch
    <3> QED BY <1>3, <3>1 DEF ReadRows, Send
  <2> QED BY <2>2, <2>3, <2>4
<1>4. CASE ReadDates
  <2>1. marked' = marked /\ saw' \in [Proc -> [seq : Nat, own : BOOLEAN]]
    BY <1>a, <1>c, <1>4 DEF ReadDates, sheetVars
  <2>2. CASE Over(Sorter)
    BY <1>0, <1>a, <2>1, <2>2, OverTypes
  <2>3. ASSUME NEW l \in {"mark", "wait"}, Goto(Sorter, l), UNCHANGED <<want, attempt, refusal>>
        PROVE  CallType'
    BY <1>0, <1>a, <2>1, <2>3, GotoTypes
  <2>4. SortBatch(saw[Sorter].seq).by = Sorter
    BY DEF SortBatch
  <2>5. \/ Over(Sorter)
        \/ (Goto(Sorter, "mark") \/ Goto(Sorter, "wait")) /\ UNCHANGED <<want, attempt, refusal>>
    BY <1>4, <2>4 DEF ReadDates, Send
  <2> QED BY <1>0, <2>1, <2>2, <2>3, <2>5
<1>5. ASSUME NEW c \in Call, HearApplied(c) PROVE CallType' /\ marked' = marked
  BY <1>0, <1>b, <1>5, OverTypes DEF HearApplied, sheetVars
<1>6. ASSUME NEW c \in Call, HearRefused(c) \/ Unsure(c) PROVE CallType' /\ marked' = marked
  <2>1. PICK n \in Nat \cup {-1} : TryAgain(c, n)
    BY <1>0, <1>6 DEF HearRefused, Unsure
  <2>2. attempt[c] <= WRITE_ATTEMPTS /\ attempt[c] \in Nat /\ attempt[c] >= 1
    BY <1>0, <1>6, SheetAssumption DEF HearRefused, Unsure, CallType
  <2>3. /\ refusal' = [refusal EXCEPT ![c] = n] /\ attempt' = [attempt EXCEPT ![c] = attempt[c] + 1]
        /\ pc' = [pc EXCEPT ![c] = "shape"] /\ UNCHANGED <<want, saw, marked>>
    BY <2>1 DEF TryAgain, Goto, sheetVars
  <2>4. attempt' \in [Proc -> 1 .. WRITE_ATTEMPTS + 1]
    BY <1>0, <2>2, <2>3, SheetAssumption DEF CallType
  <2>5. ASSUME NEW x \in Call, pc'[x] = "wait" PROVE attempt'[x] <= WRITE_ATTEMPTS
    BY <1>0, <2>3, <2>5 DEF CallType
  <2> QED BY <1>0, <2>3, <2>4, <2>5 DEF CallType
<1>7. CASE HearSort
  <2>1. marked' = marked /\ saw' \in [Proc -> [seq : Nat, own : BOOLEAN]]
    BY <1>b, <1>7 DEF HearSort, sheetVars
  <2> QED BY <1>0, <1>a, <1>7, <2>1, OverTypes, GotoTypes DEF HearSort
<1>8. CASE CheckOrder \/ MarkInOrder
  <2>1. /\ pc' = [pc EXCEPT ![Sorter] = "mark"] \/ pc' = [pc EXCEPT ![Sorter] = "over"]
        /\ UNCHANGED <<want, attempt, saw, refusal>> /\ marked' \in {marked, TRUE}
    BY <1>8 DEF CheckOrder, MarkInOrder, Goto, sheetVars
  <2>2. ASSUME NEW x \in Call, pc'[x] = "wait" PROVE attempt'[x] <= WRITE_ATTEMPTS
    BY <1>0, <2>1, <2>2 DEF CallType
  <2> QED BY <1>0, <1>a, <2>1, <2>2 DEF CallType
<1> QED BY <1>0, <1>1, <1>2, <1>3, <1>4, <1>5, <1>6, <1>7, <1>8 DEF Quiet, CallStep, SorterStep

(* What each edit of the person does to the rows. *)
Moved == IsPermuted(rows', rows, Row) /\ moves' = moves + 1 /\ reordered' = TRUE
Removed(i) == IsRemoved(rows', rows, i, Row) /\ moves' = moves + 1 /\ reordered' = reordered
Typed(i) == IsTyped(rows', rows, i, HerRow, Row) /\ moves' = moves + 1 /\ reordered' = reordered
Written(i) == rows' = [rows EXCEPT ![i].noted = TRUE] /\ moves' = moves /\ reordered' = reordered

(* An edit is one of these, and leaves everything else alone. *)
LEMMA PersonRows ==
  ASSUME TypeInv, Personal
  PROVE  /\ \/ Moved
            \/ \E i \in 1 .. Len(rows) : Removed(i) \/ Written(i)
            \/ \E i \in 1 .. Len(rows) + 1 : Typed(i)
         /\ UNCHANGED <<sequence, landed, marked, flight, callVars, crossed>>
         /\ PersonType'
<1>0. rows \in Seq(Row) /\ PersonType
  BY DEF TypeInv, SheetType
<1>1. PICK n \in Nat : n = Len(rows) /\ DOMAIN rows = 1 .. n
  BY <1>0
<1>2. ASSUME NEW r, NEW moved \in BOOLEAN, NEW order \in BOOLEAN, Edit(r, moved, order)
      PROVE  /\ UNCHANGED <<sequence, landed, marked, flight, callVars, crossed>>
             /\ PersonType'
             /\ rows' = r
             /\ moves' = IF moved THEN moves + 1 ELSE moves
             /\ reordered' = (reordered \/ order)
  <2>1. EditsCap \in Nat
    BY SheetAssumption
  <2>2. /\ edits < EditsCap /\ edits' = edits + 1
        /\ moves' = IF moved THEN moves + 1 ELSE moves
        /\ reordered' = (reordered \/ order) /\ crossed' = crossed
    BY <1>2 DEF Edit
  <2>3. PersonType'
    BY <1>0, <2>1, <2>2 DEF PersonType
  <2> QED BY <1>2, <2>3 DEF Edit
<1>3. ASSUME NEW i \in 1 .. n, NEW j \in 1 .. n, MoveRow(i, j)
      PROVE  /\ Moved /\ PersonType'
             /\ UNCHANGED <<sequence, landed, marked, flight, callVars, crossed>>
  <2>1. PICK q : q = InsertAt(RemoveAt(rows, i), j, rows[i])
    OBVIOUS
  <2>2. IsPermuted(q, rows, Row)
    BY <1>0, <1>1, <2>1, RowMoved
  <2>3. Edit(q, TRUE, TRUE)
    BY <1>3, <2>1 DEF MoveRow
  <2> QED BY <1>2, <2>2, <2>3 DEF Moved
<1>4. ASSUME NEW i \in 1 .. n, RemoveRow(i)
      PROVE  /\ Removed(i) /\ PersonType'
             /\ UNCHANGED <<sequence, landed, marked, flight, callVars, crossed>>
  <2>1. PICK q : q = RemoveAt(rows, i)
    OBVIOUS
  <2>2. IsRemoved(q, rows, i, Row)
    BY <1>0, <1>1, <2>1, RowRemoved
  <2>3. Edit(q, TRUE, FALSE)
    BY <1>4, <2>1 DEF RemoveRow
  <2>4. reordered' = reordered
    BY <1>0, <1>2, <2>3 DEF PersonType
  <2> QED BY <1>2, <2>2, <2>3, <2>4 DEF Removed
<1>5. ASSUME NEW i \in 1 .. n + 1, TypeRow(i)
      PROVE  /\ Typed(i) /\ PersonType'
             /\ UNCHANGED <<sequence, landed, marked, flight, callVars, crossed>>
  <2>1. PICK q : q = InsertAt(rows, i, HerRow)
    OBVIOUS
  <2>2. IsTyped(q, rows, i, HerRow, Row)
    BY <1>0, <1>1, <2>1, RowTyped, HerRowIsARow
  <2>3. Edit(q, TRUE, FALSE)
    BY <1>5, <2>1 DEF TypeRow
  <2>4. reordered' = reordered
    BY <1>0, <1>2, <2>3 DEF PersonType
  <2> QED BY <1>2, <2>2, <2>3, <2>4 DEF Typed
<1>6. ASSUME NEW i \in 1 .. n, WriteOnRow(i)
      PROVE  /\ Written(i) /\ PersonType'
             /\ UNCHANGED <<sequence, landed, marked, flight, callVars, crossed>>
  <2>1. PICK q : q = [rows EXCEPT ![i].noted = TRUE]
    OBVIOUS
  <2>2. Edit(q, FALSE, FALSE)
    BY <1>6, <2>1 DEF WriteOnRow
  <2>3. reordered' = reordered
    BY <1>0, <1>2, <2>2 DEF PersonType
  <2> QED BY <1>2, <2>1, <2>2, <2>3 DEF Written
<1>7. \/ \E i, j \in 1 .. n : MoveRow(i, j)
      \/ \E i \in 1 .. n : RemoveRow(i) \/ WriteOnRow(i)
      \/ \E i \in 1 .. n + 1 : TypeRow(i)
  BY <1>1 DEF Personal
<1> QED BY <1>1, <1>3, <1>4, <1>5, <1>6, <1>7

(* The person's edits keep the types. *)
LEMMA PersonTypes ==
  ASSUME TypeInv, Personal
  PROVE  TypeInv'
<1>0. rows \in Seq(Row) /\ moves \in Nat /\ SheetAssumption
  BY SheetAssumption DEF TypeInv, SheetType, PersonType
<1>1. /\ UNCHANGED <<sequence, landed, marked, flight, callVars>> /\ PersonType'
      /\ moves' \in {moves, moves + 1}
  BY PersonRows DEF Moved, Removed, Written, Typed
<1>2. rows' \in Seq(Row)
  <2>1. ASSUME NEW i \in 1 .. Len(rows), rows' = [rows EXCEPT ![i].noted = TRUE] PROVE rows' \in Seq(Row)
    BY <1>0, <2>1, NotedLog DEF SameIds
  <2> QED BY <2>1, PersonRows DEF Moved, Removed, Written, Typed, IsPermuted, IsRemoved, IsTyped
<1>3. FlightType'
  <2>1. ASSUME NEW b \in flight PROVE b.moves <= moves'
    BY <1>0, <1>1 DEF TypeInv, FlightType, IsSent
  <2> QED BY <1>1, <2>1 DEF TypeInv, FlightType, IsSent
<1>4. SheetType' /\ CallType'
  BY <1>1, <1>2 DEF TypeInv, SheetType, CallType, callVars
<1> QED BY <1>1, <1>3, <1>4 DEF TypeInv

(* Landing: the tab's stamp is a new one, so nothing else planned before it *)
(* can land any more.                                                       *)
LEMMA LandTypes ==
  ASSUME TypeInv, StampInv, NEW b \in flight, Land(b)
  PROVE  /\ TypeInv' /\ flight' = {} /\ rows' = After(b, rows)
         /\ UNCHANGED <<marked, callVars, moves, reordered>>
         /\ ~crossed' => ~crossed /\ b.moves = moves
<1>1. /\ rows' = After(b, rows) /\ sequence' = sequence + 1 /\ landed' = landed \cup {<<b.by, b.try>>}
      /\ crossed' = (crossed \/ b.moves # moves) /\ flight' = MayLand(flight \ {b}, sequence')
      /\ UNCHANGED <<marked, callVars, edits, moves, reordered>>
  BY DEF Land
<1>2. flight' = {}
  <2>1. sequence \in Nat /\ \A c \in flight : c.on = sequence
    BY DEF StampInv
  <2> QED BY <1>1, <2>1 DEF MayLand
<1>3. IsSent(b) /\ rows \in Seq(Row)
  BY DEF TypeInv, FlightType, SheetType
<1>4. rows' \in Seq(Row)
  BY <1>1, <1>3, AfterRows DEF IsSent
<1>5. SheetType'
  BY <1>1, <1>3, <1>4 DEF TypeInv, SheetType, IsSent
<1>6. FlightType' /\ CallType' /\ PersonType'
  BY <1>1, <1>2 DEF TypeInv, FlightType, CallType, PersonType, callVars
<1> QED BY <1>1, <1>2, <1>5, <1>6 DEF TypeInv

(* A step is a quiet one, an edit, a landing or none. *)
LEMMA StepKinds == [Next]_vars <=> Quiet \/ Personal \/ (\E b \in flight : Land(b)) \/ UNCHANGED vars
BY DEF Next, Quiet

(* Every step keeps the types. *)
LEMMA TypeNext == TypeInv /\ StampInv /\ [Next]_vars => TypeInv'
<1> SUFFICES ASSUME TypeInv, StampInv, [Next]_vars PROVE TypeInv'
  OBVIOUS
<1>1. CASE Quiet
  <2>1. SheetType' /\ PersonType'
    BY <1>1, QuietRows, QuietCalls DEF TypeInv, SheetType, PersonType
  <2>2. FlightType'
    <3>1. moves' = moves /\ moves \in Nat
      BY <1>1, QuietRows DEF TypeInv, PersonType
    <3> QED BY <1>1, <3>1, QuietFlight DEF TypeInv, FlightType, IsSent
  <2> QED BY <1>1, <2>1, <2>2, QuietCalls DEF TypeInv
<1>2. CASE Personal
  BY <1>2, PersonTypes
<1>3. CASE \E b \in flight : Land(b)
  BY <1>3, LandTypes
<1>4. CASE UNCHANGED vars
  BY <1>4 DEF TypeInv, SheetType, FlightType, CallType, PersonType,
              vars, sheetVars, callVars, personVars
<1> QED BY <1>1, <1>2, <1>3, <1>4, StepKinds

(* They are those of TypeOK. *)
LEMMA TypeImplies == TypeInv /\ StampInv => TypeOK
<1> SUFFICES ASSUME TypeInv, StampInv PROVE TypeOK
  OBVIOUS
<1>1. \A i \in DOMAIN rows : rows[i] \in Row
  BY DEF TypeInv, SheetType
<1>2. \A b \in flight : b.by \in Proc /\ b.on = sequence
  BY DEF TypeInv, FlightType, IsSent, StampInv
<1> QED BY <1>1, <1>2 DEF TypeInv, SheetType, CallType, PersonType, TypeOK

(* Every variable of the row writer has its type in every state: in           *)
(* particular no call makes more attempts than sheet_writer.write_rows        *)
(* allows, and every batch that Sheets may still apply was planned on the     *)
(* stamp the tab carries now.                                                 *)
THEOREM RowsTypeOK == Spec => []TypeOK
<1>1. Init => TypeInv /\ StampInv
  BY TypeInit, StampInit
<1>2. TypeInv /\ StampInv /\ [Next]_vars => TypeInv' /\ StampInv'
  BY TypeNext, StampNext
<1> QED BY <1>1, <1>2, TypeImplies, PTL DEF Spec

-----------------------------------------------------------------------------
(* Until a batch lands on rows that were moved under it, no mail is on the   *)
(* tab twice; and every batch planned since her last move fits the rows.     *)
FitInv ==
  /\ ~crossed => Single(rows)
  /\ \A b \in flight : b.moves = moves /\ ~b.sort => Fits(b, rows)

(* At the start each mail is on one row, and nothing is planned. *)
LEMMA FitInit == Init => FitInv
<1> SUFFICES ASSUME Init PROVE FitInv
  OBVIOUS
<1>1. rows \in FirstSheets /\ flight = {}
  BY DEF Init
<1>2. Single(rows)
  BY <1>1, StartAssumption DEF Single
<1> QED BY <1>1, <1>2 DEF FitInv

(* Every step keeps it: a move unfits a batch and counts, a note changes no *)
(* id, a landing leaves nothing in flight.                                  *)
LEMMA FitNext == TypeInv /\ StampInv /\ FitInv /\ [Next]_vars => FitInv'
<1> SUFFICES ASSUME TypeInv, StampInv, FitInv, [Next]_vars PROVE FitInv'
  OBVIOUS
<1>0. rows \in Seq(Row) /\ moves \in Nat /\ \A b \in flight : IsSent(b) /\ b.moves <= moves
  BY DEF TypeInv, SheetType, FlightType, PersonType
<1>1. CASE Quiet
  <2>1. UNCHANGED <<rows, moves, crossed>>
    BY <1>1, QuietRows
  <2>2. \A b \in flight' : b.moves = moves /\ ~b.sort => Fits(b, rows)
    BY <1>1, QuietFlight DEF FitInv
  <2> QED BY <2>1, <2>2 DEF FitInv
<1>2. CASE Personal
  <2>1. flight' = flight /\ crossed' = crossed
    BY <1>2, PersonRows
  <2>2. ASSUME moves' = moves + 1 PROVE \A b \in flight' : b.moves # moves'
    BY <1>0, <2>1, <2>2 DEF IsSent
  <2>3. ASSUME Moved PROVE FitInv'
    <3>1. Single(rows) => Single(rows')
      BY <1>0, <2>3, PermutedLog DEF Moved
    <3> QED BY <2>1, <2>2, <2>3, <3>1 DEF FitInv, Moved
  <2>4. ASSUME NEW i \in 1 .. Len(rows), Removed(i) PROVE FitInv'
    <3>1. Single(rows) => Single(rows')
      BY <1>0, <2>4, RemovedLog DEF Removed
    <3> QED BY <2>1, <2>2, <2>4, <3>1 DEF FitInv, Removed
  <2>5. ASSUME NEW i \in 1 .. Len(rows) + 1, Typed(i) PROVE FitInv'
    <3>1. Single(rows) => Single(rows')
      BY <1>0, <2>5, TypedLog DEF Typed
    <3> QED BY <2>1, <2>2, <2>5, <3>1 DEF FitInv, Typed
  <2>6. ASSUME NEW i \in 1 .. Len(rows), Written(i) PROVE FitInv'
    <3>1. /\ rows' \in Seq(Row) /\ Len(rows') = Len(rows)
          /\ \A k \in 1 .. Len(rows) : rows'[k].id = rows[k].id
          /\ Single(rows) => Single(rows')
      <4>1. SameIds(rows', rows)
        BY <1>0, <2>6, NotedLog DEF Written
      <4>2. Single(rows) => Single(rows')
        BY <4>1 DEF SameIds, Single
      <4> QED BY <4>1, <4>2 DEF SameIds
    <3>2. \A b \in flight : IsBatch(b) /\ Fits(b, rows) => Fits(b, rows')
      BY <1>0, <3>1, SameIdsFit
    <3>3. moves' = moves
      BY <2>6 DEF Written
    <3> QED BY <1>0, <2>1, <3>1, <3>2, <3>3 DEF FitInv, IsSent
  <2> QED BY <1>2, <2>3, <2>4, <2>5, <2>6, PersonRows
<1>3. ASSUME NEW b \in flight, Land(b) PROVE FitInv'
  <2>1. flight' = {} /\ rows' = After(b, rows) /\ (~crossed' => ~crossed /\ b.moves = moves)
    BY <1>3, LandTypes
  <2>2. ASSUME ~crossed' PROVE Single(rows')
    <3>1. Single(rows) /\ (~b.sort => Fits(b, rows) /\ IsBatch(b))
      BY <1>0, <2>1, <2>2 DEF FitInv, IsSent
    <3>2. CASE b.sort
      <4>1. IsPermuted(Sorted(rows), rows, Row)
        BY <1>0, SortedRows
      <4>2. Single(Sorted(rows))
        BY <1>0, <3>1, <4>1, PermutedLog
      <4> QED BY <2>1, <3>2, <4>2 DEF After
    <3>3. CASE ~b.sort
      BY <1>0, <2>1, <3>1, <3>3, LandedLog
    <3> QED BY <3>2, <3>3
  <2> QED BY <2>1, <2>2 DEF FitInv
<1>4. CASE UNCHANGED vars
  BY <1>4 DEF FitInv, vars, sheetVars, personVars
<1> QED BY <1>1, <1>2, <1>3, <1>4, StepKinds

SentInv == TypeInv /\ StampInv /\ FitInv

(* All of it holds at the start, *)
LEMMA SentInit == Init => SentInv
BY TypeInit, StampInit, FitInit DEF SentInv

(* and every step keeps it. *)
LEMMA SentNext == SentInv /\ [Next]_vars => SentInv'
BY TypeNext, StampNext, FitNext DEF SentInv

(* The rows that sheet_writer.write_rows reports for the mails of its batch   *)
(* (landed and pushed, computed by sheet_layout from the reading the batch    *)
(* was planned on) are the rows those mails are on once the batch is applied, *)
(* whatever landed or failed before, unless the person moved rows meanwhile.  *)
THEOREM CallsReportTheRows == Spec => ReportsTheRows
<1>1. ASSUME SentInv, NEW b \in flight, Land(b), ~crossed'
      PROVE  /\ \A m \in DOMAIN b.at : rows'[Landed(b, m)].id = m
             /\ \A m \in DOMAIN b.again : rows'[Pushed(b, m)].id = m
  <2>1. /\ rows' = After(b, rows) /\ b.moves = moves
        /\ rows \in Seq(Row) /\ IsSent(b)
    BY <1>1, LandTypes DEF SentInv, TypeInv, SheetType, FlightType
  <2>2. CASE b.sort
    BY <2>1, <2>2 DEF IsSent
  <2>3. CASE ~b.sort
    <3>1. Fits(b, rows) /\ IsBatch(b)
      BY <1>1, <2>1, <2>3 DEF SentInv, FitInv, IsSent
    <3> QED BY <2>1, <2>3, <3>1, LandedRows
  <2> QED BY <2>2, <2>3
<1>2. SentInv /\ [Next]_vars =>
        [\A b \in flight : Land(b) /\ ~crossed' =>
           /\ \A m \in DOMAIN b.at : rows'[Landed(b, m)].id = m
           /\ \A m \in DOMAIN b.again : rows'[Pushed(b, m)].id = m]_vars
  BY <1>1
<1> QED BY <1>2, SentInit, SentNext, PTL DEF Spec, ReportsTheRows

(* The order. The marker is set, and is about to be, on a tab in order only. *)
OrderInv ==
  (marked \/ pc[Sorter] = "mark") /\ ~reordered /\ ~crossed => NewestFirst(rows)

(* The sorter goes on to the marker only from rows it has read in order. *)
LEMMA QuietOrder ==
  ASSUME TypeInv, OrderInv, Quiet
  PROVE  OrderInv'
<1>0. UNCHANGED <<rows, crossed, reordered>> /\ pc \in [Proc -> {"idle", "shape", "rows", "wait", "check", "mark", "over"}]
  BY QuietRows DEF TypeInv, CallType
<1>a. Sorter \notin Call /\ Sorter \in Proc /\ \A c \in Call : c \in Proc
  BY SheetAssumption DEF Proc
<1>1. (marked' => marked \/ pc[Sorter] = "mark") /\ (pc'[Sorter] = "mark" => pc[Sorter] = "mark" \/ NewestFirst(rows))
  <2>1. ASSUME NEW c \in Call, NEW w \in Wants, Begin(c, w) PROVE marked' = marked /\ pc'[Sorter] = pc[Sorter]
    BY <1>0, <1>a, <2>1 DEF Begin, Goto, sheetVars
  <2>2. ASSUME NEW p \in Proc, ReadShape(p)
        PROVE  marked' = marked /\ (pc'[Sorter] = "mark" => pc[Sorter] = "mark")
    <3>1. marked' = marked /\ (pc' = [pc EXCEPT ![p] = "over"] \/ pc' = [pc EXCEPT ![p] = "rows"])
      BY <2>2 DEF ReadShape, Over, Goto, sheetVars
    <3> QED BY <1>0, <1>a, <3>1
  <2>3. ASSUME NEW c \in Call, ReadRows(c) PROVE marked' = marked /\ pc'[Sorter] = pc[Sorter]
    <3>1. Batch(c, want[c], rows, saw[c].seq).by = c
      BY DEF Batch
    <3>2. marked' = marked /\ (pc' = [pc EXCEPT ![c] = "over"] \/ pc' = [pc EXCEPT ![c] = "wait"])
      BY <2>3, <3>1 DEF ReadRows, Over, Send, Goto, sheetVars
    <3> QED BY <1>0, <1>a, <3>2
  <2>4. ASSUME NEW c \in Call, HearApplied(c) \/ HearRefused(c) \/ Unsure(c)
        PROVE  marked' = marked /\ pc'[Sorter] = pc[Sorter]
    <3>1. marked' = marked /\ (pc' = [pc EXCEPT ![c] = "over"] \/ pc' = [pc EXCEPT ![c] = "shape"])
      BY <2>4 DEF HearApplied, HearRefused, Unsure, TryAgain, Over, Goto, sheetVars
    <3> QED BY <1>0, <1>a, <3>1
  <2>5. ASSUME ReadDates PROVE marked' = marked /\ (pc'[Sorter] = "mark" => NewestFirst(rows))
    <3>1. SortBatch(saw[Sorter].seq).by = Sorter
      BY DEF SortBatch
    <3>2. /\ marked' = marked
          /\ \/ NewestFirst(rows)
             \/ pc' = [pc EXCEPT ![Sorter] = "over"] \/ pc' = [pc EXCEPT ![Sorter] = "wait"]
      BY <2>5, <3>1 DEF ReadDates, Over, Send, Goto, sheetVars
    <3> QED BY <1>0, <1>a, <3>2
  <2>6. ASSUME HearSort PROVE marked' = marked /\ pc'[Sorter] # "mark"
    <3>1. marked' = marked /\ (pc' = [pc EXCEPT ![Sorter] = "over"] \/ pc' = [pc EXCEPT ![Sorter] = "check"])
      BY <2>6 DEF HearSort, Over, Goto, sheetVars
    <3> QED BY <1>0, <1>a, <3>1
  <2>7. ASSUME CheckOrder PROVE marked' = marked /\ (pc'[Sorter] = "mark" => NewestFirst(rows))
    <3>1. marked' = marked /\ (NewestFirst(rows) \/ pc' = [pc EXCEPT ![Sorter] = "over"])
      BY <2>7 DEF CheckOrder, Goto, sheetVars
    <3> QED BY <1>0, <1>a, <3>1
  <2>8. ASSUME MarkInOrder PROVE pc[Sorter] = "mark"
    BY <2>8 DEF MarkInOrder
  <2> QED BY <2>1, <2>2, <2>3, <2>4, <2>5, <2>6, <2>7, <2>8 DEF Quiet, CallStep, SorterStep
<1> QED BY <1>0, <1>1 DEF OrderInv

(* Every step keeps it. *)
LEMMA OrderNext == SentInv /\ OrderInv /\ [Next]_vars => OrderInv'
<1> SUFFICES ASSUME SentInv, OrderInv, [Next]_vars PROVE OrderInv'
  OBVIOUS
<1>0. rows \in Seq(Row) /\ TypeInv
  BY DEF SentInv, TypeInv, SheetType
<1>1. CASE Quiet
  BY <1>0, <1>1, QuietOrder
<1>2. CASE Personal
  <2>1. UNCHANGED <<marked, pc, crossed>>
    BY <1>0, <1>2, PersonRows DEF callVars
  <2>2. Moved => reordered'
    BY DEF Moved
  <2>3. ASSUME NEW i \in 1 .. Len(rows), Removed(i)
        PROVE  reordered' = reordered /\ (NewestFirst(rows) => NewestFirst(rows'))
    BY <1>0, <2>3, RemovedLog DEF Removed
  <2>4. ASSUME NEW i \in 1 .. Len(rows) + 1, Typed(i)
        PROVE  reordered' = reordered /\ (NewestFirst(rows) => NewestFirst(rows'))
    BY <1>0, <2>4, TypedLog DEF Typed
  <2>5. ASSUME NEW i \in 1 .. Len(rows), Written(i)
        PROVE  reordered' = reordered /\ (NewestFirst(rows) => NewestFirst(rows'))
    <3>1. /\ rows' \in Seq(Row) /\ Len(rows') = Len(rows)
          /\ \A k \in 1 .. Len(rows) : rows'[k].id = rows[k].id
      <4>1. SameIds(rows', rows)
        BY <1>0, <2>5, NotedLog DEF Written
      <4> QED BY <4>1 DEF SameIds
    <3>2. DOMAIN rows' = 1 .. Len(rows) /\ DOMAIN rows = 1 .. Len(rows)
      BY <1>0, <3>1
    <3>3. Dated(rows)' = Dated(rows)
      BY <3>1, <3>2 DEF Dated
    <3>4. \A k \in Dated(rows) : rows'[k].id = rows[k].id
      BY <3>1, <3>2 DEF Dated
    <3> QED BY <2>5, <3>3, <3>4 DEF Written, NewestFirst
  <2> QED BY <1>0, <1>2, <2>1, <2>2, <2>3, <2>4, <2>5, PersonRows DEF OrderInv
<1>3. ASSUME NEW b \in flight, Land(b) PROVE OrderInv'
  <2>1. /\ rows' = After(b, rows) /\ UNCHANGED <<marked, callVars, reordered>>
        /\ ~crossed' => ~crossed /\ b.moves = moves
    BY <1>3, LandTypes DEF SentInv
  <2>2. pc' = pc
    BY <2>1 DEF callVars
  <2>3. ASSUME ~crossed' PROVE NewestFirst(rows) => NewestFirst(rows')
    <3>1. CASE b.sort
      BY <1>0, <2>1, <3>1, SortedRows DEF After
    <3>2. CASE ~b.sort
      <4>1. Fits(b, rows) /\ IsBatch(b)
        BY <2>1, <2>3, <3>2 DEF SentInv, FitInv, TypeInv, FlightType, IsSent
      <4> QED BY <1>0, <2>1, <3>2, <4>1, LandedRows
    <3> QED BY <3>1, <3>2
  <2> QED BY <2>1, <2>2, <2>3 DEF OrderInv
<1>4. CASE UNCHANGED vars
  BY <1>4 DEF OrderInv, vars, sheetVars, callVars, personVars
<1> QED BY <1>1, <1>2, <1>3, <1>4, StepKinds

(* A tab marked as newest first (sheet_writer._put_in_order sets the marker   *)
(* once, after reading its own sort back) is newest first in every state      *)
(* until the person moves a row: each batch applied later puts its new mails  *)
(* where the order has them (sheet_layout.place).                             *)
THEOREM MarkedStaysInOrder == Spec => []MarkedIsNewestFirst
<1>1. Init => SentInv /\ OrderInv
  <2>1. Init => OrderInv
    BY SheetAssumption DEF Init, OrderInv, Proc
  <2> QED BY <2>1, SentInit
<1>2. SentInv /\ OrderInv /\ [Next]_vars => SentInv' /\ OrderInv'
  BY SentNext, OrderNext
<1>3. OrderInv => MarkedIsNewestFirst
  BY DEF OrderInv, MarkedIsNewestFirst
<1> QED BY <1>1, <1>2, <1>3, PTL DEF Spec

-----------------------------------------------------------------------------
(* The tab as a mail log. *)
LEMMA LogInit == Init => Log!Init
<1> SUFFICES ASSUME Init PROVE Log!Init
  OBVIOUS
<1>1. rows \in FirstSheets /\ crossed = FALSE
  BY DEF Init
<1>2. rows \in Seq(Row) /\ \A i \in DOMAIN rows : ~rows[i].noted
  BY <1>1, StartAssumption
<1>3. Single(rows)
  BY FitInit DEF FitInv, Init
<1>4. LogOf(rows) \in [Mail -> {"review", "read", "absent"}]
  BY <1>2, <1>3, LogType
<1>5. NotedOn(rows) = {}
  BY <1>2 DEF NotedOn, RowsOf
<1> QED BY <1>1, <1>4, <1>5 DEF Log!Init, Log!Shown

(* Every step is a step of the log, or leaves it alone. *)
LEMMA LogNext == SentInv /\ SentInv' /\ [Next]_vars => [Log!Next]_Log!logVars
<1> SUFFICES ASSUME SentInv, SentInv', [Next]_vars PROVE [Log!Next]_Log!logVars
  OBVIOUS
<1>0. /\ rows \in Seq(Row) /\ rows' \in Seq(Row)
      /\ crossed \in BOOLEAN /\ crossed' \in BOOLEAN
      /\ ~crossed => Single(rows)
  BY DEF SentInv, TypeInv, SheetType, PersonType, FitInv
<1>1. ASSUME LogOf(rows') = LogOf(rows), NotedOn(rows') = NotedOn(rows), crossed' = crossed
      PROVE  [Log!Next]_Log!logVars
  BY <1>1 DEF Log!logVars
<1>2. CASE Quiet \/ UNCHANGED vars
  <2>1. rows' = rows /\ crossed' = crossed
    BY <1>2, QuietRows DEF vars, sheetVars, personVars
  <2> QED BY <1>1, <2>1
<1>3. CASE crossed'
  BY <1>0, <1>3 DEF Log!Next, Log!Cross
<1>4. CASE Personal /\ ~crossed'
  <2>1. crossed' = crossed /\ Single(rows) /\ SheetAssumption
    BY <1>0, <1>4, PersonRows, SheetAssumption DEF SentInv
  <2>2. ASSUME Moved PROVE [Log!Next]_Log!logVars
    BY <1>0, <1>1, <2>1, <2>2, PermutedLog DEF Moved
  <2>3. ASSUME NEW i \in 1 .. Len(rows) + 1, Typed(i) PROVE [Log!Next]_Log!logVars
    <3>1. LogOf(rows') = LogOf(rows) /\ NotedOn(rows') = NotedOn(rows)
      BY <1>0, <2>1, <2>3, TypedLog DEF Typed
    <3> QED BY <1>1, <2>1, <3>1
  <2>4. ASSUME NEW i \in 1 .. Len(rows), Removed(i) PROVE [Log!Next]_Log!logVars
    <3>1. PICK x : x = rows[i].id
      OBVIOUS
    <3>2. /\ \A m \in Mail : m # x => Stays(m, rows', rows)
          /\ \A m \in Mail : m = x => LogOf(rows')[m] = "absent" /\ m \notin NotedOn(rows')
      BY <1>0, <2>1, <2>4, <3>1, RemovedLog DEF Removed
    <3>3. x = Blank \/ x \in Mail
      BY <1>0, <3>1, RowsAre
    <3>4. CASE x = Blank
      <4>1. \A m \in Mail : Stays(m, rows', rows)
        BY <2>1, <3>2, <3>4 DEF SheetAssumption
      <4>2. LogOf(rows') = LogOf(rows) /\ NotedOn(rows') = NotedOn(rows)
        BY <4>1, LogStays
      <4> QED BY <1>1, <2>1, <4>2
    <3>5. CASE x \in Mail
      <4>1. LogOf(rows') = [LogOf(rows) EXCEPT ![x] = "absent"]
        BY <3>2, <3>5 DEF Stays, LogOf
      <4>2. NotedOn(rows') = NotedOn(rows) \ {x}
        BY <3>2, <3>5 DEF Stays, NotedOn
      <4>3. LogOf(rows)[x] # "absent"
        <5>1. LogOf(rows)[x] = rows[i].state
          BY <1>0, <2>1, <3>1, <3>5, LogPresent
        <5>2. rows[i] \in Row
          BY <1>0, RowsAre
        <5> QED BY <5>1, <5>2 DEF Row
      <4>4. Log!Remove(x)
        BY <2>1, <3>5, <4>1, <4>2, <4>3 DEF Log!Remove, Log!Absent
      <4> QED BY <3>5, <4>4 DEF Log!Next
    <3> QED BY <3>3, <3>4, <3>5
  <2>5. ASSUME NEW i \in 1 .. Len(rows), Written(i) PROVE [Log!Next]_Log!logVars
    <3>1. PICK x : x = rows[i].id
      OBVIOUS
    <3>2. /\ \A m \in Mail : m # x => Stays(m, rows', rows)
          /\ \A m \in Mail : m = x => /\ LogOf(rows')[m] = LogOf(rows)[m]
                                      /\ LogOf(rows)[m] # "absent" /\ m \in NotedOn(rows')
      <4>1. OneNoted(rows', rows, rows[i].id)
        BY <1>0, <2>1, <2>5, NotedLog DEF Written
      <4> QED BY <3>1, <4>1 DEF OneNoted
    <3>3. x = Blank \/ x \in Mail
      BY <1>0, <3>1, RowsAre
    <3>4. LogOf(rows') = LogOf(rows)
      <4>1. \A m \in Mail : LogOf(rows')[m] = LogOf(rows)[m]
        BY <3>2 DEF Stays
      <4> QED BY <4>1 DEF LogOf
    <3>5. CASE x = Blank
      <4>1. \A m \in Mail : Stays(m, rows', rows)
        BY <2>1, <3>2, <3>5 DEF SheetAssumption
      <4>2. NotedOn(rows') = NotedOn(rows)
        BY <4>1, LogStays
      <4> QED BY <1>1, <2>1, <3>4, <4>2
    <3>6. CASE x \in Mail
      <4>1. NotedOn(rows') = NotedOn(rows) \cup {x}
        BY <3>2, <3>6 DEF Stays, NotedOn
      <4>2. Log!Note(x)
        BY <2>1, <3>2, <3>4, <3>6, <4>1 DEF Log!Note, Log!Absent
      <4> QED BY <3>6, <4>2 DEF Log!Next
    <3> QED BY <3>3, <3>5, <3>6
  <2> QED BY <1>4, <2>2, <2>3, <2>4, <2>5, PersonRows DEF SentInv
<1>5. ASSUME NEW b \in flight, Land(b), ~crossed' PROVE [Log!Next]_Log!logVars
  <2>1. /\ rows' = After(b, rows) /\ ~crossed /\ b.moves = moves /\ IsSent(b) /\ Single(rows)
    BY <1>0, <1>5, LandTypes DEF SentInv, TypeInv, FlightType
  <2>2. CASE b.sort
    <3>1. IsPermuted(Sorted(rows), rows, Row) /\ rows' = Sorted(rows)
      BY <1>0, <2>1, <2>2, SortedRows DEF After
    <3>2. LogOf(rows') = LogOf(rows) /\ NotedOn(rows') = NotedOn(rows)
      BY <1>0, <2>1, <3>1, PermutedLog
    <3> QED BY <1>0, <1>1, <1>5, <2>1, <3>2
  <2>3. CASE ~b.sort
    <3>1. Fits(b, rows) /\ IsBatch(b)
      BY <2>1, <2>3 DEF SentInv, FitInv, IsSent
    <3>2. /\ NotedOn(rows') = NotedOn(rows)
          /\ \A m \in Mail :
               \/ LogOf(rows')[m] = LogOf(rows)[m]
               \/ LogOf(rows)[m] = "absent" /\ LogOf(rows')[m] \in {"review", "read"}
               \/ LogOf(rows)[m] = "review" /\ LogOf(rows')[m] = "read"
          /\ Single(rows')
      BY <1>0, <2>1, <2>3, <3>1, LandedLog
    <3>3. LogOf(rows') \in [Mail -> {"review", "read", "absent"}]
      BY <1>0, <3>2, LogType
    <3>4. crossed' = crossed
      BY <1>0, <1>5, <2>1
    <3> QED BY <3>2, <3>3, <3>4 DEF Log!Next, Log!Write, Log!Shown
  <2> QED BY <2>2, <2>3
<1> QED BY <1>2, <1>3, <1>4, <1>5, StepKinds

(* The Inbox tab is a mail log: whatever two fires write at once, lose or     *)
(* repeat, and whatever the person does, every step of the row writer adds    *)
(* mails that are not on the tab, answers ones that need review, or leaves    *)
(* the log as it is, and only she takes a mail away or changes her cells,     *)
(* until a batch lands on rows she moved under it (sheet_writer.write_rows,   *)
(* _put_in_order).                                                            *)
THEOREM TabIsAMailLog == Spec => IsMailLog
<1>1. Init => Log!Init /\ SentInv
  BY LogInit, SentInit
<1>2. SentInv /\ [Next]_vars => SentInv' /\ [Log!Next]_Log!logVars
  BY SentNext, LogNext
<1> QED BY <1>1, <1>2, PTL DEF Spec, IsMailLog, Log!Spec

=============================================================================
