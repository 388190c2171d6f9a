----------------------------- MODULE SheetRows -----------------------------
(***************************************************************************)
(* The row writes of Inbox Triage on one sheet (sheet_writer.write_rows    *)
(* and _put_in_order, with sheet_layout's placing and stamps): calls of    *)
(* several fires, each reading the tab's stamp and then its rows, planning *)
(* one batch from that reading and sending it once; the Sheets service,    *)
(* which applies a batch whole or not at all, at once or late, and may     *)
(* lose the answer; and the person, who moves, removes, types and writes   *)
(* on rows whenever she likes.                                             *)
(*                                                                         *)
(* Nothing is assumed of the lease here: a call may lose it at any proof,  *)
(* and two calls may hold it by mistake. What protects the sheet is the    *)
(* stamp. Left out: the cells' text, merges, banding, the header check,    *)
(* stamps that age out after an hour and the waits between attempts.       *)
(***************************************************************************)
EXTENDS Integers, FiniteSets, Sequences, SequencesExt

CONSTANTS
  Mail,        \* message ids: numbers, so that a tie in date has an order
  Date,        \* Date[m]: the minute m was received
  Call,        \* calls of write_rows
  Wants,       \* what a call may be asked to write
  Sorter,      \* the one-time sort
  Blank,       \* the id of a row the person typed herself
  FirstSheets, \* the tabs it may start from
  WRITE_ATTEMPTS,
  EditsCap     \* bound: edits of the person

ASSUME SheetAssumption ==
  /\ Mail \subseteq Nat /\ IsFiniteSet(Mail) /\ Blank \notin Mail /\ Sorter \notin Call
  /\ Date \in [Mail -> Nat]
  /\ WRITE_ATTEMPTS \in Nat \ {0} /\ EditsCap \in Nat

VARIABLES
  rows,     \* the tab below its header, top to bottom
  sequence, \* the number on its latest stamp
  landed,   \* the batches that have left a stamp on it, by call and attempt
  marked,   \* the marker that says the tab was put in newest-first order
  flight,   \* the batches sent that Sheets may still apply
  pc, want, attempt,
  saw,      \* saw[p]: the stamps p read before the rows
  refusal,  \* refusal[c]: the sequence c's last batch was refused on, if Sheets refused
            \* it for itself and not for its stamp, or -1
  edits, moves,      \* the person's edits, and those that moved a row
  crossed, reordered \* a batch landed on moved rows; the person put rows in her order

sheetVars == <<rows, sequence, landed, marked>>
callVars == <<pc, want, attempt, saw, refusal>>
personVars == <<edits, moves, crossed, reordered>>
vars == <<sheetVars, flight, callVars, personVars>>

-----------------------------------------------------------------------------
Proc == Call \cup {Sorter}
Row == [id : Mail \cup {Blank}, state : {"review", "read"}, noted : BOOLEAN]
NewRow(m, state) == [id |-> m, state |-> state, noted |-> FALSE]
(* The person's own row: what it says in our columns does not matter. *)
HerRow == [id |-> Blank, state |-> "read", noted |-> FALSE]

(* The tab starts with each mail on one row at most, as the agent left it. *)
ASSUME StartAssumption ==
  /\ Wants \subseteq [Mail -> {"no", "review", "read", "again"}]
  /\ \A r \in FirstSheets :
       /\ r \in Seq(Row)
       /\ \A i, j \in DOMAIN r : r[i].id = r[j].id /\ r[i].id # Blank => i = j
       /\ \A i \in DOMAIN r : ~r[i].noted

RowsOf(m, r) == {i \in DOMAIN r : r[i].id = m}
OnSheet(r) == {m \in Mail : RowsOf(m, r) # {}}
(* The id column: the first row that carries the id. *)
Where(m, r) == Min(RowsOf(m, r))
Dated(r) == {i \in DOMAIN r : r[i].id # Blank}
(* Just past the last row that holds a date or an id. *)
EndOf(r) == Max({0} \cup Dated(r)) + 1

Newer(a, b) == Date[a] > Date[b] \/ (Date[a] = Date[b] /\ a > b)
NewestFirst(r) == \A i, j \in Dated(r) : i < j => Date[r[i].id] >= Date[r[j].id]

-----------------------------------------------------------------------------
(* place: a new mail goes directly above the first row as old as it or     *)
(* older, below the last row when there is none. (The code finds the       *)
(* places in one pass, newest first; each is where it would be alone.)     *)
PlaceAtTop(m, r) == 1  \* variant
Place(m, r) == Min({EndOf(r)} \cup {i \in Dated(r) : Date[r[i].id] <= Date[m]})

(* The batch planned from one reading: the new mails with the row each is  *)
(* inserted above, and the rows that are written again, by their index.    *)
(* A mail that is there already is not written a second time.              *)
FreshTrusting(w, r) == {m \in Mail : w[m] \in {"review", "read"}}  \* variant
Fresh(w, r) == {m \in Mail : w[m] \in {"review", "read"} /\ m \notin OnSheet(r)}
Again(w, r) == {m \in Mail : w[m] = "again" /\ m \in OnSheet(r)}
Batch(p, w, r, seq) ==
  [by |-> p, sort |-> FALSE, on |-> seq, try |-> attempt[p], moves |-> moves,
   at |-> [m \in Fresh(w, r) |-> Place(m, r)],
   again |-> [m \in Again(w, r) |-> Where(m, r)],
   state |-> [m \in Fresh(w, r) |-> w[m]]]
SortBatch(seq) ==
  [by |-> Sorter, sort |-> TRUE, on |-> seq, try |-> 1, moves |-> moves,
   at |-> <<>>, again |-> <<>>, state |-> <<>>]
WantNothing == [m \in Mail |-> "no"]
NothingSeen == [seq |-> 0, own |-> FALSE]
IsEmpty(b) == ~b.sort /\ DOMAIN b.at = {} /\ DOMAIN b.again = {}

(* landed and pushed: where the call says its rows are afterwards. *)
Above(b, i) == {x \in DOMAIN b.at : b.at[x] < i}
Landed(b, m) == b.at[m] + Cardinality(Above(b, b.at[m]))
                + Cardinality({x \in DOMAIN b.at : b.at[x] = b.at[m] /\ Newer(x, m)})
PushedShort(b, m) == b.again[m] + Cardinality(Above(b, b.again[m]))  \* variant
Pushed(b, m) == b.again[m] + Cardinality(Above(b, b.again[m] + 1))

(* What Sheets does with a batch: the rows at the indices it names are     *)
(* written, then the blocks are inserted, bottom block first, each newest  *)
(* first. A row past the last one is an empty row of the grid.             *)
Padded(r, n) == r \o [i \in 1 .. Max({0, n - Len(r)}) |-> HerRow]
Rewritten(r, b) ==
  LET long == Padded(r, Max({0} \cup {b.again[m] : m \in DOMAIN b.again}))
      At(i) == {m \in DOMAIN b.again : b.again[m] = i}
  IN  [i \in DOMAIN long |-> IF At(i) = {} THEN long[i]
       ELSE [long[i] EXCEPT !.id = CHOOSE m \in At(i) : TRUE, !.state = "read"]]
(* The parts of the tab afterwards: the rows that were there, <<i, Blank>>, *)
(* and the new mails, <<i, m>>, each in the block above row i.              *)
Parts(n, b) == {<<i, Blank>> : i \in 1 .. n} \cup {<<b.at[m], m>> : m \in DOMAIN b.at}
GoesAbove(x, y) ==
  \/ x[1] < y[1]
  \/ x[1] = y[1] /\ x[2] # Blank /\ (y[2] = Blank \/ Newer(x[2], y[2]))
(* The elements of DOMAIN above in a sequence, each after those above it. *)
InOrder(above) ==
  [k \in 1 .. Cardinality(DOMAIN above) |->
     CHOOSE x \in DOMAIN above : Cardinality(above[x]) = k - 1]
RowOf(x, r, b) == IF x[2] = Blank THEN r[x[1]] ELSE NewRow(x[2], b.state[x[2]])
Inserted(r, b) ==
  LET long == Padded(r, Max({0} \cup {b.at[m] - 1 : m \in DOMAIN b.at}))
      parts == Parts(Len(long), b)
      order == InOrder([y \in parts |-> {x \in parts : GoesAbove(x, y)}])
  IN  [k \in DOMAIN order |-> RowOf(order[k], long, b)]
(* The sort: dates newest first, in one minute the larger id; then the rest. *)
SortsAbove(r, i, j) ==
  IF r[i].id = r[j].id THEN i < j
  ELSE r[j].id = Blank \/ (r[i].id # Blank /\ Newer(r[i].id, r[j].id))
Sorted(r) ==
  LET order == InOrder([j \in DOMAIN r |-> {i \in DOMAIN r : SortsAbove(r, i, j)}])
  IN  [k \in DOMAIN order |-> r[order[k]]]
After(b, r) == IF b.sort THEN Sorted(r) ELSE Inserted(Rewritten(r, b), b)

-----------------------------------------------------------------------------
TypeOK ==
  /\ \A i \in DOMAIN rows : rows[i] \in Row
  /\ sequence \in Nat /\ landed \subseteq Proc \X (1 .. WRITE_ATTEMPTS) /\ marked \in BOOLEAN
  /\ \A b \in flight : b.by \in Proc /\ b.on = sequence
  /\ pc \in [Proc -> {"idle", "shape", "rows", "wait", "check", "mark", "over"}]
  /\ want \in [Call -> [Mail -> {"no", "review", "read", "again"}]]
  /\ attempt \in [Proc -> 1 .. WRITE_ATTEMPTS + 1]
  /\ saw \in [Proc -> [seq : Nat, own : BOOLEAN]]
  /\ refusal \in [Call -> Nat \cup {-1}]
  /\ edits \in 0 .. EditsCap /\ moves \in 0 .. edits
  /\ crossed \in BOOLEAN /\ reordered \in BOOLEAN

Init ==
  /\ rows \in FirstSheets
  /\ sequence = 0 /\ landed = {} /\ marked = FALSE /\ flight = {}
  /\ pc = [p \in Proc |-> IF p = Sorter THEN "shape" ELSE "idle"]
  /\ want = [c \in Call |-> WantNothing]
  /\ attempt = [p \in Proc |-> 1]
  /\ saw = [p \in Proc |-> NothingSeen]
  /\ refusal = [c \in Call |-> -1]
  /\ edits = 0 /\ moves = 0 /\ crossed = FALSE /\ reordered = FALSE

Goto(p, label) == pc' = [pc EXCEPT ![p] = label]

(* A batch is on the tab or it is not: its stamp says. *)
Stamped(p) == \E t \in 1 .. WRITE_ATTEMPTS : <<p, t>> \in landed

(* A batch's first request creates the stamp that follows the one it was    *)
(* planned on. Once that stamp is there the batch is refused, whole,        *)
(* whenever it arrives, and is not kept in flight.                          *)
MayLandAnyway(F, seq) == F  \* variant
MayLand(F, seq) == {b \in F : b.on = seq}

(* A fire calls write_rows with something to write. *)
Begin(c, w) ==
  /\ pc[c] = "idle"
  /\ w # WantNothing
  /\ want' = [want EXCEPT ![c] = w]
  /\ Goto(c, "shape")
  /\ UNCHANGED <<sheetVars, flight, attempt, saw, refusal, personVars>>

(* The call is over: it returns where its rows are, or raises. *)
Over(c) ==
  /\ Goto(c, "over")
  /\ want' = IF c \in Call THEN [want EXCEPT ![c] = WantNothing] ELSE want
  /\ attempt' = [attempt EXCEPT ![c] = 1]
  /\ refusal' = IF c \in Call THEN [refusal EXCEPT ![c] = -1] ELSE refusal

(* hold.prove, which may find the lease lost; then the shape and its stamps *)
(* are read, before the positions. The sort is called only on a tab that    *)
(* carries no marker.                                                       *)
SeenNotOurs(p) == [seq |-> sequence, own |-> FALSE]  \* variant
SeenAs(p) == [seq |-> sequence, own |-> Stamped(p)]
ReadShape(p) ==
  /\ pc[p] = "shape"
  /\ p = Sorter => ~marked
  /\ \/ Over(p) /\ UNCHANGED saw
     \/ /\ saw' = [saw EXCEPT ![p] = SeenAs(p)]
        /\ Goto(p, "rows")
        /\ UNCHANGED <<want, attempt, refusal>>
  /\ UNCHANGED <<sheetVars, flight, personVars>>

(* hold.cover, and the batch is sent, once, or not (the lease may be lost). *)
(* What passes between the reading and the send is time in flight.          *)
Send(b) ==
  /\ flight' = MayLand(flight \cup {b}, sequence)
  /\ Goto(b.by, "wait")
  /\ UNCHANGED <<want, attempt, refusal>>

(* The positions. Our stamp on the tab: the batch is there. A refusal and  *)
(* no other write since: the batch itself was refused. Past the last       *)
(* attempt, or nothing to write: the call ends. Otherwise a batch is       *)
(* planned from this reading.                                              *)
ReadRows(c) ==
  /\ pc[c] = "rows"
  /\ saw' = [saw EXCEPT ![c] = NothingSeen]
  /\ LET b == Batch(c, want[c], rows, saw[c].seq)
         done == saw[c].own \/ refusal[c] = saw[c].seq \/ attempt[c] > WRITE_ATTEMPTS \/ IsEmpty(b)
     IN  \/ Over(c) /\ UNCHANGED flight
         \/ ~done /\ Send(b)
  /\ UNCHANGED <<sheetVars, personVars>>

(* The dates, for the sort: in order, only the marker is missing; or the   *)
(* tab cannot be sorted; or it is.                                         *)
ReadDates ==
  /\ pc[Sorter] = "rows"
  /\ saw' = [saw EXCEPT ![Sorter] = NothingSeen]
  /\ \/ /\ NewestFirst(rows) /\ Goto(Sorter, "mark")
        /\ UNCHANGED <<flight, want, attempt, refusal>>
     \/ ~NewestFirst(rows) /\ Over(Sorter) /\ UNCHANGED flight
     \/ ~NewestFirst(rows) /\ Send(SortBatch(saw[Sorter].seq))
  /\ UNCHANGED <<sheetVars, personVars>>

(* The answer: applied. *)
HearApplied(c) ==
  /\ pc[c] = "wait"
  /\ <<c, attempt[c]>> \in landed
  /\ Over(c)
  /\ UNCHANGED <<sheetVars, flight, saw, personVars>>

(* The answer: refused, by its stamp or for a reason of Sheets' own. *)
TryAgain(c, on) ==
  /\ refusal' = [refusal EXCEPT ![c] = on]
  /\ attempt' = [attempt EXCEPT ![c] = @ + 1]
  /\ Goto(c, "shape")
  /\ UNCHANGED <<sheetVars, want, saw, personVars>>
HearRefused(c) ==
  /\ pc[c] = "wait"
  /\ <<c, attempt[c]>> \notin landed
  /\ LET mine == {b \in flight : b.by = c /\ b.try = attempt[c]}
     IN  flight' = flight \ mine /\ TryAgain(c, IF mine = {} THEN -1 ELSE sequence)

(* No answer: whatever Sheets did or will do with it, the tab is asked. *)
Unsure(c) ==
  /\ pc[c] = "wait"
  /\ TryAgain(c, -1)
  /\ UNCHANGED flight

(* The sort's answer: applied, or unanswered and its stamp is there, is read *)
(* back; anything else leaves the tab as it is, for another day.             *)
HearSort ==
  /\ pc[Sorter] = "wait"
  /\ \/ Stamped(Sorter) /\ Goto(Sorter, "check") /\ UNCHANGED <<want, attempt, refusal>>
     \/ ~Stamped(Sorter) /\ Over(Sorter)
  /\ UNCHANGED <<sheetVars, flight, saw, personVars>>

CheckOrder ==
  /\ pc[Sorter] = "check"
  /\ Goto(Sorter, IF NewestFirst(rows) THEN "mark" ELSE "over")
  /\ UNCHANGED <<sheetVars, flight, want, attempt, saw, refusal, personVars>>

MarkInOrder ==
  /\ pc[Sorter] = "mark"
  /\ marked' = TRUE
  /\ Goto(Sorter, "over")
  /\ UNCHANGED <<rows, sequence, landed, flight, want, attempt, saw, refusal, personVars>>

(* Sheets applies a batch, at once or late, if its stamp is still free. One *)
(* that never lands stays in flight: it was lost on the way.                *)
Land(b) ==
  /\ rows' = After(b, rows)
  /\ sequence' = sequence + 1
  /\ landed' = landed \cup {<<b.by, b.try>>}
  /\ flight' = MayLand(flight \ {b}, sequence')
  /\ crossed' = (crossed \/ b.moves # moves)
  /\ UNCHANGED <<marked, callVars, edits, moves, reordered>>

-----------------------------------------------------------------------------
(* The person. *)
Edit(r, moved, order) ==
  /\ edits < EditsCap
  /\ rows' = r
  /\ edits' = edits + 1
  /\ moves' = IF moved THEN moves + 1 ELSE moves
  /\ reordered' = (reordered \/ order)
  /\ UNCHANGED <<sequence, landed, marked, flight, callVars, crossed>>
MoveRow(i, j) == i # j /\ Edit(InsertAt(RemoveAt(rows, i), j, rows[i]), TRUE, TRUE)
RemoveRow(i) == Edit(RemoveAt(rows, i), TRUE, FALSE)
TypeRow(i) == Edit(InsertAt(rows, i, HerRow), TRUE, FALSE)
WriteOnRow(i) == ~rows[i].noted /\ Edit([rows EXCEPT ![i].noted = TRUE], FALSE, FALSE)

-----------------------------------------------------------------------------
CallStep(c) ==
  \/ \E w \in Wants : Begin(c, w)
  \/ ReadRows(c) \/ HearApplied(c) \/ HearRefused(c) \/ Unsure(c)
SorterStep ==
  ReadDates \/ HearSort \/ CheckOrder \/ MarkInOrder
Personal ==
  \/ \E i, j \in DOMAIN rows : MoveRow(i, j)
  \/ \E i \in DOMAIN rows : RemoveRow(i) \/ WriteOnRow(i)
  \/ \E i \in 1 .. Len(rows) + 1 : TypeRow(i)

Next ==
  \/ \E c \in Call : CallStep(c)
  \/ \E p \in Proc : ReadShape(p)
  \/ SorterStep \/ Personal
  \/ \E b \in flight : Land(b)

Spec == Init /\ [][Next]_vars

-----------------------------------------------------------------------------
(* While no batch lands on rows that the person moved under it, the tab is *)
(* a mail log: no mail twice, no row written over, her cells where they    *)
(* were.                                                                   *)
LogOf(r) == [m \in Mail |->
  IF RowsOf(m, r) = {} THEN "absent"
  ELSE IF Cardinality(RowsOf(m, r)) = 1 THEN r[Where(m, r)].state ELSE "twice"]
NotedOn(r) == {m \in Mail : \E i \in RowsOf(m, r) : r[i].noted}
Log == INSTANCE MailLog WITH log <- LogOf(rows), noted <- NotedOn(rows)
IsMailLog == Log!Spec

(* One call's mail lands once at most, whatever is lost, late or refused: *)
(* no two batches of a call ever land.                                    *)
OneBatchLands == [][\A b \in flight : Land(b) => ~Stamped(b.by)]_vars

(* The rows a call reports are the rows its mails are on once its batch is *)
(* applied, the new ones and the ones written again, wherever the other    *)
(* new rows pushed them.                                                   *)
ReportsTheRows ==
  [][\A b \in flight : Land(b) /\ ~crossed' =>
       /\ \A m \in DOMAIN b.at : rows'[Landed(b, m)].id = m
       /\ \A m \in DOMAIN b.again : rows'[Pushed(b, m)].id = m]_vars

(* A tab marked as in newest-first order is in that order until the person *)
(* moves a row, whichever batches landed before and after the marker.      *)
MarkedIsNewestFirst == marked /\ ~reordered /\ ~crossed => NewestFirst(rows)
=============================================================================
