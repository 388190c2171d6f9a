--------------------------- MODULE GeoPollProofs ---------------------------
(***************************************************************************)
(* Proofs about GeoPoll, for every choice of the constants.                *)
(*   - The types, the daily cap, that every call is charged but those a    *)
(*     raising step hands back (BudgetCorrect), how far the monthly cap is *)
(*     passed (SerpCapCorrect), and that the schedule moves on complete    *)
(*     sweeps only (ScheduleCorrect), without any assumption.              *)
(*   - When consoles send their steps one after another: who measures a    *)
(*     day holds its check (CheckCorrect); when leases outlast steps as    *)
(*     well, one request at a time polls the brand (SweepsExclude).        *)
(***************************************************************************)
EXTENDS GeoPoll, FiniteSetTheorems, TLAPS

CapHolds == \A d \in Day : used[d] <= Cap
Spends(q) ==
  /\ q.spent <= q.got
  /\ q.at \in {"load", "reserve"} => q.spent = 0
  /\ q.at \in {"merge", "settle"} /\ ~q.raised => q.spent = q.got
SpentOfGot == \A r \in Request : ~Free(r) => Spends(req[r])
TypedAndCapped == GeoTypeOK /\ CapHolds /\ SpentOfGot

(* A part of a sweep is finite. *)
LEMMA PartsAreFinite ==
  ASSUME NEW S \in SUBSET Task
  PROVE  Cardinality(S) \in Nat
  BY TaskAssumption, FS_Subset, FS_CardinalityType

(* What a step is granted: at most a batch, never beyond the day's cap. *)
LEMMA GrantBounded ==
  ASSUME TypedAndCapped, NEW S \in SUBSET Task, NEW d \in Day
  PROVE  LET got == Grant(Smaller(Batch, Cardinality(S)), d) IN
         got \in 0 .. Batch /\ used[d] + got <= Cap
  <1>1. Cardinality(S) \in Nat
    BY PartsAreFinite
  <1>2. used[d] \in Nat /\ used[d] <= Cap
    BY DEF TypedAndCapped, GeoTypeOK, CapHolds
  <1> QED
    BY <1>1, <1>2, BoundsAssumption DEF Grant, Smaller

(* Closing a request leaves its slot free or with something to close. *)
LEMMA CloseTyped ==
  ASSUME GeoTypeOK, SpentOfGot, NEW r \in Request, ~Free(r), NEW todo \in Seq(Closing),
         CloseWith(r, todo)
  PROVE  /\ req' \in [Request -> RequestType \cup {None}]
         /\ \A s \in Request : At(s, "close")' => req'[s].todo # <<>>
         /\ SpentOfGot'
  <1> DEFINE q == req[r]
             c == Fresh("close", q.run, q.day, q.wanted, todo)
  <1>1. q \in RequestType
    BY DEF GeoTypeOK, Free
  <1>2. c \in RequestType /\ c.todo = todo /\ Spends(c)
    BY <1>1, BoundsAssumption DEF RequestType, Fresh, Spends
  <1>3. req' = [req EXCEPT ![r] = IF todo = <<>> THEN None ELSE c]
    BY DEF CloseWith
  <1>4. req' \in [Request -> RequestType \cup {None}]
    BY <1>2, <1>3 DEF GeoTypeOK
  <1>5. ASSUME NEW s \in Request, At(s, "close")'
        PROVE  req'[s].todo # <<>>
    <2>1. CASE s = r
      BY <1>2, <1>3, <1>5, <2>1 DEF At, Free, GeoTypeOK
    <2>2. CASE s # r
      <3>1. req'[s] = req[s]
        BY <1>3, <2>2 DEF GeoTypeOK
      <3> QED
        BY <1>5, <3>1 DEF At, Free, GeoTypeOK
    <2> QED
      BY <2>1, <2>2
  <1>6. SpentOfGot'
    BY <1>2, <1>3 DEF SpentOfGot, Free, GeoTypeOK
  <1> QED
    BY <1>4, <1>5, <1>6

(* A request that has walked its answers is well formed. *)
LEMMA WalkedTyped ==
  ASSUME NEW q \in RequestType, NEW n \in 0 .. q.got, NEW walked \in SUBSET Task,
         NEW kept \in SUBSET Task, NEW ok \in SUBSET Task, NEW raised \in BOOLEAN,
         raised \/ n = q.got
  PROVE  LET w == Walked(q, n, walked, kept, ok, raised) IN
         w \in RequestType /\ w.at \in {"settle", "merge"} /\ Spends(w)
  <1> DEFINE left == {t[1] : t \in kept}
             at == IF kept = {} THEN "settle" ELSE "merge"
             w == [q EXCEPT !.spent = n, !.batch = walked, !.kept = kept, !.ok = ok,
                            !.raised = raised, !.left = left, !.at = at]
  <1>1. Walked(q, n, walked, kept, ok, raised) = w
    BY DEF Walked
  <1>2. left \subseteq Engine /\ at \in {"settle", "merge"}
    BY DEF Engine
  <1>3. n \in 0 .. Batch /\ n <= q.got
    BY BoundsAssumption DEF RequestType
  <1> HIDE DEF left, at
  <1>4. w \in RequestType /\ w.at = at /\ w.spent = n /\ w.got = q.got /\ w.raised = raised
    BY <1>2, <1>3 DEF RequestType
  <1> QED
    BY <1>1, <1>2, <1>3, <1>4 DEF Spends

(* A request whose calls go out walks its answers, all of them or until it  *)
(* raises.                                                                  *)
LEMMA CallsWalk ==
  ASSUME TypedAndCapped, NEW r \in Request, Call(r) \/ CallRaises(r)
  PROVE  \E n \in 0 .. req[r].got, walked \in SUBSET Task, kept \in SUBSET Task,
            ok \in SUBSET Task, raised \in BOOLEAN :
            /\ walked \subseteq req[r].batch /\ ok \subseteq kept
            /\ \/ raised
               \/ n = req[r].got /\ walked = req[r].batch /\ kept = req[r].batch
            /\ req' = [req EXCEPT ![r] = Walked(req[r], n, walked, kept, ok, raised)]
  <1> DEFINE q == req[r]
  <1>1. q \in RequestType
    BY DEF Call, CallRaises, At, Free, GeoTypeOK, TypedAndCapped
  <1>2. q.got \in Nat /\ q.batch \subseteq Task
    BY <1>1, BoundsAssumption DEF RequestType
  <1>3. \A n : First(n, q.batch) \subseteq q.batch
    BY DEF First
  <1>4. CASE Call(r)
    <2>1. PICK ok \in SUBSET q.batch :
            req' = [req EXCEPT ![r] = Walked(q, q.got, q.batch, q.batch, ok, FALSE)]
      BY <1>4 DEF Call
    <2>2. q.got \in 0 .. q.got /\ q.batch \in SUBSET Task /\ ok \in SUBSET Task
      BY <1>2
    <2> QED
      BY <2>1, <2>2
  <1>5. CASE CallRaises(r)
    <2>1. PICK n \in 0 .. q.got : \E ok \in SUBSET First(n - 1, q.batch) :
            req' = [req EXCEPT ![r] =
                      Walked(q, n, First(n, q.batch), First(n - 1, q.batch), ok, TRUE)]
      BY <1>5 DEF CallRaises
    <2>2. PICK ok \in SUBSET First(n - 1, q.batch) :
            req' = [req EXCEPT ![r] =
                      Walked(q, n, First(n, q.batch), First(n - 1, q.batch), ok, TRUE)]
      BY <2>1
    <2>3. /\ First(n, q.batch) \in SUBSET Task /\ First(n - 1, q.batch) \in SUBSET Task
          /\ ok \in SUBSET Task /\ First(n, q.batch) \subseteq q.batch
      BY <1>2, <1>3
    <2> QED
      BY <2>2, <2>3
  <1> QED
    BY <1>4, <1>5

(* The lists of what is left to close are well formed. *)
LEMMA ListsTyped ==
  ASSUME NEW q \in RequestType, NEW full \in BOOLEAN, NEW m \in BOOLEAN
  PROVE  /\ Swept(q, full, m) \in Seq(Closing)
         /\ NothingPending(q) \in Seq(Closing)
         /\ Refused(q) \in Seq(Closing)
         /\ OutOfBudget \in Seq(Closing)
  <1> DEFINE S == Seq(Closing)
  <1>1. /\ <<>> \in S /\ <<"release">> \in S /\ <<"giveback">> \in S /\ <<"mark">> \in S
        /\ <<"mark", "release">> \in S /\ <<"release", "mark", "release">> \in S
    BY DEF Closing
  <1>2. \A s, t \in S : s \o t \in S
    OBVIOUS
  <1> HIDE DEF S
  <1>3. Swept(q, full, m) \in S
    BY <1>1, <1>2 DEF Swept
  <1> QED
    BY <1>1, <1>3 DEF NothingPending, Refused, OutOfBudget, S

-----------------------------------------------------------------------------
(* Init is typed; nothing is used yet. *)
LEMMA InitTyped == Init => TypedAndCapped
  <1> SUFFICES ASSUME Init PROVE TypedAndCapped
    OBVIOUS
  <1>1. 1 \in Day
    BY BoundsAssumption DEF Day
  <1>2. streaks \in [day : Day \cup {0}, of : [Engine -> 0 .. FailLimit]]
    BY BoundsAssumption DEF Init, NoStreaks
  <1>3. \A r \in Request : ~At(r, "close")
    BY DEF Init, At, Free
  <1>4. SpentOfGot
    BY DEF Init, SpentOfGot, Free
  <1> QED
    BY <1>1, <1>2, <1>3, <1>4, BoundsAssumption DEF Init, TypedAndCapped, GeoTypeOK, CapHolds

(* Every step keeps the types and the cap: one case per action.             *)
LEMMA StepTyped == TypedAndCapped /\ [Next]_vars => TypedAndCapped'
  <1> SUFFICES ASSUME TypedAndCapped, [Next]_vars PROVE TypedAndCapped'
    OBVIOUS
  <1> USE DEF TypedAndCapped
  <1>1. ASSUME NEW r \in Request, NEW run \in Run, Fire(r, run) \/ Ask(r, run)
        PROVE  TypedAndCapped'
    <2>1. \A S \in SUBSET Task : NewRequest(run, S) \in RequestType
      BY BoundsAssumption DEF NewRequest, Fresh, RequestType, GeoTypeOK
    <2>2. \A S \in SUBSET Task : /\ NewRequest(run, S).at = "load"
                                  /\ Spends(NewRequest(run, S))
      BY DEF NewRequest, Fresh, Spends
    <2>3. PICK S \in SUBSET Task : req' = [req EXCEPT ![r] = NewRequest(run, S)]
      BY <1>1, AskedAssumption DEF Fire, Ask
    <2>4. req' \in [Request -> RequestType \cup {None}]
      BY <2>1, <2>3 DEF GeoTypeOK
    <2>5. SpentOfGot' /\ \A s \in Request : At(s, "close")' => req'[s].todo # <<>>
      BY <2>2, <2>3 DEF GeoTypeOK, At, Free, SpentOfGot
    <2>6. UNCHANGED <<today, answers, config, history>> /\ fired' \subseteq CronRun
      BY <1>1 DEF Fire, Ask, GeoTypeOK
    <2> QED
      BY <2>4, <2>5, <2>6 DEF GeoTypeOK, CapHolds, config, history
  <1>2. ASSUME NEW r \in Request, Load(r) PROVE TypedAndCapped'
    <2>1. UNCHANGED <<today, answers, config, fired, history>>
      BY <1>2 DEF Load
    <2>2. req[r] \in RequestType /\ ~Free(r)
      BY <1>2 DEF Load, At, Free, GeoTypeOK
    <2>3. /\ req' \in [Request -> RequestType \cup {None}]
          /\ \A s \in Request : At(s, "close")' => req'[s].todo # <<>>
          /\ SpentOfGot'
      <3> DEFINE q == req[r]
                 S == Usable(q.wanted)
                 owed == S \ answers[today]
                 seen == {u[1] : u \in S} \cap {t[1] : t \in answers[today]}
                 n == [q EXCEPT !.at = "reserve", !.day = today, !.tasks = owed, !.seen = seen]
      <3>1. CASE CloseWith(r, Refused(q)) \/ CloseWith(r, NothingPending(q))
        BY <2>2, <3>1, CloseTyped, ListsTyped
      <3>2. CASE req' = [req EXCEPT ![r] = n]
        <4>1. S \subseteq Task /\ owed \subseteq Task
          BY <2>2 DEF Usable, RequestType
        <4>2. seen \subseteq Engine
          BY <4>1 DEF Engine
        <4>3. today \in Day
          BY DEF GeoTypeOK
        <4>4. q.spent = 0 /\ q.got \in Nat
          BY <1>2, <2>2, BoundsAssumption DEF Load, At, SpentOfGot, Spends, RequestType
        <4> HIDE DEF owed, seen
        <4>5. n \in RequestType /\ n.at = "reserve" /\ n.spent = q.spent /\ n.got = q.got
          BY <2>2, <4>1, <4>2, <4>3 DEF RequestType
        <4>6. Spends(n)
          BY <4>4, <4>5 DEF Spends
        <4> QED
          BY <3>2, <4>5, <4>6 DEF GeoTypeOK, At, Free, SpentOfGot
      <3> QED
        BY <1>2, <3>1, <3>2 DEF Load
    <2> QED
      BY <2>1, <2>3 DEF GeoTypeOK, CapHolds, config, history
  <1>3. ASSUME NEW r \in Request, Turned(r) \/ Deadline(r) PROVE TypedAndCapped'
    <2>1. UNCHANGED <<today, answers, config, fired, history>>
      BY <1>3 DEF Turned, Deadline
    <2>2. req[r] \in RequestType /\ ~Free(r) /\ CloseWith(r, Refused(req[r]))
      BY <1>3 DEF Turned, Deadline, At, Free, GeoTypeOK
    <2>3. /\ req' \in [Request -> RequestType \cup {None}]
          /\ \A s \in Request : At(s, "close")' => req'[s].todo # <<>>
          /\ SpentOfGot'
      BY <2>2, CloseTyped, ListsTyped
    <2> QED
      BY <2>1, <2>3 DEF GeoTypeOK, CapHolds, config, history
  <1>4. ASSUME NEW r \in Request, Reserve(r) PROVE TypedAndCapped'
    <2> DEFINE q == req[r]
               got == Grant(Smaller(Batch, Cardinality(q.tasks)), q.day)
               n == [q EXCEPT !.at = "call", !.got = got, !.batch = First(got, q.tasks)]
    <2>1. q \in RequestType /\ ~Free(r) /\ q.run \in Run /\ q.day \in Day
      BY <1>4 DEF Reserve, At, Free, GeoTypeOK, RequestType
    <2>2. q.tasks \in SUBSET Task /\ q.spent = 0
      BY <1>4, <2>1 DEF RequestType, Reserve, At, SpentOfGot, Spends
    <2>3. got \in 0 .. Batch /\ used[q.day] + got <= Cap
      BY <2>1, <2>2, GrantBounded
    <2>4. CASE CloseWith(r, OutOfBudget) /\ UNCHANGED config
      <3>1. /\ req' \in [Request -> RequestType \cup {None}]
            /\ \A s \in Request : At(s, "close")' => req'[s].todo # <<>>
            /\ SpentOfGot'
        BY <2>1, <2>4, CloseTyped, ListsTyped
      <3> QED
        BY <1>4, <2>4, <3>1 DEF Reserve, GeoTypeOK, CapHolds, config, history
    <2>5. CASE /\ used' = [used EXCEPT ![q.day] = @ + got]
               /\ lease' = [run |-> q.run, live |-> TRUE]
               /\ manual' = [manual EXCEPT ![q.day] = Claim(q.run, @)]
               /\ req' = [req EXCEPT ![r] = n]
               /\ UNCHANGED <<aio, streaks, completed>>
      <3> HIDE DEF got
      <3>1. used' \in [Day -> Nat] /\ CapHolds'
        BY <2>1, <2>3, <2>5 DEF GeoTypeOK, CapHolds
      <3>2. manual' \in [Day -> ConsoleRun \cup {None}]
        BY <2>1, <2>5 DEF GeoTypeOK, Claim
      <3>3. First(got, q.tasks) \subseteq Task
        BY <2>2 DEF First
      <3>4. n \in RequestType /\ n.at = "call" /\ n.spent = q.spent /\ n.got = got
        BY <2>1, <2>3, <3>3 DEF RequestType
      <3>6. Spends(n)
        BY <2>2, <2>3, <3>4 DEF Spends
      <3>5. /\ req' \in [Request -> RequestType \cup {None}]
            /\ \A s \in Request : At(s, "close")' => req'[s].todo # <<>>
            /\ SpentOfGot'
        BY <2>5, <3>4, <3>6 DEF GeoTypeOK, At, Free, SpentOfGot
      <3> QED
        BY <1>4, <2>1, <2>5, <3>1, <3>2, <3>5 DEF Reserve, GeoTypeOK, history
    <2> QED
      BY <1>4, <2>4, <2>5 DEF Reserve
  <1>5. ASSUME NEW r \in Request, Call(r) \/ CallRaises(r) PROVE TypedAndCapped'
    <2> DEFINE q == req[r]
    <2>1. q \in RequestType
      BY <1>5 DEF Call, CallRaises, At, Free, GeoTypeOK
    <2>2. q.got \in Nat /\ q.day \in Day
      BY <2>1, BoundsAssumption DEF RequestType
    <2>4. PICK n \in 0 .. q.got, walked \in SUBSET Task, kept \in SUBSET Task,
               ok \in SUBSET Task, raised \in BOOLEAN :
            /\ walked \subseteq q.batch /\ ok \subseteq kept
            /\ raised \/ (n = q.got /\ walked = q.batch /\ kept = q.batch)
            /\ req' = [req EXCEPT ![r] = Walked(q, n, walked, kept, ok, raised)]
      BY <1>5, CallsWalk
    <2> DEFINE w == Walked(q, n, walked, kept, ok, raised)
    <2>5. w \in RequestType /\ w.at # "close" /\ Spends(w)
      BY <2>1, <2>4, WalkedTyped
    <2>6. req' = [req EXCEPT ![r] = w]
      BY <2>4
    <2> HIDE DEF w
    <2>7. /\ req' \in [Request -> RequestType \cup {None}]
          /\ \A s \in Request : At(s, "close")' => req'[s].todo # <<>>
          /\ SpentOfGot'
      BY <2>5, <2>6 DEF GeoTypeOK, At, Free, SpentOfGot
    <2>8. /\ calls' \in [Day -> Nat]
          /\ UNCHANGED <<today, answers, config, fired, measured, returned, handed, missed>>
      <3>1. /\ calls' = [calls EXCEPT ![q.day] = @ + q.got]
            /\ UNCHANGED <<today, answers, config, fired, measured, returned, handed, missed>>
        BY <1>5 DEF Call, CallRaises
      <3> QED
        BY <2>2, <3>1 DEF GeoTypeOK
    <2> QED
      BY <2>7, <2>8 DEF GeoTypeOK, CapHolds, config
  <1>6. ASSUME NEW r \in Request, Merge(r) PROVE TypedAndCapped'
    <2> DEFINE q == req[r]
    <2>1. q \in RequestType
      BY <1>6 DEF Merge, At, Free, GeoTypeOK
    <2>2. PICK e \in q.left :
            LET stored == (answers[q.day] \ Of(e, q.kept)) \cup Of(e, q.ok) IN
            /\ answers' = [answers EXCEPT ![q.day] = stored]
            /\ req' = [req EXCEPT ![r] =
                        [q EXCEPT !.at = IF q.left = {e} THEN "settle" ELSE "merge",
                                  !.left = @ \ {e},
                                  !.seen = IF Of(e, stored) = {} THEN @ \ {e} ELSE @ \cup {e}]]
      BY <1>6 DEF Merge
    <2> DEFINE stored == (answers[q.day] \ Of(e, q.kept)) \cup Of(e, q.ok)
               at == IF q.left = {e} THEN "settle" ELSE "merge"
               seen == IF Of(e, stored) = {} THEN q.seen \ {e} ELSE q.seen \cup {e}
               n == [q EXCEPT !.at = at, !.left = q.left \ {e}, !.seen = seen]
    <2>3. e \in Engine /\ q.day \in Day /\ q.left \subseteq Engine
      BY <2>1 DEF RequestType
    <2>4. stored \subseteq Task
      BY <2>1, <2>3 DEF RequestType, Of, GeoTypeOK
    <2>5. at \in {"settle", "merge"} /\ seen \subseteq Engine
      BY <2>1, <2>3 DEF RequestType
    <2>6. answers' = [answers EXCEPT ![q.day] = stored] /\ req' = [req EXCEPT ![r] = n]
      BY <2>2
    <2> HIDE DEF stored, at, seen
    <2>7. n \in RequestType /\ n.at \in {"merge", "settle"} /\ n.spent = q.spent
          /\ n.got = q.got /\ n.raised = q.raised
      BY <2>1, <2>3, <2>5 DEF RequestType
    <2>8. /\ req' \in [Request -> RequestType \cup {None}]
          /\ \A s \in Request : At(s, "close")' => req'[s].todo # <<>>
          /\ SpentOfGot'
      <3>1. Spends(n)
        BY <1>6, <2>7 DEF Spends, SpentOfGot, Merge, At
      <3> QED
        BY <2>6, <2>7, <3>1 DEF GeoTypeOK, At, Free, SpentOfGot
    <2>9. UNCHANGED <<today, config, fired, calls, returned, handed>>
      BY <1>6 DEF Merge
    <2>10. measured' \in [Day -> SUBSET ConsoleRun]
      <3>1. ~Cron(q) => q.run \in ConsoleRun
        BY <2>1 DEF RequestType, Cron, Run
      <3> QED
        BY <1>6, <2>3, <3>1 DEF Merge, GeoTypeOK
    <2>11. missed' \in [Day -> SUBSET Task]
      <3>1. PICK lost \in SUBSET Task : missed' = [missed EXCEPT ![q.day] = @ \cup lost]
        BY <1>6, <2>3 DEF Merge, GeoTypeOK
      <3> QED
        BY <3>1 DEF GeoTypeOK
    <2> QED
      BY <2>3, <2>4, <2>6, <2>8, <2>9, <2>10, <2>11 DEF GeoTypeOK, CapHolds, config
  <1>7. ASSUME NEW r \in Request, Settle(r) PROVE TypedAndCapped'
    <2> DEFINE q == req[r]
    <2>1. q \in RequestType /\ ~Free(r) /\ q.run \in Run /\ q.day \in Day
      BY <1>7 DEF Settle, At, Free, GeoTypeOK, RequestType
    <2>2. /\ req' \in [Request -> RequestType \cup {None}]
          /\ \A s \in Request : At(s, "close")' => req'[s].todo # <<>>
          /\ SpentOfGot'
      <3> DEFINE over == DoneNow(q) \/ Terminal(q)
                 full == DoneNow(q) /\ ~Terminal(q)
      <3>1. CASE CloseWith(r, Swept(q, full, q.seen = {}))
        <4>1. full \in BOOLEAN /\ (q.seen = {}) \in BOOLEAN
          OBVIOUS
        <4> HIDE DEF full
        <4>2. Swept(q, full, q.seen = {}) \in Seq(Closing)
          BY <2>1, <4>1, ListsTyped
        <4> QED
          BY <2>1, <3>1, <4>2, CloseTyped
      <3>2. CASE req' = [req EXCEPT ![r] = IF Cron(q) THEN NewRequest(q.run, Task) ELSE None]
        <4>1. /\ NewRequest(q.run, Task) \in RequestType /\ NewRequest(q.run, Task).at = "load"
              /\ Spends(NewRequest(q.run, Task))
          BY <2>1, BoundsAssumption DEF NewRequest, Fresh, RequestType, GeoTypeOK, Spends
        <4> QED
          BY <3>2, <4>1 DEF GeoTypeOK, At, Free, SpentOfGot
      <3>3. CASE CloseWith(r, Refused(q))
        BY <2>1, <3>3, CloseTyped, ListsTyped
      <3> QED
        BY <1>7, <3>1, <3>2, <3>3 DEF Settle
    <2>3. lease' \in [run : Run, live : BOOLEAN] \cup {None}
      BY <1>7, <2>1 DEF Settle, Refreshed, GeoTypeOK
    <2>4. aio' \in Nat
      <3>1. {t \in q.batch : t[1] \in Serp} \in SUBSET Task
        BY <2>1 DEF RequestType
      <3> QED
        <4>1. Cardinality({t \in q.batch : t[1] \in Serp}) \in Nat
          BY <3>1, PartsAreFinite
        <4>2. aio \in Nat
          BY DEF GeoTypeOK
        <4> QED
          BY <1>7, <4>1, <4>2 DEF Settle
    <2>5. Streak(q) \in [Engine -> 0 .. FailLimit]
      BY BoundsAssumption DEF Streak, Smaller, GeoTypeOK
    <2>6. streaks' \in [day : Day \cup {0}, of : [Engine -> 0 .. FailLimit]]
      BY <1>7, <2>1, <2>5 DEF Settle
    <2>7. UNCHANGED <<today, answers, manual, completed, fired, calls, measured, returned>>
      BY <1>7 DEF Settle
    <2>8. q.got - q.spent \in Nat
      BY <2>1, BoundsAssumption DEF SpentOfGot, Spends, RequestType
    <2>9. used' \in [Day -> Nat] /\ CapHolds'
      <3>1. PICK n \in Nat : n <= used[q.day] /\ used' = [used EXCEPT ![q.day] = n]
        <4>1. used[q.day] \in Nat
          BY <2>1 DEF GeoTypeOK
        <4>2. /\ Larger(0, used[q.day] - Refund(q)) \in Nat
              /\ Larger(0, used[q.day] - Refund(q)) <= used[q.day]
          BY <2>8, <4>1 DEF Larger, Refund
        <4> QED
          BY <1>7, <4>2 DEF Settle
      <3> QED
        BY <2>1, <3>1, BoundsAssumption DEF GeoTypeOK, CapHolds
    <2>10. handed' \in [Day -> Nat]
      <3>1. PICK n \in Nat : handed' = [handed EXCEPT ![q.day] = @ + n]
        BY <1>7, <2>8 DEF Settle
      <3> QED
        BY <2>1, <3>1 DEF GeoTypeOK
    <2>11. missed' \in [Day -> SUBSET Task]
      <3>1. q.batch \ q.ok \subseteq Task
        BY <2>1 DEF RequestType
      <3>2. \/ missed' = missed
            \/ missed' = [missed EXCEPT ![q.day] = @ \cup (q.batch \ q.ok)]
        BY <1>7 DEF Settle
      <3>3. missed \in [Day -> SUBSET Task]
        BY DEF GeoTypeOK
      <3>4. [missed EXCEPT ![q.day] = @ \cup (q.batch \ q.ok)] \in [Day -> SUBSET Task]
        BY <2>1, <3>1, <3>3
      <3> QED
        BY <3>2, <3>3, <3>4
    <2> QED
      BY <2>2, <2>3, <2>4, <2>6, <2>7, <2>9, <2>10, <2>11 DEF GeoTypeOK
  <1>8. ASSUME NEW r \in Request, Close(r) PROVE TypedAndCapped'
    <2> DEFINE q == req[r]
    <2>1. q \in RequestType /\ ~Free(r) /\ q.day \in Day /\ q.todo # <<>>
      BY <1>8 DEF Close, At, Free, GeoTypeOK, RequestType
    <2>2. Tail(q.todo) \in Seq(Closing)
      BY <2>1 DEF RequestType
    <2>3. CloseWith(r, Tail(q.todo))
      BY <1>8 DEF Close
    <2>4. /\ req' \in [Request -> RequestType \cup {None}]
          /\ \A s \in Request : At(s, "close")' => req'[s].todo # <<>>
          /\ SpentOfGot'
      BY <2>1, <2>2, <2>3, CloseTyped
    <2>5. lease' \in [run : Run, live : BOOLEAN] \cup {None}
      BY <1>8 DEF Close, ReleasedBy, GeoTypeOK
    <2>6. manual' \in [Day -> ConsoleRun \cup {None}]
      BY <1>8, <2>1 DEF Close, GeoTypeOK
    <2>7. completed' \in Day \cup {0}
      BY <1>8 DEF Close, GeoTypeOK
    <2> QED
      BY <1>8, <2>4, <2>5, <2>6, <2>7 DEF Close, GeoTypeOK, CapHolds
  <1>9. ASSUME NEW r \in Request, Crash(r) PROVE TypedAndCapped'
    BY <1>9 DEF Crash, End, GeoTypeOK, CapHolds, config, history, At, Free, SpentOfGot
  <1>13. ASSUME NEW r \in Request, StoreRaises(r) PROVE TypedAndCapped'
    <2>1. UNCHANGED <<today, answers, config, fired, history>>
      BY <1>13 DEF StoreRaises
    <2>2. req[r] \in RequestType /\ ~Free(r)
      BY <1>13 DEF StoreRaises, Free, GeoTypeOK
    <2>3. PICK todo \in Seq(Closing) : CloseWith(r, todo)
      <3>1. PICK todo \in {<<>>, Refused(req[r])} : CloseWith(r, todo)
        BY <1>13 DEF StoreRaises
      <3>2. Refused(req[r]) \in Seq(Closing)
        BY <2>2, ListsTyped
      <3>3. <<>> \in Seq(Closing)
        OBVIOUS
      <3> QED
        BY <3>1, <3>2, <3>3
    <2>4. /\ req' \in [Request -> RequestType \cup {None}]
          /\ \A s \in Request : At(s, "close")' => req'[s].todo # <<>>
          /\ SpentOfGot'
      BY <2>2, <2>3, CloseTyped
    <2> QED
      BY <2>1, <2>4 DEF GeoTypeOK, CapHolds, config, history
  <1>10. CASE Lapse
    <2>1. lease' \in [run : Run, live : BOOLEAN] \cup {None}
      BY <1>10 DEF Lapse, GeoTypeOK
    <2> QED
      BY <1>10, <2>1 DEF Lapse, GeoTypeOK, CapHolds, At, Free, SpentOfGot, history
  <1>11. CASE NextDay
    <2>1. today' \in Day
      <3>1. today \in Day
        BY DEF GeoTypeOK
      <3> QED
        BY <1>11, <3>1, BoundsAssumption DEF NextDay, Day
    <2> QED
      BY <1>11, <2>1 DEF NextDay, GeoTypeOK, CapHolds, config, At, Free, SpentOfGot, history
  <1>12. CASE UNCHANGED vars
    BY <1>12 DEF vars, config, GeoTypeOK, CapHolds, At, Free, SpentOfGot, history
  <1> QED
    BY <1>1, <1>2, <1>3, <1>4, <1>5, <1>6, <1>7, <1>8, <1>9, <1>10, <1>11, <1>12, <1>13
    DEF Next, Begin, Step

(* The state of the polling is always well formed. *)
THEOREM GeoTypeCorrect == Spec => []GeoTypeOK
  <1>1. TypedAndCapped => GeoTypeOK
    BY DEF TypedAndCapped
  <1> QED
    BY <1>1, InitTyped, StepTyped, PTL DEF Spec

(* No day is ever charged beyond its cap, whatever overlaps, lapses, dies.  *)
THEOREM CapCorrect == Spec => []CapHolds
  <1>1. TypedAndCapped => CapHolds
    BY DEF TypedAndCapped
  <1> QED
    BY <1>1, InitTyped, StepTyped, PTL DEF Spec

-----------------------------------------------------------------------------
(* From here on leases outlast steps, and a console sends its next step     *)
(* after the last one is answered.                                          *)
Exclusive == ~SlowSteps /\ ~Overlap

(* No two requests in flight are of one run ...                             *)
RunsApart ==
  \A r, s \in Request : ~Free(r) /\ ~Free(s) /\ req[r].run = req[s].run => r = s
FiredKnown == \A r \in Request : ~Free(r) /\ Cron(req[r]) => req[r].run \in fired
(* ... and whoever polls has the lease.                                     *)
HoldsLease ==
  \A r \in Request : Polling(r) => lease = [run |-> req[r].run, live |-> TRUE]
SweepInv == TypedAndCapped /\ RunsApart /\ FiredKnown /\ HoldsLease

(* A request goes on, or ends, under its own run. *)
Moves(r) ==
  /\ \A s \in Request \ {r} : req'[s] = req[s]
  /\ Free(r)' \/ req'[r].run = req[r].run

(* A request that goes on in its own run keeps the runs apart. *)
LEMMA MovesKeepRuns ==
  ASSUME RunsApart, FiredKnown, NEW r \in Request, ~Free(r), Moves(r), fired' = fired
  PROVE  RunsApart' /\ FiredKnown'
  BY DEF RunsApart, FiredKnown, Moves, Free, Cron

(* Two that poll would both hold the lease, in two names. *)
LEMMA OneSweepHolds == RunsApart /\ HoldsLease => OneSweep
  <1> SUFFICES ASSUME RunsApart, HoldsLease, NEW r \in Request, NEW s \in Request,
                      Polling(r), Polling(s)
               PROVE  r = s
    BY DEF OneSweep
  <1>1. req[r].run = req[s].run
    BY DEF HoldsLease
  <1> QED
    BY <1>1 DEF RunsApart, Polling

(* The steps after which a request is not polling. *)
Rests(r) == Free(r) \/ req[r].at \in {"load", "reserve", "close"}
(* The steps after which a request neither polls nor holds a grant. *)
LEMMA RestingSteps ==
  ASSUME TypedAndCapped, NEW r \in Request,
         \/ Load(r) \/ Turned(r) \/ Deadline(r) \/ Settle(r) \/ Close(r)
         \/ Crash(r) \/ StoreRaises(r)
  PROVE  ~Free(r) /\ Moves(r) /\ Rests(r)' /\ UNCHANGED <<calls, fired>>
  <1> DEFINE q == req[r]
  <1>1. ~Free(r) /\ q \in RequestType /\ req \in [Request -> RequestType \cup {None}]
    BY DEF Load, Turned, Deadline, Settle, Close, Crash, StoreRaises, At, Free,
           TypedAndCapped, GeoTypeOK
  <1>2. UNCHANGED <<calls, fired>>
    BY DEF Load, Turned, Deadline, Settle, Close, Crash, StoreRaises, history
  <1>3. ASSUME NEW todo, CloseWith(r, todo) PROVE Moves(r) /\ Rests(r)'
    <2>1. /\ Fresh("close", q.run, q.day, q.wanted, todo).run = q.run
          /\ Fresh("close", q.run, q.day, q.wanted, todo).at = "close"
      BY DEF Fresh
    <2> QED
      BY <1>1, <1>3, <2>1 DEF CloseWith, Moves, Rests, Free
  <1>4. CASE Load(r)
    <2>1. CASE \E todo : CloseWith(r, todo)
      BY <1>1, <1>2, <1>3, <2>1
    <2>2. CASE ~\E todo : CloseWith(r, todo)
      <3> DEFINE S == Usable(q.wanted)
                 owed == S \ answers[today]
                 seen == {u[1] : u \in S} \cap {t[1] : t \in answers[today]}
                 n == [q EXCEPT !.at = "reserve", !.day = today, !.tasks = owed, !.seen = seen]
      <3>1. req' = [req EXCEPT ![r] = n]
        BY <1>4, <2>2 DEF Load
      <3> HIDE DEF owed, seen
      <3>2. n.run = q.run /\ n.at = "reserve"
        BY <1>1 DEF RequestType
      <3> QED
        BY <1>1, <1>2, <3>1, <3>2 DEF Moves, Rests, Free
    <2> QED
      BY <2>1, <2>2
  <1>5. CASE Turned(r) \/ Deadline(r) \/ Close(r) \/ StoreRaises(r)
    <2>1. \E todo : CloseWith(r, todo)
      BY <1>5 DEF Turned, Deadline, Close, StoreRaises
    <2> QED
      BY <1>1, <1>2, <1>3, <2>1
  <1>6. CASE Settle(r)
    <2>1. CASE \E todo : CloseWith(r, todo)
      BY <1>1, <1>2, <1>3, <2>1
    <2>2. CASE ~\E todo : CloseWith(r, todo)
      <3>1. req' = [req EXCEPT ![r] = IF Cron(q) THEN NewRequest(q.run, Task) ELSE None]
        BY <1>6, <2>2 DEF Settle
      <3>2. NewRequest(q.run, Task).run = q.run /\ NewRequest(q.run, Task).at = "load"
        BY DEF NewRequest, Fresh
      <3> QED
        BY <1>1, <1>2, <3>1, <3>2 DEF Moves, Rests, Free
    <2> QED
      BY <2>1, <2>2
  <1>7. CASE Crash(r)
    BY <1>1, <1>2, <1>7 DEF Crash, End, Moves, Rests, Free
  <1> QED
    BY <1>4, <1>5, <1>6, <1>7

(* The steps at which it polls, or begins to, also go on under their run    *)
(* and for their day.                                                       *)
LEMMA WorkingSteps ==
  ASSUME TypedAndCapped, NEW r \in Request,
         Reserve(r) \/ Call(r) \/ CallRaises(r) \/ Merge(r)
  PROVE  ~Free(r) /\ Moves(r) /\ fired' = fired /\ (Free(r)' \/ req'[r].day = req[r].day)
  <1> DEFINE q == req[r]
  <1>1. ~Free(r) /\ q \in RequestType /\ req \in [Request -> RequestType \cup {None}]
    BY DEF Reserve, Call, CallRaises, Merge, At, Free, TypedAndCapped, GeoTypeOK
  <1>2. fired' = fired
    BY DEF Reserve, Call, CallRaises, Merge
  <1>3. CASE Reserve(r)
    <2> DEFINE got == Grant(Smaller(Batch, Cardinality(q.tasks)), q.day)
               batch == First(got, q.tasks)
               n == [q EXCEPT !.at = "call", !.got = got, !.batch = batch]
    <2>1. CASE CloseWith(r, OutOfBudget)
      <3>1. /\ Fresh("close", q.run, q.day, q.wanted, OutOfBudget).run = q.run
            /\ Fresh("close", q.run, q.day, q.wanted, OutOfBudget).day = q.day
        BY DEF Fresh
      <3> QED
        BY <1>1, <1>2, <2>1, <3>1 DEF CloseWith, Moves, Free
    <2>2. CASE req' = [req EXCEPT ![r] = n]
      <3> HIDE DEF got, batch
      <3>1. n.run = q.run /\ n.day = q.day
        BY <1>1 DEF RequestType
      <3> QED
        BY <1>1, <1>2, <2>2, <3>1 DEF Moves
    <2> QED
      BY <1>3, <2>1, <2>2 DEF Reserve
  <1>4. CASE Call(r) \/ CallRaises(r)
    <2>1. req'[r].run = q.run /\ req'[r].day = q.day /\ \A s \in Request \ {r} : req'[s] = req[s]
      <3>1. PICK n, walked, kept, ok, raised :
              req' = [req EXCEPT ![r] = Walked(q, n, walked, kept, ok, raised)]
        BY <1>4, CallsWalk
      <3>2. \A w : w = Walked(q, n, walked, kept, ok, raised) => w.run = q.run /\ w.day = q.day
        BY <1>1 DEF Walked, RequestType
      <3> QED
        BY <1>1, <3>1, <3>2
    <2> QED
      BY <1>1, <1>2, <2>1 DEF Moves
  <1>5. CASE Merge(r)
    <2>1. PICK e \in q.left :
            \E seen : req' = [req EXCEPT ![r] =
              [q EXCEPT !.at = IF q.left = {e} THEN "settle" ELSE "merge",
                        !.left = @ \ {e}, !.seen = seen]]
      BY <1>5 DEF Merge
    <2>2. req'[r].run = q.run /\ req'[r].day = q.day /\ \A s \in Request \ {r} : req'[s] = req[s]
      BY <1>1, <2>1 DEF RequestType
    <2> QED
      BY <1>1, <1>2, <2>2 DEF Moves
  <1> QED
    BY <1>3, <1>4, <1>5

(* A request begins in a free slot, for a run that has none in flight if    *)
(* consoles send one step at a time.                                        *)
LEMMA BeginningSteps ==
  ASSUME TypedAndCapped, NEW r \in Request, NEW run \in Run, Fire(r, run) \/ Ask(r, run)
  PROVE  /\ Free(r) /\ req'[r].run = run /\ req'[r].at = "load"
         /\ \A s \in Request \ {r} : req'[s] = req[s]
         /\ FiredKnown /\ ~Overlap => \A s \in Request \ {r} : ~Free(s) => req[s].run # run
         /\ fired \subseteq fired' /\ (run \in CronRun => run \in fired')
         /\ UNCHANGED <<config, answers, history>>
  <1>1. req \in [Request -> RequestType \cup {None}]
    BY DEF TypedAndCapped, GeoTypeOK
  <1>2. PICK S \in SUBSET Task : req' = [req EXCEPT ![r] = NewRequest(run, S)]
    BY AskedAssumption DEF Fire, Ask
  <1>3. NewRequest(run, S).run = run /\ NewRequest(run, S).at = "load"
    BY DEF NewRequest, Fresh
  <1>4. ASSUME FiredKnown, ~Overlap, NEW s \in Request \ {r}, ~Free(s)
        PROVE  req[s].run # run
    <2>1. CASE Fire(r, run)
      BY <1>4, <2>1 DEF Fire, FiredKnown, Cron
    <2>2. CASE Ask(r, run)
      BY <1>4, <2>2 DEF Ask
    <2> QED
      BY <2>1, <2>2
  <1>5. fired \subseteq fired' /\ (run \in CronRun => run \in fired')
    BY RunAssumption DEF Fire, Ask
  <1> QED
    BY <1>1, <1>2, <1>3, <1>4, <1>5 DEF Fire, Ask

(* So no run ever has two requests in flight. *)
LEMMA RunsStep ==
  ASSUME ~Overlap, TypedAndCapped, RunsApart, FiredKnown, [Next]_vars
  PROVE  RunsApart' /\ FiredKnown'
  <1>1. ASSUME NEW r \in Request, NEW run \in Run, Fire(r, run) \/ Ask(r, run)
        PROVE  RunsApart' /\ FiredKnown'
    <2>1. /\ req'[r].run = run /\ \A s \in Request \ {r} : req'[s] = req[s]
          /\ \A s \in Request \ {r} : ~Free(s) => req[s].run # run
          /\ fired \subseteq fired' /\ (run \in CronRun => run \in fired')
      BY <1>1, BeginningSteps
    <2>2. RunsApart'
      BY <2>1 DEF RunsApart, Free
    <2>3. FiredKnown'
      BY <2>1 DEF FiredKnown, Free, Cron
    <2> QED
      BY <2>2, <2>3
  <1>2. ASSUME NEW r \in Request,
               \/ Load(r) \/ Turned(r) \/ Deadline(r) \/ Settle(r) \/ Close(r)
               \/ Crash(r) \/ StoreRaises(r)
        PROVE  RunsApart' /\ FiredKnown'
    BY <1>2, RestingSteps, MovesKeepRuns
  <1>3. ASSUME NEW r \in Request,
               Reserve(r) \/ Call(r) \/ CallRaises(r) \/ Merge(r)
        PROVE  RunsApart' /\ FiredKnown'
    BY <1>3, WorkingSteps, MovesKeepRuns
  <1>4. CASE Lapse \/ NextDay \/ UNCHANGED vars
    BY <1>4 DEF Lapse, NextDay, vars, RunsApart, FiredKnown, Free, Cron
  <1> QED
    BY <1>1, <1>2, <1>3, <1>4 DEF Next, Begin, Step

(* What a request keeps of the invariant when it rests. *)
LEMMA RestingKeeps ==
  ASSUME RunsApart, NEW r \in Request, Moves(r), Rests(r)',
         \A s \in Request \ {r} : Polling(s) => lease' = [run |-> req[s].run, live |-> TRUE]
  PROVE  HoldsLease'
  <1>1. ~Polling(r)'
    BY DEF Rests, Polling, Free
  <1>2. \A s \in Request \ {r} : req'[s] = req[s]
    BY DEF Moves
  <1> QED
    BY <1>1, <1>2 DEF HoldsLease, Polling, Free

(* Every step keeps it. *)
LEMMA SweepStep ==
  ASSUME Exclusive, SweepInv, [Next]_vars
  PROVE  SweepInv'
  <1> USE DEF SweepInv
  <1>0. /\ TypedAndCapped' /\ req \in [Request -> RequestType \cup {None}]
        /\ RunsApart' /\ FiredKnown'
    BY StepTyped, RunsStep DEF TypedAndCapped, GeoTypeOK, Exclusive
  <1>1. ASSUME NEW r \in Request, NEW run \in Run, Fire(r, run) \/ Ask(r, run)
        PROVE  SweepInv'
    <2>1. /\ req'[r].at = "load" /\ lease' = lease
          /\ \A s \in Request \ {r} : req'[s] = req[s]
      BY <1>1, BeginningSteps DEF config
    <2>2. HoldsLease'
      BY <2>1 DEF HoldsLease, Polling, Free
    <2> QED
      BY <1>0, <2>2
  <1>2. ASSUME NEW r \in Request,
               \/ Load(r) \/ Turned(r) \/ Deadline(r) \/ Settle(r) \/ Close(r)
               \/ Crash(r) \/ StoreRaises(r)
        PROVE  SweepInv'
    <2>1. ~Free(r) /\ Moves(r) /\ Rests(r)'
      BY <1>2, RestingSteps
    <2>2. ASSUME NEW s \in Request \ {r}, Polling(s)
          PROVE  lease' = [run |-> req[s].run, live |-> TRUE]
      <3>1. lease = [run |-> req[s].run, live |-> TRUE] /\ req[s].run # req[r].run
        BY <2>1, <2>2 DEF HoldsLease, RunsApart, Polling
      <3>2. lease.run = req[s].run
        BY <3>1
      <3>3. Refreshed(req[r]) = lease /\ ReleasedBy(req[r]) = lease
        BY <3>1, <3>2 DEF Refreshed, ReleasedBy
      <3>4. lease' \in {lease, Refreshed(req[r]), ReleasedBy(req[r])}
        BY <1>2 DEF Load, Turned, Deadline, Settle, Close, Crash, StoreRaises, config
      <3> QED
        BY <3>1, <3>3, <3>4
    <2> QED
      BY <1>0, <2>1, <2>2, RestingKeeps
  <1>3. ASSUME NEW r \in Request, Reserve(r) PROVE SweepInv'
    <2> DEFINE q == req[r]
    <2>1. q.run \in Run /\ ~Free(r) /\ ~Polling(r) /\ Moves(r)
      BY <1>0, <1>3, WorkingSteps DEF Reserve, At, Free, RequestType, Polling
    <2>2. \A s \in Request : ~Polling(s)
      <3> SUFFICES ASSUME NEW s \in Request, Polling(s) PROVE FALSE
        OBVIOUS
      <3>1. lease = [run |-> req[s].run, live |-> TRUE]
        BY DEF HoldsLease
      <3>2. req[s].run # q.run
        BY <2>1 DEF RunsApart, Polling
      <3>3. lease # None
        <4>1. req[s] \in RequestType
          BY <1>0 DEF Polling, Free
        <4>2. req[s].run \in Run
          BY <4>1 DEF RequestType
        <4>3. [run |-> req[s].run, live |-> TRUE] \in [run : Run, live : BOOLEAN]
          BY <4>2
        <4> QED
          BY <3>1, <4>3, NoneAssumption
      <3>4. lease.live /\ lease.run = req[s].run
        BY <3>1
      <3> QED
        BY <1>3, <3>2, <3>3, <3>4 DEF Reserve, HeldByOther
    <2>3. CASE CloseWith(r, OutOfBudget)
      <3>1. Fresh("close", q.run, q.day, q.wanted, OutOfBudget).at = "close"
        BY DEF Fresh
      <3>2. Rests(r)'
        BY <1>0, <2>3, <3>1 DEF CloseWith, Rests, Free
      <3> QED
        BY <1>0, <2>1, <2>2, <3>2, RestingKeeps
    <2>4. CASE lease' = [run |-> q.run, live |-> TRUE]
      <3>1. HoldsLease'
        BY <2>1, <2>2, <2>4 DEF HoldsLease, Moves, Polling, Free
      <3> QED
        BY <1>0, <3>1
    <2> QED
      BY <1>3, <2>3, <2>4 DEF Reserve
  <1>4. ASSUME NEW r \in Request, Call(r) \/ CallRaises(r) \/ Merge(r) PROVE SweepInv'
    <2>1. Polling(r) /\ ~Free(r) /\ Moves(r) /\ lease' = lease
      BY <1>0, <1>4, WorkingSteps DEF Call, CallRaises, Merge, At, Polling, config
    <2>2. HoldsLease'
      BY <2>1 DEF HoldsLease, Moves, Polling, Free
    <2> QED
      BY <1>0, <2>2
  <1>5. CASE Lapse
    <2>1. \A r \in Request : ~Polling(r)
      <3> SUFFICES ASSUME NEW r \in Request, Polling(r) PROVE FALSE
        OBVIOUS
      <3>1. lease = [run |-> req[r].run, live |-> TRUE]
        BY DEF HoldsLease
      <3> QED
        BY <1>5, <3>1 DEF Lapse, Exclusive
    <2>2. req' = req
      BY <1>5 DEF Lapse
    <2> QED
      BY <1>0, <2>1, <2>2 DEF HoldsLease, Polling, Free
  <1>6. CASE NextDay \/ UNCHANGED vars
    <2>1. UNCHANGED <<req, lease>>
      BY <1>6 DEF NextDay, vars, config
    <2> QED
      BY <1>0, <2>1 DEF HoldsLease, Polling, Free
  <1> QED
    BY <1>1, <1>2, <1>3, <1>4, <1>5, <1>6 DEF Next, Begin, Step

(* At the start nobody polls. *)
LEMMA SweepInit == Init => SweepInv
  <1> SUFFICES ASSUME Init PROVE SweepInv
    OBVIOUS
  <1>1. \A r \in Request : Free(r)
    BY DEF Init, Free
  <1> QED
    BY <1>1, InitTyped
    DEF SweepInv, RunsApart, FiredKnown, HoldsLease, Polling

(* One request at a time polls the brand, for any number of consoles and    *)
(* scheduler's sweeps, crashes and lapsing leases included.                 *)
THEOREM SweepsExclude ==
  ASSUME Exclusive
  PROVE  Spec => []OneSweep
  <1>1. SweepInv /\ [Next]_vars => SweepInv'
    BY SweepStep
  <1>2. SweepInv => OneSweep
    BY OneSweepHolds DEF SweepInv
  <1> QED
    BY <1>1, <1>2, SweepInit, PTL DEF Spec

-----------------------------------------------------------------------------
(* The budget, whatever overlaps, lapses or dies. The calls that are about  *)
(* to go out are those of the requests between _reserve_calls and their     *)
(* calls: a set of pairs, a request and the number of one of its calls.     *)
Due(r, d) == At(r, "call") /\ req[r].day = d
Owing(d) == {p \in Request \X (1 .. Batch) : Due(p[1], d) /\ p[2] <= req[p[1]].got}
CallsOf(r, n) == {p \in Request \X (1 .. Batch) : p[1] = r /\ p[2] <= n}
(* They are charged on top of the calls that did go out.                    *)
Booked(d) == used[d] + handed[d]
Charged == \A d \in Day : calls[d] + Cardinality(Owing(d)) <= Booked(d)
BudgetInv == TypedAndCapped /\ Charged

(* There are finitely many requests in flight, and batches are bounded. *)
LEMMA CallsAreFinite ==
  /\ IsFiniteSet(Request \X (1 .. Batch))
  /\ \A S \in SUBSET (Request \X (1 .. Batch)) :
       IsFiniteSet(S) /\ Cardinality(S) \in Nat
  <1>1. IsFiniteSet(1 .. Batch)
    BY BoundsAssumption, FS_Interval
  <1>2. IsFiniteSet(Request \X (1 .. Batch))
    BY <1>1, RequestAssumption, FS_Product
  <1> QED
    BY <1>2, FS_Subset, FS_CardinalityType

(* A request that is granted n calls owes n. *)
LEMMA CallsCounted ==
  ASSUME NEW r \in Request, NEW n \in 0 .. Batch
  PROVE  Cardinality(CallsOf(r, n)) = n
  <1>1. CallsOf(r, n) = {r} \X (1 .. n)
    BY BoundsAssumption DEF CallsOf
  <1>2. IsFiniteSet(1 .. n) /\ Cardinality(1 .. n) = n
    BY BoundsAssumption, FS_Interval
  <1>3. IsFiniteSet({r}) /\ Cardinality({r}) = 1
    BY FS_Singleton
  <1>4. Cardinality({r} \X (1 .. n)) = 1 * n
    BY <1>2, <1>3, FS_Product
  <1> QED
    BY <1>1, <1>4

(* A step after which its request owes nothing, and which makes no call     *)
(* and charges none, leaves the calls charged.                              *)
LEMMA OwingNoMore ==
  ASSUME BudgetInv, NEW r \in Request, \A s \in Request \ {r} : req'[s] = req[s],
         ~At(r, "call")', calls' = calls, TypedAndCapped',
         \A d \in Day : Booked(d) <= Booked(d)'
  PROVE  Charged'
  <1> SUFFICES ASSUME NEW d \in Day
               PROVE  calls[d] + Cardinality(Owing(d)') <= Booked(d)'
    BY DEF Charged
  <1>1. Owing(d)' \subseteq Owing(d)
    BY DEF Owing, Due, At, Free
  <1>2. Cardinality(Owing(d)') <= Cardinality(Owing(d))
    <2>1. Owing(d) \in SUBSET (Request \X (1 .. Batch))
      BY DEF Owing
    <2> QED
      BY <1>1, <2>1, CallsAreFinite, FS_Subset
  <1>3. /\ Cardinality(Owing(d)) \in Nat /\ Cardinality(Owing(d)') \in Nat
        /\ calls[d] \in Nat
    BY CallsAreFinite DEF Owing, BudgetInv, TypedAndCapped, GeoTypeOK
  <1>4. Booked(d) \in Nat /\ Booked(d)' \in Nat
    <2>1. used \in [Day -> Nat] /\ handed \in [Day -> Nat]
      BY DEF BudgetInv, TypedAndCapped, GeoTypeOK
    <2>2. used' \in [Day -> Nat] /\ handed' \in [Day -> Nat]
      BY DEF TypedAndCapped, GeoTypeOK
    <2> QED
      BY <2>1, <2>2 DEF Booked
  <1>5. calls[d] + Cardinality(Owing(d)) <= Booked(d)
    BY DEF BudgetInv, Charged
  <1> QED
    BY <1>2, <1>3, <1>4, <1>5

(* What a step gives back while it raises is down as handed; no other step  *)
(* gives any charge back.                                                   *)
LEMMA SettleBooks ==
  ASSUME TypedAndCapped, NEW r \in Request, Settle(r), NEW d \in Day
  PROVE  Booked(d) <= Booked(d)'
  <1> DEFINE q == req[r]
             back == q.got - q.spent
             h == IF q.raised THEN back ELSE 0
             u == Larger(0, used[q.day] - back)
  <1>1. /\ q \in RequestType /\ q.day \in Day /\ Spends(q) /\ q.at = "settle"
        /\ used \in [Day -> Nat] /\ handed \in [Day -> Nat]
    BY DEF Settle, At, Free, RequestType, TypedAndCapped, GeoTypeOK, SpentOfGot
  <1>2. back \in Nat /\ back <= h /\ h \in Nat
    BY <1>1, BoundsAssumption DEF Spends, RequestType
  <1>3. used' = [used EXCEPT ![q.day] = u] /\ handed' = [handed EXCEPT ![q.day] = @ + h]
    BY DEF Settle, Refund
  <1> HIDE DEF q, back, h
  <1>4. CASE d = q.day
    <2>1. used[d] \in Nat /\ handed[d] \in Nat
      BY <1>1
    <2>2. used'[d] = u /\ handed'[d] = handed[d] + h
      BY <1>1, <1>3, <1>4
    <2> QED
      BY <1>2, <1>4, <2>1, <2>2 DEF Larger, Booked
  <1>5. CASE d # q.day
    <2>1. used[d] \in Nat /\ handed[d] \in Nat
      BY <1>1
    <2>2. used'[d] = used[d] /\ handed'[d] = handed[d]
      BY <1>1, <1>3, <1>5
    <2> QED
      BY <2>1, <2>2 DEF Booked
  <1> QED
    BY <1>4, <1>5

(* Every step keeps the calls within what was charged. *)
LEMMA BudgetStep == BudgetInv /\ [Next]_vars => BudgetInv'
  <1> SUFFICES ASSUME BudgetInv, [Next]_vars PROVE BudgetInv'
    OBVIOUS
  <1>0. /\ TypedAndCapped /\ TypedAndCapped' /\ Charged
        /\ req \in [Request -> RequestType \cup {None}]
        /\ used \in [Day -> Nat] /\ calls \in [Day -> Nat] /\ handed \in [Day -> Nat]
    BY StepTyped DEF BudgetInv, TypedAndCapped, GeoTypeOK
  <1>b. UNCHANGED <<used, handed>> => \A d \in Day : Booked(d)' = Booked(d) /\ Booked(d) \in Nat
    BY <1>0 DEF Booked
  <1>1. ASSUME NEW r \in Request, NEW run \in Run, Fire(r, run) \/ Ask(r, run)
        PROVE  Charged'
    <2>1. PICK S \in SUBSET Task : req' = [req EXCEPT ![r] = NewRequest(run, S)]
      BY <1>1, AskedAssumption DEF Fire, Ask
    <2>2. NewRequest(run, S).at = "load"
      BY DEF NewRequest, Fresh
    <2>3. ~At(r, "call")' /\ \A s \in Request \ {r} : req'[s] = req[s]
      BY <1>0, <2>1, <2>2 DEF At
    <2>4. UNCHANGED <<used, handed, calls>>
      BY <1>1 DEF Fire, Ask, config, history
    <2> QED
      BY <1>0, <1>b, <2>3, <2>4, OwingNoMore
  <1>2. ASSUME NEW r \in Request,
               \/ Load(r) \/ Turned(r) \/ Deadline(r) \/ Settle(r) \/ Close(r)
               \/ Crash(r) \/ StoreRaises(r)
        PROVE  Charged'
    <2>1. Moves(r) /\ Rests(r)' /\ calls' = calls
      BY <1>0, <1>2, RestingSteps
    <2>2. ~At(r, "call")' /\ \A s \in Request \ {r} : req'[s] = req[s]
      BY <2>1 DEF Moves, Rests, At, Free
    <2>3. Settle(r) \/ UNCHANGED <<used, handed>>
      BY <1>2 DEF Load, Turned, Deadline, Close, Crash, StoreRaises, config, history
    <2>4. \A d \in Day : Booked(d) <= Booked(d)'
      BY <1>0, <1>b, <2>3, SettleBooks
    <2> QED
      BY <1>0, <2>1, <2>2, <2>4, OwingNoMore
  <1>3. ASSUME NEW r \in Request, Reserve(r) PROVE Charged'
    <2> DEFINE q == req[r]
               got == Grant(Smaller(Batch, Cardinality(q.tasks)), q.day)
               n == [q EXCEPT !.at = "call", !.got = got, !.batch = First(got, q.tasks)]
    <2>1. q \in RequestType /\ ~Free(r) /\ q.day \in Day /\ q.at = "reserve"
      BY <1>0, <1>3 DEF Reserve, At, Free, RequestType
    <2>2. calls' = calls /\ handed' = handed
      BY <1>3 DEF Reserve, history
    <2>3. CASE CloseWith(r, OutOfBudget) /\ UNCHANGED config
      <3>1. Fresh("close", q.run, q.day, q.wanted, OutOfBudget).at = "close"
        BY DEF Fresh
      <3>2. ~At(r, "call")' /\ \A s \in Request \ {r} : req'[s] = req[s]
        BY <1>0, <2>3, <3>1 DEF CloseWith, At, Free
      <3> QED
        BY <1>0, <1>b, <2>2, <2>3, <3>2, OwingNoMore DEF config
    <2>4. CASE /\ used' = [used EXCEPT ![q.day] = @ + got]
               /\ req' = [req EXCEPT ![r] = n]
      <3>1. got \in 0 .. Batch
        BY <1>0, <2>1, GrantBounded DEF RequestType
      <3> HIDE DEF got
      <3>2. n.at = "call" /\ n.got = got /\ n.day = q.day
        BY <2>1 DEF RequestType
      <3>3. req'[r] = n /\ \A s \in Request \ {r} : req'[s] = req[s]
        BY <1>0, <2>4
      <3> SUFFICES ASSUME NEW d \in Day
                   PROVE  calls[d] + Cardinality(Owing(d)') <= used'[d] + handed[d]
        BY <2>2 DEF Charged, Booked
      <3>4. /\ Cardinality(Owing(d)) \in Nat /\ Cardinality(Owing(d)') \in Nat
            /\ IsFiniteSet(Owing(d)) /\ calls[d] \in Nat /\ used[d] \in Nat /\ handed[d] \in Nat
        BY <1>0, CallsAreFinite DEF Owing
      <3>5. CASE d # q.day
        <4>1. Owing(d)' \subseteq Owing(d)
          BY <3>2, <3>3, <3>5 DEF Owing, Due, At, Free
        <4>2. Cardinality(Owing(d)') <= Cardinality(Owing(d)) /\ used'[d] = used[d]
          BY <1>0, <2>4, <3>4, <3>5, <4>1, FS_Subset
        <4> QED
          BY <1>0, <3>4, <4>2 DEF Charged, Booked
      <3>6. CASE d = q.day
        <4>1. Owing(d)' \subseteq Owing(d) \cup CallsOf(r, got)
          <5> SUFFICES ASSUME NEW p \in Request \X (1 .. Batch), Due(p[1], d)',
                              p[2] <= req'[p[1]].got
                       PROVE  p \in Owing(d) \/ p \in CallsOf(r, got)
            BY DEF Owing
          <5>1. CASE p[1] = r
            BY <3>2, <3>3, <5>1 DEF CallsOf
          <5>2. CASE p[1] # r
            BY <3>3, <5>2 DEF Owing, Due, At, Free
          <5> QED
            BY <5>1, <5>2
        <4>2. CallsOf(r, got) \in SUBSET (Request \X (1 .. Batch))
          BY DEF CallsOf
        <4>3. IsFiniteSet(CallsOf(r, got)) /\ Cardinality(CallsOf(r, got)) = got
          BY <3>1, <4>2, CallsAreFinite, CallsCounted
        <4>4. /\ IsFiniteSet(Owing(d) \cup CallsOf(r, got))
              /\ Cardinality(Owing(d) \cup CallsOf(r, got)) <= Cardinality(Owing(d)) + got
          <5>1. Cardinality(Owing(d) \cap CallsOf(r, got)) \in Nat
            BY <4>3, FS_Intersection, FS_CardinalityType
          <5>2. /\ IsFiniteSet(Owing(d) \cup CallsOf(r, got))
                /\ Cardinality(Owing(d) \cup CallsOf(r, got)) = Cardinality(Owing(d))
                     + Cardinality(CallsOf(r, got)) - Cardinality(Owing(d) \cap CallsOf(r, got))
            BY <3>4, <4>3, FS_Union
          <5> QED
            BY <3>1, <3>4, <4>3, <5>1, <5>2
        <4>5. Cardinality(Owing(d)') <= Cardinality(Owing(d) \cup CallsOf(r, got))
          BY <4>1, <4>4, FS_Subset
        <4>6. Cardinality(Owing(d) \cup CallsOf(r, got)) \in Nat
          BY <4>4, FS_CardinalityType
        <4>7. used'[d] = used[d] + got
          BY <1>0, <2>4, <3>6
        <4>8. calls[d] + Cardinality(Owing(d)) <= used[d] + handed[d]
          BY <1>0 DEF Charged, Booked
        <4> QED
          BY <3>1, <3>4, <4>4, <4>5, <4>6, <4>7, <4>8
      <3> QED
        BY <3>5, <3>6
    <2> QED
      BY <1>3, <2>3, <2>4 DEF Reserve
  <1>4. ASSUME NEW r \in Request, Call(r) \/ CallRaises(r) PROVE Charged'
    <2> DEFINE q == req[r]
    <2>1. q \in RequestType /\ ~Free(r) /\ q.at = "call" /\ q.day \in Day /\ q.got \in 0 .. Batch
      BY <1>0, <1>4 DEF Call, CallRaises, At, Free, RequestType
    <2>2. PICK n \in 0 .. q.got, walked \in SUBSET Task, kept \in SUBSET Task,
               ok \in SUBSET Task, raised \in BOOLEAN :
            /\ walked \subseteq q.batch /\ ok \subseteq kept
            /\ raised \/ (n = q.got /\ walked = q.batch /\ kept = q.batch)
            /\ req' = [req EXCEPT ![r] = Walked(q, n, walked, kept, ok, raised)]
      BY <1>0, <1>4, CallsWalk
    <2> DEFINE w == Walked(q, n, walked, kept, ok, raised)
    <2>5. w.at # "call"
      BY <2>1, <2>2, WalkedTyped
    <2> HIDE DEF w
    <2>6. req'[r] = w /\ \A s \in Request \ {r} : req'[s] = req[s]
      BY <1>0, <2>2 DEF w
    <2>7. UNCHANGED <<used, handed>> /\ calls' = [calls EXCEPT ![q.day] = @ + q.got]
      BY <1>4 DEF Call, CallRaises, config
    <2> SUFFICES ASSUME NEW d \in Day
                 PROVE  calls'[d] + Cardinality(Owing(d)') <= used[d] + handed[d]
      BY <2>7 DEF Charged, Booked
    <2>8. /\ Cardinality(Owing(d)) \in Nat /\ Cardinality(Owing(d)') \in Nat
          /\ IsFiniteSet(Owing(d)) /\ calls[d] \in Nat /\ used[d] \in Nat /\ handed[d] \in Nat
      BY <1>0, CallsAreFinite DEF Owing
    <2>9. calls[d] + Cardinality(Owing(d)) <= used[d] + handed[d]
      BY <1>0 DEF Charged, Booked
    <2>10. CASE d # q.day
      <3>1. Owing(d)' \subseteq Owing(d)
        BY <2>5, <2>6 DEF Owing, Due, At, Free
      <3>2. Cardinality(Owing(d)') <= Cardinality(Owing(d)) /\ calls'[d] = calls[d]
        BY <1>0, <2>7, <2>8, <2>10, <3>1, FS_Subset
      <3> QED
        BY <2>8, <2>9, <3>2
    <2>11. CASE d = q.day
      <3>1. Owing(d)' \subseteq Owing(d) \ CallsOf(r, q.got)
        BY <2>5, <2>6 DEF Owing, CallsOf, Due, At, Free
      <3>2. Owing(d) \cap CallsOf(r, q.got) = CallsOf(r, q.got)
        BY <2>1, <2>11 DEF Owing, CallsOf, Due, At
      <3>3. /\ IsFiniteSet(Owing(d) \ CallsOf(r, q.got))
            /\ Cardinality(Owing(d) \ CallsOf(r, q.got)) = Cardinality(Owing(d)) - q.got
        <4>1. /\ IsFiniteSet(Owing(d) \ CallsOf(r, q.got))
              /\ Cardinality(Owing(d) \ CallsOf(r, q.got)) =
                   Cardinality(Owing(d)) - Cardinality(Owing(d) \cap CallsOf(r, q.got))
          BY <2>8, FS_Difference
        <4>2. Cardinality(CallsOf(r, q.got)) = q.got
          BY <2>1, CallsCounted
        <4> QED
          BY <3>2, <4>1, <4>2
      <3>4. Cardinality(Owing(d)') <= Cardinality(Owing(d)) - q.got
        BY <3>1, <3>3, FS_Subset
      <3>5. calls'[d] = calls[d] + q.got
        BY <1>0, <2>7, <2>11
      <3> QED
        BY <2>1, <2>8, <2>9, <3>4, <3>5
    <2> QED
      BY <2>10, <2>11
  <1>5. ASSUME NEW r \in Request, Merge(r) PROVE Charged'
    <2> DEFINE q == req[r]
    <2>1. q \in RequestType
      BY <1>0, <1>5 DEF Merge, At, Free
    <2>a. PICK e \in q.left :
            \E seen : req' = [req EXCEPT ![r] =
              [q EXCEPT !.at = IF q.left = {e} THEN "settle" ELSE "merge",
                        !.left = @ \ {e}, !.seen = seen]]
      BY <1>5 DEF Merge
    <2>2. PICK seen :
            req' = [req EXCEPT ![r] = [q EXCEPT !.at = IF q.left = {e} THEN "settle" ELSE "merge",
                                                !.left = @ \ {e}, !.seen = seen]]
      BY <2>a
    <2> DEFINE at == IF q.left = {e} THEN "settle" ELSE "merge"
               n == [q EXCEPT !.at = at, !.left = q.left \ {e}, !.seen = seen]
    <2>3. at # "call"
      OBVIOUS
    <2>4. req' = [req EXCEPT ![r] = n]
      BY <2>2
    <2> HIDE DEF at
    <2>5. n.at # "call"
      BY <2>1, <2>3 DEF RequestType
    <2>6. ~At(r, "call")' /\ \A s \in Request \ {r} : req'[s] = req[s]
      BY <1>0, <2>4, <2>5 DEF At
    <2>7. UNCHANGED <<used, calls, handed>>
      BY <1>5 DEF Merge, config
    <2> QED
      BY <1>0, <1>b, <2>6, <2>7, OwingNoMore
  <1>6. ASSUME Lapse \/ NextDay \/ UNCHANGED vars PROVE Charged'
    <2>1. UNCHANGED <<used, calls, handed, req>>
      BY <1>6 DEF Lapse, NextDay, vars, config, history
    <2>2. \A d \in Day : Owing(d)' = Owing(d)
      BY <2>1 DEF Owing, Due, At, Free
    <2> SUFFICES ASSUME NEW d \in Day
                 PROVE  calls[d] + Cardinality(Owing(d)') <= Booked(d)'
      BY <2>1 DEF Charged
    <2> QED
      BY <1>0, <1>b, <2>1, <2>2 DEF Charged
  <1>7. Charged'
    BY <1>1, <1>2, <1>3, <1>4, <1>5, <1>6 DEF Next, Begin, Step
  <1> QED
    BY <1>0, <1>7 DEF BudgetInv

(* At the start nothing is charged. *)
LEMMA BudgetInit == Init => BudgetInv
  <1> SUFFICES ASSUME Init PROVE BudgetInv
    OBVIOUS
  <1>1. TypedAndCapped
    BY InitTyped
  <1>2. ASSUME NEW d \in Day PROVE calls[d] + Cardinality(Owing(d)) <= Booked(d)
    <2>1. Owing(d) = {}
      BY DEF Init, Owing, Due, At, Free
    <2>2. calls[d] = 0 /\ Booked(d) = 0
      BY DEF Init, Booked
    <2> QED
      BY <2>1, <2>2, FS_EmptySet
  <1> QED
    BY <1>1, <1>2 DEF BudgetInv, Charged

(* What is granted is not negative, so the calls alone are within it too. *)
LEMMA BudgetInvSuffices == BudgetInv => WithinBudget
  <1> SUFFICES ASSUME BudgetInv, NEW d \in Day 
               PROVE  calls[d] <= used[d] + handed[d] /\ used[d] <= Cap
    BY DEF WithinBudget
  <1>1. Cardinality(Owing(d)) \in Nat /\ calls[d] \in Nat /\ Booked(d) \in Nat
    BY CallsAreFinite DEF Owing, BudgetInv, TypedAndCapped, GeoTypeOK, Booked
  <1>2. calls[d] <= Booked(d)
    BY <1>1 DEF BudgetInv, Charged
  <1> QED
    BY <1>2 DEF BudgetInv, TypedAndCapped, CapHolds, Booked

(* Every call that went out was charged before, save those whose charge a   *)
(* raising step handed back, and the day's cap holds: with any number of    *)
(* requests in flight, lapsing leases, overlapping steps, and requests that *)
(* die between their charge and their calls.                                *)
THEOREM BudgetCorrect == Spec => []WithinBudget
  BY BudgetInit, BudgetStep, BudgetInvSuffices, PTL DEF Spec

-----------------------------------------------------------------------------
(* The order of the pending tasks is total, so a step that is granted n     *)
(* calls has a batch of n tasks at most.                                    *)
RowOf(t, S) == {u \in S : u[1] = t[1] /\ u[2] < t[2]}
Ahead(t, S) == {u \in S : Before(u, t, S)}

(* Tasks are finitely many, in any set of them. *)
LEMMA TasksAreCounted ==
  ASSUME NEW S \in SUBSET Task
  PROVE  \A U \in SUBSET S : IsFiniteSet(U) /\ Cardinality(U) \in Nat
  <1>1. \A U \in SUBSET S : U \in SUBSET Task
    OBVIOUS
  <1> QED
    BY <1>1, TaskAssumption, FS_Subset, FS_CardinalityType

(* A set without one task that a larger one has is smaller. *)
LEMMA PartsAreSmaller ==
  ASSUME NEW S \in SUBSET Task, NEW U \in SUBSET S, NEW t \in S, t \notin U,
         NEW T \in SUBSET S, U \subseteq T, t \in T
  PROVE  Cardinality(U) < Cardinality(T)
  <1>1. IsFiniteSet(T) /\ Cardinality(U) \in Nat /\ Cardinality(T) \in Nat
    BY TasksAreCounted
  <1>2. Cardinality(U) <= Cardinality(T) /\ (Cardinality(U) = Cardinality(T) => U = T)
    BY <1>1, FS_Subset
  <1> QED
    BY <1>1, <1>2

(* Two tasks of one engine are in different rows. *)
LEMMA RowsDiffer ==
  ASSUME NEW S \in SUBSET Task, NEW t \in S, NEW u \in S, u[1] = t[1], u[2] < t[2]
  PROVE  Row(u, S) < Row(t, S)
  <1>1. t \in Nat \X Nat /\ u \in Nat \X Nat /\ S \subseteq Nat \X Nat
    BY TaskAssumption
  <1>2. RowOf(u, S) \subseteq RowOf(t, S)
    BY <1>1 DEF RowOf
  <1>3. u \in RowOf(t, S) /\ u \notin RowOf(u, S)
    BY <1>1 DEF RowOf
  <1>4. RowOf(u, S) \in SUBSET S /\ RowOf(t, S) \in SUBSET S
    BY DEF RowOf
  <1>5. Cardinality(RowOf(u, S)) < Cardinality(RowOf(t, S))
    BY <1>2, <1>3, <1>4, PartsAreSmaller
  <1> QED
    BY <1>5 DEF RowOf, Row

(* Of two tasks one goes before the other. *)
LEMMA BeforeIsTotal ==
  ASSUME NEW S \in SUBSET Task, NEW t \in S, NEW u \in S, t # u
  PROVE  Before(t, u, S) \/ Before(u, t, S)
  <1>1. t \in Nat \X Nat /\ u \in Nat \X Nat
    BY TaskAssumption
  <1>2. Row(t, S) \in Nat /\ Row(u, S) \in Nat
    <2>1. RowOf(t, S) \in SUBSET S /\ RowOf(u, S) \in SUBSET S
      BY DEF RowOf
    <2> QED
      BY <2>1, TasksAreCounted DEF RowOf, Row
  <1>3. CASE t[1] # u[1]
    BY <1>1, <1>2, <1>3 DEF Before
  <1>4. CASE t[1] = u[1]
    <2>1. t[2] # u[2]
      BY <1>1, <1>4
    <2>2. t[2] < u[2] \/ u[2] < t[2]
      BY <1>1, <2>1
    <2>3. Row(t, S) < Row(u, S) \/ Row(u, S) < Row(t, S)
      BY <1>4, <2>2, RowsDiffer
    <2> QED
      BY <2>3 DEF Before
  <1> QED
    BY <1>3, <1>4

(* So whoever is later has more tasks ahead. *)
LEMMA AheadGrows ==
  ASSUME NEW S \in SUBSET Task, NEW t \in S, NEW u \in S, Before(t, u, S)
  PROVE  Cardinality(Ahead(t, S)) < Cardinality(Ahead(u, S))
  <1>1. S \subseteq Nat \X Nat
    BY TaskAssumption
  <1>2. \A v \in S : Row(v, S) \in Nat
    <2>1. \A v \in S : RowOf(v, S) \in SUBSET S
      BY DEF RowOf
    <2> QED
      BY <2>1, TasksAreCounted DEF RowOf, Row
  <1>3. Ahead(t, S) \subseteq Ahead(u, S)
    BY <1>1, <1>2 DEF Ahead, Before
  <1>4. t \in Ahead(u, S) /\ t \notin Ahead(t, S)
    BY <1>1, <1>2 DEF Ahead, Before
  <1>5. Ahead(t, S) \in SUBSET S /\ Ahead(u, S) \in SUBSET S
    BY DEF Ahead
  <1> QED
    BY <1>3, <1>4, <1>5, PartsAreSmaller

(* The first n tasks are tasks, and at most n. *)
LEMMA FirstBounded ==
  ASSUME NEW S \in SUBSET Task, NEW n \in Nat
  PROVE  First(n, S) \subseteq S /\ Cardinality(First(n, S)) <= n
  <1> DEFINE F == First(n, S)
             place == [t \in F |-> Cardinality(Ahead(t, S))]
  <1>1. F \subseteq S /\ \A t \in F : Cardinality(Ahead(t, S)) < n
    BY DEF First, Ahead
  <1>2. \A t \in F : Cardinality(Ahead(t, S)) \in 0 .. n - 1
    <2>1. \A t \in F : Ahead(t, S) \in SUBSET S
      BY DEF Ahead
    <2> QED
      BY <1>1, <2>1, TasksAreCounted
  <1>3. \A t, u \in F : Cardinality(Ahead(t, S)) = Cardinality(Ahead(u, S)) => t = u
    <2> SUFFICES ASSUME NEW t \in F, NEW u \in F, t # u
                 PROVE  Cardinality(Ahead(t, S)) # Cardinality(Ahead(u, S))
      OBVIOUS
    <2>1. t \in S /\ u \in S
      BY <1>1
    <2>2. Before(t, u, S) \/ Before(u, t, S)
      BY <2>1, BeforeIsTotal
    <2>3. \/ Cardinality(Ahead(t, S)) < Cardinality(Ahead(u, S))
          \/ Cardinality(Ahead(u, S)) < Cardinality(Ahead(t, S))
      BY <2>1, <2>2, AheadGrows
    <2> QED
      BY <1>2, <2>3
  <1> HIDE DEF F
  <1>4. place \in Injection(F, 0 .. n - 1)
    BY <1>2, <1>3 DEF Injection, IsInjective
  <1>5. IsFiniteSet(0 .. n - 1) /\ Cardinality(0 .. n - 1) = n
    BY FS_Interval
  <1>6. Cardinality(F) <= n
    BY <1>4, <1>5, FS_Injection
  <1> QED
    BY <1>1, <1>6 DEF F

(* The SERP calls a step's batch holds are within what one batch may hold. *)
SerpOf(S) == {t \in S : t[1] \in Serp}
(* A batch has at most SerpBatch billed tasks. *)
LEMMA SerpBatchBounds ==
  /\ SerpBatch \in Nat
  /\ \A S \in SUBSET Task : Cardinality(S) <= Batch =>
       Cardinality(SerpOf(S)) \in Nat /\ Cardinality(SerpOf(S)) <= SerpBatch
  <1>1. IsFiniteSet(SerpOf(Task)) /\ Cardinality(SerpOf(Task)) \in Nat
    BY TaskAssumption, TasksAreCounted DEF SerpOf
  <1>2. SerpBatch = Smaller(Batch, Cardinality(SerpOf(Task)))
    BY DEF SerpBatch, SerpOf
  <1>3. SerpBatch \in Nat
    BY <1>1, <1>2, BoundsAssumption DEF Smaller
  <1>4. ASSUME NEW S \in SUBSET Task, Cardinality(S) <= Batch
        PROVE  Cardinality(SerpOf(S)) \in Nat /\ Cardinality(SerpOf(S)) <= SerpBatch
    <2>1. IsFiniteSet(S) /\ Cardinality(S) \in Nat
      BY TasksAreCounted
    <2>2. Cardinality(SerpOf(S)) \in Nat /\ Cardinality(SerpOf(S)) <= Cardinality(S)
      BY <2>1, TasksAreCounted, FS_Subset DEF SerpOf
    <2>3. Cardinality(SerpOf(S)) <= Cardinality(SerpOf(Task))
      BY <1>1, FS_Subset DEF SerpOf
    <2> QED
      BY <1>1, <1>2, <1>4, <2>1, <2>2, <2>3, BoundsAssumption DEF Smaller
  <1> QED
    BY <1>3, <1>4

(* A request that was loaded under the cap carries SERP tasks until it      *)
(* settles; all of them together are still below the bound.                 *)
Carries(r) ==
  /\ ~Free(r) /\ req[r].at \in {"reserve", "call", "merge", "settle"}
  /\ SerpOf(req[r].tasks) # {}
Carrying == {r \in Request : Carries(r)}
SerpBound == AioCap + SerpBatch * Cardinality(Request)
SerpCounted ==
  \/ aio + SerpBatch * Cardinality(Carrying) < SerpBound
  \/ aio = 0 /\ Carrying = {}
Batched ==
  \A r \in Request : Polling(r) =>
    req[r].batch \subseteq req[r].tasks /\ Cardinality(req[r].batch) <= Batch
SerpInv == TypedAndCapped /\ Batched /\ SerpCounted

(* Requests are finitely many. *)
LEMMA CarryingIsFinite ==
  \A S \in SUBSET Request :
    IsFiniteSet(S) /\ Cardinality(S) \in Nat /\ Cardinality(S) <= Cardinality(Request)
  BY RequestAssumption, FS_Subset, FS_CardinalityType

(* Multiplication, for the count: it grows, *)
LEMMA TimesGrows ==
  ASSUME NEW k \in Nat, NEW a \in Nat, NEW b \in Nat, a <= b
  PROVE  k * a \in Nat /\ k * b \in Nat /\ k * a <= k * b
  OBVIOUS

(* and one factor more is one summand more. *)
LEMMA TimesLess ==
  ASSUME NEW k \in Nat, NEW a \in Nat
  PROVE  k * a \in Nat /\ k * (a + 1) = k * a + k
  OBVIOUS

(* A step that settles nothing and loads no SERP task keeps the count.      *)
LEMMA CarryingNoMore ==
  ASSUME SerpInv, Carrying' \subseteq Carrying, aio' = aio
  PROVE  SerpCounted'
  <1> DEFINE m == Cardinality(Carrying)
             n == Cardinality(Carrying')
  <1>1. Carrying \in SUBSET Request /\ Carrying' \in SUBSET Request
    BY DEF Carrying
  <1>2. m \in Nat /\ n \in Nat /\ n <= m
    BY <1>1, CarryingIsFinite, FS_Subset
  <1>3. SerpBatch * n \in Nat /\ SerpBatch * m \in Nat /\ SerpBatch * n <= SerpBatch * m
    <2> HIDE DEF m, n
    <2> QED
      BY <1>2, SerpBatchBounds, TimesGrows
  <1>4. aio \in Nat /\ SerpBound \in Nat
    <2>1. Cardinality(Request) \in Nat
      BY CarryingIsFinite
    <2>2. SerpBatch * Cardinality(Request) \in Nat
      BY <2>1, SerpBatchBounds, TimesGrows
    <2> QED
      BY <2>2, BoundsAssumption DEF SerpBound, SerpInv, TypedAndCapped, GeoTypeOK
  <1>5. CASE aio = 0 /\ Carrying = {}
    BY <1>5 DEF SerpCounted
  <1>6. CASE aio + SerpBatch * m < SerpBound
    <2>1. aio + SerpBatch * n < SerpBound
      BY <1>3, <1>4, <1>6
    <2> QED
      BY <2>1 DEF SerpCounted, SerpBound, SerpBatch
  <1> QED
    BY <1>5, <1>6 DEF SerpInv, SerpCounted

(* A request that is loaded with SERP tasks was loaded under the cap.       *)
LEMMA LoadedUnderCap ==
  ASSUME SerpInv, aio < AioCap, aio' = aio
  PROVE  SerpCounted'
  <1> DEFINE n == Cardinality(Carrying')
             p == Cardinality(Request)
  <1>1. n \in Nat /\ p \in Nat /\ n <= p
    <2>1. Carrying' \in SUBSET Request
      BY DEF Carrying
    <2> QED
      BY <2>1, CarryingIsFinite
  <1>2. SerpBatch * n \in Nat /\ SerpBatch * p \in Nat /\ SerpBatch * n <= SerpBatch * p
    <2> HIDE DEF n, p
    <2> QED
      BY <1>1, SerpBatchBounds, TimesGrows
  <1>3. aio + SerpBatch * n < AioCap + SerpBatch * p
    BY <1>2, BoundsAssumption DEF SerpInv, TypedAndCapped, GeoTypeOK
  <1> QED
    BY <1>3 DEF SerpCounted, SerpBound, SerpBatch

(* What a request carries depends on the request alone. *)
LEMMA OthersCarry ==
  ASSUME NEW r \in Request, \A s \in Request \ {r} : req'[s] = req[s],
         ~Carries(r)' \/ Carries(r)
  PROVE  Carrying' \subseteq Carrying
  BY DEF Carrying, Carries, Free

(* A settled batch goes from those in flight to the counter. *)
LEMMA SettleCounts ==
  ASSUME SerpInv, NEW r \in Request, Settle(r), Carrying' \subseteq Carrying \ {r}
  PROVE  SerpCounted'
  <1> DEFINE q == req[r]
             b == Cardinality(SerpOf(q.batch))
             m == Cardinality(Carrying)
             n == Cardinality(Carrying')
  <1>1. q \in RequestType /\ ~Free(r) /\ Polling(r) /\ q.at = "settle"
    BY DEF Settle, At, Free, Polling, SerpInv, TypedAndCapped, GeoTypeOK
  <1>2. q.batch \in SUBSET Task /\ q.batch \subseteq q.tasks /\ Cardinality(q.batch) <= Batch
    BY <1>1 DEF RequestType, SerpInv, Batched
  <1>3. b \in Nat /\ b <= SerpBatch /\ aio' = aio + b
    <2>1. aio' = aio + b
      BY DEF Settle, SerpOf
    <2> QED
      BY <1>2, <2>1, SerpBatchBounds
  <1>4. Carrying \in SUBSET Request /\ Carrying' \in SUBSET Request
    BY DEF Carrying
  <1>5. IsFiniteSet(Carrying) /\ m \in Nat /\ n \in Nat
    BY <1>4, CarryingIsFinite
  <1>6. aio \in Nat
    BY DEF SerpInv, TypedAndCapped, GeoTypeOK
  <1>7. CASE r \in Carrying
    <2>1. n <= Cardinality(Carrying \ {r}) /\ Cardinality(Carrying \ {r}) = m - 1
      BY <1>5, <1>7, FS_RemoveElement, FS_Subset
    <2>2. n + 1 <= m
      BY <1>5, <2>1
    <2>3. SerpBatch * n + SerpBatch <= SerpBatch * m
      <3> HIDE DEF m, n
      <3>1. /\ SerpBatch * (n + 1) <= SerpBatch * m
            /\ SerpBatch * (n + 1) = SerpBatch * n + SerpBatch
        BY <1>5, <2>2, SerpBatchBounds, TimesGrows, TimesLess
      <3> QED
        BY <3>1
    <2>4. SerpBatch * n \in Nat /\ SerpBatch * m \in Nat /\ SerpBatch \in Nat
      <3> HIDE DEF m, n
      <3> QED
        BY <1>5, SerpBatchBounds, TimesLess
    <2>5. aio + SerpBatch * m < SerpBound
      BY <1>7 DEF SerpInv, SerpCounted
    <2>6. SerpBound \in Int
      <3>1. Cardinality(Request) \in Nat
        BY CarryingIsFinite
      <3>2. SerpBatch * Cardinality(Request) \in Nat
        BY <3>1, SerpBatchBounds, TimesLess
      <3> QED
        BY <3>2, BoundsAssumption DEF SerpBound
    <2>7. aio' + SerpBatch * n < SerpBound
      <3> HIDE DEF m, n, b
      <3> QED
        BY <1>3, <1>6, <2>3, <2>4, <2>5, <2>6
    <2> QED
      BY <2>7 DEF SerpCounted, SerpBound, SerpBatch
  <1>8. CASE r \notin Carrying
    <2>1. SerpOf(q.tasks) = {}
      BY <1>1, <1>8 DEF Carrying, Carries
    <2>2. SerpOf(q.batch) = {}
      BY <1>2, <2>1 DEF SerpOf
    <2>3. b = 0
      BY <2>2, FS_EmptySet
    <2>4. aio' = aio
      BY <1>3, <1>6, <2>3
    <2> QED
      BY <2>4, CarryingNoMore
  <1> QED
    BY <1>7, <1>8

(* Every step keeps the count. *)
LEMMA SerpStep == SerpInv /\ [Next]_vars => SerpInv'
  <1> SUFFICES ASSUME SerpInv, [Next]_vars PROVE SerpInv'
    OBVIOUS
  <1>0. /\ TypedAndCapped /\ TypedAndCapped' /\ Batched
        /\ req \in [Request -> RequestType \cup {None}]
    BY StepTyped DEF SerpInv, TypedAndCapped, GeoTypeOK
  <1>1. ASSUME NEW r \in Request, NEW run \in Run, Fire(r, run) \/ Ask(r, run)
        PROVE  Batched' /\ SerpCounted'
    <2>1. PICK S \in SUBSET Task : req' = [req EXCEPT ![r] = NewRequest(run, S)]
      BY <1>1, AskedAssumption DEF Fire, Ask
    <2>2. NewRequest(run, S).at = "load"
      BY DEF NewRequest, Fresh
    <2>3. req'[r].at = "load" /\ \A s \in Request \ {r} : req'[s] = req[s]
      BY <1>0, <2>1, <2>2
    <2>4. ~Polling(r)' /\ ~Carries(r)'
      BY <2>3 DEF Polling, Carries
    <2>5. Carrying' \subseteq Carrying /\ aio' = aio
      BY <1>1, <2>3, <2>4, OthersCarry DEF Fire, Ask, config
    <2>6. Batched'
      BY <1>0, <2>3, <2>4 DEF Batched, Polling, Free
    <2> QED
      BY <2>5, <2>6, CarryingNoMore
  <1>2. ASSUME NEW r \in Request,
               \/ Load(r) \/ Turned(r) \/ Deadline(r) \/ Settle(r) \/ Close(r)
               \/ Crash(r) \/ StoreRaises(r)
        PROVE  Batched' /\ SerpCounted'
    <2>1. ~Free(r) /\ Moves(r) /\ Rests(r)'
      BY <1>0, <1>2, RestingSteps
    <2>2. Batched'
      BY <1>0, <2>1 DEF Batched, Moves, Rests, Polling, Free
    <2>3. CASE ~Carries(r)'
      <3>1. Carrying' \subseteq Carrying /\ Carrying' \subseteq Carrying \ {r}
        BY <2>1, <2>3, OthersCarry DEF Moves, Carrying
      <3>2. CASE Settle(r)
        BY <2>2, <3>1, <3>2, SettleCounts
      <3>3. CASE ~Settle(r)
        <4>1. aio' = aio
          BY <1>2, <3>3 DEF Load, Turned, Deadline, Close, Crash, StoreRaises, config
        <4> QED
          BY <2>2, <3>1, <4>1, CarryingNoMore
      <3> QED
        BY <3>2, <3>3
    <2>4. CASE Carries(r)'
      <3> DEFINE q == req[r]
                 S == Usable(q.wanted)
                 owed == S \ answers[today]
                 seen == {u[1] : u \in S} \cap {t[1] : t \in answers[today]}
                 n == [q EXCEPT !.at = "reserve", !.day = today, !.tasks = owed, !.seen = seen]
      <3>1. req'[r].at = "reserve" /\ req'[r] # None
        BY <2>1, <2>4 DEF Carries, Rests, Free
      <3>2. ~\E todo : CloseWith(r, todo)
        <4> SUFFICES ASSUME NEW todo, CloseWith(r, todo) PROVE FALSE
          OBVIOUS
        <4>1. Fresh("close", q.run, q.day, q.wanted, todo).at = "close"
          BY DEF Fresh
        <4> QED
          BY <1>0, <3>1, <4>1 DEF CloseWith
      <3>3. Load(r)
        <4>1. ~Settle(r)
          <5> SUFFICES ASSUME Settle(r) PROVE FALSE
            OBVIOUS
          <5>1. req' = [req EXCEPT ![r] = IF Cron(q) THEN NewRequest(q.run, Task) ELSE None]
            BY <3>2 DEF Settle
          <5>2. NewRequest(q.run, Task).at = "load"
            BY DEF NewRequest, Fresh
          <5> QED
            BY <1>0, <3>1, <5>1, <5>2
        <4>2. ~Crash(r)
          BY <1>0, <3>1 DEF Crash, End
        <4> QED
          BY <1>2, <3>2, <4>1, <4>2 DEF Turned, Deadline, Close, StoreRaises
      <3>4. req'[r] = n
        BY <1>0, <3>2, <3>3 DEF Load
      <3>5. q \in RequestType
        BY <1>0, <2>1 DEF Free
      <3>6. n.tasks = owed
        <4> HIDE DEF owed, seen
        <4> QED
          BY <3>5 DEF RequestType
      <3>7. SerpOf(owed) # {}
        BY <2>4, <3>4, <3>6 DEF Carries, SerpOf
      <3>8. aio < AioCap
        <4>1. ~(aio >= AioCap)
          BY <3>7 DEF Usable, SerpOf
        <4> QED
          BY <1>0, <4>1, BoundsAssumption DEF TypedAndCapped, GeoTypeOK
      <3>9. aio' = aio
        BY <3>3 DEF Load, config
      <3> QED
        BY <2>2, <3>8, <3>9, LoadedUnderCap
    <2> QED
      BY <2>2, <2>3, <2>4
  <1>3. ASSUME NEW r \in Request, Reserve(r) PROVE Batched' /\ SerpCounted'
    <2> DEFINE q == req[r]
               got == Grant(Smaller(Batch, Cardinality(q.tasks)), q.day)
               batch == First(got, q.tasks)
               n == [q EXCEPT !.at = "call", !.got = got, !.batch = batch]
    <2>1. q \in RequestType /\ ~Free(r) /\ q.day \in Day /\ q.at = "reserve"
      BY <1>0, <1>3 DEF Reserve, At, Free, RequestType
    <2>2. \A s \in Request \ {r} : req'[s] = req[s]
      BY <1>0, <1>3 DEF Reserve, CloseWith
    <2>3. aio' = aio
      BY <1>3 DEF Reserve, config
    <2>4. CASE CloseWith(r, OutOfBudget)
      <3>1. Fresh("close", q.run, q.day, q.wanted, OutOfBudget).at = "close"
        BY DEF Fresh
      <3>2. ~Polling(r)' /\ ~Carries(r)'
        BY <1>0, <2>4, <3>1 DEF CloseWith, Polling, Carries, Free
      <3>3. Batched'
        BY <1>0, <2>2, <3>2 DEF Batched, Polling, Free
      <3> QED
        BY <2>2, <2>3, <3>2, <3>3, OthersCarry, CarryingNoMore
    <2>5. CASE req' = [req EXCEPT ![r] = n]
      <3>1. got \in 0 .. Batch /\ q.tasks \in SUBSET Task
        BY <1>0, <2>1, GrantBounded DEF RequestType
      <3>2. batch \subseteq q.tasks /\ Cardinality(batch) <= Batch
        <4> HIDE DEF got
        <4>1. batch \subseteq q.tasks /\ Cardinality(batch) <= got /\ got \in Nat
          BY <3>1, FirstBounded
        <4>2. Cardinality(batch) \in Nat
          BY <3>1, <4>1, TasksAreCounted
        <4> QED
          BY <3>1, <4>1, <4>2, BoundsAssumption
      <3> HIDE DEF got, batch
      <3>3. n.tasks = q.tasks /\ n.batch = batch
        BY <2>1 DEF RequestType
      <3>4. req'[r] = n
        BY <1>0, <2>5
      <3>5. Batched'
        BY <1>0, <2>2, <3>2, <3>3, <3>4 DEF Batched, Polling, Free
      <3>6. ~Carries(r)' \/ Carries(r)
        BY <2>1, <3>3, <3>4 DEF Carries
      <3> QED
        BY <2>2, <2>3, <3>5, <3>6, OthersCarry, CarryingNoMore
    <2> QED
      BY <1>3, <2>4, <2>5 DEF Reserve
  <1>4. ASSUME NEW r \in Request, Call(r) \/ CallRaises(r) \/ Merge(r)
        PROVE  Batched' /\ SerpCounted'
    <2> DEFINE q == req[r]
    <2>1. q \in RequestType /\ Polling(r) /\ ~Free(r) /\ q.at \in {"call", "merge"}
      BY <1>0, <1>4 DEF Call, CallRaises, Merge, At, Free, Polling
    <2>2. /\ req'[r].tasks = q.tasks /\ req'[r].batch \subseteq q.batch
          /\ \A s \in Request \ {r} : req'[s] = req[s]
      <3>1. CASE Call(r) \/ CallRaises(r)
        <4>1. PICK n, walked, kept, ok, raised :
                /\ walked \subseteq q.batch
                /\ req' = [req EXCEPT ![r] = Walked(q, n, walked, kept, ok, raised)]
          BY <1>0, <3>1, CallsWalk
        <4>2. \A w : w = Walked(q, n, walked, kept, ok, raised) =>
                        w.tasks = q.tasks /\ w.batch = walked
          BY <2>1 DEF Walked, RequestType
        <4> QED
          BY <1>0, <4>1, <4>2
      <3>2. CASE Merge(r)
        <4>1. PICK e \in q.left :
                \E seen : req' = [req EXCEPT ![r] =
                  [q EXCEPT !.at = IF q.left = {e} THEN "settle" ELSE "merge",
                            !.left = @ \ {e}, !.seen = seen]]
          BY <3>2 DEF Merge
        <4> QED
          BY <1>0, <2>1, <4>1 DEF RequestType
      <3> QED
        BY <1>4, <3>1, <3>2
    <2>6. req[r].batch \in SUBSET Task /\ req[r].batch \subseteq q.tasks /\ Cardinality(q.batch) <= Batch
      BY <1>0, <2>1 DEF Batched, RequestType
    <2>7. /\ req'[r].batch \subseteq req'[r].tasks /\ Cardinality(req'[r].batch) <= Batch
      <3> DEFINE c == req'[r].batch
      <3>1. c \subseteq q.batch
        BY <2>2
      <3> HIDE DEF c
      <3>2. IsFiniteSet(q.batch) /\ Cardinality(q.batch) \in Nat
        BY <2>6, TasksAreCounted
      <3>3. Cardinality(c) \in Nat /\ Cardinality(c) <= Cardinality(q.batch)
        BY <3>1, <3>2, FS_Subset, FS_CardinalityType
      <3>4. Cardinality(c) <= Batch
        BY <2>6, <3>2, <3>3, BoundsAssumption
      <3> QED
        BY <2>2, <2>6, <3>4 DEF c
    <2>3. Batched'
      BY <1>0, <2>2, <2>7 DEF Batched, Polling, Free
    <2>4. ~Carries(r)' \/ Carries(r)
      BY <2>1, <2>2 DEF Carries
    <2>5. aio' = aio
      BY <1>4 DEF Call, CallRaises, Merge, config
    <2> QED
      BY <2>2, <2>3, <2>4, <2>5, OthersCarry, CarryingNoMore
  <1>5. ASSUME Lapse \/ NextDay \/ UNCHANGED vars PROVE Batched' /\ SerpCounted'
    <2>1. UNCHANGED <<aio, req>>
      BY <1>5 DEF Lapse, NextDay, vars, config
    <2>2. Batched'
      BY <1>0, <2>1 DEF Batched, Polling, Free
    <2>3. Carrying' \subseteq Carrying
      BY <2>1 DEF Carrying, Carries, Free
    <2> QED
      BY <2>1, <2>2, <2>3, CarryingNoMore
  <1>6. Batched' /\ SerpCounted'
    BY <1>1, <1>2, <1>3, <1>4, <1>5 DEF Next, Begin, Step
  <1> QED
    BY <1>0, <1>6 DEF SerpInv

(* At the start nothing is billed. *)
LEMMA SerpInit == Init => SerpInv
  <1> SUFFICES ASSUME Init PROVE SerpInv
    OBVIOUS
  <1>1. \A r \in Request : Free(r)
    BY DEF Init, Free
  <1>2. Batched /\ Carrying = {} /\ aio = 0
    BY <1>1 DEF Init, Batched, Polling, Carrying, Carries
  <1> QED
    BY <1>2, InitTyped DEF SerpInv, SerpCounted

(* The count bounds the counter. *)
LEMMA SerpInvSuffices == SerpInv => SerpCapHolds
  <1> SUFFICES ASSUME SerpInv PROVE SerpCapHolds
    OBVIOUS
  <1>1. CASE aio + SerpBatch * Cardinality(Carrying) < SerpBound
    <2>1. Cardinality(Carrying) \in Nat /\ Cardinality(Request) \in Nat
      BY CarryingIsFinite DEF Carrying
    <2>2. /\ SerpBatch * Cardinality(Carrying) \in Nat
          /\ SerpBatch * Cardinality(Request) \in Nat
      BY <2>1, SerpBatchBounds, TimesLess
    <2>3. aio < SerpBound
      BY <1>1, <2>2, BoundsAssumption DEF SerpInv, TypedAndCapped, GeoTypeOK, SerpBound
    <2> QED
      BY <2>3 DEF SerpBound, SerpCapHolds
  <1>2. CASE aio = 0
    BY <1>2 DEF SerpCapHolds
  <1> QED
    BY <1>1, <1>2 DEF SerpInv, SerpCounted

(* The billed calls of a month pass their cap by no more than a batch of    *)
(* every request in flight, though the cap is read at a step's load and     *)
(* counted only when it settles.                                            *)
THEOREM SerpCapCorrect == Spec => []SerpCapHolds
  BY SerpInit, SerpStep, SerpInvSuffices, PTL DEF Spec

-----------------------------------------------------------------------------
(* The day's check, when a console sends its steps one after another; its   *)
(* steps may be slow. A console polls under the day's check ...             *)
CheckHeld ==
  \A r \in Request : Polling(r) /\ ~Cron(req[r]) => manual[req[r].day] = req[r].run
(* ... and who measured a day has its check, or gave it back.               *)
MeasuredUnderCheck == \A d \in Day \ returned : \A k \in measured[d] : manual[d] = k
CheckInv == TypedAndCapped /\ RunsApart /\ FiredKnown /\ CheckHeld /\ MeasuredUnderCheck

(* A run is not None. *)
LEMMA RunsAreSome == \A run \in Run : run # None
  BY NoneAssumption

(* A step after which its request does not poll, and which leaves the       *)
(* checks alone.                                                            *)
LEMMA CheckKept ==
  ASSUME CheckInv, NEW r \in Request, \A s \in Request \ {r} : req'[s] = req[s],
         ~Polling(r)' \/ (Polling(r) /\ req'[r].run = req[r].run /\ req'[r].day = req[r].day),
         manual' = manual
  PROVE  CheckHeld'
  BY DEF CheckInv, CheckHeld, Polling, Free, Cron

(* Every step keeps it. *)
LEMMA CheckStep ==
  ASSUME ~Overlap, CheckInv, [Next]_vars
  PROVE  CheckInv'
  <1> USE DEF CheckInv
  <1>0. /\ TypedAndCapped' /\ req \in [Request -> RequestType \cup {None}]
        /\ manual \in [Day -> ConsoleRun \cup {None}]
        /\ measured \in [Day -> SUBSET ConsoleRun] /\ returned \subseteq Day
        /\ RunsApart' /\ FiredKnown'
    BY StepTyped, RunsStep DEF TypedAndCapped, GeoTypeOK
  <1>1. ASSUME NEW r \in Request, NEW run \in Run, Fire(r, run) \/ Ask(r, run)
        PROVE  CheckHeld' /\ MeasuredUnderCheck'
    <2>1. /\ ~Polling(r)' /\ \A s \in Request \ {r} : req'[s] = req[s]
          /\ UNCHANGED <<manual, measured, returned>>
      BY <1>1, BeginningSteps DEF Polling, config, history
    <2> QED
      BY <2>1, CheckKept DEF MeasuredUnderCheck
  <1>2. ASSUME NEW r \in Request,
               \/ Load(r) \/ Turned(r) \/ Deadline(r) \/ Settle(r)
               \/ Crash(r) \/ StoreRaises(r)
        PROVE  CheckHeld' /\ MeasuredUnderCheck'
    <2>1. ~Polling(r)' /\ \A s \in Request \ {r} : req'[s] = req[s]
      BY <1>2, RestingSteps DEF Moves, Rests, Polling, Free
    <2>2. UNCHANGED <<manual, measured, returned>>
      BY <1>2 DEF Load, Turned, Deadline, Settle, Crash, StoreRaises, config, history
    <2> QED
      BY <2>1, <2>2, CheckKept DEF MeasuredUnderCheck
  <1>3. ASSUME NEW r \in Request, Reserve(r) PROVE CheckHeld' /\ MeasuredUnderCheck'
    <2> DEFINE q == req[r]
    <2>1. /\ q.run \in Run /\ q.day \in Day /\ ~Free(r) /\ Moves(r)
          /\ (Free(r)' \/ (req'[r].run = q.run /\ req'[r].day = q.day))
          /\ UNCHANGED <<measured, returned>>
      BY <1>0, <1>3, WorkingSteps DEF Reserve, At, Free, Moves, RequestType, history
    <2>2. CASE CloseWith(r, OutOfBudget) /\ UNCHANGED config
      <3>1. Fresh("close", q.run, q.day, q.wanted, OutOfBudget).at = "close"
        BY DEF Fresh
      <3>2. ~Polling(r)'
        BY <1>0, <2>2, <3>1 DEF CloseWith, Polling, Free
      <3> QED
        BY <2>1, <2>2, <3>2, CheckKept DEF MeasuredUnderCheck, Moves, config
    <2>3. CASE manual' = [manual EXCEPT ![q.day] = Claim(q.run, @)]
      <3>1. \A d \in Day : d # q.day => manual'[d] = manual[d]
        BY <1>0, <2>3
      <3>2. manual'[q.day] = Claim(q.run, manual[q.day])
        BY <1>0, <2>1, <2>3
      <3>3. manual[q.day] # None => manual'[q.day] = manual[q.day]
        BY <3>2 DEF Claim
      <3>4. q.run \in ConsoleRun => manual'[q.day] = q.run
        BY <1>3, <3>2 DEF Reserve, CheckedByOther, Claim
      <3>5. CheckHeld'
        <4> SUFFICES ASSUME NEW s \in Request, Polling(s)', ~Cron(req[s])'
                     PROVE  manual'[req'[s].day] = req'[s].run
          BY DEF CheckHeld
        <4>1. CASE s = r
          BY <2>1, <3>4, <4>1 DEF Polling, Free, Cron, Run
        <4>2. CASE s # r
          <5>1. req'[s] = req[s] /\ Polling(s) /\ ~Cron(req[s])
            BY <2>1, <4>2 DEF Moves, Polling, Free, Cron
          <5>2. req[s].day \in Day /\ req[s].run \in Run
            BY <1>0, <5>1 DEF Polling, Free, RequestType
          <5>3. manual[req[s].day] = req[s].run
            BY <5>1 DEF CheckHeld
          <5> QED
            BY <3>1, <3>3, <5>1, <5>2, <5>3, RunsAreSome
        <4> QED
          BY <4>1, <4>2
      <3>6. MeasuredUnderCheck'
        <4> SUFFICES ASSUME NEW d \in Day \ returned, NEW k \in measured[d]
                     PROVE  manual'[d] = k
          BY <2>1 DEF MeasuredUnderCheck
        <4>1. manual[d] = k /\ k \in Run
          BY <1>0 DEF MeasuredUnderCheck, Run
        <4> QED
          BY <3>1, <3>3, <4>1, RunsAreSome
      <3> QED
        BY <3>5, <3>6
    <2> QED
      BY <1>3, <2>2, <2>3 DEF Reserve
  <1>4. ASSUME NEW r \in Request, Call(r) \/ CallRaises(r) \/ Merge(r)
        PROVE  CheckHeld' /\ MeasuredUnderCheck'
    <2> DEFINE q == req[r]
    <2>1. /\ q.run \in Run /\ q.day \in Day /\ Polling(r) /\ Moves(r)
          /\ (Free(r)' \/ (req'[r].run = q.run /\ req'[r].day = q.day))
      BY <1>0, <1>4, WorkingSteps DEF Call, CallRaises, Merge, At, Free, Moves, Polling, RequestType
    <2>2. UNCHANGED <<manual, returned>>
      BY <1>4 DEF Call, CallRaises, Merge, config
    <2>3. CheckHeld'
      BY <2>1, <2>2, CheckKept DEF Moves, Polling, Free
    <2>4. \A d \in Day : \A k \in measured'[d] :
            k \in measured[d] \/ (d = q.day /\ k = q.run /\ ~Cron(q))
      <3>1. CASE Call(r) \/ CallRaises(r)
        BY <3>1 DEF Call, CallRaises
      <3>2. CASE Merge(r)
        <4>1. \/ measured' = [measured EXCEPT ![q.day] = @ \cup {q.run}] /\ ~Cron(q)
              \/ measured' = measured
          BY <1>0, <2>1, <3>2 DEF Merge
        <4> QED
          BY <1>0, <4>1
      <3> QED
        BY <1>4, <3>1, <3>2
    <2>5. MeasuredUnderCheck'
      BY <2>1, <2>2, <2>4 DEF MeasuredUnderCheck, CheckHeld
    <2> QED
      BY <2>3, <2>5
  <1>5. ASSUME NEW r \in Request, Close(r) PROVE CheckHeld' /\ MeasuredUnderCheck'
    <2> DEFINE q == req[r]
    <2>1. /\ q.run \in Run /\ q.day \in Day /\ ~Free(r) /\ ~Polling(r)
          /\ ~Polling(r)' /\ \A s \in Request \ {r} : req'[s] = req[s]
      BY <1>0, <1>5, RestingSteps DEF Close, At, Moves, Rests, Polling, Free, RequestType
    <2>2. measured' = measured
      BY <1>5 DEF Close
    <2>3. CASE manual' = manual
      <3>1. returned' = returned
        BY <1>5, <2>3 DEF Close
      <3> QED
        BY <2>1, <2>2, <2>3, <3>1, CheckKept DEF MeasuredUnderCheck
    <2>4. CASE manual' # manual
      <3>1. manual[q.day] = q.run /\ manual' = [manual EXCEPT ![q.day] = None]
        BY <1>5, <2>4 DEF Close
      <3>2. returned' = IF q.run \in measured[q.day] THEN returned \cup {q.day} ELSE returned
        BY <1>5, <2>4 DEF Close
      <3>3. CheckHeld'
        <4> SUFFICES ASSUME NEW s \in Request, Polling(s)', ~Cron(req[s])'
                     PROVE  manual'[req'[s].day] = req'[s].run
          BY DEF CheckHeld
        <4>1. s # r /\ req'[s] = req[s] /\ Polling(s) /\ ~Cron(req[s])
          BY <2>1 DEF Polling, Free, Cron
        <4>2. manual[req[s].day] = req[s].run
          BY <4>1 DEF CheckHeld
        <4>3. req[s].run # q.run
          BY <2>1, <4>1 DEF RunsApart, Polling
        <4>4. req[s].day # q.day
          BY <3>1, <4>2, <4>3
        <4>5. req[s].day \in Day
          BY <1>0, <4>1 DEF Polling, Free, RequestType
        <4> QED
          BY <1>0, <3>1, <4>1, <4>2, <4>4, <4>5
      <3>4. MeasuredUnderCheck'
        <4> SUFFICES ASSUME NEW d \in Day \ returned', NEW k \in measured[d]
                     PROVE  manual'[d] = k
          BY <2>2 DEF MeasuredUnderCheck
        <4>1. d \notin returned
          BY <3>2
        <4>2. manual[d] = k
          BY <4>1 DEF MeasuredUnderCheck
        <4>3. d # q.day
          BY <3>1, <3>2, <4>2
        <4> QED
          BY <1>0, <3>1, <4>2, <4>3
      <3> QED
        BY <3>3, <3>4
    <2> QED
      BY <2>3, <2>4
  <1>6. ASSUME Lapse \/ NextDay \/ UNCHANGED vars PROVE CheckHeld' /\ MeasuredUnderCheck'
    <2>1. UNCHANGED <<req, manual, measured, returned>>
      BY <1>6 DEF Lapse, NextDay, vars, config, history
    <2> QED
      BY <2>1 DEF CheckHeld, MeasuredUnderCheck, Polling, Free, Cron
  <1>7. CheckHeld' /\ MeasuredUnderCheck'
    BY <1>1, <1>2, <1>3, <1>4, <1>5, <1>6 DEF Next, Begin, Step
  <1> QED
    BY <1>0, <1>7

(* At the start nobody measures. *)
LEMMA CheckInit == Init => CheckInv
  <1> SUFFICES ASSUME Init PROVE CheckInv
    OBVIOUS
  <1>1. \A r \in Request : Free(r)
    BY DEF Init, Free
  <1>2. \A d \in Day : measured[d] = {}
    BY DEF Init
  <1> QED
    BY <1>1, <1>2, InitTyped
    DEF CheckInv, RunsApart, FiredKnown, CheckHeld, MeasuredUnderCheck, Polling

(* One console run at most measures a brand's day, unless its check was     *)
(* given back over what it measured: for any engines that are asked for,    *)
(* slow steps, lapsing leases, failing calls and dying requests included,   *)
(* as long as a console sends its steps one after another.                  *)
THEOREM CheckCorrect ==
  ASSUME ~Overlap
  PROVE  Spec => []OneCheckADay
  <1>1. CheckInv /\ [Next]_vars => CheckInv'
    BY CheckStep
  <1>2. CheckInv => OneCheckADay
    BY DEF CheckInv, MeasuredUnderCheck, OneCheckADay
  <1> QED
    BY <1>1, <1>2, CheckInit, PTL DEF Spec

-----------------------------------------------------------------------------
(* The schedule. What a day is done with, and the whole of a request's      *)
(* sweep done on a day that has come.                                       *)
Done(d) == answers[d] \cup missed[d]
FullFor(S) == \E d \in 1 .. today : Complete(S, d)
Unmarked == Seq({"release", "giveback"})
InHand(r) == ~Free(r) /\ req[r].at \in {"reserve", "call", "merge", "settle"}

(* What a request has in hand and what its day is done with make the whole  *)
(* of what it was to ask; its batch is a first part of what it has in hand, *)
(* and its answers are stored engine by engine; it has the schedule to mark *)
(* only if some day is done with all it was to ask.                         *)
Whole(r) == Usable(req[r].wanted) \subseteq Done(req[r].day) \cup req[r].tasks
FirstPart(r) == req[r].batch = First(req[r].got, req[r].tasks)
Merging(r) ==
  /\ ~req[r].raised => FirstPart(r)
  /\ \A t \in req[r].ok :
       t \in Done(req[r].day) \/ (req[r].at = "merge" /\ t[1] \in req[r].left)
OnTheWay(r) ==
  /\ ~Free(r) => req[r].day <= today
  /\ InHand(r) => Whole(r)
  /\ At(r, "call") => FirstPart(r)
  /\ At(r, "merge") \/ At(r, "settle") => Merging(r)
  /\ At(r, "close") => req[r].todo \in Unmarked \/ FullFor(req[r].wanted)
FullInv == TypedAndCapped /\ \A r \in Request : OnTheWay(r)

(* Days pass, what is done stays done, engines leave the panel. *)
Grows ==
  /\ today <= today'
  /\ \A d \in Day : Done(d) \subseteq Done(d)'
  /\ \A S : Usable(S)' \subseteq Usable(S)

(* A day that is done with a sweep stays so. *)
LEMMA FullStays ==
  ASSUME TypedAndCapped, TypedAndCapped', Grows, NEW S, FullFor(S)
  PROVE  FullFor(S)'
  <1>1. PICK d \in 1 .. today : Complete(S, d)
    BY DEF FullFor
  <1>2. today \in Day /\ today' \in Day
    BY DEF TypedAndCapped, GeoTypeOK
  <1>3. d \in 1 .. today' /\ d \in Day
    BY <1>2, BoundsAssumption DEF Grows, Day
  <1>4. Complete(S, d)'
    BY <1>1, <1>3 DEF Complete, Grows, Done
  <1> QED
    BY <1>3, <1>4 DEF FullFor

(* Nothing that others do takes a request off its way. *)
LEMMA OthersStay ==
  ASSUME FullInv, TypedAndCapped', Grows, NEW s \in Request, req'[s] = req[s]
  PROVE  OnTheWay(s)'
  <1>1. OnTheWay(s) /\ TypedAndCapped
    BY DEF FullInv
  <1>2. CASE Free(s)
    BY <1>2 DEF OnTheWay, Free, At, InHand
  <1>3. CASE ~Free(s)
    <2>1. req[s].day \in Day /\ today \in Day /\ today' \in Day
      BY <1>1, <1>3 DEF Free, TypedAndCapped, GeoTypeOK, RequestType
    <2>2. req[s].day <= today'
      BY <1>1, <1>3, <2>1, BoundsAssumption DEF OnTheWay, Grows, Day
    <2>3. \A t : t \in Done(req[s].day) => t \in Done(req[s].day)'
      BY <2>1 DEF Grows, Done
    <2>4. Whole(s) => Whole(s)'
      <3> SUFFICES ASSUME Whole(s), NEW t \in Usable(req[s].wanted)', t \notin req[s].tasks
                   PROVE  t \in Done(req[s].day)'
        BY DEF Whole
      <3>1. t \in Usable(req[s].wanted)
        BY DEF Grows, Usable
      <3> QED
        BY <2>3, <3>1 DEF Whole
    <2>5. FirstPart(s) => FirstPart(s)'
      BY DEF FirstPart, First, Before, Row
    <2>6. Merging(s) => Merging(s)'
      BY <2>3, <2>5 DEF Merging
    <2>7. FullFor(req[s].wanted) => FullFor(req[s].wanted)'
      BY <1>1, FullStays DEF FullFor, Complete, Usable
    <2> QED
      BY <1>1, <1>3, <2>2, <2>4, <2>5, <2>6, <2>7 DEF OnTheWay, Free, At, InHand
  <1> QED
    BY <1>2, <1>3

(* A request that closes is on its way if it may mark what it marks. *)
LEMMA ClosingStays ==
  ASSUME FullInv, TypedAndCapped', Grows, NEW r \in Request, ~Free(r), NEW todo,
         CloseWith(r, todo), NEW W, W = req[r].wanted, todo \in Unmarked \/ FullFor(W)'
  PROVE  OnTheWay(r)'
  <1> DEFINE c == Fresh("close", req[r].run, req[r].day, req[r].wanted, todo)
  <1>1. OnTheWay(r) /\ req[r] \in RequestType /\ req \in [Request -> RequestType \cup {None}]
        /\ today \in Day /\ today' \in Day
    BY DEF FullInv, TypedAndCapped, GeoTypeOK, Free
  <1>2. c.at = "close" /\ c.day = req[r].day /\ c.todo = todo /\ c.wanted = W
    BY DEF Fresh
  <1>3. req'[r] = None \/ req'[r] = c
    BY <1>1 DEF CloseWith
  <1>4. req[r].day <= today'
    <2>1. req[r].day \in Day
      BY <1>1 DEF RequestType
    <2> QED
      BY <1>1, <2>1, BoundsAssumption DEF OnTheWay, Grows, Day
  <1>5. CASE req'[r] = None
    BY <1>5 DEF OnTheWay, Free, At, InHand
  <1>6. CASE req'[r] = c
    <2> HIDE DEF c
    <2>1. /\ req'[r].at = "close" /\ req'[r].day = req[r].day
          /\ req'[r].todo = todo /\ req'[r].wanted = W
      BY <1>2, <1>6
    <2>2. req'[r].todo \in Unmarked \/ FullFor(req[r].wanted)'
      BY <2>1 DEF FullFor, Complete, Usable
    <2> QED
      BY <1>4, <2>1, <2>2 DEF OnTheWay, Free, At, InHand
  <1> QED
    BY <1>3, <1>5, <1>6

(* Which lists do not mark the schedule. *)
LEMMA UnmarkedLists ==
  ASSUME NEW q \in RequestType, NEW m \in BOOLEAN
  PROVE  /\ Swept(q, FALSE, m) \in Unmarked
         /\ Refused(q) \in Unmarked
         /\ OutOfBudget \in Unmarked
         /\ <<>> \in Unmarked
  <1> DEFINE S == Unmarked
  <1>1. <<>> \in S /\ <<"release">> \in S /\ <<"giveback">> \in S
    BY DEF Unmarked
  <1>2. \A s, t \in S : s \o t \in S
    BY DEF Unmarked
  <1> HIDE DEF S
  <1>3. Swept(q, FALSE, m) \in S
    BY <1>1, <1>2 DEF Swept
  <1> QED
    BY <1>1, <1>3 DEF Refused, OutOfBudget, S

(* A step that is granted all its tasks has them all in its batch. *)
LEMMA FirstIsAll ==
  ASSUME NEW S \in SUBSET Task, NEW n \in Nat, n >= Cardinality(S)
  PROVE  First(n, S) = S
  <1> SUFFICES ASSUME NEW t \in S PROVE t \in First(n, S)
    BY DEF First
  <1>1. Ahead(t, S) \in SUBSET S
    BY DEF Ahead
  <1>2. t \notin Ahead(t, S)
    <2>1. t \in Nat \X Nat
      BY TaskAssumption
    <2>2. Row(t, S) \in Nat
      <3>1. RowOf(t, S) \in SUBSET S
        BY DEF RowOf
      <3> QED
        BY <3>1, TasksAreCounted DEF RowOf, Row
    <2> QED
      BY <2>1, <2>2 DEF Ahead, Before
  <1>3. Cardinality(Ahead(t, S)) < Cardinality(S)
    BY <1>1, <1>2, PartsAreSmaller
  <1>4. Cardinality(Ahead(t, S)) \in Nat /\ Cardinality(S) \in Nat
    BY <1>1, TasksAreCounted
  <1> QED
    BY <1>3, <1>4 DEF First, Ahead

(* No step takes back what is done, or lets an engine in: an answer that is *)
(* replaced by an error is missed.                                          *)
LEMMA DoneGrows ==
  ASSUME TypedAndCapped, [Next]_vars
  PROVE  Grows
  <1>0. /\ today \in Day /\ aio \in Nat /\ answers \in [Day -> SUBSET Task]
        /\ missed \in [Day -> SUBSET Task] /\ req \in [Request -> RequestType \cup {None}]
    BY DEF TypedAndCapped, GeoTypeOK
  <1>1. ASSUME UNCHANGED <<today, answers, missed, aio>> PROVE Grows
    BY <1>0, <1>1, BoundsAssumption DEF Grows, Done, Usable, Day
  <1>2. ASSUME NEW r \in Request, Merge(r) PROVE Grows
    <2> DEFINE q == req[r]
    <2>1. q \in RequestType /\ q.day \in Day /\ UNCHANGED <<today, aio>>
      BY <1>0, <1>2 DEF Merge, At, Free, RequestType, config
    <2>2. PICK stored :
            /\ answers' = [answers EXCEPT ![q.day] = stored]
            /\ missed' = [missed EXCEPT ![q.day] = @ \cup (answers[q.day] \ stored)]
      BY <1>2 DEF Merge
    <2>3. \A d \in Day : answers[d] \cup missed[d] \subseteq answers'[d] \cup missed'[d]
      BY <1>0, <2>1, <2>2
    <2> QED
      BY <1>0, <2>1, <2>3, BoundsAssumption DEF Grows, Done, Usable, Day
  <1>3. ASSUME NEW r \in Request, Settle(r) PROVE Grows
    <2> DEFINE q == req[r]
    <2>1. q \in RequestType /\ q.day \in Day
      BY <1>0, <1>3 DEF Settle, At, Free, RequestType
    <2>2. {t \in q.batch : t[1] \in Serp} \in SUBSET Task
      BY <2>1 DEF RequestType
    <2>3. Cardinality({t \in q.batch : t[1] \in Serp}) \in Nat
      BY <2>2, PartsAreFinite
    <2>4. UNCHANGED <<today, answers>> /\ aio' >= aio /\ aio' \in Nat
      BY <1>0, <1>3, <2>3 DEF Settle
    <2>5. missed' = missed \/ missed' = [missed EXCEPT ![q.day] = @ \cup (q.batch \ q.ok)]
      BY <1>3 DEF Settle
    <2>6. \A d \in Day : missed[d] \subseteq missed'[d]
      BY <1>0, <2>1, <2>5
    <2>7. \A S : Usable(S)' \subseteq Usable(S)
      BY <1>0, <2>4, BoundsAssumption DEF Usable
    <2> QED
      BY <1>0, <2>4, <2>6, <2>7, BoundsAssumption DEF Grows, Done, Day
  <1>4. ASSUME NextDay PROVE Grows
    BY <1>0, <1>4, BoundsAssumption DEF NextDay, config, history, Grows, Done, Usable, Day
  <1>5. ASSUME NEW r \in Request,
               \/ Begin(r) \/ Load(r) \/ Turned(r) \/ Reserve(r) \/ Call(r) \/ CallRaises(r)
               \/ Close(r) \/ Deadline(r) \/ StoreRaises(r) \/ Crash(r)
        PROVE  UNCHANGED <<today, answers, missed, aio>>
    BY <1>5 DEF Begin, Fire, Ask, Load, Turned, Reserve, Call, CallRaises, Close, Deadline,
                StoreRaises, Crash, config, history
  <1>6. Lapse \/ UNCHANGED vars => UNCHANGED <<today, answers, missed, aio>>
    BY DEF Lapse, vars, config, history
  <1> QED
    BY <1>1, <1>2, <1>3, <1>4, <1>5, <1>6 DEF Next, Step

(* Every step keeps it. *)
LEMMA FullStep == FullInv /\ [Next]_vars => FullInv'
  <1> SUFFICES ASSUME FullInv, [Next]_vars PROVE FullInv'
    OBVIOUS
  <1>0. /\ TypedAndCapped /\ TypedAndCapped' /\ Grows /\ today \in Day /\ today' \in Day
        /\ req \in [Request -> RequestType \cup {None}]
        /\ answers \in [Day -> SUBSET Task] /\ missed \in [Day -> SUBSET Task]
        /\ \A r \in Request : OnTheWay(r)
    BY StepTyped, DoneGrows DEF FullInv, TypedAndCapped, GeoTypeOK
  <1>1. SUFFICES ASSUME NEW r \in Request, req'[r] # req[r]
                 PROVE  OnTheWay(r)'
    BY <1>0, OthersStay DEF FullInv
  <1> DEFINE q == req[r]
  <1>d. PICK D, W : D = q.day /\ W = q.wanted
    OBVIOUS
  <1>2. ASSUME NEW S, NEW run, req' = [req EXCEPT ![r] = NewRequest(run, S)]
        PROVE  OnTheWay(r)'
    <2>1. NewRequest(run, S).at = "load" /\ NewRequest(run, S).day = today
      BY DEF NewRequest, Fresh
    <2>2. req'[r].at = "load" /\ req'[r].day = today
      BY <1>0, <1>2, <2>1
    <2> QED
      BY <1>0, <2>2 DEF Grows, OnTheWay, Free, At, InHand
  <1>3. ASSUME req'[r] = None PROVE OnTheWay(r)'
    BY <1>3 DEF OnTheWay, Free, At, InHand
  <1>4. ASSUME ~Free(r)
        PROVE  /\ q \in RequestType /\ q.day \in Day /\ q.day <= today'
               /\ \A t : t \in Done(D) => t \in Done(D)'
               /\ \A t : t \in Usable(W)' => t \in Usable(W)
    <2>1. q \in RequestType /\ q.day \in Day /\ q.day <= today
      BY <1>0, <1>4 DEF Free, RequestType, OnTheWay
    <2>2. q.day <= today'
      BY <1>0, <2>1, BoundsAssumption DEF Grows, Day
    <2>3. \A t : t \in Done(D) => t \in Done(D)'
      BY <1>0, <1>d, <2>1 DEF Grows, Done
    <2>4. \A t : t \in Usable(W)' => t \in Usable(W)
      BY <1>0 DEF Grows
    <2> QED
      BY <2>1, <2>2, <2>3, <2>4
  <1>a. ASSUME ~Free(r), NEW todo \in Unmarked, CloseWith(r, todo) PROVE OnTheWay(r)'
    BY <1>0, <1>a, ClosingStays DEF FullInv
  (* A request that goes on with the day, the tasks and the sweep it has. *)
  <1>b. ASSUME ~Free(r), Whole(r), req'[r].day = q.day, req'[r].tasks = q.tasks,
               req'[r].wanted = q.wanted
        PROVE  Whole(r)'
    <2>1. \A t : t \in Usable(W)' => t \in Done(D)' \/ t \in q.tasks
      BY <1>4, <1>b, <1>d DEF Whole
    <2> QED
      BY <1>b, <1>d, <2>1 DEF Whole, Done, Usable
  <1>c. ASSUME FirstPart(r), req'[r].batch = q.batch, req'[r].got = q.got, req'[r].tasks = q.tasks
        PROVE  FirstPart(r)'
    BY <1>c DEF FirstPart, First, Before, Row
  <1>5. CASE Begin(r)
    BY <1>2, <1>5 DEF Begin, Fire, Ask
  <1>6. CASE Crash(r)
    BY <1>0, <1>3, <1>6 DEF Crash, End
  <1>7. CASE Turned(r) \/ Deadline(r)
    <2>1. ~Free(r) /\ CloseWith(r, Refused(q))
      BY <1>7 DEF Turned, Deadline, At
    <2> QED
      BY <1>4, <1>a, <2>1, UnmarkedLists
  <1>8. CASE StoreRaises(r)
    <2>1. ~Free(r) /\ (CloseWith(r, <<>>) \/ CloseWith(r, Refused(q)))
      BY <1>8 DEF StoreRaises
    <2> QED
      BY <1>4, <1>a, <2>1, UnmarkedLists
  <1>9. CASE Load(r)
    <2> DEFINE S == Usable(q.wanted)
               owed == S \ answers[today]
               seen == {u[1] : u \in S} \cap {t[1] : t \in answers[today]}
               n == [q EXCEPT !.at = "reserve", !.day = today, !.tasks = owed, !.seen = seen]
    <2>1. ~Free(r) /\ At(r, "load") /\ UNCHANGED <<today, answers, missed, aio>>
      BY <1>9 DEF Load, At, config, history
    <2>2. CASE CloseWith(r, Refused(q))
      BY <1>4, <1>a, <2>1, <2>2, UnmarkedLists
    <2>3. CASE owed = {} /\ CloseWith(r, NothingPending(q))
      <3>1. today \in 1 .. today
        BY <1>0, BoundsAssumption DEF Day
      <3>2. Complete(q.wanted, today)
        BY <2>3 DEF Complete
      <3>3. FullFor(q.wanted)
        BY <3>1, <3>2 DEF FullFor
      <3>4. FullFor(W)'
        BY <1>0, <1>d, <3>3, FullStays
      <3> QED
        BY <1>0, <1>d, <2>1, <2>3, <3>4, ClosingStays DEF FullInv
    <2>4. CASE req' = [req EXCEPT ![r] = n]
      <3>1. \A t \in S : t \in answers[today] \/ t \in owed
        OBVIOUS
      <3> HIDE DEF owed, seen
      <3>2. n.at = "reserve" /\ n.day = today /\ n.tasks = owed /\ n.wanted = q.wanted
        BY <1>4, <2>1 DEF RequestType
      <3>3. /\ req'[r].at = "reserve" /\ req'[r].day = today /\ req'[r].tasks = owed
            /\ req'[r].wanted = q.wanted
        BY <1>0, <2>4, <3>2
      <3>4. Whole(r)'
        BY <2>1, <3>1, <3>3 DEF Whole, Done, Usable
      <3> QED
        BY <1>0, <2>1, <3>3, <3>4, BoundsAssumption DEF OnTheWay, Free, At, InHand, Day
    <2> QED
      BY <1>9, <2>2, <2>3, <2>4 DEF Load
  <1>10. CASE Reserve(r)
    <2> DEFINE got == Grant(Smaller(Batch, Cardinality(q.tasks)), q.day)
               batch == First(got, q.tasks)
               n == [q EXCEPT !.at = "call", !.got = got, !.batch = batch]
    <2>1. ~Free(r) /\ q.at = "reserve" /\ Whole(r) /\ q \in RequestType
      BY <1>0, <1>4, <1>10 DEF Reserve, At, InHand, OnTheWay
    <2>2. CASE CloseWith(r, OutOfBudget)
      BY <1>a, <2>1, <2>2, UnmarkedLists
    <2>3. CASE req' = [req EXCEPT ![r] = n]
      <3>1. batch = First(got, q.tasks)
        OBVIOUS
      <3> HIDE DEF got, batch
      <3>2. /\ n.at = "call" /\ n.day = q.day /\ n.tasks = q.tasks /\ n.wanted = q.wanted
            /\ n.got = got /\ n.batch = batch
        BY <2>1 DEF RequestType
      <3>3. /\ req'[r].at = "call" /\ req'[r].day = q.day /\ req'[r].tasks = q.tasks
            /\ req'[r].wanted = q.wanted /\ req'[r].got = got /\ req'[r].batch = batch
        BY <1>0, <2>3, <3>2
      <3>5. Whole(r)'
        BY <1>b, <2>1, <3>3
      <3>6. FirstPart(r)'
        BY <3>1, <3>3 DEF FirstPart, First, Before, Row
      <3> QED
        BY <1>4, <2>1, <3>3, <3>5, <3>6 DEF OnTheWay, Free, At, InHand
    <2> QED
      BY <1>10, <2>2, <2>3 DEF Reserve
  <1>11. CASE Call(r) \/ CallRaises(r)
    <2>1. ~Free(r) /\ q.at = "call" /\ Whole(r) /\ FirstPart(r) /\ q \in RequestType
      BY <1>0, <1>4, <1>11 DEF Call, CallRaises, At, InHand, OnTheWay
    <2>2. PICK n \in 0 .. q.got, walked \in SUBSET Task, kept \in SUBSET Task,
               ok \in SUBSET Task, raised \in BOOLEAN :
            /\ walked \subseteq q.batch /\ ok \subseteq kept
            /\ raised \/ (n = q.got /\ walked = q.batch /\ kept = q.batch)
            /\ req' = [req EXCEPT ![r] = Walked(q, n, walked, kept, ok, raised)]
      BY <1>0, <1>11, CallsWalk
    <2> DEFINE left == {t[1] : t \in kept}
               at == IF kept = {} THEN "settle" ELSE "merge"
               w == [q EXCEPT !.spent = n, !.batch = walked, !.kept = kept, !.ok = ok,
                              !.raised = raised, !.left = left, !.at = at]
    <2>3. req' = [req EXCEPT ![r] = w]
      BY <2>2 DEF Walked
    <2>4. /\ at \in {"settle", "merge"} /\ (at = "settle" => ok = {})
          /\ \A t \in ok : t[1] \in left
      BY <2>2
    <2> HIDE DEF left, at
    <2>5. /\ w.at = at /\ w.day = q.day /\ w.tasks = q.tasks /\ w.got = q.got
          /\ w.wanted = q.wanted /\ w.batch = walked /\ w.ok = ok /\ w.left = left
          /\ w.raised = raised
      BY <2>1 DEF RequestType
    <2> HIDE DEF w
    <2>6. req'[r] = w
      BY <1>0, <2>3
    <2>7. Whole(r)'
      BY <1>b, <2>1, <2>5, <2>6
    <2>8. ~raised => FirstPart(r)'
      BY <1>c, <2>1, <2>2, <2>5, <2>6
    <2>9. Merging(r)'
      BY <2>4, <2>5, <2>6, <2>8 DEF Merging
    <2> QED
      BY <1>4, <2>1, <2>4, <2>5, <2>6, <2>7, <2>9 DEF OnTheWay, Free, At, InHand
  <1>12. CASE Merge(r)
    <2>1. ~Free(r) /\ q.at = "merge" /\ Whole(r) /\ Merging(r) /\ q \in RequestType /\ q.day \in Day
      BY <1>0, <1>4, <1>12 DEF Merge, At, InHand, OnTheWay
    <2>2. PICK e \in q.left :
            \E seen :
              /\ answers' = [answers EXCEPT ![q.day] =
                               (answers[q.day] \ Of(e, q.kept)) \cup Of(e, q.ok)]
              /\ req' = [req EXCEPT ![r] =
                   [q EXCEPT !.at = IF q.left = {e} THEN "settle" ELSE "merge",
                             !.left = @ \ {e}, !.seen = seen]]
      BY <1>12 DEF Merge
    <2>3. PICK seen :
            req' = [req EXCEPT ![r] =
                   [q EXCEPT !.at = IF q.left = {e} THEN "settle" ELSE "merge",
                             !.left = @ \ {e}, !.seen = seen]]
      BY <2>2
    <2>4. \A t \in Of(e, q.ok) : t \in answers'[q.day]
      BY <1>0, <2>1, <2>2
    <2> DEFINE at == IF q.left = {e} THEN "settle" ELSE "merge"
               n == [q EXCEPT !.at = at, !.left = q.left \ {e}, !.seen = seen]
    <2>5. at \in {"settle", "merge"} /\ (at = "settle" => q.left = {e})
      OBVIOUS
    <2>6. req' = [req EXCEPT ![r] = n]
      BY <2>3
    <2> HIDE DEF at
    <2>7. /\ n.at = at /\ n.day = q.day /\ n.tasks = q.tasks /\ n.got = q.got
          /\ n.wanted = q.wanted /\ n.batch = q.batch /\ n.ok = q.ok /\ n.left = q.left \ {e}
          /\ n.raised = q.raised
      BY <2>1 DEF RequestType
    <2> HIDE DEF n
    <2>8. req'[r] = n
      BY <1>0, <2>6
    <2>9. Whole(r)'
      BY <1>b, <2>1, <2>7, <2>8
    <2>10. Merging(r)'
      <3>1. ~q.raised => FirstPart(r)'
        BY <1>c, <2>1, <2>7, <2>8 DEF Merging
      <3>2. ASSUME NEW t \in q.ok
            PROVE  t \in Done(D)' \/ (at = "merge" /\ t[1] \in q.left \ {e})
        <4>1. CASE t[1] = e
          BY <1>d, <2>4, <3>2, <4>1 DEF Of, Done
        <4>2. CASE t[1] # e
          <5>1. t \in Done(D) \/ t[1] \in q.left
            BY <1>d, <2>1, <3>2 DEF Merging
          <5> QED
            BY <1>4, <2>1, <2>5, <4>2, <5>1
        <4> QED
          BY <4>1, <4>2
      <3> QED
        BY <1>d, <2>7, <2>8, <3>1, <3>2 DEF Merging, Done
    <2> QED
      BY <1>4, <2>1, <2>5, <2>7, <2>8, <2>9, <2>10 DEF OnTheWay, Free, At, InHand
  <1>13. CASE Settle(r)
    <2>1. /\ ~Free(r) /\ q.at = "settle" /\ Whole(r) /\ Merging(r) /\ q \in RequestType
          /\ q.day \in Day /\ q.day <= today /\ today' = today
      BY <1>0, <1>4, <1>13 DEF Settle, At, InHand, OnTheWay
    <2> DEFINE full == DoneNow(q) /\ ~Terminal(q)
               m == q.seen = {}
    <2>2. ASSUME ~q.raised, full, CloseWith(r, Swept(q, full, m)),
                 missed' = [missed EXCEPT ![q.day] = @ \cup (q.batch \ q.ok)]
          PROVE  OnTheWay(r)'
      <3>1. q.got >= Cardinality(q.tasks) /\ q.got \in Nat /\ q.tasks \in SUBSET Task
        BY <2>1, <2>2, BoundsAssumption DEF DoneNow, RequestType
      <3>2. q.batch = q.tasks
        BY <2>1, <2>2, <3>1, FirstIsAll DEF Merging, FirstPart
      <3>3. \A t \in q.batch \ q.ok : t \in missed'[D]
        BY <1>0, <1>d, <2>1, <2>2
      <3>4. \A t \in q.ok : t \in Done(D)'
        BY <1>4, <1>d, <2>1 DEF Merging
      <3>5. \A t \in q.tasks : t \in Done(D)'
        BY <3>2, <3>3, <3>4 DEF Done
      <3>6. \A t : t \in Usable(W)' => t \in Done(D)'
        BY <1>4, <1>d, <2>1, <3>5 DEF Whole
      <3>7. Complete(W, D)'
        BY <3>6 DEF Complete, Done
      <3>8. D \in 1 .. today'
        BY <1>0, <1>d, <2>1, BoundsAssumption DEF Day
      <3>9. FullFor(W)'
        BY <3>7, <3>8 DEF FullFor
      <3> QED
        BY <1>0, <1>d, <2>1, <2>2, <3>9, ClosingStays DEF FullInv
    <2>3. ASSUME ~full, CloseWith(r, Swept(q, full, m)) PROVE OnTheWay(r)'
      <3>1. full = FALSE /\ m \in BOOLEAN
        BY <2>3
      <3> HIDE DEF full, m
      <3>2. Swept(q, full, m) \in Unmarked
        BY <2>1, <3>1, UnmarkedLists
      <3> QED
        BY <1>a, <2>1, <2>3, <3>2
    <2>4. CASE CloseWith(r, Refused(q))
      BY <1>a, <2>1, <2>4, UnmarkedLists
    <2>5. CASE req' = [req EXCEPT ![r] = IF Cron(q) THEN NewRequest(q.run, Task) ELSE None]
      <3>1. CASE Cron(q)
        BY <1>2, <2>5, <3>1
      <3>2. CASE ~Cron(q)
        BY <1>0, <1>3, <2>5, <3>2
      <3> QED
        BY <3>1, <3>2
    <2> HIDE DEF full, m
    <2>6. \/ CloseWith(r, Refused(q))
          \/ req' = [req EXCEPT ![r] = IF Cron(q) THEN NewRequest(q.run, Task) ELSE None]
          \/ /\ ~q.raised /\ CloseWith(r, Swept(q, full, m))
             /\ full => missed' = [missed EXCEPT ![q.day] = @ \cup (q.batch \ q.ok)]
      BY <1>13 DEF Settle, full, m
    <2> QED
      BY <2>2, <2>3, <2>4, <2>5, <2>6
  <1>14. CASE Close(r)
    <2>1. /\ ~Free(r) /\ q.todo \in Seq(Closing) /\ q.todo # <<>>
          /\ (q.todo \in Unmarked \/ FullFor(q.wanted)) /\ CloseWith(r, Tail(q.todo))
      BY <1>0, <1>4, <1>14 DEF Close, At, OnTheWay, TypedAndCapped, GeoTypeOK, RequestType
    <2>2. CASE q.todo \in Unmarked
      <3>1. Tail(q.todo) \in Unmarked
        BY <2>1, <2>2 DEF Unmarked
      <3> QED
        BY <1>a, <2>1, <3>1
    <2>3. CASE FullFor(q.wanted)
      <3>1. FullFor(W)'
        BY <1>0, <1>d, <2>3, FullStays
      <3> QED
        BY <1>0, <1>d, <2>1, <3>1, ClosingStays DEF FullInv
    <2> QED
      BY <2>1, <2>2, <2>3
  <1>15. ASSUME NEW s \in Request, Begin(s) \/ Step(s) \/ Deadline(s) \/ StoreRaises(s) \/ Crash(s)
         PROVE  s = r
    <2>1. \A u \in Request \ {s} : req'[u] = req[u]
      <3>1. CASE Begin(s)
        BY <1>0, <3>1, BeginningSteps DEF Begin
      <3>2. CASE \/ Load(s) \/ Turned(s) \/ Deadline(s) \/ Settle(s) \/ Close(s)
                 \/ Crash(s) \/ StoreRaises(s)
        BY <1>0, <3>2, RestingSteps DEF Moves
      <3>3. CASE Reserve(s) \/ Call(s) \/ CallRaises(s) \/ Merge(s)
        BY <1>0, <3>3, WorkingSteps DEF Moves
      <3> QED
        BY <1>15, <3>1, <3>2, <3>3 DEF Step
    <2> QED
      BY <1>1, <2>1
  <1>16. Lapse \/ NextDay \/ UNCHANGED vars => req' = req
    BY DEF Lapse, NextDay, vars
  <1>17. Begin(r) \/ Step(r) \/ Deadline(r) \/ StoreRaises(r) \/ Crash(r)
    BY <1>1, <1>15, <1>16 DEF Next
  <1> QED
    BY <1>5, <1>6, <1>7, <1>8, <1>9, <1>10, <1>11, <1>12, <1>13, <1>14, <1>17 DEF Step

(* At the start nothing is counted as done. *)
LEMMA FullInit == Init => FullInv
  <1> SUFFICES ASSUME Init PROVE FullInv
    OBVIOUS
  <1>1. \A r \in Request : Free(r)
    BY DEF Init, Free
  <1> QED
    BY <1>1, InitTyped DEF FullInv, OnTheWay, At, InHand

(* The schedule moves when a request closes with a mark to make. *)
LEMMA MarksAreEarned ==
  ASSUME FullInv, Next, completed' # completed
  PROVE  \E r \in Request : /\ Marks(r) /\ req'[r] # req[r]
                            /\ \E d \in 1 .. today : Complete(req[r].wanted, d)
  <1>1. PICK r \in Request : Close(r) /\ Head(req[r].todo) = "mark"
    <2>1. \A r \in Request : Close(r) => Head(req[r].todo) = "mark"
      BY DEF Close
    <2>2. \A r \in Request :
            ~(Begin(r) \/ Load(r) \/ Turned(r) \/ Reserve(r) \/ Call(r) \/ CallRaises(r)
              \/ Merge(r) \/ Settle(r) \/ Deadline(r) \/ StoreRaises(r) \/ Crash(r))
      BY DEF Begin, Fire, Ask, Load, Turned, Reserve, Call, CallRaises, Merge, Settle,
             Deadline, StoreRaises, Crash, config
    <2>3. ~Lapse /\ ~NextDay
      BY DEF Lapse, NextDay, config
    <2> QED
      BY <2>1, <2>2, <2>3 DEF Next, Step
  <1> DEFINE q == req[r]
  <1>2. /\ At(r, "close") /\ q.todo # <<>> /\ q \in RequestType
        /\ req \in [Request -> RequestType \cup {None}]
    BY <1>1 DEF Close, At, Free, FullInv, TypedAndCapped, GeoTypeOK
  <1>3. q.todo \notin Unmarked
    <2> SUFFICES ASSUME q.todo \in Unmarked PROVE FALSE
      OBVIOUS
    <2>1. Head(q.todo) \in {"release", "giveback"}
      BY <1>2 DEF Unmarked
    <2> QED
      BY <1>1, <2>1
  <1>4. req'[r] # q
    <2>1. CloseWith(r, Tail(q.todo))
      BY <1>1 DEF Close
    <2> DEFINE c == Fresh("close", q.run, q.day, q.wanted, Tail(q.todo))
    <2>2. c.todo = Tail(q.todo)
      BY DEF Fresh
    <2>3. Tail(q.todo) # q.todo
      <3>1. q.todo \in Seq(Closing)
        BY <1>2 DEF RequestType
      <3>2. PICK s : s = q.todo
        OBVIOUS
      <3>3. Len(Tail(s)) = Len(s) - 1 /\ Len(s) \in Nat
        BY <1>2, <3>1, <3>2
      <3>4. Len(Tail(s)) # Len(s)
        BY <3>3
      <3>5. Tail(s) # s
        BY <3>4, Zenon
      <3> QED
        BY <3>2, <3>5
    <2>4. req'[r] = None \/ req'[r] = c
      BY <1>2, <2>1 DEF CloseWith
    <2> QED
      BY <1>2, <2>2, <2>3, <2>4 DEF At, Free
  <1>5. FullFor(q.wanted)
    BY <1>2, <1>3 DEF FullInv, OnTheWay
  <1> QED
    BY <1>1, <1>2, <1>4, <1>5 DEF FullFor, Marks

(* The schedule moves only when some day's sweep is complete, the engines   *)
(* over their monthly cap aside and the tasks that failed in its last batch *)
(* or lost their answer to another step's error: with overlapping and slow  *)
(* steps, stale task lists, calls that fail, steps that raise, requests     *)
(* that die, consoles that ask for some engines only and days that turn     *)
(* under a sweep.                                                           *)
THEOREM ScheduleCorrect == Spec => ScheduleMovesOnFullSweep
  <1>1. FullInv /\ [Next]_vars => FullInv'
    BY FullStep
  <1>2. FullInv /\ [Next]_vars
        => [completed' # completed =>
              \E r \in Request : /\ Marks(r) /\ req'[r] # req[r]
                                /\ \E d \in 1 .. today : Complete(req[r].wanted, d)]_vars
    BY MarksAreEarned
  <1> QED
    BY <1>1, <1>2, FullInit, PTL DEF Spec, ScheduleMovesOnFullSweep

=============================================================================
