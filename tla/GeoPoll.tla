------------------------------ MODULE GeoPoll ------------------------------
(***************************************************************************)
(* The polling of one brand's answer engines (geo_poll.py): a console      *)
(* drives a check with one request per step, the scheduler sweeps the      *)
(* brand in a loop of steps. A step reads the configuration and the day's  *)
(* answers, reserves its calls and the brand's lease in one transaction,   *)
(* makes the calls, merges their answers engine by engine, settles, and,   *)
(* when the sweep is over, closes it; steps of others run in between, and  *)
(* a step may die at any point.                                            *)
(*                                                                         *)
(* An answer is its task: an engine, and the place of its (prompt, run)    *)
(* among that engine's. A stored error leaves the task pending, like no    *)
(* answer at all. One month; one batch size; the configuration, prompts    *)
(* and keys do not change. Left out: calls of poll_step that name no loop  *)
(* (no route makes one), mentions and sentiment, history and run log,      *)
(* trimming. A definition marked "variant" is no part of the model.        *)
(***************************************************************************)
EXTENDS Integers, Sequences, FiniteSets

CONSTANTS
  Task,        \* what a whole sweep asks: <<engine, place>>, engines in panel order
  Serp,        \* the engines billed by the month
  CronRun,     \* the run ids of the scheduler's sweeps, each used once
  ConsoleRun,  \* the run ids of consoles: one per check, or one per session
  Asked,       \* the sets of tasks a console may ask for: its engines, its runs
  Request,     \* slots for the requests in flight at one time
  None,
  Cap,         \* daily_cap
  AioCap,      \* aio_monthly_cap
  Batch,       \* batch_size
  FailLimit,   \* FAIL_STREAK_LIMIT
  Interval,    \* poll_interval_days
  LastDay,     \* bound on the days
  HandBack,    \* bound on the calls of a day whose charge is given back
  Fails,       \* whether calls may fail, and steps raise
  Crashes,     \* whether requests may die
  SlowSteps,   \* whether a step may outlast its lease
  Overlap      \* whether a console run may have two steps in flight

Day == 1 .. LastDay
Engine == {t[1] : t \in Task}
Run == CronRun \cup ConsoleRun

ASSUME TaskAssumption == IsFiniteSet(Task) /\ Task \subseteq Nat \X Nat
ASSUME RequestAssumption == IsFiniteSet(Request)
ASSUME AskedAssumption == Asked \subseteq SUBSET Task
ASSUME RunAssumption == CronRun \cap ConsoleRun = {}
ASSUME NoneAssumption == None \notin Run \cup [run : Run, live : BOOLEAN]
ASSUME BoundsAssumption ==
  /\ {Cap, AioCap, HandBack} \subseteq Nat
  /\ {Batch, FailLimit, Interval, LastDay} \subseteq Nat \ {0}
ASSUME FlagsAssumption == {Fails, Crashes, SlowSteps, Overlap} \subseteq BOOLEAN

VARIABLES
  today,
  answers,   \* answers[d]: the tasks with a stored answer that is no error
  used,      \* counters[d]: the calls charged to day d
  aio,       \* counters_aio: the SERP calls settled this month
  lease,     \* poll_lease: its run and whether it is live, or None
  manual,    \* manual_checks[d]: the console run that has the day's check, or None
  streaks,   \* poll_health: a day, and per engine its batches failed in a row
  completed, \* the day of last_poll_completed_at, or 0
  fired,     \* the scheduler's sweeps begun
  req,       \* req[r]: the request in slot r, or None
  calls,     \* history: calls[d], the calls made for day d
  measured,  \* history: measured[d], the console runs that stored an answer
  returned,  \* history: the days whose check a run gave back that had measured
  handed,    \* history: handed[d], the calls made for day d whose charge was given back
  missed     \* history: missed[d], the tasks that failed in a batch that ended a
             \* sweep, or whose answer the error of another step replaced

config == <<used, aio, lease, manual, streaks, completed>>
history == <<calls, measured, returned, handed, missed>>
vars == <<today, answers, config, fired, req, history>>

-----------------------------------------------------------------------------
Free(r) == req[r] = None
At(r, s) == ~Free(r) /\ req[r].at = s
Cron(q) == q.run \in CronRun
End(r) == req' = [req EXCEPT ![r] = None]
Of(e, S) == {t \in S : t[1] = e}
UsableAlways(S) == S  \* variant
Usable(S) == IF aio >= AioCap THEN {t \in S : t[1] \notin Serp} ELSE S

(* The order of the pending tasks: the first of every engine, then the      *)
(* second of every engine, and so on (_pending_tasks).                      *)
Row(t, S) == Cardinality({u \in S : u[1] = t[1] /\ u[2] < t[2]})
Before(u, t, S) ==
  \/ Row(u, S) < Row(t, S)
  \/ Row(u, S) = Row(t, S) /\ u[1] < t[1]
First(n, S) == {t \in S : Cardinality({u \in S : Before(u, t, S)}) < n}

PollDue == completed = 0 \/ today >= completed + Interval
HeldByOther(run) == lease # None /\ lease.live /\ lease.run # run
CheckedUnderLease(run, d) ==  \* variant
  run \in ConsoleRun /\ manual[d] \notin {None, run} /\ lease # None
CheckedByOther(run, d) == run \in ConsoleRun /\ manual[d] \notin {None, run}
ClaimByAny(run, m) == IF m = None THEN run ELSE m  \* variant
Claim(run, m) == IF m = None /\ run \in ConsoleRun THEN run ELSE m
Smaller(a, b) == IF a < b THEN a ELSE b
Grant(want, d) == Smaller(want, Cap - used[d])
NeverExhausted(got) == FALSE  \* variant
Exhausted(got) == got = 0

(* What a request still has to close, one transaction each. *)
Swept(q, full, measuredNothing) ==
  <<"release">>
  \o (IF ~Cron(q) /\ measuredNothing THEN <<"giveback">> ELSE <<>>)
  \o (IF full THEN <<"mark">> ELSE <<>>)
  \o (CASE ~Cron(q) -> <<>> [] full -> <<"mark", "release">> [] OTHER -> <<"release">>)
NothingPending(q) == IF Cron(q) THEN <<"release", "mark", "release">> ELSE <<"release">>
Refused(q) == IF Cron(q) THEN <<"release">> ELSE <<>>
OutOfBudget == <<"release">>
Fresh(at, run, d, S, todo) ==
  [at |-> at, run |-> run, day |-> d, wanted |-> S, todo |-> todo, tasks |-> {},
   seen |-> {}, got |-> 0, batch |-> {}, spent |-> 0, kept |-> {}, ok |-> {}, left |-> {},
   raised |-> FALSE]
NewRequest(run, S) == Fresh("load", run, today, S, <<>>)
CloseWith(r, todo) ==
  req' = [req EXCEPT ![r] =
            IF todo = <<>> THEN None ELSE Fresh("close", @.run, @.day, @.wanted, todo)]

-----------------------------------------------------------------------------
NoStreaks == [day |-> 0, of |-> [e \in Engine |-> 0]]

Init ==
  /\ today = 1
  /\ answers = [d \in Day |-> {}]
  /\ used = [d \in Day |-> 0]
  /\ aio = 0
  /\ lease = None
  /\ manual = [d \in Day |-> None]
  /\ streaks = NoStreaks
  /\ completed = 0
  /\ fired = {}
  /\ req = [r \in Request |-> None]
  /\ calls = [d \in Day |-> 0]
  /\ measured = [d \in Day |-> {}]
  /\ returned = {}
  /\ handed = [d \in Day |-> 0]
  /\ missed = [d \in Day |-> {}]

(* The scheduler fires and finds the brand due (cron_poll) ... *)
Fire(r, run) ==
  /\ Free(r) /\ run \in CronRun \ fired
  /\ PollDue
  /\ fired' = fired \cup {run}
  /\ req' = [req EXCEPT ![r] = NewRequest(run, Task)]
  /\ UNCHANGED <<today, answers, config, history>>

(* ... and a console asks for a step of its check (the route poll_step). *)
Ask(r, run) ==
  /\ Free(r) /\ run \in ConsoleRun
  /\ Overlap \/ \A s \in Request : ~Free(s) => req[s].run # run
  /\ \E S \in Asked : req' = [req EXCEPT ![r] = NewRequest(run, S)]
  /\ UNCHANGED <<today, answers, config, fired, history>>

(* The step reads the configuration and the day's answers. Without an       *)
(* engine left it raises; with no task left it is over.                     *)
Load(r) ==
  LET q == req[r]
      S == Usable(q.wanted)
      owed == S \ answers[today]
      seen == {u[1] : u \in S} \cap {t[1] : t \in answers[today]}
  IN
  /\ At(r, "load")
  /\ IF S = {} THEN CloseWith(r, Refused(q))
     ELSE IF owed = {} THEN CloseWith(r, NothingPending(q))
     ELSE req' = [req EXCEPT ![r] = [q EXCEPT !.at = "reserve", !.day = today,
                                               !.tasks = owed, !.seen = seen]]
  /\ UNCHANGED <<today, answers, config, fired, history>>

(* The scheduler's wall clock is spent between two steps. *)
Deadline(r) ==
  /\ At(r, "load") /\ Cron(req[r])
  /\ CloseWith(r, Refused(req[r]))
  /\ UNCHANGED <<today, answers, config, fired, history>>

(* Three guards, one transaction (_reserve_calls). *)
Turned(r) ==
  /\ At(r, "reserve")
  /\ \/ HeldByOther(req[r].run)
     \/ CheckedByOther(req[r].run, req[r].day)
  /\ CloseWith(r, Refused(req[r]))
  /\ UNCHANGED <<today, answers, config, fired, history>>

Reserve(r) ==
  LET q == req[r]
      got == Grant(Smaller(Batch, Cardinality(q.tasks)), q.day)
  IN
  /\ At(r, "reserve")
  /\ ~HeldByOther(q.run) /\ ~CheckedByOther(q.run, q.day)
  /\ IF Exhausted(got)
     THEN CloseWith(r, OutOfBudget) /\ UNCHANGED config
     ELSE /\ used' = [used EXCEPT ![q.day] = @ + got]
          /\ lease' = [run |-> q.run, live |-> TRUE]
          /\ manual' = [manual EXCEPT ![q.day] = Claim(q.run, @)]
          /\ req' = [req EXCEPT ![r] = [q EXCEPT !.at = "call", !.got = got,
                                                 !.batch = First(got, q.tasks)]]
          /\ UNCHANGED <<aio, streaks, completed>>
  /\ UNCHANGED <<today, answers, fired, history>>

(* The calls of the batch go out together, and each is answered or fails;   *)
(* then the step walks the answers in order. One that raises while its      *)
(* calls are out, or on the n-th answer, has n of them down as spent; it    *)
(* keeps the records before that one.                                       *)
Walked(q, n, walked, kept, ok, raised) ==
  [q EXCEPT !.spent = n, !.batch = walked, !.kept = kept, !.ok = ok, !.raised = raised,
            !.left = {t[1] : t \in kept}, !.at = IF kept = {} THEN "settle" ELSE "merge"]
Call(r) ==
  LET q == req[r] IN
  /\ At(r, "call")
  /\ \E ok \in SUBSET q.batch :
       /\ Fails \/ ok = q.batch
       /\ req' = [req EXCEPT ![r] = Walked(q, q.got, q.batch, q.batch, ok, FALSE)]
  /\ calls' = [calls EXCEPT ![q.day] = @ + q.got]
  /\ UNCHANGED <<today, answers, config, fired, measured, returned, handed, missed>>

CallRaises(r) ==
  LET q == req[r] IN
  /\ Fails /\ At(r, "call")
  /\ \E n \in 0 .. q.got : \E ok \in SUBSET First(n - 1, q.batch) :
       /\ handed[q.day] + q.got - n <= HandBack
       /\ req' = [req EXCEPT ![r] =
                    Walked(q, n, First(n, q.batch), First(n - 1, q.batch), ok, TRUE)]
  /\ calls' = [calls EXCEPT ![q.day] = @ + q.got]
  /\ UNCHANGED <<today, answers, config, fired, measured, returned, handed, missed>>

(* One engine's records replace what its day document has of their tasks.   *)
Merge(r) ==
  LET q == req[r] IN
  /\ At(r, "merge")
  /\ \E e \in q.left :
       LET stored == (answers[q.day] \ Of(e, q.kept)) \cup Of(e, q.ok) IN
       /\ answers' = [answers EXCEPT ![q.day] = stored]
       /\ missed' = [missed EXCEPT ![q.day] = @ \cup (answers[q.day] \ stored)]
       /\ measured' = [measured EXCEPT ![q.day] =
                         IF ~Cron(q) /\ Of(e, q.ok) # {} THEN @ \cup {q.run} ELSE @]
       /\ req' = [req EXCEPT ![r] =
                    [q EXCEPT !.at = IF q.left = {e} THEN "settle" ELSE "merge",
                              !.left = @ \ {e},
                              !.seen = IF Of(e, stored) = {} THEN @ \ {e} ELSE @ \cup {e}]]
  /\ UNCHANGED <<today, config, fired, calls, returned, handed>>

-----------------------------------------------------------------------------
(* How the batches of the day have failed, after this one (_settle_calls). *)
Streak(q) ==
  [e \in Engine |->
     LET before == IF streaks.day = q.day THEN streaks.of[e] ELSE 0 IN
     IF Of(e, q.batch) = {} THEN before
     ELSE IF Of(e, q.batch) \subseteq q.kept \ q.ok THEN Smaller(before + 1, FailLimit) ELSE 0]
Terminal(q) ==
  \/ q.batch # {} /\ q.ok = {}
  \/ \E e \in Engine : Streak(q)[e] >= FailLimit

(* The count of done tasks is the one of the load plus the batch: a failed  *)
(* call counts.                                                             *)
DoneByBatch(q) == q.got = Smaller(Batch, Cardinality(q.tasks))  \* variant
DoneNow(q) == q.got >= Cardinality(q.tasks)
Refreshed(q) ==
  IF lease # None /\ lease.run = q.run THEN [run |-> q.run, live |-> TRUE] ELSE lease

(* The part of the reservation that is not down as spent is handed back.    *)
RefundFailed(q) == q.got - Cardinality(q.ok)  \* variant
Refund(q) == q.got - q.spent
Larger(a, b) == IF a > b THEN a ELSE b

(* The step settles; it goes on as the console's next request, as the next  *)
(* turn of the scheduler's loop, or the sweep is over. One that raised is   *)
(* over too, and closes nothing but the scheduler's lease.                  *)
Settle(r) ==
  LET q == req[r]
      over == DoneNow(q) \/ Terminal(q)
      full == DoneNow(q) /\ ~Terminal(q)
  IN
  /\ At(r, "settle")
  /\ used' = [used EXCEPT ![q.day] = Larger(0, @ - Refund(q))]
  /\ handed' = [handed EXCEPT ![q.day] = @ + (IF q.raised THEN q.got - q.spent ELSE 0)]
  /\ lease' = Refreshed(q)
  /\ aio' = aio + Cardinality({t \in q.batch : t[1] \in Serp})
  /\ streaks' = [day |-> q.day, of |-> Streak(q)]
  /\ IF q.raised THEN CloseWith(r, Refused(q)) /\ missed' = missed
     ELSE IF over
     THEN /\ CloseWith(r, Swept(q, full, q.seen = {}))
          /\ missed' = IF full THEN [missed EXCEPT ![q.day] = @ \cup (q.batch \ q.ok)] ELSE missed
     ELSE /\ req' = [req EXCEPT ![r] = IF Cron(q) THEN NewRequest(q.run, Task) ELSE None]
          /\ missed' = missed
  /\ UNCHANGED <<today, answers, manual, completed, fired, calls, measured, returned>>

(* One closing transaction: _release_lease, _release_manual_check or        *)
(* mark_poll_completed; the first two only undo what the run itself did.    *)
ReleasedByAny(q) == None  \* variant
ReleasedBy(q) == IF lease # None /\ lease.run = q.run THEN None ELSE lease
Close(r) ==
  LET q == req[r] IN
  /\ At(r, "close")
  /\ lease' = IF Head(q.todo) = "release" THEN ReleasedBy(q) ELSE lease
  /\ manual' = IF Head(q.todo) = "giveback" /\ manual[q.day] = q.run
               THEN [manual EXCEPT ![q.day] = None] ELSE manual
  /\ returned' = IF manual' # manual /\ q.run \in measured[q.day]
                  THEN returned \cup {q.day} ELSE returned
  /\ completed' = IF Head(q.todo) = "mark" THEN today ELSE completed
  /\ CloseWith(r, Tail(q.todo))
  /\ UNCHANGED <<today, answers, used, aio, streaks, fired, calls, measured, handed, missed>>

-----------------------------------------------------------------------------
(* The store fails a step, before or after what it was to write: the step   *)
(* raises, and the scheduler's loop gives its lease back on the way out, if *)
(* the store lets it.                                                       *)
StoreRaises(r) ==
  /\ Fails /\ ~Free(r)
  /\ \E todo \in {<<>>, Refused(req[r])} : CloseWith(r, todo)
  /\ UNCHANGED <<today, answers, config, fired, history>>

Crash(r) ==
  /\ Crashes /\ ~Free(r)
  /\ End(r)
  /\ UNCHANGED <<today, answers, config, fired, history>>

(* The lease's time runs out: its holder is dead, or idle between steps, or *)
(* was slower than POLL_LEASE_TTL_SECONDS.                                  *)
Polling(r) == ~Free(r) /\ req[r].at \in {"call", "merge", "settle"}
Lapse ==
  /\ lease # None /\ lease.live
  /\ SlowSteps \/ \A r \in Request : Polling(r) => req[r].run # lease.run
  /\ lease' = [lease EXCEPT !.live = FALSE]
  /\ UNCHANGED <<today, answers, used, aio, manual, streaks, completed, fired, req, history>>

NextDay ==
  /\ today < LastDay
  /\ today' = today + 1
  /\ UNCHANGED <<answers, config, fired, req, history>>

Step(r) ==
  \/ Load(r) \/ Turned(r) \/ Reserve(r) \/ Call(r) \/ CallRaises(r)
  \/ Merge(r) \/ Settle(r) \/ Close(r)
Begin(r) == \E run \in Run : Fire(r, run) \/ Ask(r, run)
Next ==
  \/ \E r \in Request : Begin(r) \/ Step(r) \/ Deadline(r) \/ StoreRaises(r) \/ Crash(r)
  \/ Lapse \/ NextDay

Spec == Init /\ [][Next]_vars

(* A request that lives takes its next step: calls time out, models too.    *)
Fairness == \A r \in Request : WF_vars(Step(r))
FairSpec == Spec /\ Fairness

-----------------------------------------------------------------------------
Closing == {"release", "giveback", "mark"}
RequestType ==
  [at : {"load", "reserve", "call", "merge", "settle", "close"}, run : Run,
   wanted : SUBSET Task, day : Day, tasks : SUBSET Task, seen : SUBSET Engine,
   got : 0 .. Batch, batch : SUBSET Task, spent : 0 .. Batch, kept : SUBSET Task,
   ok : SUBSET Task, left : SUBSET Engine, raised : BOOLEAN, todo : Seq(Closing)]
GeoTypeOK ==
  /\ today \in Day
  /\ answers \in [Day -> SUBSET Task]
  /\ used \in [Day -> Nat] /\ aio \in Nat /\ calls \in [Day -> Nat]
  /\ lease \in [run : Run, live : BOOLEAN] \cup {None}
  /\ manual \in [Day -> ConsoleRun \cup {None}]
  /\ streaks \in [day : Day \cup {0}, of : [Engine -> 0 .. FailLimit]]
  /\ completed \in Day \cup {0}
  /\ fired \subseteq CronRun
  /\ measured \in [Day -> SUBSET ConsoleRun] /\ returned \subseteq Day
  /\ handed \in [Day -> Nat] /\ missed \in [Day -> SUBSET Task]
  /\ req \in [Request -> RequestType \cup {None}]
  /\ \A r \in Request : At(r, "close") => req[r].todo # <<>>

(* The day's cap holds and every call that went out was charged to it       *)
(* before, whatever overlaps, lapses or dies (_reserve_calls). The exception *)
(* is a step that raises once its batch is out: it hands back the charge of *)
(* the answers it has not walked, and these calls the day has for nothing   *)
(* (_settle_calls: "the unspent reservation").                              *)
WithinBudget == \A d \in Day : calls[d] <= used[d] + handed[d] /\ used[d] <= Cap

(* One request at a time polls the brand, from its reservation to its       *)
(* settlement, as long as leases outlast steps and a console sends its      *)
(* steps one after another (POLL_LEASE_TTL_SECONDS).                        *)
OneSweep == \A r, s \in Request : Polling(r) /\ Polling(s) => r = s

(* One manual check per brand per day, whoever clicks (_reserve_calls): a   *)
(* brand's answers of a day are measured by one console run at most, unless *)
(* that run gave its check back. It does so when a step measures nothing    *)
(* and it finds no answer for the engines it was asked for, also when the   *)
(* run did measure others, or another sweep's errors replaced its answers   *)
(* (_release_manual_check says "it stored no answer").                      *)
OneCheckADay == \A d \in Day \ returned : \A j, k \in measured[d] : j = k

(* The schedule moves only on a sweep that is complete: on some day every   *)
(* task it was to ask is answered, the engines out of budget aside, whatever *)
(* budget, deadline, lapse or crash cut it short (mark_poll_completed). The *)
(* exceptions are the tasks that failed in a batch that ended a sweep,      *)
(* which count as done though they are owed again, and answers that an      *)
(* overlapping step's error has replaced. A console's sweep is to ask the   *)
(* engines the console names, no more.                                      *)
Marks(r) == At(r, "close") /\ Head(req[r].todo) = "mark"
Complete(S, d) == Usable(S) \subseteq answers[d] \cup missed[d]
ScheduleMovesOnFullSweep ==
  [][completed' # completed =>
       \E r \in Request : /\ Marks(r) /\ req'[r] # req[r]
                         /\ \E d \in 1 .. today : Complete(req[r].wanted, d)]_vars

(* The monthly cap on billed SERP calls is read when a step is loaded and   *)
(* counted when it is settled, so it may be passed: by no more than one     *)
(* batch of each request in flight (_apply_budgets, _settle_calls).         *)
SerpBatch == Smaller(Batch, Cardinality({t \in Task : t[1] \in Serp}))
SerpCapHolds == aio < AioCap + SerpBatch * Cardinality(Request) \/ aio = 0

(* Every step is answered and every sweep ends, also without its deadline.  *)
EverySweepEnds == \A r \in Request : ~Free(r) ~> Free(r)
=============================================================================
