----------------------------- MODULE SheetPull -----------------------------
(***************************************************************************)
(* The figures of a shared marketing workspace (marketing_research.py,     *)
(* marketing_research_agent/runs.py): runs in the collection mr_runs, of   *)
(* which each reader takes the newest per platform. Pulls of the workbook  *)
(* write new runs and retire what those replace, on several instances of   *)
(* the service at once: the lock on a workspace is of one process. A run   *)
(* is also written to the instance's own disk, which is merged into what   *)
(* that instance lists, and is gone with the instance.                     *)
(*                                                                         *)
(* Of a run: its platform and when it was written. Left out: the cooldown  *)
(* and the floor of _pull_gate (a pull that is turned away does nothing),  *)
(* clocks that differ, other kinds of runs, and the unshared workspace.    *)
(***************************************************************************)
EXTENDS Integers, FiniteSets

CONSTANTS
  Tab,        \* the platforms "sheets:<title>", one per tab of a vendor
  Rollup,     \* the official totals (kind official_spend)
  File,       \* the platforms of uploaded files
  Steady,     \* the platforms that the workbook always has
  Instance,   \* instances of the service
  Request,    \* slots for the requests in flight
  None,
  StampsCap,  \* bound: the runs that are written
  TroubleCap  \* bound: what fails, and what people do to the store and the book

Sheet == Tab \cup {Rollup}
Platform == Sheet \cup File

ASSUME PullAssumption ==
  /\ Rollup \notin Tab \cup File /\ Tab \cap File = {}
  /\ Steady \subseteq Sheet
  /\ StampsCap \in Nat /\ TroubleCap \in Nat

Run == [of : Platform, at : Nat]
ASSUME NoneAssumption == None \notin Run /\ None \notin Instance

VARIABLES
  cloud,   \* the runs in mr_runs
  disk,    \* disk[i]: the runs on the disk of instance i
  book,    \* the platforms the workbook has at present
  clock,   \* the last generated_at
  req,     \* the requests in flight
  stored,  \* history: the runs that reached mr_runs
  deleted, \* history: the runs a person deleted
  mistaken, \* history: runs the sweep after a single tab takes for replaced
  untidy,  \* history: whether what a pull left behind may not be swept yet ...
  sweeper, \* the sweeps that will have done so when they end
  trouble  \* what went wrong so far

storeVars == <<cloud, disk, clock, stored>>
tidyVars == <<untidy, sweeper>>
pastVars == <<deleted, mistaken>>
vars == <<storeVars, book, req, pastVars, tidyVars, trouble>>

-----------------------------------------------------------------------------
Newer(s, r) == s.of = r.of /\ s.at > r.at

(* list_runs: what is stored, and what is on the instance's own disk. *)
Seen(i) == cloud \cup disk[i]

(* swap: the platforms whose runs the pull replaces; to: those it has still *)
(* to write; run: the one it is writing; lost: those that did not reach     *)
(* mr_runs; old: the runs to retire.                                        *)
Req ==
  [kind : {"free", "all", "tab", "file"}, on : Instance \cup {None},
   sweeping : BOOLEAN, at : {"list", "save", "commit", "retire", "sweep"},
   swap : SUBSET Sheet, to : SUBSET Platform, run : Run \cup {None},
   lost : SUBSET Platform, old : SUBSET Run]
Started(k, i) ==
  [kind |-> k, on |-> i, sweeping |-> FALSE, at |-> "save", swap |-> {}, to |-> {},
   run |-> None, lost |-> {}, old |-> {}]
Idle == Started("free", None)

Free(p) == req[p].kind = "free"
Pulls(p) == req[p].kind \in {"all", "tab"}
At(p, at) == ~Free(p) /\ req[p].at = at
End(p) == req' = [req EXCEPT ![p] = Idle]

TypeOK ==
  /\ cloud \subseteq stored /\ stored \subseteq [of : Platform, at : 0 .. clock]
  /\ disk \in [Instance -> SUBSET [of : Platform, at : 0 .. clock]]
  /\ book \subseteq Sheet /\ Steady \subseteq book
  /\ clock \in 0 .. StampsCap
  /\ req \in [Request -> Req]
  /\ \A p \in Request : req[p].at = "commit" <=> req[p].run # None
  /\ deleted \subseteq Run /\ mistaken \subseteq Run /\ untidy \in BOOLEAN /\ sweeper \subseteq Request
  /\ trouble \in 0 .. TroubleCap

(* The deployment starts on what an earlier one stored. *)
Init ==
  /\ stored \in SUBSET [of : Platform, at : {0}] /\ cloud = stored
  /\ disk = [i \in Instance |-> {}]
  /\ book \in SUBSET Sheet /\ Steady \subseteq book
  /\ clock = 0
  /\ req = [p \in Request |-> Idle]
  /\ deleted = {} /\ mistaken = {} /\ untidy = FALSE /\ sweeper = {} /\ trouble = 0

Trouble(some) ==
  /\ some => trouble < TroubleCap
  /\ trouble' = IF some THEN trouble + 1 ELSE trouble

(* From now on a sweep that has listed the runs may have missed some. *)
LeavesBehind(some) ==
  /\ untidy' = (untidy \/ some)
  /\ sweeper' = IF some THEN {} ELSE sweeper

-----------------------------------------------------------------------------
(* The lock of the workspace in this process (_acquire_pull_lock). *)
Unlocked(i) == \A q \in Request : Pulls(q) => req[q].on # i

(* The cron or a person pulls the workbook (_pull_and_swap): its tabs,       *)
(* without any of which none is replaced, and the official totals, which may *)
(* be kept as they are. A pull that cannot read it does nothing.             *)
StartAll(p, i) ==
  /\ Free(p) /\ Unlocked(i)
  /\ \E totals \in SUBSET {Rollup} :
       req' = [req EXCEPT ![p] =
                [Started("all", i) EXCEPT
                   !.at = "list",
                   !.swap = (IF book \cap Tab = {} THEN {} ELSE Tab) \cup totals,
                   !.to = book \cap (Tab \cup totals)]]
  /\ UNCHANGED <<storeVars, book, pastVars, tidyVars, trouble>>

(* An admin pulls one tab; somebody uploads a file. *)
StartTab(p, i) ==
  /\ Free(p) /\ Unlocked(i)
  /\ \E t \in book \cap Tab :
       req' = [req EXCEPT ![p] = [Started("tab", i) EXCEPT !.to = {t}]]
  /\ UNCHANGED <<storeVars, book, pastVars, tidyVars, trouble>>
StartFile(p, i) ==
  /\ Free(p)
  /\ \E f \in File :
       req' = [req EXCEPT ![p] = [Started("file", i) EXCEPT !.to = {f}]]
  /\ UNCHANGED <<storeVars, book, pastVars, tidyVars, trouble>>

-----------------------------------------------------------------------------
AfterWritesStale(to) == IF to = {} THEN "retire" ELSE "commit"  \* variant
AfterWrites(to) == IF to = {} THEN "retire" ELSE "save"

(* The runs to be replaced are listed before anything is written. *)
List(p) ==
  /\ At(p, "list")
  /\ req' = [req EXCEPT ![p] =
               [@ EXCEPT !.at = AfterWrites(req[p].to),
                         !.old = {r \in Seen(req[p].on) : r.of \in req[p].swap}]]
  /\ UNCHANGED <<storeVars, book, pastVars, tidyVars, trouble>>
ListFails(p) ==
  /\ At(p, "list")
  /\ End(p)
  /\ UNCHANGED <<storeVars, book, pastVars, tidyVars, trouble>>

(* A run is stamped and on the instance's disk (save_run); the totals come   *)
(* after the tabs ...                                                        *)
Save(p) ==
  /\ At(p, "save")
  /\ clock < StampsCap /\ clock' = clock + 1
  /\ \E x \in req[p].to :
       LET run == [of |-> x, at |-> clock + 1] IN
         /\ x = Rollup => req[p].to = {Rollup}
         /\ disk' = [disk EXCEPT ![req[p].on] = @ \cup {run}]
         /\ req' = [req EXCEPT ![p] = [@ EXCEPT !.at = "commit", !.run = run]]
  /\ UNCHANGED <<cloud, stored, book, pastVars, tidyVars, trouble>>

(* ... and then in mr_runs, or it is not; a write that is taken for lost may *)
(* have been stored all the same. A single tab that is lost leaves the sweep *)
(* out; so does, later, a pull that missed one.                              *)
Commit(p) ==
  /\ At(p, "commit")
  /\ LET q == req[p]
         left == q.to \ {q.run.of} IN
     \E applied, durable \in BOOLEAN, missed \in {{}, {q.run.of}} :
       /\ durable => applied
       /\ durable <=> missed = {}
       /\ Trouble(~durable)
       /\ IF applied
          THEN cloud' = cloud \cup {q.run} /\ stored' = stored \cup {q.run}
          ELSE UNCHANGED <<cloud, stored>>
       /\ LeavesBehind(q.kind = "tab" /\ applied /\ ~durable)
       /\ CASE q.kind = "all" ->
                 req' = [req EXCEPT ![p] =
                           [@ EXCEPT !.at = AfterWrites(left), !.to = left, !.run = None,
                                     !.lost = q.lost \cup missed]]
            [] q.kind = "tab" /\ durable ->
                 req' = [req EXCEPT ![p] =
                           [@ EXCEPT !.at = "sweep", !.to = {}, !.run = None]]
            [] OTHER -> End(p)
  /\ UNCHANGED <<disk, clock, book, pastVars>>

(* The disk does not take the run: the request ends here, whatever a pull of *)
(* everything has stored before.                                             *)
SaveRaises(p) ==
  /\ At(p, "save")
  /\ Trouble(TRUE)
  /\ End(p)
  /\ LeavesBehind(req[p].kind = "all")
  /\ UNCHANGED <<storeVars, book, pastVars>>

(* The tabs are retired if each of them was stored, the totals               *)
(* if they were.                                                             *)
RetirableAll(q) == q.old  \* variant
Retirable(q) ==
  {r \in q.old : /\ r.of \notin q.lost
                 /\ r.of \in Tab => q.lost \cap Tab = {}}

(* delete_run: a deletion that does not reach mr_runs is not noticed. *)
Retire(p) ==
  /\ At(p, "retire")
  /\ \E r \in Retirable(req[p]), reached \in BOOLEAN :
       /\ Trouble(~reached)
       /\ disk' = [disk EXCEPT ![req[p].on] = @ \ {r}]
       /\ cloud' = IF reached THEN cloud \ {r} ELSE cloud
       /\ LeavesBehind(~reached)
       /\ req' = [req EXCEPT ![p].old = @ \ {r}]
  /\ UNCHANGED <<clock, stored, book, pastVars>>

(* A deletion that raises, before anything is gone, ends the swap; the sweep *)
(* passes over that run.                                                     *)
RetireRaises(p) ==
  /\ At(p, "retire")
  /\ Trouble(TRUE)
  /\ \E r \in Retirable(req[p]) :
       IF req[p].sweeping THEN req' = [req EXCEPT ![p].old = @ \ {r}] ELSE End(p)
  /\ LeavesBehind(TRUE)
  /\ UNCHANGED <<storeVars, book, pastVars>>

(* The swap is over: the sweep is next, if tabs were replaced. *)
SweepsNever(q) == q.swap = {}  \* variant
Sweeps(q) == q.swap \cap Tab # {} /\ q.lost \cap Tab = {}
Swapped(p) ==
  /\ At(p, "retire") /\ ~req[p].sweeping /\ Retirable(req[p]) = {}
  /\ IF Sweeps(req[p])
     THEN /\ req' = [req EXCEPT ![p] = [@ EXCEPT !.at = "sweep", !.old = {}]]
          /\ UNCHANGED tidyVars
     ELSE End(p) /\ LeavesBehind(req[p].lost \cap Tab # {})
  /\ UNCHANGED <<storeVars, book, pastVars, trouble>>

(* _sweep_superseded_tracker_runs: whoever left them, all runs of a tab but  *)
(* the newest go. Best effort. It goes by what the instance lists: after a   *)
(* single tab, a run on its disk that was never stored, of some other tab,   *)
(* counts as newer.                                                          *)
Superseded(runs) == {r \in runs : r.of \in Tab /\ \E s \in runs : Newer(s, r)}
Mistaken(i) == {r \in Seen(i) : r.of \in Tab /\ \E s \in disk[i] \ stored : Newer(s, r)}
Sweep(p) ==
  /\ At(p, "sweep")
  /\ req' = [req EXCEPT ![p] =
               [@ EXCEPT !.sweeping = TRUE, !.at = "retire", !.lost = {},
                         !.old = Superseded(Seen(req[p].on))]]
  /\ sweeper' = sweeper \cup {p}
  /\ mistaken' = IF req[p].kind = "tab" THEN mistaken \cup Mistaken(req[p].on) ELSE mistaken
  /\ UNCHANGED <<storeVars, book, deleted, untidy, trouble>>
SweepFails(p) ==
  /\ At(p, "sweep")
  /\ Trouble(TRUE)
  /\ End(p)
  /\ LeavesBehind(TRUE)
  /\ UNCHANGED <<storeVars, book, pastVars>>
Swept(p) ==
  /\ At(p, "retire") /\ req[p].sweeping /\ Retirable(req[p]) = {}
  /\ End(p)
  /\ untidy' = (untidy /\ p \notin sweeper)
  /\ sweeper' = sweeper \ {p}
  /\ UNCHANGED <<storeVars, book, pastVars, trouble>>

-----------------------------------------------------------------------------
(* A person deletes a dataset that an instance lists (delete_dataset). *)
Delete(i) ==
  /\ Trouble(TRUE)
  /\ \E r \in Seen(i), reached \in BOOLEAN :
       /\ r.of \in Tab \cup File
       /\ disk' = [disk EXCEPT ![i] = @ \ {r}]
       /\ cloud' = IF reached THEN cloud \ {r} ELSE cloud
       /\ deleted' = deleted \cup {r}
  /\ UNCHANGED <<clock, stored, book, req, mistaken, tidyVars>>

(* Tabs come and go. *)
Rearrange ==
  /\ Trouble(TRUE)
  /\ book' \in SUBSET Sheet /\ Steady \subseteq book'
  /\ UNCHANGED <<storeVars, req, pastVars, tidyVars>>

(* An instance is stopped, with its disk and the requests on it. *)
Stop(i) ==
  /\ Trouble(TRUE)
  /\ disk' = [disk EXCEPT ![i] = {}]
  /\ req' = [p \in Request |-> IF req[p].on = i THEN Idle ELSE req[p]]
  /\ LeavesBehind(\E p \in Request : Pulls(p) /\ req[p].on = i)
  /\ UNCHANGED <<cloud, clock, stored, book, pastVars>>

Proceed(p) ==
  \/ List(p) \/ ListFails(p)
  \/ Save(p) \/ SaveRaises(p) \/ Commit(p) \/ Retire(p) \/ RetireRaises(p)
  \/ Swapped(p) \/ Sweep(p) \/ SweepFails(p) \/ Swept(p)

Next ==
  \/ \E p \in Request :
       \/ \E i \in Instance : StartAll(p, i) \/ StartTab(p, i) \/ StartFile(p, i)
       \/ Proceed(p)
  \/ \E i \in Instance : Delete(i) \/ Stop(i)
  \/ Rearrange

Spec == Init /\ [][Next]_vars

-----------------------------------------------------------------------------
(* Nothing is retired before its replacement is stored where it lasts: of   *)
(* the runs of a file, or of a tab or total the workbook has kept, that     *)
(* ever reached mr_runs, the newest is still there, whatever fails and      *)
(* whichever pulls overlap; unless a person deleted it, or the sweep after  *)
(* a single tab took an unstored run for its replacement.                   *)
KeptUntilReplaced ==
  \A r \in stored :
    r.of \in Steady \cup File =>
      r \in cloud \cup deleted \cup mistaken \/ \E s \in stored : Newer(s, r)

(* When no pull is under way, mr_runs has one run per tab, however the      *)
(* pulls overlapped; what is left behind by a pull that raised, died, could *)
(* not delete, or took a stored run for lost is there until the next        *)
(* complete sweep.                                                          *)
CleanAtRest ==
  ~untidy /\ (\A p \in Request : ~Pulls(p)) =>
    \A r, s \in cloud : r.of \in Tab => ~Newer(s, r)
=============================================================================
