-------------------------- MODULE SheetPullProofs --------------------------
(* Proofs about SheetPull. *)
EXTENDS SheetPull, TLAPS

USE PullAssumption, NoneAssumption DEF Sheet, Platform, Run

Stamped == [of : Platform, at : 0 .. clock]
Replaced(r) == \E s \in stored : Newer(s, r)

(* What a request's own record says of itself, whatever the store holds. *)
Shape(q) ==
  /\ q \in Req
  /\ q.kind = "free" => q = Idle
  /\ q.kind # "free" => q.on \in Instance
  /\ q.at = "commit" <=> q.run # None
  /\ q.at = "commit" => q.run \in Stamped /\ q.run.of \in q.to
  /\ q.old \subseteq [of : Sheet, at : 0 .. clock]

Stage(q) ==
  /\ q.kind = "all" => q.to \subseteq Sheet /\ (Tab \subseteq q.swap \/ q.swap \cap Tab = {})
  /\ q.kind = "tab" => /\ q.to \subseteq Tab /\ q.at # "list"
                       /\ ~q.sweeping => q.old = {} /\ q.at # "retire"
  /\ q.kind = "file" => q.to \subseteq File /\ q.at \in {"save", "commit"}
  /\ q.at = "list" => q.swap \cap Steady \subseteq q.to
  /\ q.at \in {"retire", "sweep"} => q.to = {}
  /\ q.at = "sweep" /\ q.kind = "all" => Tab \subseteq q.swap /\ q.lost \cap Tab = {}
  /\ q.sweeping => q.at = "retire"

(* What a pull has listed, and what its disk holds, is replaced by the time *)
(* it is done with a platform that the workbook has, or the pull says that  *)
(* it lost its own run of it.                                               *)
Swapping(q) == q.kind = "all" /\ q.at # "list" /\ ~q.sweeping
Done(q, x) == x \notin q.to /\ x \notin q.lost
Swap(q) ==
  Swapping(q) =>
    /\ \A r \in q.old : r.of \in Steady /\ Done(q, r.of) => Replaced(r)
    /\ \A r \in disk[q.on] :
         r.of \in Steady \cap Tab /\ r.of \in q.swap /\ Done(q, r.of) => r \in stored \/ Replaced(r)
    /\ q.at = "commit" => /\ \A r \in q.old : r.at < q.run.at
                          /\ \A r \in disk[q.on] : Newer(q.run, r) \/ r.of # q.run.of \/ r = q.run

Sweeping(q) ==
  q.sweeping => \A r \in q.old : r.of \in Steady => Replaced(r) \/ r \in mistaken

Locked ==
  \A p, q \in Request : Pulls(p) /\ Pulls(q) /\ req[p].on = req[q].on => p = q

Requests ==
  /\ Locked
  /\ \A p \in Request : Shape(req[p]) /\ Stage(req[p]) /\ Swap(req[p]) /\ Sweeping(req[p])
PullInv == TypeOK /\ Requests /\ KeptUntilReplaced

-----------------------------------------------------------------------------
(* A request that is idle asks for nothing. *)
LEMMA IdleFits == Shape(Idle) /\ Stage(Idle) /\ Swap(Idle) /\ Sweeping(Idle)
BY DEF Idle, Started, Shape, Stage, Swap, Swapping, Sweeping, Req

(* At the start no pull is at work. *)
LEMMA InitHolds == Init => PullInv
<1> SUFFICES ASSUME Init PROVE PullInv
  OBVIOUS
<1>1. \A p \in Request : req[p] = Idle
  BY DEF Init
<1>2. Locked
  BY <1>1 DEF Locked, Pulls, Idle, Started
<1>3. Requests
  BY <1>1, <1>2, IdleFits DEF Requests
<1>4. TypeOK
  <2>1. Idle \in Req
    BY IdleFits DEF Shape
  <2>2. req \in [Request -> Req]
    BY <1>1, <2>1 DEF Init
  <2>3. \A p \in Request : req[p].at = "commit" <=> req[p].run # None
    BY <1>1, IdleFits DEF Shape
  <2>4. stored \subseteq Stamped
    BY DEF Init, Stamped
  <2>5. disk \in [Instance -> SUBSET [of : Platform, at : 0 .. clock]]
    BY DEF Init
  <2>6. cloud \subseteq stored /\ book \subseteq Sheet /\ Steady \subseteq book
    BY DEF Init
  <2>7. clock \in 0 .. StampsCap /\ trouble \in 0 .. TroubleCap
    BY DEF Init
  <2>8. deleted \subseteq Run /\ mistaken \subseteq Run /\ untidy \in BOOLEAN /\ sweeper \subseteq Request
    BY DEF Init
  <2> QED BY <2>2, <2>3, <2>4, <2>5, <2>6, <2>7, <2>8 DEF TypeOK, Stamped
<1>5. KeptUntilReplaced
  BY DEF Init, KeptUntilReplaced
<1> QED BY <1>3, <1>4, <1>5 DEF PullInv

(* A request that does not move still fits, as long as nothing that was     *)
(* stored is forgotten and its disk gains no run of a tab.                  *)
LEMMA Bystander ==
  ASSUME PullInv, TypeOK', NEW p \in Request, UNCHANGED req[p],
         stored \subseteq stored', mistaken \subseteq mistaken', clock <= clock',
         Pulls(p) => \A r \in disk'[req[p].on] : r \in disk[req[p].on] \/ r.of \in File
  PROVE  Shape(req[p])' /\ Stage(req[p])' /\ Swap(req[p])' /\ Sweeping(req[p])'
<1> DEFINE q == req[p]
<1>1. Shape(q) /\ Stage(q) /\ Swap(q) /\ Sweeping(q) /\ q' = q
  BY DEF PullInv, Requests
<1>2. \A r : Replaced(r) => Replaced(r)'
  BY DEF Replaced, Newer
<1>3. Shape(q)'
  BY <1>1 DEF Shape, Stamped, PullInv, TypeOK
<1>4. Stage(q)' /\ Sweeping(q)'
  BY <1>1, <1>2 DEF Stage, Sweeping
<1>5. Swap(q)'
  <2> SUFFICES ASSUME Swapping(q) PROVE Swap(q)'
    BY <1>1 DEF Swap, Swapping
  <2>1. \A r \in disk'[q.on] : r \in disk[q.on] \/ r.of \in File
    BY DEF Pulls, Swapping
  <2>2. q.at = "commit" => q.run.of \in Sheet
    BY <1>1 DEF Shape, Stage, Swapping
  <2>3. \A x \in Sheet : x \notin File
    OBVIOUS
  <2>4. \A r \in q.old : r.of \in Steady /\ Done(q, r.of) => Replaced(r)'
    BY <1>1, <1>2 DEF Swap
  <2>5. ASSUME NEW r \in disk'[q.on], r.of \in Steady \cap Tab, r.of \in q.swap, Done(q, r.of)
        PROVE  r \in stored' \/ Replaced(r)'
    BY <1>1, <1>2, <2>1, <2>3, <2>5 DEF Swap
  <2>6. ASSUME q.at = "commit", NEW r \in disk'[q.on]
        PROVE  Newer(q.run, r) \/ r.of # q.run.of \/ r = q.run
    BY <1>1, <2>1, <2>2, <2>3, <2>6 DEF Swap
  <2>7. q.at = "commit" => \A r \in q.old : r.at < q.run.at
    BY <1>1 DEF Swap
  <2> HIDE DEF q
  <2>8. Done(q, 0)' = Done(q, 0) /\ Swapping(q)' = Swapping(q)
    BY <1>1 DEF Done, Swapping
  <2> QED BY <1>1, <2>4, <2>5, <2>6, <2>7 DEF Swap, Done, Newer
<1> QED BY <1>3, <1>4, <1>5

(* A request that moves leaves the others as they are. *)
LEMMA OneMoves ==
  ASSUME PullInv, TypeOK', NEW p \in Request, NEW new, req' = [req EXCEPT ![p] = new],
         stored \subseteq stored', mistaken \subseteq mistaken', clock <= clock',
         \A i \in Instance : \A r \in disk'[i] :
           r \in disk[i] \/ r.of \in File \/ (Pulls(p) /\ i = req[p].on),
         new.kind \in {"all", "tab"} => (Pulls(p) /\ new.on = req[p].on) \/ Unlocked(new.on),
         Shape(req[p])', Stage(req[p])', Swap(req[p])', Sweeping(req[p])'
  PROVE  Requests'
<1>0. req \in [Request -> Req] /\ req'[p] = new
  BY DEF PullInv, TypeOK
<1>1. \A q \in Request \ {p} : req'[q] = req[q]
  BY <1>0
<1>2. Locked'
  <2>1. Locked
    BY DEF PullInv, Requests
  <2> SUFFICES ASSUME NEW a \in Request, NEW b \in Request, a # b, Pulls(a)', Pulls(b)',
                      req'[a].on = req'[b].on
               PROVE  FALSE
    BY DEF Locked
  <2>2. CASE a # p /\ b # p
    BY <1>1, <2>1, <2>2 DEF Locked, Pulls
  <2>3. CASE a = p
    BY <1>0, <1>1, <2>1, <2>3 DEF Locked, Pulls, Unlocked
  <2>4. CASE b = p
    BY <1>0, <1>1, <2>1, <2>4 DEF Locked, Pulls, Unlocked
  <2> QED BY <2>2, <2>3, <2>4
<1>3. ASSUME NEW q \in Request, q # p
      PROVE  Shape(req[q])' /\ Stage(req[q])' /\ Swap(req[q])' /\ Sweeping(req[q])'
  <2>1. req[q]' = req[q]
    BY <1>1, <1>3
  <2>2. ASSUME Pulls(q), NEW r \in disk'[req[q].on] PROVE r \in disk[req[q].on] \/ r.of \in File
    <3>1. req[q].on \in Instance
      BY <2>2 DEF PullInv, Requests, Shape, Pulls
    <3>2. ~(Pulls(p) /\ req[p].on = req[q].on)
      BY <1>3, <2>2 DEF PullInv, Requests, Locked
    <3> QED BY <2>2, <3>1, <3>2
  <2> QED BY <2>1, <2>2, Bystander
<1> QED BY <1>2, <1>3 DEF Requests

(* A step that only adds stored runs, and accounts for those it takes away. *)
LEMMA KeptStays ==
  ASSUME PullInv, stored \subseteq stored', \A r \in stored' : r \in stored \/ r \in cloud',
         deleted \subseteq deleted', mistaken \subseteq mistaken',
         \A r \in cloud : r.of \in Steady \cup File =>
           r \in cloud' \/ Replaced(r) \/ r \in deleted' \cup mistaken'
  PROVE  KeptUntilReplaced'
<1>1. \A r : Replaced(r) => \E s \in stored' : Newer(s, r)
  BY DEF Replaced
<1> QED BY <1>1 DEF PullInv, KeptUntilReplaced, Replaced, Newer

(* A request that ends, or goes on, and leaves the store alone. *)
LEMMA StoreAlone ==
  ASSUME PullInv, NEW p \in Request, NEW new, req' = [req EXCEPT ![p] = new],
         UNCHANGED <<storeVars, book, deleted>>,
         mistaken \subseteq mistaken', mistaken' \subseteq Run,
         untidy' \in BOOLEAN, sweeper' \subseteq Request, trouble' \in 0 .. TroubleCap,
         new.kind \in {"all", "tab"} => (Pulls(p) /\ new.on = req[p].on) \/ Unlocked(new.on),
         Shape(new), Stage(new), Swap(new), Sweeping(new) \/ Sweeping(new)'
  PROVE  PullInv'
<1> USE DEF storeVars
<1>1. new \in Req /\ (new.at = "commit" <=> new.run # None)
  BY DEF Shape
<1>2. TypeOK'
  BY <1>1 DEF PullInv, TypeOK
<1>3. Shape(req[p])' /\ Stage(req[p])' /\ Swap(req[p])' /\ Sweeping(req[p])'
  <2>1. req[p]' = new
    BY DEF PullInv, TypeOK
  <2>2. Shape(new)' /\ Stage(new)' /\ Swap(new)' /\ Sweeping(new)'
    BY DEF Shape, Stamped, Stage, Swap, Swapping, Done, Sweeping, Replaced
  <2> QED BY <2>1, <2>2
<1>4. Requests'
  <2>1. clock <= clock' /\ stored \subseteq stored'
    BY DEF PullInv, TypeOK
  <2>2. \A i \in Instance : \A r \in disk'[i] :
          r \in disk[i] \/ r.of \in File \/ (Pulls(p) /\ i = req[p].on)
    OBVIOUS
  <2>3. new.kind \in {"all", "tab"} => (Pulls(p) /\ new.on = req[p].on) \/ Unlocked(new.on)
    OBVIOUS
  <2> QED BY <1>2, <1>3, <2>1, <2>2, <2>3, OneMoves
<1>5. KeptUntilReplaced'
  BY KeptStays
<1> QED BY <1>2, <1>4, <1>5 DEF PullInv

-----------------------------------------------------------------------------
(* What an instance sees was written by somebody. *)
LEMMA Seeing ==
  ASSUME PullInv, NEW i \in Instance
  PROVE  Seen(i) \subseteq Stamped /\ Stamped \subseteq Run
BY DEF PullInv, TypeOK, Seen, Stamped

(* A request as it starts. *)
LEMMA Starting ==
  ASSUME NEW k \in {"all", "tab", "file"}, NEW i \in Instance
  PROVE  /\ Started(k, i) \in Req
         /\ Started(k, i).kind = k /\ Started(k, i).on = i /\ ~Started(k, i).sweeping
         /\ Started(k, i).at = "save" /\ Started(k, i).to = {} /\ Started(k, i).run = None
         /\ Started(k, i).swap = {} /\ Started(k, i).lost = {} /\ Started(k, i).old = {}
BY DEF Started, Req

(* PullInv, step by step: a whole pull starts; *)
LEMMA StartAllKeeps ==
  ASSUME PullInv, NEW p \in Request, NEW i \in Instance, StartAll(p, i)
  PROVE  PullInv'
<1>1. PICK totals \in SUBSET {Rollup} :
        req' = [req EXCEPT ![p] =
                 [Started("all", i) EXCEPT
                    !.at = "list",
                    !.swap = (IF book \cap Tab = {} THEN {} ELSE Tab) \cup totals,
                    !.to = book \cap (Tab \cup totals)]]
  BY DEF StartAll
<1>2. PICK new :
        new = [Started("all", i) EXCEPT
                 !.at = "list",
                 !.swap = (IF book \cap Tab = {} THEN {} ELSE Tab) \cup totals,
                 !.to = book \cap (Tab \cup totals)]
  OBVIOUS
<1>3. req' = [req EXCEPT ![p] = new]
  BY <1>1, <1>2, Zenon
<1>4. book \subseteq Sheet /\ Steady \subseteq book
  BY DEF PullInv, TypeOK
<1>5. /\ new.kind = "all" /\ new.on = i /\ ~new.sweeping /\ new.at = "list"
      /\ new.swap = (IF book \cap Tab = {} THEN {} ELSE Tab) \cup totals
      /\ new.to = book \cap (Tab \cup totals)
      /\ new.run = None /\ new.lost = {} /\ new.old = {} /\ new \in Req
  <2>1. PICK start : start = Started("all", i)
    OBVIOUS
  <2>2. PICK swap \in SUBSET Sheet : swap = (IF book \cap Tab = {} THEN {} ELSE Tab) \cup totals
    OBVIOUS
  <2>3. PICK to \in SUBSET Platform : to = book \cap (Tab \cup totals)
    OBVIOUS
  <2>4. new = [start EXCEPT !.at = "list", !.swap = swap, !.to = to]
    BY <1>2, <2>1, <2>2, <2>3, Zenon
  <2>5. /\ start \in Req /\ start.kind = "all" /\ start.on = i /\ ~start.sweeping
        /\ start.run = None /\ start.lost = {} /\ start.old = {}
    BY <2>1, Starting
  <2> QED BY <2>2, <2>3, <2>4, <2>5 DEF Req
<1>6. Shape(new)
  BY <1>5 DEF Shape
<1>7. Stage(new)
  BY <1>4, <1>5 DEF Stage
<1>8. Swap(new) /\ Sweeping(new)
  BY <1>5 DEF Swap, Swapping, Sweeping
<1>9. Unlocked(new.on)
  BY <1>5 DEF StartAll
<1>10. untidy' \in BOOLEAN /\ sweeper' \subseteq Request /\ trouble' \in 0 .. TroubleCap
      /\ mistaken' = mistaken /\ mistaken' \subseteq Run
  BY DEF StartAll, PullInv, TypeOK, tidyVars, pastVars
<1>11. UNCHANGED <<storeVars, book, deleted>>
  BY DEF StartAll, pastVars
<1> QED BY <1>3, <1>6, <1>7, <1>8, <1>9, <1>10, <1>11, StoreAlone

(* a single tab or an upload does; *)
LEMMA StartOneKeeps ==
  ASSUME PullInv, NEW p \in Request, NEW i \in Instance, StartTab(p, i) \/ StartFile(p, i)
  PROVE  PullInv'
<1>1. PICK k \in {"tab", "file"}, x \in Tab \cup File :
        /\ req' = [req EXCEPT ![p] = [Started(k, i) EXCEPT !.to = {x}]]
        /\ k = "tab" => x \in Tab /\ Unlocked(i)
        /\ k = "file" => x \in File
  <2>1. CASE StartTab(p, i)
    <3>1. PICK t \in Tab : req' = [req EXCEPT ![p] = [Started("tab", i) EXCEPT !.to = {t}]]
      BY <2>1 DEF StartTab
    <3> QED BY <2>1, <3>1 DEF StartTab
  <2>2. CASE StartFile(p, i)
    BY <2>2 DEF StartFile
  <2> QED BY <2>1, <2>2
<1>2. PICK new : new = [Started(k, i) EXCEPT !.to = {x}]
  OBVIOUS
<1>3. req' = [req EXCEPT ![p] = new]
  BY <1>1, <1>2, Zenon
<1>4. /\ new.kind = k /\ new.on = i /\ ~new.sweeping /\ new.at = "save" /\ new.to = {x}
      /\ new.run = None /\ new.old = {} /\ new \in Req
  BY <1>1, <1>2, Starting DEF Req
<1>5. Shape(new) /\ Stage(new)
  BY <1>1, <1>4 DEF Shape, Stage
<1>6. Swap(new) /\ Sweeping(new)
  BY <1>1, <1>4 DEF Swap, Swapping, Sweeping
<1>7. new.kind \in {"all", "tab"} => Unlocked(new.on)
  BY <1>1, <1>4
<1>8. untidy' \in BOOLEAN /\ sweeper' \subseteq Request /\ trouble' \in 0 .. TroubleCap
      /\ mistaken' = mistaken /\ mistaken' \subseteq Run
  BY DEF StartTab, StartFile, PullInv, TypeOK, tidyVars, pastVars
<1>9. UNCHANGED <<storeVars, book, deleted>>
  BY DEF StartTab, StartFile, pastVars
<1> QED BY <1>3, <1>5, <1>6, <1>7, <1>8, <1>9, StoreAlone

(* A request that ends. *)
LEMMA EndKeeps ==
  ASSUME PullInv, NEW p \in Request, End(p), UNCHANGED <<storeVars, book, pastVars>>,
         untidy' \in BOOLEAN, sweeper' \subseteq Request, trouble' \in 0 .. TroubleCap
  PROVE  PullInv'
<1>1. req' = [req EXCEPT ![p] = Idle] /\ Idle.kind = "free"
  BY DEF End, Idle, Started
<1>2. UNCHANGED <<storeVars, book, deleted>> /\ mistaken' = mistaken /\ mistaken' \subseteq Run
  BY DEF PullInv, TypeOK, pastVars
<1>3. PICK new : new = Idle
  OBVIOUS
<1> QED BY <1>1, <1>2, <1>3, IdleFits, StoreAlone

(* the listing; *)
LEMMA ListKeeps ==
  ASSUME PullInv, NEW p \in Request, List(p)
  PROVE  PullInv'
<1> DEFINE q == req[p]
           runs == {r \in Seen(q.on) : r.of \in q.swap}
<1>1. Shape(q) /\ Stage(q) /\ q.kind = "all" /\ ~q.sweeping /\ q.at = "list" /\ q.on \in Instance
  BY DEF PullInv, Requests, List, At, Free, Shape, Stage, Req
<1>2. PICK new : new = [q EXCEPT !.at = AfterWrites(q.to), !.old = runs]
  OBVIOUS
<1>3. req' = [req EXCEPT ![p] = new]
  BY <1>2 DEF List
<1>4. /\ new.kind = "all" /\ new.on = q.on /\ ~new.sweeping /\ new.at = AfterWrites(q.to)
      /\ new.swap = q.swap /\ new.to = q.to /\ new.run = None /\ new.lost = q.lost
      /\ new.old = runs
  BY <1>1, <1>2 DEF Shape, Req
<1>5. runs \subseteq [of : Sheet, at : 0 .. clock] /\ runs \subseteq Run
  BY <1>1, Seeing DEF Shape, Req, Stamped
<1>6. q.swap \cap Steady \subseteq q.to
  BY <1>1 DEF Stage
<1>7. AfterWrites(q.to) = IF q.to = {} THEN "retire" ELSE "save"
  BY DEF AfterWrites
<1>8. new \in Req
  BY <1>1, <1>2, <1>5, <1>7 DEF Shape, Req
<1> HIDE DEF q, runs
<1>9. Shape(new)
  BY <1>1, <1>4, <1>5, <1>7, <1>8 DEF Shape
<1>10. Stage(new)
  BY <1>1, <1>4, <1>7 DEF Stage
<1>11. Swap(new)
  <2>1. \A r \in runs : r.of \in q.swap
    BY DEF runs
  <2> QED BY <1>4, <1>6, <1>7, <2>1 DEF Swap, Done
<1>12. Sweeping(new)
  BY <1>4 DEF Sweeping
<1>13. Pulls(p) /\ new.on = req[p].on
  BY <1>1, <1>4 DEF Pulls, q
<1>14. untidy' \in BOOLEAN /\ sweeper' \subseteq Request /\ trouble' \in 0 .. TroubleCap
      /\ mistaken' = mistaken /\ mistaken' \subseteq Run
  BY DEF List, PullInv, TypeOK, tidyVars, pastVars
<1>15. UNCHANGED <<storeVars, book, deleted>>
  BY DEF List, pastVars
<1> QED BY <1>3, <1>9, <1>10, <1>11, <1>12, <1>13, <1>14, <1>15, StoreAlone

(* the end of the swaps; *)
LEMMA SwappedKeeps ==
  ASSUME PullInv, NEW p \in Request, Swapped(p)
  PROVE  PullInv'
<1> DEFINE q == req[p]
<1>1. /\ Shape(q) /\ Stage(q) /\ Swap(q) /\ q.kind = "all" /\ ~q.sweeping /\ q.at = "retire"
      /\ q.on \in Instance /\ q.to = {}
  BY DEF PullInv, Requests, Swapped, At, Free, Shape, Stage, Req
<1>2. UNCHANGED <<storeVars, book, pastVars, trouble>> /\ trouble \in 0 .. TroubleCap
  BY DEF Swapped, PullInv, TypeOK
<1>3. CASE Sweeps(q)
  <2>1. PICK new : new = [q EXCEPT !.at = "sweep", !.old = {}]
    OBVIOUS
  <2>2. req' = [req EXCEPT ![p] = new] /\ UNCHANGED tidyVars
    BY <1>3, <2>1 DEF Swapped
  <2>3. /\ new.kind = "all" /\ new.on = q.on /\ ~new.sweeping /\ new.at = "sweep"
        /\ new.swap = q.swap /\ new.to = {} /\ new.run = None /\ new.lost = q.lost
        /\ new.old = {} /\ new \in Req
    BY <1>1, <2>1 DEF Shape, Req
  <2>4. Tab \subseteq q.swap /\ q.lost \cap Tab = {}
    BY <1>1, <1>3 DEF Stage, Sweeps
  <2> HIDE DEF q
  <2>5. Shape(new)
    BY <1>1, <2>3 DEF Shape
  <2>6. Stage(new)
    BY <2>3, <2>4 DEF Stage
  <2>7. Swap(new) /\ Sweeping(new)
    BY <1>1, <2>3 DEF Swap, Swapping, Done, Sweeping
  <2>8. Pulls(p) /\ new.on = req[p].on
    BY <1>1, <2>3 DEF Pulls, q
  <2>9. untidy' \in BOOLEAN /\ sweeper' \subseteq Request /\ trouble' \in 0 .. TroubleCap
        /\ mistaken' = mistaken /\ mistaken' \subseteq Run
    BY <1>2, <2>2 DEF PullInv, TypeOK, tidyVars, pastVars
  <2>10. UNCHANGED <<storeVars, book, deleted>>
    BY <1>2 DEF pastVars
  <2> QED BY <2>2, <2>5, <2>6, <2>7, <2>8, <2>9, <2>10, StoreAlone
<1>4. CASE ~Sweeps(q)
  <2>1. End(p) /\ untidy' \in BOOLEAN /\ sweeper' \subseteq Request
    BY <1>4 DEF Swapped, LeavesBehind, PullInv, TypeOK
  <2> QED BY <1>2, <2>1, EndKeeps
<1> QED BY <1>3, <1>4
(* the listing for the sweep; *)
LEMMA SweepKeeps ==
  ASSUME PullInv, NEW p \in Request, Sweep(p)
  PROVE  PullInv'
<1> DEFINE q == req[p]
           runs == Superseded(Seen(q.on))
<1>1. Shape(q) /\ Stage(q) /\ Swap(q) /\ q.kind \in {"all", "tab"} /\ q.at = "sweep" /\ ~q.sweeping
  BY DEF PullInv, Requests, Sweep, At, Free, Shape, Stage, Req
<1>2. q.on \in Instance /\ q.to = {} /\ q.run = None
  BY <1>1 DEF Shape, Stage
<1>3. PICK new : new = [q EXCEPT !.sweeping = TRUE, !.at = "retire", !.lost = {}, !.old = runs]
  OBVIOUS
<1>4. req' = [req EXCEPT ![p] = new]
  BY <1>3 DEF Sweep
<1>5. /\ new.kind = q.kind /\ new.on = q.on /\ new.sweeping /\ new.at = "retire"
      /\ new.swap = q.swap /\ new.to = q.to /\ new.run = None /\ new.lost = {}
      /\ new.old = runs
  BY <1>1, <1>2, <1>3 DEF Shape, Req
<1>6. runs \subseteq [of : Sheet, at : 0 .. clock] /\ runs \subseteq Run
  BY <1>2, Seeing DEF Superseded, Stamped
<1>7. new \in Req
  BY <1>1, <1>3, <1>6 DEF Shape, Req
<1>8. Mistaken(q.on) \subseteq Run
  BY <1>2, Seeing DEF Mistaken
<1>9. mistaken \subseteq mistaken' /\ mistaken' \subseteq Run
      /\ (q.kind = "tab" => Mistaken(q.on) \subseteq mistaken')
  BY <1>8 DEF Sweep, PullInv, TypeOK
<1>10. Sweeping(new)'
  <2> SUFFICES ASSUME NEW r \in runs, r.of \in Steady PROVE Replaced(r)' \/ r \in mistaken'
    BY <1>5 DEF Sweeping
  <2>1. stored' = stored
    BY DEF Sweep, storeVars
  <2>2. PICK s \in Seen(q.on) : Newer(s, r)
    BY DEF Superseded
  <2>3. r \in Seen(q.on) /\ r.of \in Tab /\ r \in Run /\ s \in Run
    BY <1>2, <1>6, Seeing DEF Superseded
  <2>4. CASE s \in stored
    BY <2>1, <2>2, <2>4 DEF Replaced
  <2>5. CASE s \notin stored
    <3>1. s \in disk[q.on] \ stored
      BY <2>5 DEF Seen, PullInv, TypeOK
    <3>2. CASE q.kind = "tab"
      BY <1>9, <2>2, <2>3, <3>1, <3>2 DEF Mistaken
    <3>3. CASE q.kind = "all"
      <4>1. Tab \subseteq q.swap /\ q.lost \cap Tab = {}
        BY <1>1, <3>3 DEF Stage
      <4>2. s.of = r.of /\ Done(q, s.of)
        BY <1>2, <2>2, <2>3, <4>1 DEF Newer, Done
      <4>3. Replaced(s)
        BY <1>1, <2>3, <2>5, <3>1, <3>3, <4>1, <4>2 DEF Swap, Swapping
      <4>4. PICK t \in stored : Newer(t, s)
        BY <4>3 DEF Replaced
      <4>5. t \in Run
        BY Seeing DEF PullInv, TypeOK
      <4>6. Newer(t, r)
        BY <2>2, <2>3, <4>4, <4>5 DEF Newer
      <4> QED BY <2>1, <4>4, <4>6 DEF Replaced
    <3> QED BY <1>1, <3>2, <3>3
  <2> QED BY <2>4, <2>5
<1> HIDE DEF q, runs
<1>11. Shape(new)
  BY <1>1, <1>2, <1>5, <1>6, <1>7 DEF Shape
<1>12. Stage(new)
  BY <1>1, <1>2, <1>5 DEF Stage
<1>13. Swap(new)
  BY <1>5 DEF Swap, Swapping
<1>14. Pulls(p) /\ new.on = req[p].on
  BY <1>1, <1>5 DEF Pulls, q
<1>15. untidy' \in BOOLEAN /\ sweeper' \subseteq Request /\ trouble' \in 0 .. TroubleCap
  BY DEF Sweep, PullInv, TypeOK
<1>16. UNCHANGED <<storeVars, book, deleted>>
  BY DEF Sweep
<1> QED BY <1>4, <1>9, <1>10, <1>11, <1>12, <1>13, <1>14, <1>15, <1>16, StoreAlone

-----------------------------------------------------------------------------
(* The steps of a pull that write. *)
LEMMA SaveKeeps ==
  ASSUME PullInv, NEW p \in Request, Save(p)
  PROVE  PullInv'
<1> DEFINE q == req[p]
<1>1. PICK x \in q.to :
        /\ disk' = [disk EXCEPT ![q.on] = @ \cup {[of |-> x, at |-> clock + 1]}]
        /\ req' = [req EXCEPT ![p] =
                     [@ EXCEPT !.at = "commit", !.run = [of |-> x, at |-> clock + 1]]]
  BY DEF Save
<1>2. /\ Shape(q) /\ Stage(q) /\ Swap(q) /\ q.kind \in {"all", "tab", "file"}
      /\ q.at = "save" /\ ~q.sweeping /\ q.on \in Instance
  BY DEF PullInv, Requests, Save, At, Free, Shape, Stage, Req
<1>3. clock \in Nat /\ clock' = clock + 1 /\ clock' \in 0 .. StampsCap
  BY DEF Save, PullInv, TypeOK
<1>4. UNCHANGED <<cloud, stored, book, deleted, mistaken, untidy, sweeper, trouble>>
  BY DEF Save, pastVars, tidyVars
<1>5. PICK run : run = [of |-> x, at |-> clock + 1]
  OBVIOUS
<1>6. x \in Platform /\ run \in Run /\ run \in Stamped' /\ run.of = x /\ run.at = clock + 1
  BY <1>2, <1>3, <1>5 DEF Shape, Req, Stamped
<1>7. PICK new : new = [q EXCEPT !.at = "commit", !.run = run]
  OBVIOUS
<1>8. req' = [req EXCEPT ![p] = new]
  BY <1>1, <1>5, <1>7
<1>9. /\ new.kind = q.kind /\ new.on = q.on /\ new.sweeping = q.sweeping /\ new.at = "commit"
      /\ new.swap = q.swap /\ new.to = q.to /\ new.run = run /\ new.lost = q.lost
      /\ new.old = q.old /\ new \in Req
  BY <1>2, <1>6, <1>7 DEF Shape, Req
<1> HIDE DEF q
<1>10. disk' = [disk EXCEPT ![q.on] = @ \cup {run}]
  BY <1>1, <1>5
<1>11. run # None
  BY <1>6
<1>12. TypeOK'
  <2>1. req' \in [Request -> Req]
    BY <1>8, <1>9 DEF PullInv, TypeOK
  <2>2. \A a \in Request : req'[a].at = "commit" <=> req'[a].run # None
    BY <1>8, <1>9, <1>11 DEF PullInv, TypeOK
  <2>3. disk' \in [Instance -> SUBSET Stamped']
    <3>1. disk \in [Instance -> SUBSET Stamped] /\ Stamped \subseteq Stamped'
      BY <1>3 DEF PullInv, TypeOK, Stamped
    <3> QED BY <1>6, <1>10, <3>1
  <2>4. stored' \subseteq Stamped'
    BY <1>3, <1>4 DEF PullInv, TypeOK, Stamped
  <2> QED BY <1>3, <1>4, <2>1, <2>2, <2>3, <2>4 DEF PullInv, TypeOK, Stamped
<1>13. req[p]' = new
  BY <1>8 DEF PullInv, TypeOK
<1>14. Shape(new)'
  BY <1>2, <1>3, <1>6, <1>9, <1>11 DEF Shape, Stamped
<1>15. Stage(new)' /\ Sweeping(new)'
  BY <1>2, <1>9 DEF Stage, Sweeping
<1>16. Swap(new)'
  <2> SUFFICES ASSUME q.kind = "all" PROVE Swap(new)'
    BY <1>9 DEF Swap, Swapping
  <2>1. disk'[q.on] = disk[q.on] \cup {run}
    BY <1>2, <1>10 DEF PullInv, TypeOK
  <2>2. disk[q.on] \subseteq Stamped
    BY <1>2 DEF PullInv, TypeOK, Stamped
  <2>3. \A r \in q.old : r.of \in Steady /\ Done(q, r.of) => Replaced(r)'
    BY <1>2, <1>4 DEF Swap, Swapping, Replaced
  <2>4. \A r \in disk'[q.on] :
          r.of \in Steady \cap Tab /\ r.of \in q.swap /\ Done(q, r.of) => r \in stored' \/ Replaced(r)'
    BY <1>2, <1>4, <1>6, <2>1 DEF Swap, Swapping, Replaced, Done
  <2>5. \A r \in q.old : r.at < run.at
    BY <1>2, <1>3, <1>6 DEF Shape
  <2>6. \A r \in disk'[q.on] : Newer(run, r) \/ r.of # run.of \/ r = run
    BY <1>3, <1>6, <2>1, <2>2 DEF Newer, Stamped
  <2> QED BY <1>9, <2>3, <2>4, <2>5, <2>6 DEF Swap, Done
<1>17. \A i \in Instance : \A r \in disk'[i] :
         r \in disk[i] \/ r.of \in File \/ (Pulls(p) /\ i = req[p].on)
  <2> SUFFICES ASSUME q.kind = "file" PROVE run.of \in File
    BY <1>2, <1>10 DEF PullInv, TypeOK, Pulls, q
  <2> QED BY <1>2, <1>6 DEF Stage
<1>18. new.kind \in {"all", "tab"} => Pulls(p) /\ new.on = req[p].on
  BY <1>9 DEF Pulls, q
<1>19. Requests'
  <2>1. clock <= clock' /\ stored \subseteq stored' /\ mistaken \subseteq mistaken'
    BY <1>3, <1>4
  <2>2. Shape(req[p])' /\ Stage(req[p])' /\ Swap(req[p])' /\ Sweeping(req[p])'
    BY <1>13, <1>14, <1>15, <1>16
  <2> QED BY <1>8, <1>12, <1>17, <1>18, <2>1, <2>2, OneMoves
<1>20. KeptUntilReplaced'
  BY <1>4, KeptStays
<1> QED BY <1>12, <1>19, <1>20 DEF PullInv
(* A pull of everything goes on, with one run less to write. *)
LEMMA CommitKeeps ==
  ASSUME PullInv, NEW p \in Request, Commit(p)
  PROVE  PullInv'
<1> DEFINE q == req[p]
           left == q.to \ {q.run.of}
<1>1. PICK applied \in BOOLEAN, durable \in BOOLEAN, missed \in {{}, {q.run.of}} :
        /\ durable => applied
        /\ durable <=> missed = {}
        /\ Trouble(~durable)
        /\ LeavesBehind(q.kind = "tab" /\ applied /\ ~durable)
        /\ IF applied
           THEN cloud' = cloud \cup {q.run} /\ stored' = stored \cup {q.run}
           ELSE UNCHANGED <<cloud, stored>>
        /\ CASE q.kind = "all" ->
                  req' = [req EXCEPT ![p] =
                            [@ EXCEPT !.at = AfterWrites(left), !.to = left, !.run = None,
                                      !.lost = q.lost \cup missed]]
             [] q.kind = "tab" /\ durable ->
                  req' = [req EXCEPT ![p] =
                            [@ EXCEPT !.at = "sweep", !.to = {}, !.run = None]]
             [] OTHER -> End(p)
  BY DEF Commit
<1>2. /\ Shape(q) /\ Stage(q) /\ Swap(q) /\ q.kind \in {"all", "tab", "file"}
      /\ q.at = "commit" /\ ~q.sweeping /\ q.on \in Instance
  BY DEF PullInv, Requests, Commit, At, Free, Shape, Stage, Req
<1>3. q.run \in Stamped /\ q.run.of \in q.to /\ q.to \subseteq Platform
  BY <1>2 DEF Shape, Req
<1>4. UNCHANGED <<disk, clock, book, deleted, mistaken>>
  BY DEF Commit, pastVars
<1>5. /\ stored \subseteq stored' /\ stored' \subseteq Stamped /\ cloud' \subseteq stored'
      /\ cloud \subseteq cloud' /\ \A r \in stored' : r \in stored \/ r \in cloud'
      /\ durable => q.run \in stored'
  BY <1>1, <1>3 DEF PullInv, TypeOK, Stamped
<1>6. trouble' \in 0 .. TroubleCap /\ untidy' \in BOOLEAN /\ sweeper' \subseteq Request
  BY <1>1 DEF Trouble, LeavesBehind, PullInv, TypeOK
<1>7. PICK new :
        /\ req' = [req EXCEPT ![p] = new]
        /\ new.run = None /\ new.at # "commit" /\ new \in Req
        /\ new.kind # "free" => new.kind = q.kind /\ new.on = q.on
        /\ Shape(new) /\ Stage(new) /\ Sweeping(new) /\ Swap(new)'
  <2>1. CASE q.kind = "all"
    <3>1. PICK lost : lost = q.lost \cup missed
      OBVIOUS
    <3>2. lost \subseteq Platform
      BY <1>2, <1>3, <3>1 DEF Shape, Req
    <3>3. PICK new :
            new = [q EXCEPT !.at = AfterWrites(left), !.to = left, !.run = None,
                            !.lost = q.lost \cup missed]
      OBVIOUS
    <3>4. req' = [req EXCEPT ![p] = new]
      <4>1. req' = [req EXCEPT ![p] =
                      [@ EXCEPT !.at = AfterWrites(left), !.to = left, !.run = None,
                                !.lost = q.lost \cup missed]]
        BY <1>1, <2>1
      <4> QED BY <3>3, <4>1
    <3>5. AfterWrites(left) = IF left = {} THEN "retire" ELSE "save"
      BY DEF AfterWrites
    <3>6. /\ new.kind = "all" /\ new.on = q.on /\ ~new.sweeping /\ new.at = AfterWrites(left)
          /\ new.swap = q.swap /\ new.to = left /\ new.run = None /\ new.lost = lost
          /\ new.old = q.old /\ new \in Req
      BY <1>2, <1>3, <2>1, <3>1, <3>2, <3>3, <3>5 DEF Shape, Req
    <3>7. left \subseteq q.to /\ \A x \in q.to : x \in left \/ x = q.run.of
      OBVIOUS
    <3> HIDE DEF q, left
    <3>8. Shape(new)
      BY <1>2, <3>5, <3>6 DEF Shape
    <3>9. Stage(new) /\ Sweeping(new)
      BY <1>2, <2>1, <3>5, <3>6, <3>7 DEF Stage, Sweeping
    <3>10. Swap(new)'
      <4>1. \A x : x \notin left /\ x \notin lost => Done(q, x) \/ (durable /\ x = q.run.of)
        BY <1>1, <3>1, <3>7 DEF Done
      <4>2. \A r : Replaced(r) => Replaced(r)'
        BY <1>5 DEF Replaced, Newer
      <4>3. ASSUME NEW r \in q.old, r.of \in Steady, r.of \notin left, r.of \notin lost
            PROVE  Replaced(r)'
        <5>1. CASE Done(q, r.of)
          BY <1>2, <2>1, <4>2, <4>3, <5>1 DEF Swap, Swapping
        <5>2. CASE durable /\ r.of = q.run.of
          <6>1. r.at < q.run.at /\ r \in Run
            BY <1>2, <2>1 DEF Swap, Swapping, Shape, Req
          <6>2. Newer(q.run, r)
            BY <1>3, <5>2, <6>1 DEF Newer, Stamped
          <6> QED BY <1>5, <5>2, <6>2 DEF Replaced
        <5> QED BY <4>1, <4>3, <5>1, <5>2
      <4>4. ASSUME NEW r \in disk[q.on], r.of \in Steady \cap Tab, r.of \in q.swap,
                   r.of \notin left, r.of \notin lost
            PROVE  r \in stored' \/ Replaced(r)'
        <5>1. CASE Done(q, r.of)
          BY <1>2, <1>5, <2>1, <4>2, <4>4, <5>1 DEF Swap, Swapping
        <5>2. CASE durable /\ r.of = q.run.of
          BY <1>2, <1>5, <2>1, <5>2 DEF Swap, Swapping, Replaced
        <5> QED BY <4>1, <4>4, <5>1, <5>2
      <4> QED BY <1>4, <3>5, <3>6, <4>3, <4>4 DEF Swap, Done
    <3> QED BY <2>1, <3>4, <3>5, <3>6, <3>8, <3>9, <3>10
  <2>2. CASE q.kind = "tab" /\ durable
    <3>1. PICK new : new = [q EXCEPT !.at = "sweep", !.to = {}, !.run = None]
      OBVIOUS
    <3>2. req' = [req EXCEPT ![p] = new]
      BY <1>1, <2>2, <3>1
    <3>3. /\ new.kind = "tab" /\ new.on = q.on /\ ~new.sweeping /\ new.at = "sweep"
          /\ new.to = {} /\ new.run = None /\ new.old = {} /\ new \in Req
      BY <1>2, <2>2, <3>1 DEF Shape, Req, Stage
    <3>4. Shape(new) /\ Stage(new) /\ Sweeping(new) /\ Swap(new)'
      BY <1>2, <3>3 DEF Shape, Stage, Sweeping, Swap, Swapping
    <3> QED BY <2>2, <3>2, <3>3, <3>4
  <2>3. CASE ~(q.kind = "all") /\ ~(q.kind = "tab" /\ durable)
    <3>1. req' = [req EXCEPT ![p] = Idle]
      BY <1>1, <2>3 DEF End
    <3>2. PICK new : new = Idle
      OBVIOUS
    <3>3. Idle.run = None /\ Idle.at # "commit" /\ Idle.kind = "free" /\ Idle \in Req
      BY IdleFits DEF Idle, Started, Shape
    <3>4. Swap(Idle)'
      BY DEF Swap, Swapping, Idle, Started
    <3> QED BY <3>1, <3>3, <3>4, IdleFits
  <2> QED BY <1>2, <2>1, <2>2, <2>3
<1> HIDE DEF q
<1>8. TypeOK'
  BY <1>4, <1>5, <1>6, <1>7 DEF PullInv, TypeOK, Stamped
<1>9. Shape(new)' /\ Stage(new)' /\ Sweeping(new)'
  <2>1. \A r : Replaced(r) => Replaced(r)'
    BY <1>5 DEF Replaced, Newer
  <2> QED BY <1>4, <1>7, <2>1 DEF Shape, Stamped, Stage, Sweeping
<1>10. req[p]' = new
  BY <1>7 DEF PullInv, TypeOK
<1>11. new.kind \in {"all", "tab"} => Pulls(p) /\ new.on = req[p].on
  BY <1>7 DEF Pulls, q
<1>12. clock <= clock'
  BY <1>4 DEF PullInv, TypeOK
<1>13. Requests'
  <2>1. Shape(req[p])' /\ Stage(req[p])' /\ Swap(req[p])' /\ Sweeping(req[p])'
    BY <1>7, <1>9, <1>10
  <2> QED BY <1>4, <1>5, <1>7, <1>8, <1>11, <1>12, <2>1, OneMoves
<1>14. KeptUntilReplaced'
  BY <1>4, <1>5, KeptStays
<1> QED BY <1>8, <1>13, <1>14 DEF PullInv
(* a run retired; *)
LEMMA RetireKeeps ==
  ASSUME PullInv, NEW p \in Request, Retire(p)
  PROVE  PullInv'
<1> DEFINE q == req[p]
<1>1. PICK r \in Retirable(q), reached \in BOOLEAN :
        /\ Trouble(~reached)
        /\ disk' = [disk EXCEPT ![q.on] = @ \ {r}]
        /\ cloud' = IF reached THEN cloud \ {r} ELSE cloud
        /\ LeavesBehind(~reached)
        /\ req' = [req EXCEPT ![p].old = @ \ {r}]
  BY DEF Retire
<1>2. /\ Shape(q) /\ Stage(q) /\ Swap(q) /\ Sweeping(q) /\ q.at = "retire"
      /\ q.kind \in {"all", "tab"} /\ q.on \in Instance /\ q.to = {}
  BY DEF PullInv, Requests, Retire, At, Free, Shape, Stage, Req
<1>3. UNCHANGED <<clock, stored, book, deleted, mistaken>>
  BY DEF Retire, pastVars
<1>4. r \in q.old /\ r.of \notin q.lost
  BY <1>1 DEF Retirable
<1>5. r.of \in Steady \cup File => Replaced(r) \/ r \in mistaken
  <2>1. r.of \in Sheet /\ r.of \notin File
    BY <1>2, <1>4 DEF Shape
  <2>2. CASE q.sweeping
    BY <1>2, <1>4, <2>1, <2>2 DEF Sweeping
  <2>3. CASE ~q.sweeping
    BY <1>2, <1>4, <2>1, <2>3 DEF Stage, Swap, Swapping, Done
  <2> QED BY <1>2, <2>2, <2>3 DEF Shape, Req
<1>6. PICK new : new = [q EXCEPT !.old = @ \ {r}]
  OBVIOUS
<1>7. req' = [req EXCEPT ![p] = new]
  BY <1>1, <1>6
<1>8. /\ new.kind = q.kind /\ new.on = q.on /\ new.sweeping = q.sweeping /\ new.at = q.at
      /\ new.swap = q.swap /\ new.to = q.to /\ new.run = q.run /\ new.lost = q.lost
      /\ new.old = q.old \ {r} /\ new \in Req
  BY <1>2, <1>6 DEF Shape, Req
<1>9. disk' \in [Instance -> SUBSET Stamped] /\ \A i \in Instance : disk'[i] \subseteq disk[i]
  BY <1>1 DEF PullInv, TypeOK, Stamped
<1>10. cloud' \subseteq cloud /\ \A s \in cloud : s \in cloud' \/ s = r
  BY <1>1
<1>11. trouble' \in 0 .. TroubleCap /\ untidy' \in BOOLEAN /\ sweeper' \subseteq Request
  BY <1>1 DEF Trouble, LeavesBehind, PullInv, TypeOK
<1> HIDE DEF q
<1>12. TypeOK'
  BY <1>2, <1>3, <1>7, <1>8, <1>9, <1>10, <1>11 DEF PullInv, TypeOK, Stamped, Shape
<1>13. Shape(new)' /\ Stage(new)' /\ Sweeping(new)'
  BY <1>2, <1>3, <1>8 DEF Shape, Stage, Sweeping, Stamped, Replaced
<1>14. Swap(new)'
  BY <1>2, <1>3, <1>8, <1>9 DEF Swap, Swapping, Done, Replaced
<1>15. req[p]' = new
  BY <1>7 DEF PullInv, TypeOK
<1>16. new.kind \in {"all", "tab"} => Pulls(p) /\ new.on = req[p].on
  BY <1>2, <1>8 DEF Pulls, q
<1>17. clock <= clock' /\ stored \subseteq stored' /\ mistaken \subseteq mistaken'
  BY <1>3 DEF PullInv, TypeOK
<1>18. Requests'
  <2>1. Shape(req[p])' /\ Stage(req[p])' /\ Swap(req[p])' /\ Sweeping(req[p])'
    BY <1>13, <1>14, <1>15
  <2> QED BY <1>7, <1>9, <1>12, <1>16, <1>17, <2>1, OneMoves
<1>19. KeptUntilReplaced'
  BY <1>3, <1>5, <1>10, KeptStays
<1> QED BY <1>12, <1>18, <1>19 DEF PullInv

(* or kept, as its deletion raised. *)
LEMMA RetireRaisesKeeps ==
  ASSUME PullInv, NEW p \in Request, RetireRaises(p)
  PROVE  PullInv'
<1> DEFINE q == req[p]
<1>1. PICK r \in Retirable(q) :
        IF q.sweeping THEN req' = [req EXCEPT ![p].old = @ \ {r}] ELSE End(p)
  BY DEF RetireRaises
<1>2. UNCHANGED <<storeVars, book, pastVars>>
  BY DEF RetireRaises
<1>3. trouble' \in 0 .. TroubleCap /\ untidy' \in BOOLEAN /\ sweeper' \subseteq Request
  BY DEF RetireRaises, Trouble, LeavesBehind, PullInv, TypeOK
<1>4. CASE ~q.sweeping
  BY <1>1, <1>2, <1>3, <1>4, EndKeeps
<1>5. CASE q.sweeping
  <2>1. /\ Shape(q) /\ Stage(q) /\ Sweeping(q) /\ q.at = "retire" /\ q.kind \in {"all", "tab"}
    BY DEF PullInv, Requests, RetireRaises, At, Free, Shape, Stage, Req
  <2>2. PICK new : new = [q EXCEPT !.old = @ \ {r}]
    OBVIOUS
  <2>3. req' = [req EXCEPT ![p] = new]
    BY <1>1, <1>5, <2>2
  <2>4. /\ new.kind = q.kind /\ new.on = q.on /\ new.sweeping /\ new.at = q.at
        /\ new.swap = q.swap /\ new.to = q.to /\ new.run = q.run /\ new.lost = q.lost
        /\ new.old = q.old \ {r} /\ new \in Req
    BY <1>5, <2>1, <2>2 DEF Shape, Req
  <2> HIDE DEF q
  <2>5. Shape(new)
    BY <2>1, <2>4 DEF Shape
  <2>6. Stage(new) /\ Sweeping(new) /\ Swap(new)
    BY <1>5, <2>1, <2>4 DEF Stage, Sweeping, Swap, Swapping
  <2>7. Pulls(p) /\ new.on = req[p].on
    BY <2>1, <2>4 DEF Pulls, q
  <2>8. mistaken' = mistaken /\ mistaken' \subseteq Run /\ UNCHANGED <<storeVars, book, deleted>>
    BY <1>2 DEF PullInv, TypeOK, pastVars
  <2> QED BY <1>3, <2>3, <2>5, <2>6, <2>7, <2>8, StoreAlone
<1> QED BY <1>4, <1>5

-----------------------------------------------------------------------------
(* The steps that are not a request's own. *)
LEMMA DeleteKeeps ==
  ASSUME PullInv, NEW i \in Instance, Delete(i)
  PROVE  PullInv'
<1>1. PICK r \in Seen(i), reached \in BOOLEAN :
        /\ disk' = [disk EXCEPT ![i] = @ \ {r}]
        /\ cloud' = IF reached THEN cloud \ {r} ELSE cloud
        /\ deleted' = deleted \cup {r}
  BY DEF Delete
<1>2. UNCHANGED <<clock, stored, book, req, mistaken, untidy, sweeper>>
  BY DEF Delete, tidyVars
<1>3. disk' \in [Instance -> SUBSET Stamped] /\ \A j \in Instance : disk'[j] \subseteq disk[j]
  BY <1>1 DEF PullInv, TypeOK, Stamped
<1>4. cloud' \subseteq cloud /\ \A s \in cloud : s \in cloud' \/ s = r
  BY <1>1
<1>5. deleted' \subseteq Run
  BY <1>1, Seeing DEF PullInv, TypeOK
<1>6. TypeOK'
  BY <1>2, <1>3, <1>4, <1>5 DEF Delete, Trouble, PullInv, TypeOK, Stamped
<1>7. Requests'
  <2>1. Locked'
    BY <1>2 DEF PullInv, Requests, Locked, Pulls
  <2>2. ASSUME NEW p \in Request
        PROVE  Shape(req[p])' /\ Stage(req[p])' /\ Swap(req[p])' /\ Sweeping(req[p])'
    <3>1. Pulls(p) => req[p].on \in Instance
      BY DEF PullInv, Requests, Shape, Pulls
    <3>2. clock <= clock' /\ stored \subseteq stored' /\ mistaken \subseteq mistaken'
      BY <1>2 DEF PullInv, TypeOK
    <3> QED BY <1>2, <1>3, <1>6, <3>1, <3>2, Bystander
  <2> QED BY <2>1, <2>2 DEF Requests
<1>8. KeptUntilReplaced'
  BY <1>1, <1>2, <1>4, KeptStays
<1> QED BY <1>6, <1>7, <1>8 DEF PullInv

(* the workbook changes; *)
LEMMA RearrangeKeeps ==
  ASSUME PullInv, Rearrange
  PROVE  PullInv'
<1>1. UNCHANGED <<storeVars, req, pastVars, tidyVars>> /\ trouble' \in 0 .. TroubleCap
  BY DEF Rearrange, Trouble, PullInv, TypeOK
<1>2. TypeOK'
  BY <1>1 DEF Rearrange, PullInv, TypeOK, storeVars, pastVars, tidyVars
<1>3. Requests' /\ KeptUntilReplaced'
  BY <1>1 DEF PullInv, Requests, Locked, Pulls, Shape, Stamped, Stage, Swap, Swapping, Done,
              Sweeping, Replaced, KeptUntilReplaced, storeVars, pastVars
<1> QED BY <1>2, <1>3 DEF PullInv

(* an instance stops. *)
LEMMA StopKeeps ==
  ASSUME PullInv, NEW i \in Instance, Stop(i)
  PROVE  PullInv'
<1>1. UNCHANGED <<cloud, clock, stored, book, deleted, mistaken>>
  BY DEF Stop, pastVars
<1>2. \A p \in Request : req'[p] = Idle \/ req'[p] = req[p]
  BY DEF Stop
<1>3. disk' \in [Instance -> SUBSET Stamped] /\ \A j \in Instance : disk'[j] \subseteq disk[j]
  BY DEF Stop, PullInv, TypeOK, Stamped
<1>4. TypeOK'
  <2>1. Idle \in Req /\ (Idle.at = "commit" <=> Idle.run # None)
    BY IdleFits DEF Shape
  <2>2. req' \in [Request -> Req]
    BY <2>1 DEF Stop, PullInv, TypeOK
  <2>3. \A p \in Request : req'[p].at = "commit" <=> req'[p].run # None
    BY <1>2, <2>1 DEF PullInv, TypeOK
  <2>4. untidy' \in BOOLEAN /\ sweeper' \subseteq Request /\ trouble' \in 0 .. TroubleCap
    BY DEF Stop, LeavesBehind, Trouble, PullInv, TypeOK
  <2> QED BY <1>1, <1>3, <2>2, <2>3, <2>4 DEF PullInv, TypeOK, Stamped
<1>5. Requests'
  <2>1. Locked'
    BY <1>2 DEF PullInv, Requests, Locked, Pulls, Idle, Started
  <2>2. ASSUME NEW p \in Request
        PROVE  Shape(req[p])' /\ Stage(req[p])' /\ Swap(req[p])' /\ Sweeping(req[p])'
    <3>1. CASE req'[p] = req[p]
      <4>1. Pulls(p) => req[p].on \in Instance
        BY DEF PullInv, Requests, Shape, Pulls
      <4>2. clock <= clock' /\ stored \subseteq stored' /\ mistaken \subseteq mistaken'
        BY <1>1 DEF PullInv, TypeOK
      <4> QED BY <1>3, <1>4, <3>1, <4>1, <4>2, Bystander
    <3>2. CASE req'[p] = Idle
      <4>1. Shape(Idle)' /\ Stage(Idle)' /\ Swap(Idle)' /\ Sweeping(Idle)'
        BY DEF Idle, Started, Shape, Stage, Swap, Swapping, Sweeping, Req
      <4> QED BY <3>2, <4>1
    <3> QED BY <1>2, <3>1, <3>2
  <2> QED BY <2>1, <2>2 DEF Requests
<1>6. KeptUntilReplaced'
  BY <1>1, KeptStays
<1> QED BY <1>4, <1>5, <1>6 DEF PullInv

(* Every step keeps it. *)
LEMMA NextKeeps == PullInv /\ [Next]_vars => PullInv'
<1> SUFFICES ASSUME PullInv, [Next]_vars PROVE PullInv'
  OBVIOUS
<1>1. ASSUME NEW p \in Request, Proceed(p) PROVE PullInv'
  <2>1. CASE \/ List(p) \/ Save(p) \/ Commit(p) \/ Retire(p) \/ RetireRaises(p) \/ Swapped(p)
             \/ Sweep(p)
    BY <2>1, ListKeeps, SaveKeeps, CommitKeeps, RetireKeeps, RetireRaisesKeeps, SwappedKeeps,
       SweepKeeps
  <2>2. CASE ListFails(p) \/ SaveRaises(p) \/ SweepFails(p) \/ Swept(p)
    <3>1. End(p) /\ UNCHANGED <<storeVars, book, pastVars>>
      BY <2>2 DEF ListFails, SaveRaises, SweepFails, Swept
    <3>2. untidy' \in BOOLEAN /\ sweeper' \subseteq Request /\ trouble' \in 0 .. TroubleCap
      <4>1. /\ untidy \in BOOLEAN /\ sweeper \subseteq Request /\ trouble \in 0 .. TroubleCap
            /\ TroubleCap \in Nat
        BY DEF PullInv, TypeOK
      <4>2. CASE ListFails(p)
        BY <4>1, <4>2 DEF ListFails, tidyVars
      <4>3. CASE SaveRaises(p) \/ SweepFails(p)
        <5>1. trouble < TroubleCap /\ trouble' = trouble + 1
          BY <4>3 DEF SaveRaises, SweepFails, Trouble
        <5>2. untidy' \in BOOLEAN /\ sweeper' \subseteq Request
          BY <4>1, <4>3 DEF SaveRaises, SweepFails, LeavesBehind
        <5> QED BY <4>1, <5>1, <5>2
      <4>4. CASE Swept(p)
        BY <4>1, <4>4 DEF Swept
      <4> QED BY <2>2, <4>2, <4>3, <4>4
    <3> QED BY <3>1, <3>2, EndKeeps
  <2> QED BY <1>1, <2>1, <2>2 DEF Proceed
<1>2. ASSUME NEW p \in Request, NEW i \in Instance,
             StartAll(p, i) \/ StartTab(p, i) \/ StartFile(p, i)
      PROVE  PullInv'
  BY <1>2, StartAllKeeps, StartOneKeeps
<1>3. ASSUME NEW i \in Instance, Delete(i) \/ Stop(i) PROVE PullInv'
  BY <1>3, DeleteKeeps, StopKeeps
<1>4. CASE Rearrange
  BY <1>4, RearrangeKeeps
<1>5. CASE UNCHANGED vars
  <2>1. UNCHANGED <<cloud, disk, clock, stored, book, req, deleted, mistaken, untidy, sweeper, trouble>>
    BY <1>5 DEF vars, storeVars, pastVars, tidyVars
  <2> QED BY <2>1 DEF PullInv, TypeOK, Requests, Locked, Pulls, Shape, Stamped, Stage, Swap,
                     Swapping, Done, Sweeping, Replaced, KeptUntilReplaced
<1> QED BY <1>1, <1>2, <1>3, <1>4, <1>5 DEF Next

(* It holds, always. *)
LEMMA PullInvAlways == Spec => []PullInv
BY InitHolds, NextKeeps, PTL DEF Spec

(* However the requests of the instances interleave, fail and die, each     *)
(* stays in a state of _pull_and_swap or of the upload, with the run it     *)
(* writes in hand exactly between the disk and mr_runs.                     *)
THEOREM PullTypeOK == Spec => []TypeOK
<1>1. PullInv => TypeOK
  BY DEF PullInv
<1> QED BY <1>1, PullInvAlways, PTL

(* The newest stored figures of a platform stay until newer ones are        *)
(* stored, for any workbook and any number of instances and requests: the   *)
(* runs to retire are listed before the replacements are written, and the   *)
(* lock keeps other pulls off the disk that the listing merges in.          *)
THEOREM FiguresAreKept == Spec => []KeptUntilReplaced
<1>1. PullInv => KeptUntilReplaced
  BY DEF PullInv
<1> QED BY <1>1, PullInvAlways, PTL

-----------------------------------------------------------------------------
(* One run per tab at rest. Each run of a tab that a newer stored one has    *)
(* replaced is attended to: some pull will yet sweep, or has listed it in    *)
(* its sweep and not retired it so far. A pull that ends otherwise says so   *)
(* (untidy); and a sweep that listed after the last of those, and ends, has  *)
(* retired whatever they left.                                               *)
Outdated == {r \in cloud : r.of \in Tab /\ \E s \in cloud : Newer(s, r)}
Ahead(p) ==
  /\ Pulls(p)
  /\ \/ req[p].at = "sweep"
     \/ /\ req[p].kind = "all" /\ req[p].at \in {"save", "commit", "retire"}
        /\ ~req[p].sweeping /\ req[p].swap \cap Tab # {}
Attends(p, r) == Ahead(p) \/ (Pulls(p) /\ req[p].sweeping /\ r \in req[p].old)
Attended == \A r \in Outdated : \E p \in Request : Attends(p, r)

(* A pull that writes a tab replaces the tabs; a sweep retires all it listed. *)
Aim(q) ==
  /\ q.kind = "all" /\ q.to \cap Tab # {} => q.swap \cap Tab # {}
  /\ q.sweeping => q.lost = {}
Tended == ~untidy \/ sweeper # {}
CleanInv == (\A p \in Request : Aim(req[p])) /\ (Tended => Attended)

(* What a pull is for, step by step: it starts; *)
LEMMA AimStart ==
  ASSUME PullInv, NEW p \in Request, NEW i \in Instance,
         StartAll(p, i) \/ StartTab(p, i) \/ StartFile(p, i)
  PROVE  Aim(req[p])'
<1>0. req \in [Request -> Req]
  BY DEF PullInv, TypeOK
<1>1. CASE StartAll(p, i)
  <2>1. PICK totals \in SUBSET {Rollup} :
          req' = [req EXCEPT ![p] =
                   [Started("all", i) EXCEPT
                      !.at = "list",
                      !.swap = (IF book \cap Tab = {} THEN {} ELSE Tab) \cup totals,
                      !.to = book \cap (Tab \cup totals)]]
    BY <1>1 DEF StartAll
  <2>2. PICK swap : swap = (IF book \cap Tab = {} THEN {} ELSE Tab) \cup totals
    OBVIOUS
  <2>3. PICK to : to = book \cap (Tab \cup totals)
    OBVIOUS
  <2>4. req'[p] = [Started("all", i) EXCEPT !.at = "list", !.swap = swap, !.to = to]
    BY <1>0, <2>1, <2>2, <2>3
  <2>5. req'[p].swap = swap /\ req'[p].to = to /\ ~req'[p].sweeping
    BY <2>4, Starting DEF Req
  <2>6. to \cap Tab # {} => swap \cap Tab # {}
    BY <2>2, <2>3
  <2> QED BY <2>5, <2>6 DEF Aim
<1>2. CASE StartTab(p, i)
  <2>1. PICK t \in Tab : req' = [req EXCEPT ![p] = [Started("tab", i) EXCEPT !.to = {t}]]
    BY <1>2 DEF StartTab
  <2>2. req'[p].kind = "tab" /\ ~req'[p].sweeping
    BY <1>0, <2>1, Starting DEF Req
  <2> QED BY <2>2 DEF Aim
<1>3. CASE StartFile(p, i)
  <2>1. PICK f \in File : req' = [req EXCEPT ![p] = [Started("file", i) EXCEPT !.to = {f}]]
    BY <1>3 DEF StartFile
  <2>2. req'[p].kind = "file" /\ ~req'[p].sweeping
    BY <1>0, <2>1, Starting DEF Req
  <2> QED BY <2>2 DEF Aim
<1> QED BY <1>1, <1>2, <1>3

(* it goes on; *)
LEMMA AimProceed ==
  ASSUME PullInv, NEW p \in Request, Aim(req[p]), Proceed(p)
  PROVE  Aim(req[p])'
<1>0. /\ req \in [Request -> Req] /\ req[p] \in Req
      /\ req[p].sweeping => req[p].at = "retire"
  BY DEF PullInv, TypeOK, Requests, Stage
<1>1. CASE req' = [req EXCEPT ![p] = Idle]
  BY <1>0, <1>1 DEF Aim, Idle, Started
<1>2. CASE Save(p)
  BY <1>0, <1>2 DEF Save, Aim, Req
<1>3. CASE List(p)
  BY <1>0, <1>3 DEF List, Aim, Req
<1>4. CASE Commit(p) /\ req' # [req EXCEPT ![p] = Idle]
  <2>1. PICK durable \in BOOLEAN, missed \in {{}, {req[p].run.of}} :
         CASE req[p].kind = "all" ->
               req' = [req EXCEPT ![p] =
                         [@ EXCEPT !.at = AfterWrites(req[p].to \ {req[p].run.of}),
                                   !.to = req[p].to \ {req[p].run.of}, !.run = None,
                                   !.lost = req[p].lost \cup missed]]
          [] req[p].kind = "tab" /\ durable ->
               req' = [req EXCEPT ![p] =
                         [@ EXCEPT !.at = "sweep", !.to = {}, !.run = None]]
          [] OTHER -> End(p)
    BY <1>4 DEF Commit
  <2>2. ~req[p].sweeping
    BY <1>0, <1>4 DEF Commit, At
  <2>3. CASE req[p].kind = "all"
    <3>1. PICK to, lost, at : /\ to = req[p].to \ {req[p].run.of}
                              /\ lost = req[p].lost \cup missed /\ at = AfterWrites(to)
      OBVIOUS
    <3>2. req' = [req EXCEPT ![p] = [@ EXCEPT !.at = at, !.to = to, !.run = None, !.lost = lost]]
      BY <2>1, <2>3, <3>1
    <3>3. /\ req'[p].to = to /\ req'[p].swap = req[p].swap
          /\ req'[p].kind = req[p].kind /\ req'[p].sweeping = req[p].sweeping
      BY <1>0, <3>2 DEF Req
    <3> QED BY <2>2, <3>1, <3>3 DEF Aim
  <2>4. CASE req[p].kind = "tab" /\ durable
    <3>1. req' = [req EXCEPT ![p] = [@ EXCEPT !.at = "sweep", !.to = {}, !.run = None]]
      BY <2>1, <2>4
    <3> QED BY <1>0, <2>2, <3>1 DEF Aim, Req
  <2> QED BY <1>4, <2>1, <2>3, <2>4 DEF End
<1>5. CASE Retire(p) \/ (RetireRaises(p) /\ req' # [req EXCEPT ![p] = Idle])
  <2>1. PICK r : req' = [req EXCEPT ![p].old = @ \ {r}]
    <3>1. CASE Retire(p)
      BY <3>1 DEF Retire
    <3>2. CASE RetireRaises(p) /\ req' # [req EXCEPT ![p] = Idle]
      BY <3>2 DEF RetireRaises, End
    <3> QED BY <1>5, <3>1, <3>2
  <2> QED BY <1>0, <2>1 DEF Aim, Req
<1>6. CASE Swapped(p) /\ req' # [req EXCEPT ![p] = Idle]
  <2>1. req' = [req EXCEPT ![p] = [@ EXCEPT !.at = "sweep", !.old = {}]] /\ ~req[p].sweeping
    BY <1>6 DEF Swapped, End
  <2> QED BY <1>0, <2>1 DEF Aim, Req
<1>7. CASE Sweep(p)
  <2>1. /\ req[p].at = "sweep" /\ ~Free(p)
        /\ \E runs : req' = [req EXCEPT ![p] = [@ EXCEPT !.sweeping = TRUE, !.at = "retire",
                                                       !.lost = {}, !.old = runs]]
    BY <1>7 DEF Sweep, At
  <2>2. req[p].to = {}
    BY <2>1 DEF PullInv, Requests, Stage
  <2> QED BY <1>0, <2>1, <2>2 DEF Aim, Req
<1> QED BY <1>1, <1>2, <1>3, <1>4, <1>5, <1>6, <1>7
        DEF Proceed, ListFails, SaveRaises, SweepFails, Swept, End

(* and so every step. *)
LEMMA AimNext ==
  ASSUME PullInv, \A p \in Request : Aim(req[p]), [Next]_vars
  PROVE  \A p \in Request : Aim(req[p])'
<1> SUFFICES ASSUME NEW a \in Request PROVE Aim(req[a])'
  OBVIOUS
<1>0. req \in [Request -> Req]
  BY DEF PullInv, TypeOK
<1>1. ASSUME NEW p \in Request, NEW i \in Instance,
             StartAll(p, i) \/ StartTab(p, i) \/ StartFile(p, i)
      PROVE  Aim(req[a])'
  <2>1. \E new : req' = [req EXCEPT ![p] = new]
    BY <1>1 DEF StartAll, StartTab, StartFile
  <2>2. a # p => req'[a] = req[a]
    BY <1>0, <2>1
  <2> QED BY <1>1, <2>2, AimStart DEF Aim
<1>2. ASSUME NEW p \in Request, Proceed(p) PROVE Aim(req[a])'
  <2>1. a # p => req'[a] = req[a]
    BY <1>0, <1>2 DEF Proceed, List, ListFails, Save, SaveRaises, Commit, Retire, RetireRaises,
       Swapped, Sweep, SweepFails, Swept, End
  <2> QED BY <1>2, <2>1, AimProceed DEF Aim
<1>3. ASSUME NEW i \in Instance, Delete(i) \/ Stop(i) PROVE Aim(req[a])'
  <2>1. req'[a] = req[a] \/ req'[a] = Idle
    BY <1>3 DEF Delete, Stop
  <2>2. Idle.kind = "free" /\ ~Idle.sweeping
    BY DEF Idle, Started
  <2> QED BY <2>1, <2>2 DEF Aim
<1>4. ASSUME Rearrange \/ UNCHANGED vars PROVE Aim(req[a])'
  BY <1>4 DEF Rearrange, vars, Aim
<1> QED BY <1>1, <1>2, <1>3, <1>4 DEF Next

(* A step of p that stores nothing new: p still attends to what it did, or   *)
(* that is gone.                                                             *)
LEMMA StillAttended ==
  ASSUME PullInv, Attended, NEW p \in Request, cloud' \subseteq cloud,
         \A a \in Request \ {p} : req'[a] = req[a],
         \A r \in Outdated' : Attends(p, r) => Attends(p, r)'
  PROVE  Attended'
<1> SUFFICES ASSUME NEW r \in Outdated' PROVE \E a \in Request : Attends(a, r)'
  BY DEF Attended
<1>1. r \in Outdated
  BY DEF Outdated
<1>2. PICK a \in Request : Attends(a, r)
  BY <1>1 DEF Attended
<1>3. CASE a = p
  BY <1>2, <1>3
<1>4. CASE a # p
  <2>1. req'[a] = req[a]
    BY <1>4
  <2> QED BY <1>2, <2>1 DEF Attends, Ahead, Pulls
<1> QED BY <1>3, <1>4

(* Outdated runs are attended: when a pull starts; *)
LEMMA CleanStart ==
  ASSUME PullInv, CleanInv, Tended', NEW p \in Request, NEW i \in Instance,
         StartAll(p, i) \/ StartTab(p, i) \/ StartFile(p, i)
  PROVE  Attended'
<1>1. /\ \E new : req' = [req EXCEPT ![p] = new]
      /\ cloud' = cloud /\ untidy' = untidy /\ sweeper' = sweeper /\ Free(p)
  BY DEF StartAll, StartTab, StartFile, storeVars, tidyVars
<1>2. Attended
  BY <1>1 DEF CleanInv, Tended
<1>3. \A a \in Request \ {p} : req'[a] = req[a]
  BY <1>1 DEF PullInv, TypeOK
<1>4. \A r : ~Attends(p, r)
  BY <1>1 DEF Attends, Ahead, Pulls, Free
<1> QED BY <1>1, <1>2, <1>3, <1>4, StillAttended

(* A pull of everything that has listed goes on to its sweep. *)
LEMMA CleanList ==
  ASSUME PullInv, CleanInv, Tended', NEW p \in Request, List(p) \/ ListFails(p) \/ Save(p)
  PROVE  Attended'
<1>0. /\ req \in [Request -> Req] /\ req[p] \in Req
      /\ req[p].sweeping => req[p].at = "retire"
  BY DEF PullInv, TypeOK, Requests, Stage
<1>1. /\ cloud' = cloud /\ untidy' = untidy /\ sweeper' = sweeper
      /\ \A a \in Request \ {p} : req'[a] = req[a]
      /\ req[p].at \in {"list", "save"} /\ ~req[p].sweeping
  BY <1>0 DEF List, ListFails, Save, End, At, storeVars, tidyVars
<1>2. Attended
  BY <1>1 DEF CleanInv, Tended
<1>3. Ahead(p) => Ahead(p)'
  <2>1. CASE Save(p)
    <3>1. PICK run : req' = [req EXCEPT ![p] = [@ EXCEPT !.at = "commit", !.run = run]]
      BY <2>1 DEF Save
    <3>2. /\ req'[p].at = "commit" /\ req'[p].kind = req[p].kind
          /\ req'[p].sweeping = req[p].sweeping /\ req'[p].swap = req[p].swap
      BY <1>0, <3>1 DEF Req
    <3> QED BY <1>1, <3>2 DEF Ahead, Pulls
  <2>2. CASE List(p) \/ ListFails(p)
    BY <1>0, <2>2 DEF List, ListFails, At, Ahead, Pulls
  <2> QED BY <2>1, <2>2
<1> QED BY <1>1, <1>2, <1>3, StillAttended DEF Attends

(* A run of a tab reaches the store: whoever wrote it is ahead of its sweep. *)
LEMMA CleanCommit ==
  ASSUME PullInv, CleanInv, Tended', NEW p \in Request, Commit(p)
  PROVE  Attended'
<1> DEFINE q == req[p]
           left == q.to \ {q.run.of}
<1>0. /\ req \in [Request -> Req] /\ q \in Req /\ Aim(q) /\ ~q.sweeping /\ q.at = "commit"
      /\ q.kind \in {"all", "tab", "file"} /\ q.run.of \in q.to
      /\ q.kind = "file" => q.to \subseteq File
  BY DEF PullInv, TypeOK, Requests, Shape, Stage, CleanInv, Commit, At, Free, Req
<1>1. PICK applied \in BOOLEAN, durable \in BOOLEAN, missed \in {{}, {q.run.of}} :
        /\ durable => applied
        /\ LeavesBehind(q.kind = "tab" /\ applied /\ ~durable)
        /\ IF applied
           THEN cloud' = cloud \cup {q.run} /\ stored' = stored \cup {q.run}
           ELSE UNCHANGED <<cloud, stored>>
        /\ CASE q.kind = "all" ->
                  req' = [req EXCEPT ![p] =
                            [@ EXCEPT !.at = AfterWrites(left), !.to = left, !.run = None,
                                      !.lost = q.lost \cup missed]]
             [] q.kind = "tab" /\ durable ->
                  req' = [req EXCEPT ![p] =
                            [@ EXCEPT !.at = "sweep", !.to = {}, !.run = None]]
             [] OTHER -> End(p)
  BY DEF Commit
<1>2. /\ untidy' = untidy /\ sweeper' = sweeper
      /\ q.kind = "tab" => (applied <=> durable)
      /\ \A a \in Request \ {p} : req'[a] = req[a]
  <2>1. \E new : req' = [req EXCEPT ![p] = new]
    BY <1>0, <1>1 DEF End
  <2>2. ~(q.kind = "tab" /\ applied /\ ~durable)
    BY <1>1 DEF LeavesBehind, Tended
  <2>3. untidy' = untidy /\ sweeper' = sweeper
    BY <1>1, <2>2 DEF LeavesBehind, PullInv, TypeOK
  <2> QED BY <1>0, <1>1, <2>1, <2>2, <2>3
<1>3. Attended
  BY <1>2 DEF CleanInv, Tended
<1>4. q.kind = "all" /\ q.swap \cap Tab # {} => Ahead(p)'
  <2> SUFFICES ASSUME q.kind = "all", q.swap \cap Tab # {} PROVE Ahead(p)'
    OBVIOUS
  <2>1. PICK lost, at, to : lost = q.lost \cup missed /\ at = AfterWrites(left) /\ to = left
    OBVIOUS
  <2>2. req' = [req EXCEPT ![p] = [@ EXCEPT !.at = at, !.to = to, !.run = None, !.lost = lost]]
    BY <1>1, <2>1
  <2>3. /\ req'[p].kind = q.kind /\ req'[p].at = at /\ req'[p].sweeping = q.sweeping
        /\ req'[p].swap = q.swap
    BY <1>0, <2>2 DEF Req
  <2>4. at \in {"save", "retire"}
    BY <2>1 DEF AfterWrites
  <2> QED BY <1>0, <2>3, <2>4 DEF Ahead, Pulls
<1>5. q.kind = "tab" /\ durable => Ahead(p)'
  <2> SUFFICES ASSUME q.kind = "tab", durable PROVE Ahead(p)'
    OBVIOUS
  <2>1. req' = [req EXCEPT ![p] = [@ EXCEPT !.at = "sweep", !.to = {}, !.run = None]]
    BY <1>1
  <2> QED BY <1>0, <2>1 DEF Ahead, Pulls, Req
<1>6. CASE cloud' = cloud \/ q.run.of \notin Tab
  <2>1. Outdated' \subseteq Outdated
    BY <1>1, <1>6 DEF Outdated, Newer
  <2>2. ASSUME NEW r \in Outdated' PROVE \E a \in Request : Attends(a, r)'
    <3>1. PICK a \in Request : Attends(a, r)
      BY <1>3, <2>1 DEF Attended
    <3>2. CASE a = p
      BY <1>0, <1>4, <3>1, <3>2 DEF Attends, Ahead
    <3>3. CASE a # p
      <4>1. req'[a] = req[a]
        BY <1>2, <3>3
      <4> QED BY <3>1, <4>1 DEF Attends, Ahead, Pulls
    <3> QED BY <3>2, <3>3
  <2> QED BY <2>2 DEF Attended
<1>7. CASE cloud' # cloud /\ q.run.of \in Tab
  <2>1. q.kind = "tab" => durable
    BY <1>1, <1>2, <1>7
  <2>2. q.kind = "all" => q.swap \cap Tab # {}
    BY <1>0, <1>7 DEF Aim
  <2>3. q.kind # "file"
    BY <1>0, <1>7
  <2>4. Ahead(p)'
    BY <1>0, <1>4, <1>5, <2>1, <2>2, <2>3
  <2> QED BY <2>4 DEF Attended, Attends
<1> QED BY <1>6, <1>7

(* The disk does not take a run: a pull of everything says that it leaves   *)
(* some behind, and a request for one platform has stored nothing so far.   *)
(* So does whoever could not delete a run.                                  *)
LEMMA CleanRaises ==
  ASSUME PullInv, CleanInv, Tended', NEW p \in Request, SaveRaises(p) \/ RetireRaises(p)
  PROVE  Attended'
<1>1. CASE RetireRaises(p)
  BY <1>1 DEF RetireRaises, LeavesBehind, Tended
<1>2. CASE SaveRaises(p)
  <2>1. req[p].kind # "all" /\ Tended
    BY <1>2 DEF SaveRaises, LeavesBehind, Tended
  <2>2. /\ cloud' = cloud /\ req[p].at = "save" /\ ~req[p].sweeping
        /\ \A a \in Request \ {p} : req'[a] = req[a]
    BY <1>2 DEF SaveRaises, End, At, storeVars, PullInv, TypeOK, Requests, Stage
  <2>3. \A r : ~Attends(p, r)
    BY <2>1, <2>2 DEF Attends, Ahead
  <2> QED BY <2>1, <2>2, <2>3, StillAttended DEF CleanInv
<1> QED BY <1>1, <1>2

(* when it retires one; *)
LEMMA CleanRetire ==
  ASSUME PullInv, CleanInv, Tended', NEW p \in Request, Retire(p)
  PROVE  Attended'
<1>0. /\ req \in [Request -> Req] /\ req[p] \in Req
  BY DEF PullInv, TypeOK
<1>1. PICK r \in Retirable(req[p]), reached \in BOOLEAN :
        /\ cloud' = IF reached THEN cloud \ {r} ELSE cloud
        /\ LeavesBehind(~reached)
        /\ req' = [req EXCEPT ![p].old = @ \ {r}]
  BY DEF Retire
<1>2. reached /\ cloud' = cloud \ {r} /\ Tended
  BY <1>1 DEF LeavesBehind, Tended
<1>3. /\ \A a \in Request \ {p} : req'[a] = req[a]
      /\ req'[p].kind = req[p].kind /\ req'[p].at = req[p].at
      /\ req'[p].sweeping = req[p].sweeping /\ req'[p].swap = req[p].swap
      /\ req'[p].old = req[p].old \ {r}
  BY <1>0, <1>1 DEF Req
<1>4. \A s \in Outdated' : Attends(p, s) => Attends(p, s)'
  BY <1>2, <1>3 DEF Outdated, Attends, Ahead, Pulls
<1> QED BY <1>2, <1>3, <1>4, StillAttended DEF CleanInv

(* A swap that lost a tab's run leaves the others' old runs behind, and says *)
(* so; one that replaced no tab had none to sweep.                           *)
LEMMA CleanSwapped ==
  ASSUME PullInv, CleanInv, Tended', NEW p \in Request, Swapped(p)
  PROVE  Attended'
<1>0. /\ req \in [Request -> Req] /\ req[p] \in Req /\ req[p].kind \in {"all", "tab", "file"}
      /\ req[p].at = "retire" /\ ~req[p].sweeping /\ cloud' = cloud
      /\ \A a \in Request \ {p} : req'[a] = req[a]
  BY DEF PullInv, TypeOK, Swapped, End, At, Free, Req, storeVars
<1>1. CASE Sweeps(req[p])
  <2>1. req' = [req EXCEPT ![p] = [@ EXCEPT !.at = "sweep", !.old = {}]] /\ UNCHANGED tidyVars
    BY <1>1 DEF Swapped
  <2>2. Attended
    BY <2>1 DEF CleanInv, Tended, tidyVars
  <2>3. Ahead(p) => Ahead(p)'
    BY <1>0, <2>1 DEF Ahead, Pulls, Req
  <2> QED BY <1>0, <2>2, <2>3, StillAttended DEF Attends
<1>2. CASE ~Sweeps(req[p])
  <2>1. LeavesBehind(req[p].lost \cap Tab # {})
    BY <1>2 DEF Swapped
  <2>2. req[p].lost \cap Tab = {} /\ Tended
    BY <2>1 DEF LeavesBehind, Tended
  <2>3. \A r : ~Attends(p, r)
    BY <1>0, <1>2, <2>2 DEF Attends, Ahead, Sweeps
  <2> QED BY <1>0, <2>2, <2>3, StillAttended DEF CleanInv
<1> QED BY <1>1, <1>2

(* A sweep lists every outdated run of a tab that is stored, and ends with    *)
(* all of them retired.                                                      *)
LEMMA CleanSweep ==
  ASSUME PullInv, CleanInv, Tended', NEW p \in Request, Sweep(p) \/ SweepFails(p) \/ Swept(p)
  PROVE  Attended'
<1>0. req \in [Request -> Req] /\ req[p] \in Req
  BY DEF PullInv, TypeOK
<1>1. CASE Sweep(p)
  <2> DEFINE runs == Superseded(Seen(req[p].on))
  <2>1. /\ req' = [req EXCEPT ![p] = [@ EXCEPT !.sweeping = TRUE, !.at = "retire", !.lost = {},
                                              !.old = runs]]
        /\ cloud' = cloud /\ Pulls(p)
    BY <1>0, <1>1 DEF Sweep, At, Free, Pulls, storeVars, PullInv, Requests, Stage, Req
  <2>2. Outdated' \subseteq runs
    BY <2>1 DEF Outdated, Superseded, Seen
  <2> HIDE DEF runs
  <2>3. Pulls(p)' /\ req'[p].sweeping /\ req'[p].old = runs
    BY <1>0, <2>1 DEF Pulls, Req
  <2> QED BY <2>2, <2>3 DEF Attended, Attends
<1>2. CASE SweepFails(p)
  BY <1>2 DEF SweepFails, LeavesBehind, Tended
<1>3. CASE Swept(p)
  <2>1. /\ req[p].at = "retire" /\ req[p].sweeping /\ Retirable(req[p]) = {}
        /\ req' = [req EXCEPT ![p] = Idle] /\ cloud' = cloud
        /\ untidy' = (untidy /\ p \notin sweeper) /\ sweeper' = sweeper \ {p}
    BY <1>3 DEF Swept, At, End, storeVars
  <2>2. Tended
    BY <2>1 DEF Tended
  <2>3. req[p].lost = {}
    BY <2>1 DEF CleanInv, Aim
  <2>4. req[p].old = {}
    BY <2>1, <2>3 DEF Retirable
  <2>5. \A r : ~Attends(p, r)
    BY <2>1, <2>4 DEF Attends, Ahead
  <2> QED BY <1>0, <2>1, <2>2, <2>5, StillAttended DEF CleanInv
<1> QED BY <1>1, <1>2, <1>3

(* when something else happens. *)
LEMMA CleanOutside ==
  ASSUME PullInv, CleanInv, Tended',
         Rearrange \/ UNCHANGED vars \/ \E i \in Instance : Delete(i) \/ Stop(i)
  PROVE  Attended'
<1>1. /\ cloud' \subseteq cloud
      /\ Tended
      /\ \A p \in Request : Pulls(p) => req'[p] = req[p]
  <2>1. ASSUME NEW i \in Instance, Delete(i)
        PROVE  cloud' \subseteq cloud /\ Tended /\ req' = req
    BY <2>1 DEF Delete, Tended, tidyVars
  <2>2. ASSUME NEW i \in Instance, Stop(i)
        PROVE  cloud' = cloud /\ Tended /\ \A p \in Request : Pulls(p) => req'[p] = req[p]
    BY <2>2 DEF Stop, LeavesBehind, Tended, Pulls
  <2>3. CASE Rearrange \/ UNCHANGED vars
    <3>1. cloud' = cloud /\ untidy' = untidy /\ sweeper' = sweeper /\ req' = req
      BY <2>3 DEF Rearrange, vars, storeVars, tidyVars
    <3> QED BY <3>1 DEF Tended
  <2> QED BY <2>1, <2>2, <2>3
<1>2. Outdated' \subseteq Outdated
  BY <1>1 DEF Outdated
<1>3. \A p \in Request : \A r : Attends(p, r) => Attends(p, r)'
  BY <1>1 DEF Attends, Ahead, Pulls
<1> QED BY <1>1, <1>2, <1>3 DEF CleanInv, Attended

(* Every step keeps them attended. *)
LEMMA CleanNext == PullInv /\ CleanInv /\ [Next]_vars => CleanInv'
<1> SUFFICES ASSUME PullInv, CleanInv, [Next]_vars PROVE CleanInv'
  OBVIOUS
<1>1. \A p \in Request : Aim(req[p])'
  BY AimNext DEF CleanInv
<1>2. ASSUME Tended' PROVE Attended'
  <2>1. ASSUME NEW p \in Request, Proceed(p) PROVE Attended'
    BY <1>2, <2>1, CleanList, CleanCommit, CleanRaises, CleanRetire, CleanSwapped, CleanSweep
       DEF Proceed
  <2> QED BY <1>2, <2>1, CleanStart, CleanOutside DEF Next
<1> QED BY <1>1, <1>2 DEF CleanInv

(* At the start there are none. *)
LEMMA CleanInit == Init => CleanInv
<1> SUFFICES ASSUME Init PROVE CleanInv
  OBVIOUS
<1>1. \A p \in Request : Aim(req[p])
  <2>1. Idle.kind = "free" /\ ~Idle.sweeping
    BY DEF Idle, Started
  <2> QED BY <2>1 DEF Init, Aim
<1>2. Outdated = {}
  <2>1. \A r \in cloud : r.at = 0
    BY DEF Init
  <2> QED BY <2>1 DEF Outdated, Newer
<1> QED BY <1>1, <1>2 DEF CleanInv, Attended

(* When no pull is under way, mr_runs has one run per tab, however the pulls *)
(* of the instances overlapped, and whatever raised, was stored without      *)
(* saying so, or was stopped, unless what that left behind has not been      *)
(* followed by a complete sweep (marketing_research._pull_and_swap,          *)
(* _pull_single_tab, _sweep_superseded_tracker_runs, runs.save_run,          *)
(* runs.delete_run).                                                         *)
THEOREM OneRunPerTab == Spec => []CleanAtRest
<1>1. Spec => []CleanInv
  BY CleanInit, CleanNext, PullInvAlways, PTL DEF Spec
<1>2. CleanInv => CleanAtRest
  <2> SUFFICES ASSUME CleanInv, ~untidy, \A p \in Request : ~Pulls(p), NEW r \in cloud,
                      NEW s \in cloud, r.of \in Tab, Newer(s, r)
               PROVE  FALSE
    BY DEF CleanAtRest
  <2>1. r \in Outdated
    BY DEF Outdated
  <2> QED BY <2>1 DEF CleanInv, Tended, Attended, Attends, Ahead
<1> QED BY <1>1, <1>2, PTL

=============================================================================
