------------------------------- MODULE PrFlow -------------------------------
(***************************************************************************)
(* The requests of the PR Writer service (app/services/pr_writer.py) over  *)
(* the stored run of PrRun. A request reads the run once, makes its checks *)
(* on what it read, may call a model, and then writes in one or more       *)
(* transactions of the store; other requests run in between, and it may    *)
(* die at any point. The router's own state is the field flow of the run   *)
(* document: the step table with its leases, the clarify card, the         *)
(* versions with their display labels, the package's sections, and whether *)
(* the run was closed.                                                     *)
(*                                                                         *)
(* Left out: notes and comments (keep_paused, note, comments change no     *)
(* check), quotes (approve_quote is PrRun's AttestQuote), exports and      *)
(* reads, and the fallback admins: every review row has a reviewer. A      *)
(* definition marked "variant" is, as in PrRun, no part of the model.      *)
(***************************************************************************)
EXTENDS PrRun, Sequences

CONSTANTS
  Request,    \* slots for the requests in flight at one time
  Holder,     \* Holder[r]: the reviewer of review role r
  CommsRole,  \* the role of the comms lead, who also approves
  LegalRole,  \* the role of the reviewer who clears escalations
  FirstScreen, \* what the screen of a new run may come to: "none" if it failed
  Card,       \* whether a new run may come with a clarify card: "none", "open"
  Crashes     \* whether a request may die between two of its writes

ASSUME HolderAssumption ==
  /\ Holder \in [ReviewRole -> Person]
  /\ {CommsRole, LegalRole} \subseteq ReviewRole
ASSUME IntakeAssumption ==
  /\ FirstScreen \subseteq {"none", "safe", "escalate"}
  /\ Card \subseteq {"none", "open"}
  /\ Crashes \in BOOLEAN
ASSUME StoredStepsAssumption ==
  {"intake", "research", "angle", "draft", "qa", "fact_check"} \subseteq Step

VARIABLES
  stage,    \* stage[s]: flow.steps[s].state
  leased,   \* leased[s]: whether flow.steps[s].lease_until is still to come
  meta,     \* meta[v]: the entry of flow.versions for version v, or None
  clarify,  \* flow.clarify.state
  closed,   \* whether flow.terminal is set
  pending,  \* whether flow.pending_intake is set: the screen is still to run
  screen,   \* what flow.screen says the last saved screen decided
  built,    \* flow.sections: seo, distribution and snippets taken together
  notes,    \* flow.sections.reviewer_notes
  page,     \* page[p]: the version person p has open, and its label
  req,      \* req[r]: the request in slot r, or None
  rescreened \* history: whether a screen found the intake checkpointed by another

flowVars == <<stage, leased, meta, clarify, closed, pending, screen, built, notes>>
vars == <<prVars, flowVars, page, req, rescreened>>

-----------------------------------------------------------------------------
StepIds == <<"intake", "screen", "research", "draft", "package", "notes">>
RunStep == {StepIds[i] : i \in 2 .. 6}
LeaseKey == {StepIds[i] : i \in 1 .. 6} \cup {"revise"}

(* Labels "major.minor", as the screen shows them. *)
NextMinor(l) == <<l[1], l[2] + 1>>
NextMajor(l) == <<l[1] + 1, 0>>
LabelOf(v) == IF meta[v] # None THEN meta[v].label ELSE <<0, v>>
CurrentLocked == latest # 0 /\ meta[latest] # None /\ meta[latest].locked
Entry(l, lk) == [label |-> l, locked |-> lk]

CommsPower(p) == p = Holder[CommsRole]
Reviewer(p) == p = Owner \/ \E r \in ReviewRole : Holder[r] = p

(* What the wire says of a step (_step_states): its own entry, or what the  *)
(* store has checkpointed even though the entry was never finished.         *)
Stored(x) == round[x] # 0
Alive(s) == stage[s] = "running" /\ leased[s]
ScreenPassedOrPending == Stored("intake") \/ pending  \* variant
ScreenPassed == Stored("intake")
StepFinished(s) ==
  \/ stage[s] = "done"
  \/ s = "intake" /\ (Stored("intake") \/ pending)
  \/ s = "screen" /\ ScreenPassed
  \/ s = "research" /\ Stored("research") /\ Stored("angle") /\ ~Alive(s)
  \/ s = "draft" /\ Stored("qa") /\ ~Alive(s)
Passed(s) == StepFinished(s) \/ (s = "package" /\ stage[s] = "partial")

EventsFull == events = EventsCap  \* the next event is refused
Free(r) == req[r] = None
End(r) == req' = [req EXCEPT ![r] = None]
Goto(r, at) == req' = [req EXCEPT ![r].at = at]

-----------------------------------------------------------------------------
(* create_run, after the model calls: the run is stored, then its flow,     *)
(* then the intake is checkpointed with what the screen decided. A screen   *)
(* that failed leaves the intake pending for the screen step. The run can   *)
(* be seen, and worked on, as soon as it is stored.                         *)
FlowInit ==
  /\ Init
  /\ participants = Person
  /\ stage = [s \in LeaseKey |-> "pending"]
  /\ leased = [s \in LeaseKey |-> FALSE]
  /\ meta = [v \in Version |-> None]
  /\ clarify = "none"
  /\ closed = FALSE
  /\ pending = FALSE
  /\ screen = "none"
  /\ built = "pending" /\ notes = "pending"
  /\ page = [p \in Person |-> None]
  /\ rescreened = FALSE
  /\ \E r \in Request, d \in FirstScreen, c \in Card :
       req = [x \in Request |->
                IF x = r THEN [kind |-> "create", at |-> "flow", decision |-> d, card |-> c]
                ELSE None]

CreateFlow(r) ==
  LET q == req[r] IN
  /\ ~Free(r) /\ q.kind = "create" /\ q.at = "flow"
  /\ stage' = [stage EXCEPT !["intake"] = "done",
                            !["screen"] = IF q.decision = "none" THEN "failed" ELSE "done"]
  /\ clarify' = q.card
  /\ pending' = (q.decision = "none")
  /\ screen' = q.decision
  /\ IF q.decision = "none" THEN End(r) ELSE Goto(r, "intake")
  /\ UNCHANGED <<prVars, leased, meta, closed, built, notes, page, rescreened>>

WireStatus(cardOpen) == IF cardOpen THEN "needs_details" ELSE "in_progress"  \* variant
IntakeStatus(cardOpen) == IF cardOpen THEN "needs_input" ELSE "in_progress"

CreateIntake(r) ==
  LET q == req[r] IN
  /\ ~Free(r) /\ q.kind = "create" /\ q.at = "intake"
  /\ CompleteStep(Owner, "intake", IntakeStatus(q.card = "open"), q.decision = "escalate")
  /\ End(r)
  /\ UNCHANGED <<flowVars, page, rescreened>>

(* The store refuses a write, or fails it, and create_run goes no further.   *)
FailCreate(r) ==
  /\ ~Free(r) /\ req[r].kind = "create"
  /\ End(r)
  /\ UNCHANGED <<prVars, flowVars, page, rescreened>>

(* GET: a person opens the run as it stands. *)
Open(p) ==
  /\ latest # 0
  /\ page' = [page EXCEPT ![p] = [version |-> latest, label |-> LabelOf(latest)]]
  /\ UNCHANGED <<prVars, flowVars, req, rescreened>>

-----------------------------------------------------------------------------
(* run_step: checks on the run as read, for the owner only. *)
LoadStep(r, s) ==
  /\ Free(r)
  /\ ~closed
  /\ ~StepFinished(s)
  /\ \A i \in 1 .. 6 : s = StepIds[i] => \A j \in 1 .. i - 1 : Passed(StepIds[j])
  /\ s # "screen" => ~EscalationOpen /\ clarify # "open"
  /\ req' = [req EXCEPT ![r] = [kind |-> "step", step |-> s, at |-> "loaded"]]
  /\ UNCHANGED <<prVars, flowVars, page, rescreened>>

(* lease_pr_step, and the run as read inside it: todo is what the runner    *)
(* still has to store, worked out on that reading.                          *)
TakesWhateverRuns(s) == stage[s] # "done"  \* variant
Takes(s) == stage[s] # "done" /\ ~Alive(s)
Missing(x) == IF Stored(x) THEN <<>> ELSE <<x>>
Todo(s) ==
  CASE s = "screen"   -> IF pending THEN <<"intake">> ELSE <<>>
    [] s = "research" -> Missing("research") \o Missing("angle")
    [] s = "draft"    -> Missing("draft") \o Missing("qa")
    [] s = "package"  -> IF latest = 0 THEN <<"fact_check">> ELSE <<>>
    [] s = "notes"    -> <<>>

LeaseStep(r) ==
  LET q == req[r] IN
  /\ ~Free(r) /\ q.kind = "step" /\ q.at = "loaded"
  /\ IF Takes(q.step)
     THEN /\ stage' = [stage EXCEPT ![q.step] = "running"]
          /\ leased' = [leased EXCEPT ![q.step] = TRUE]
          /\ req' = [req EXCEPT ![r] =
               [kind |-> "step", step |-> q.step, at |-> "leased", todo |-> Todo(q.step),
                cardOpen |-> clarify = "open", decision |-> "none", first |-> latest = 0,
                built |-> built, notes |-> notes, meta |-> meta]]
     ELSE End(r) /\ UNCHANGED <<stage, leased>>
  /\ UNCHANGED <<prVars, meta, clarify, closed, pending, screen, built, notes, page, rescreened>>

Working(r, s) ==
  ~Free(r) /\ req[r].kind = "step" /\ req[r].at = "leased" /\ req[r].step = s
Stores(r, x) ==
  /\ ~Free(r) /\ req[r].kind = "step" /\ req[r].at = "leased"
  /\ req[r].todo # <<>> /\ Head(req[r].todo) = x
Next1(r) == [req[r] EXCEPT !.todo = Tail(req[r].todo)]

(* The runners' calls of the store. One that finds the step checkpointed    *)
(* already goes on without a write; the screen's goes on with its own       *)
(* decision, whatever the checkpoint came with.                             *)
StoreScreen(r) ==
  /\ Stores(r, "intake")
  /\ \E e \in BOOLEAN :
       /\ CompleteStep(Owner, "intake", IntakeStatus(req[r].cardOpen), e)
       /\ req' = [req EXCEPT ![r] = [Next1(r) EXCEPT !.decision = IF e THEN "escalate" ELSE "safe"]]
  /\ UNCHANGED <<flowVars, page, rescreened>>

StoreStep(r, x) ==
  /\ x \in {"research", "angle", "draft", "qa"}
  /\ Stores(r, x)
  /\ CompleteStep(Owner, x, IF x = "research" THEN "in_progress" ELSE None, FALSE)
  /\ req' = [req EXCEPT ![r] = Next1(r)]
  /\ UNCHANGED <<flowVars, page, rescreened>>

SkipStored(r, x) ==
  /\ x # "fact_check" /\ Stores(r, x)
  /\ ~Locked /\ StepDone(x)
  /\ IF x = "intake"
     THEN \E d \in {"safe", "escalate"} : req' = [req EXCEPT ![r] = [Next1(r) EXCEPT !.decision = d]]
     ELSE req' = [req EXCEPT ![r] = Next1(r)]
  /\ rescreened' = (rescreened \/ x = "intake")
  /\ UNCHANGED <<prVars, flowVars, page>>

StoreFirstDraft(r) ==
  /\ Stores(r, "fact_check")
  /\ \E c \in Content : CreateVersion(Owner, 1, c, "fact_check")
  /\ req' = [req EXCEPT ![r] = Next1(r)]
  /\ UNCHANGED <<flowVars, page, rescreened>>

(* finish_pr_step: the lease is given back with the outcome, and the keys   *)
(* of the flow the runner hands over are written over the stored ones, as   *)
(* the runner made them from the run it read under the lease.               *)
Finish(r, s, outcome) ==
  /\ Working(r, s)
  /\ stage' = [stage EXCEPT ![s] = outcome]
  /\ leased' = [leased EXCEPT ![s] = FALSE]
  /\ End(r)
  /\ UNCHANGED <<prVars, clarify, closed, page, rescreened>>

(* The sections a package round leaves: what was done stays done. *)
SectionsAsStep(r) == {"partial", "done"}  \* variant
Sections(r) == IF req[r].built = "done" THEN {"done"} ELSE {"failed", "done"}

FinishScreen(r) ==
  /\ Finish(r, "screen", "done") /\ req[r].todo = <<>>
  /\ IF req[r].decision = "none" THEN UNCHANGED <<pending, screen>>
     ELSE pending' = FALSE /\ screen' = req[r].decision
  /\ UNCHANGED <<meta, built, notes>>

FinishBuild(r, s) ==
  /\ s \in {"research", "draft"}
  /\ Finish(r, s, "done") /\ req[r].todo = <<>>
  /\ UNCHANGED <<meta, pending, screen, built, notes>>

FinishPackage(r) ==
  /\ ~Free(r) /\ req[r].kind = "step" /\ req[r].at = "leased" /\ req[r].todo = <<>>
  /\ \E b \in Sections(r) :
       /\ Finish(r, "package", IF b = "done" THEN "done" ELSE "partial")
       /\ built' = b /\ notes' = req[r].notes
  /\ meta' = IF req[r].first THEN [req[r].meta EXCEPT ![1] = Entry(<<0, 1>>, FALSE)] ELSE meta
  /\ UNCHANGED <<pending, screen>>

FinishNotes(r) ==
  /\ \E n \in {"done", "failed"} : Finish(r, "notes", n) /\ notes' = n
  /\ built' = req[r].built
  /\ UNCHANGED <<meta, pending, screen>>

(* The model failed, or the store refused: nothing but the outcome, except  *)
(* that a package without its fact check keeps the sections that worked.    *)
FailStep(r, s) ==
  /\ s # "notes"
  /\ Finish(r, s, "failed")
  /\ IF s = "package" /\ req[r].todo # <<>>
     THEN \E b \in Sections(r) \cup {req[r].built} :
            built' = b /\ notes' = req[r].notes
     ELSE UNCHANGED <<built, notes>>
  /\ UNCHANGED <<meta, pending, screen>>

-----------------------------------------------------------------------------
(* clarify: answers are screened first; a decision to escalate is flagged   *)
(* before anything is saved. "skip" saves without a screen.                 *)
SavesUnflagged(d) == "save"  \* variant
ClarifyStarts(d) == IF d = "escalate" THEN "flag" ELSE "save"
LoadClarify(r) ==
  /\ Free(r)
  /\ ~closed /\ clarify = "open"
  /\ \E d \in {"none", "safe", "escalate"} :
       req' = [req EXCEPT ![r] = [kind |-> "clarify", decision |-> d,
                                  at |-> ClarifyStarts(d)]]
  /\ UNCHANGED <<prVars, flowVars, page, rescreened>>

FlagClarify(r) ==
  /\ ~Free(r) /\ req[r].kind = "clarify" /\ req[r].at = "flag"
  /\ \/ FlagEscalation(Owner) /\ Goto(r, "save")
     \/ ~Locked /\ EscalationOpen /\ UNCHANGED prVars /\ Goto(r, "save")
     \/ (Locked \/ EventsFull) /\ UNCHANGED prVars /\ End(r)
  /\ UNCHANGED <<flowVars, page, rescreened>>

SaveClarify(r) ==
  LET q == req[r] IN
  /\ ~Free(r) /\ q.kind = "clarify" /\ q.at = "save"
  /\ IF ~closed /\ clarify = "open" /\ ~EventsFull
     THEN /\ NoteEvent(Owner)
          /\ clarify' = IF q.decision = "none" THEN "skipped" ELSE "answered"
          /\ screen' = IF q.decision = "none" THEN screen ELSE q.decision
     ELSE UNCHANGED <<prVars, clarify, screen>>
  /\ End(r)
  /\ UNCHANGED <<stage, leased, meta, closed, pending, built, notes, page, rescreened>>

(* escalation_action: clear, by the clearer; close, by comms or legal, and   *)
(* withdraw, by the owner, which both close the run.                         *)
LoadEscalation(r) ==
  /\ Free(r)
  /\ ~closed /\ EscalationOpen
  /\ \E k \in {"clear", "close"} : req' = [req EXCEPT ![r] = [kind |-> k]]
  /\ UNCHANGED <<prVars, flowVars, page, rescreened>>

Clear(r) ==
  /\ ~Free(r) /\ req[r].kind = "clear"
  /\ \/ ClearEscalation(Holder[LegalRole])
     \/ (Locked \/ ~EscalationOpen \/ EventsFull) /\ UNCHANGED prVars
  /\ End(r)
  /\ UNCHANGED <<flowVars, page, rescreened>>

Close(r) ==
  /\ ~Free(r) /\ req[r].kind = "close"
  /\ IF ~closed /\ EscalationOpen /\ ~EventsFull
     THEN NoteEvent(Owner) /\ closed' = TRUE
     ELSE UNCHANGED <<prVars, closed>>
  /\ End(r)
  /\ UNCHANGED <<stage, leased, meta, clarify, pending, screen, built, notes, page, rescreened>>

-----------------------------------------------------------------------------
(* _editable: the draft may be changed, and the person has the current       *)
(* version open, told by its label.                                          *)
HasCurrentOpen(p) == page[p] # None /\ page[p].label = LabelOf(latest)
Editable(p) ==
  /\ ~closed /\ ~Locked /\ ~EscalationOpen
  /\ latest \in 1 .. VersionsCap - 1
  /\ HasCurrentOpen(p)

(* revise (and remove_claim, which revises), verify_claim, send_for_review:  *)
(* what the next version will be is settled by the run as read here.         *)
AnyPackage == TRUE  \* variant
PackageReady == StepFinished("package") \/ stage["package"] = "partial"
EditRequest(p, k, l, lk) ==
  [kind |-> k, by |-> p, base |-> latest, saw |-> page[p].version, label |-> l, locked |-> lk,
   at |-> IF k = "revise" THEN "loaded" ELSE "write"]

LoadEdit(r, p) ==
  /\ Free(r)
  /\ Editable(p)
  /\ \/ /\ Reviewer(p)
        /\ \E k \in {"revise", "verify"} :
             req' = [req EXCEPT ![r] = EditRequest(p, k, NextMinor(LabelOf(latest)), FALSE)]
     \/ /\ p = Owner \/ CommsPower(p)
        /\ ~CurrentLocked
        /\ PackageReady
        /\ req' = [req EXCEPT ![r] = EditRequest(p, "send", NextMajor(LabelOf(latest)), TRUE)]
  /\ UNCHANGED <<prVars, flowVars, page, rescreened>>

LeaseRevise(r) ==
  LET q == req[r] IN
  /\ ~Free(r) /\ q.kind = "revise" /\ q.at = "loaded"
  /\ IF Takes("revise")
     THEN /\ stage' = [stage EXCEPT !["revise"] = "running"]
          /\ leased' = [leased EXCEPT !["revise"] = TRUE]
          /\ Goto(r, IF latest = q.base THEN "write" ELSE "release")
     ELSE End(r) /\ UNCHANGED <<stage, leased>>
  /\ UNCHANGED <<prVars, meta, clarify, closed, pending, screen, built, notes, page, rescreened>>

EndEdit(r) == IF req[r].kind = "revise" THEN Goto(r, "release") ELSE End(r)
IsEdit(r) == ~Free(r) /\ req[r].kind \in {"revise", "verify", "send"}

(* _new_version: the version, create-only in the store ... *)
WriteVersion(r) ==
  LET q == req[r] IN
  /\ IsEdit(r) /\ q.at = "write"
  /\ \E c \in Content : CreateVersion(q.by, q.base + 1, c, None)
  /\ Goto(r, "label")
  /\ UNCHANGED <<flowVars, page, rescreened>>

(* ... and then, in a transaction of its own, its label and its lock. *)
WriteLabel(r) ==
  LET q == req[r] IN
  /\ IsEdit(r) /\ q.at = "label"
  /\ meta' = [meta EXCEPT ![q.base + 1] = Entry(q.label, q.locked)]
  /\ EndEdit(r)
  /\ UNCHANGED <<prVars, stage, leased, clarify, closed, pending, screen, built, notes, page, rescreened>>

(* The rewrite failed, or the store refused the version. *)
FailEdit(r) ==
  /\ IsEdit(r) /\ req[r].at = "write"
  /\ EndEdit(r)
  /\ UNCHANGED <<prVars, flowVars, page, rescreened>>

ReleaseRevise(r) ==
  /\ ~Free(r) /\ req[r].kind = "revise" /\ req[r].at = "release"
  /\ stage' = [stage EXCEPT !["revise"] = "pending"]
  /\ leased' = [leased EXCEPT !["revise"] = FALSE]
  /\ End(r)
  /\ UNCHANGED <<prVars, meta, clarify, closed, pending, screen, built, notes, page, rescreened>>

-----------------------------------------------------------------------------
(* signoff and approve: the current version is in review and the person has  *)
(* it open; approve also wants every condition to hold already.              *)
MaySignUnlocked(p) == ~closed /\ ~Locked /\ latest # 0 /\ HasCurrentOpen(p)  \* variant
MaySign(p) == ~closed /\ ~Locked /\ CurrentLocked /\ HasCurrentOpen(p)
SignRequest(p, k, role) ==
  [kind |-> k, by |-> p, role |-> role, base |-> latest, saw |-> page[p].version]

LoadSign(r, p) ==
  /\ Free(r)
  /\ MaySign(p)
  /\ \/ \E role \in ReviewRole, k \in {"approve", "reject"} :
          /\ Holder[role] = p
          /\ req' = [req EXCEPT ![r] = SignRequest(p, k, role)]
     \/ /\ CommsPower(p)
        /\ NoFinalBlockers
        /\ req' = [req EXCEPT ![r] = SignRequest(p, "approve", Final)]
  /\ UNCHANGED <<prVars, flowVars, page, rescreened>>

Sign(r) ==
  LET q == req[r] IN
  /\ ~Free(r) /\ q.kind \in {"approve", "reject"}
  /\ \/ q.kind = "reject" /\ Reject(q.role, q.by, q.base)
     \/ q.kind = "approve" /\ q.role # Final /\ ApproveReview(q.role, q.by, q.base)
     \/ q.kind = "approve" /\ q.role = Final /\ ApproveFinal(q.by, q.base)
  /\ End(r)
  /\ UNCHANGED <<flowVars, page, rescreened>>

SignRefused(r) ==
  LET q == req[r] IN
  /\ ~Free(r) /\ q.kind \in {"approve", "reject"}
  /\ \/ ~MayRecord(q.by, q.base)
     \/ EventsFull
     \/ q.role = Final /\ ~NoFinalBlockers
  /\ End(r)
  /\ UNCHANGED <<prVars, flowVars, page, rescreened>>

-----------------------------------------------------------------------------
(* A request dies: the process, or the connection under a write. *)
Crash(r) ==
  /\ Crashes
  /\ ~Free(r)
  /\ End(r)
  /\ UNCHANGED <<prVars, flowVars, page, rescreened>>

(* A lease runs out. It outlives the deadline of the request that took it    *)
(* (LEASE_S), so that request is over.                                       *)
WorksOn(r, s) ==
  /\ ~Free(r)
  /\ \/ req[r].kind = "step" /\ req[r].at = "leased" /\ req[r].step = s
     \/ req[r].kind = "revise" /\ req[r].at \in {"write", "label", "release"} /\ s = "revise"
RunsOutIfIdle(s) == leased[s] /\ stage[s] # "running"  \* variant
RunsOut(s) == leased[s] /\ \A r \in Request : ~WorksOn(r, s)
Lapse(s) ==
  /\ RunsOut(s)
  /\ leased' = [leased EXCEPT ![s] = FALSE]
  /\ UNCHANGED <<prVars, stage, meta, clarify, closed, pending, screen, built, notes, page, req, rescreened>>

(* A request reads the run and passes its checks ... *)
Arrive(r) ==
  \/ \E s \in RunStep : LoadStep(r, s)
  \/ LoadClarify(r) \/ LoadEscalation(r)
  \/ \E p \in Person : LoadEdit(r, p) \/ LoadSign(r, p)

(* ... and goes on until it is over. *)
Proceed(r) ==
  \/ CreateFlow(r) \/ CreateIntake(r) \/ FailCreate(r)
  \/ LeaseStep(r)
  \/ StoreScreen(r) \/ StoreFirstDraft(r)
  \/ \E x \in Step : StoreStep(r, x) \/ SkipStored(r, x)
  \/ FinishScreen(r) \/ FinishPackage(r) \/ FinishNotes(r)
  \/ \E s \in RunStep : FinishBuild(r, s) \/ FailStep(r, s)
  \/ FlagClarify(r) \/ SaveClarify(r) \/ Clear(r) \/ Close(r)
  \/ LeaseRevise(r) \/ WriteVersion(r) \/ WriteLabel(r) \/ FailEdit(r) \/ ReleaseRevise(r)
  \/ Sign(r) \/ SignRefused(r)

FlowNext ==
  \/ \E r \in Request : Arrive(r) \/ Proceed(r) \/ Crash(r)
  \/ \E s \in LeaseKey : Lapse(s)
  \/ \E p \in Person : Open(p)

FlowSpec == FlowInit /\ [][FlowNext]_vars

(* A request that lives goes on: it has a deadline. A lease runs out. *)
Fairness ==
  /\ \A r \in Request : WF_vars(Proceed(r))
  /\ \A s \in LeaseKey : WF_vars(Lapse(s))
FairFlowSpec == FlowSpec /\ Fairness

-----------------------------------------------------------------------------
Label == Nat \X Nat
Meta == [Version -> [label : Label, locked : BOOLEAN] \cup {None}]
Verdict == {"none", "safe", "escalate"}
Outcome == {"pending", "failed", "done"}

(* What a request in flight knows, by its kind. *)
CreateType ==
  [kind : {"create"}, at : {"flow", "intake"}, decision : Verdict, card : {"none", "open"}]
LoadedType == [kind : {"step"}, step : RunStep, at : {"loaded"}]
LeasedType ==
  [kind : {"step"}, step : RunStep, at : {"leased"}, todo : Seq(Step), cardOpen : BOOLEAN,
   decision : Verdict, first : BOOLEAN, built : Outcome, notes : Outcome, meta : Meta]
ClarifyType == [kind : {"clarify"}, decision : Verdict, at : {"flag", "save"}]
EscalationType == [kind : {"clear", "close"}]
EditType ==
  [kind : {"revise", "verify", "send"}, by : Person, base : Version, saw : Version,
   label : Label, locked : BOOLEAN, at : {"loaded", "write", "label", "release"}]
SignType ==
  [kind : {"approve", "reject"}, by : Person, role : Role, base : Version, saw : Version]
RequestType ==
  CreateType \cup LoadedType \cup LeasedType \cup ClarifyType \cup EscalationType
    \cup EditType \cup SignType

ASSUME NoRequestAssumption ==
  None \notin RequestType \cup [label : Label, locked : BOOLEAN] \cup [version : Version, label : Label]

FlowTypeOK ==
  /\ stage \in [LeaseKey -> {"pending", "running", "done", "partial", "failed"}]
  /\ leased \in [LeaseKey -> BOOLEAN]
  /\ meta \in Meta
  /\ clarify \in {"none", "open", "answered", "skipped"}
  /\ closed \in BOOLEAN /\ pending \in BOOLEAN
  /\ screen \in Verdict /\ rescreened \in BOOLEAN
  /\ built \in Outcome /\ notes \in Outcome
  /\ page \in [Person -> [version : Version, label : Label] \cup {None}]
  /\ req \in [Request -> RequestType \cup {None}]

(* Only one request at a time spends model calls on a step of the run, or   *)
(* on a revision of it (lease_pr_step), also when requests die.             *)
OneWorksOnAStep ==
  \A s \in LeaseKey, r1, r2 \in Request : WorksOn(r1, s) /\ WorksOn(r2, s) => r1 = r2

(* A screen's decision to escalate, once saved, has raised the escalation:  *)
(* it is open, or a person cleared it (clarify, _do_screen). The exceptions *)
(* are create_run, which saves its decision before the checkpoint that      *)
(* raises, and may never get to it, and a screen that runs again over an    *)
(* intake another request has checkpointed: its own decision raises nothing.*)
EscalationIsFlagged ==
  screen = "escalate" /\ Stored("intake") /\ ~rescreened => escalation # "none"

(* No draft exists of a story that no screen has judged, and none while the *)
(* screen is owed: its intake was checkpointed by the request that screened *)
(* it, or, while create_run is on its way there or was cut short, stands    *)
(* with create_run's own decision in the flow.                              *)
NoUnscreenedDraft == latest # 0 /\ ~Stored("intake") => ~pending /\ screen # "none"

(* Sign-offs stand only on a version that was sent for review: the lock a   *)
(* sign-off was checked against, and the version it is recorded on in a     *)
(* later transaction, are of the same version.                              *)
SignedOnlyInReview == (\E r \in Role : signoffs[r] # None) => CurrentLocked

(* Whoever signs, approves or edits acts on the version they had open: the  *)
(* label a request names stands for the version that was on the screen.     *)
ActsOnWhatWasSeen ==
  \A r \in Request :
    ~Free(r) /\ req[r].kind \in {"approve", "reject", "revise", "verify", "send"}
      => req[r].saw = req[r].base

(* A version keeps the label and the lock it was given, whichever request   *)
(* rewrites the list of versions.                                           *)
LabelsAreStable ==
  [][\A v \in Version : meta[v] # None =>
       /\ LabelOf(v)' = LabelOf(v)
       /\ meta[v].locked => meta'[v] # None /\ meta'[v].locked]_vars

(* No lease is for ever: whatever dies, a step that is being worked on      *)
(* becomes free for another attempt. Requests end by their deadline, and    *)
(* leases run out.                                                          *)
LeaseIsGivenBack == \A s \in LeaseKey : Alive(s) ~> ~Alive(s)

=============================================================================
