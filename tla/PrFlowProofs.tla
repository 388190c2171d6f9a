---------------------------- MODULE PrFlowProofs ----------------------------
(***************************************************************************)
(* The requests of the PR Writer implement the store's run: whatever their *)
(* number, their interleaving and the places where they die, they only     *)
(* ever take steps of PrRun. What PrRunProofs proves of the store then     *)
(* holds of the service. Beyond that:                                      *)
(*   - what a request carries is typed by its place in its handler         *)
(*     (FlowTypeCorrect), and who works on a step holds its lease          *)
(*     (WorkCorrect);                                                      *)
(*   - labels do not change (LabelsCorrect), and sign-offs stand on        *)
(*     versions in review (SignedCorrect);                                 *)
(*   - nothing is drafted of a story no screen judged (IntakeCorrect), and *)
(*     escalations are flagged, but for the exceptions EscalationIsFlagged *)
(*     names (EscalationCorrect).                                          *)
(***************************************************************************)
EXTENDS PrFlow, PrRunProofs

(* Each write below is one transaction of PrRun with arguments it accepts:  *)
(* a person or the owner on the run, a status the pipeline may set, and a   *)
(* version that exists.                                                     *)
LEMMA CompleteStepSimulated ==
  ASSUME TypeOK, NEW u, NEW s \in Step, NEW st \in PipelineStatus \cup {None},
         NEW e \in BOOLEAN, CompleteStep(u, s, st, e)
  PROVE  Next
<1>1. u \in Actor
  BY DEF CompleteStep, MayBuild, TypeOK
<1>2. PipelineWrites(u)
  BY DEF PipelineWrites
<1>3. QED
  BY <1>1, <1>2 DEF Next

(* A version saved by a request is CreateVersion of the store. *)
LEMMA CreateVersionSimulated ==
  ASSUME TypeOK, NEW u, NEW v, NEW c \in Content, NEW s \in Step \cup {None},
         CreateVersion(u, v, c, s)
  PROVE  Next
<1>1. u \in Actor
  BY DEF CreateVersion, MayBuild, TypeOK
<1>2. v \in Version
  BY DEF CreateVersion, IsNextVersion, TypeOK, Version
<1>3. PipelineWrites(u)
  BY <1>2 DEF PipelineWrites
<1>4. QED
  BY <1>1, <1>3 DEF Next

(* What people decide goes to the store as one of its transactions. *)
LEMMA HumanWriteSimulated ==
  ASSUME TypeOK, NEW a, NEW v, NEW role,
         \/ NoteEvent(a)
         \/ FlagEscalation(a)
         \/ ClearEscalation(a)
         \/ Reject(role, a, v)
         \/ ApproveReview(role, a, v)
         \/ ApproveFinal(a, v)
  PROVE  Next
<1>1. a \in Actor
  BY DEF NoteEvent, FlagEscalation, ClearEscalation, Reject, ApproveReview, ApproveFinal,
         RecordSignoff, MayRecord, TypeOK, Actor
<1>2. CASE NoteEvent(a) \/ FlagEscalation(a) \/ ClearEscalation(a)
  BY <1>1, <1>2, Zenon DEF HumanWrites, Next
<1>3. CASE Reject(role, a, v) \/ ApproveReview(role, a, v) \/ ApproveFinal(a, v)
  <2>1. MayRecord(a, v)
    BY <1>3 DEF Reject, ApproveReview, ApproveFinal, RecordSignoff
  <2>2. v \in Version
    BY <2>1 DEF MayRecord, TypeOK, Version
  <2>3. CASE Reject(role, a, v) \/ ApproveReview(role, a, v)
    <3>1. role \in Role
      BY <2>3 DEF Reject, ApproveReview, RecordSignoff
    <3>2. QED
      BY <1>1, <2>2, <2>3, <3>1, Zenon DEF HumanWrites, Next
  <2>4. CASE ApproveFinal(a, v)
    BY <1>1, <2>2, <2>4, Zenon DEF HumanWrites, Next
  <2>5. QED
    BY <1>3, <2>3, <2>4
<1>4. QED
  BY <1>2, <1>3

(* Every step of a request, or of the clock, is a step of the store's run or *)
(* leaves it as it was.                                                      *)
LEMMA RequestStepSimulated ==
  ASSUME TypeOK, NEW r \in Request, Proceed(r)
  PROVE  Next \/ UNCHANGED prVars
<1> USE DEF flowVars
<1>1. CASE CreateFlow(r) \/ FailCreate(r)
  BY <1>1 DEF CreateFlow, FailCreate
<1>2. CASE CreateIntake(r)
  <2> DEFINE st == IntakeStatus(req[r].card = "open")
  <2>1. CompleteStep(Owner, "intake", st, req[r].decision = "escalate")
    BY <1>2 DEF CreateIntake
  <2>2. st \in PipelineStatus
    BY DEF IntakeStatus, PipelineStatus
  <2>3. (req[r].decision = "escalate") \in BOOLEAN /\ "intake" \in Step
    BY StoredStepsAssumption
  <2> HIDE DEF st
  <2>4. QED
    BY <2>1, <2>2, <2>3, CompleteStepSimulated
<1>3. CASE StoreScreen(r)
  <2>1. PICK e \in BOOLEAN :
          CompleteStep(Owner, "intake", IntakeStatus(req[r].cardOpen), e)
    BY <1>3 DEF StoreScreen
  <2>2. IntakeStatus(req[r].cardOpen) \in PipelineStatus /\ "intake" \in Step
    BY StoredStepsAssumption DEF IntakeStatus, PipelineStatus
  <2>3. QED
    BY <2>1, <2>2, CompleteStepSimulated
<1>4. CASE \E x \in Step : StoreStep(r, x)
  <2> PICK x \in Step : StoreStep(r, x)
    BY <1>4
  <2> DEFINE st == IF x = "research" THEN "in_progress" ELSE None
  <2>1. CompleteStep(Owner, x, st, FALSE) /\ st \in PipelineStatus \cup {None}
    BY DEF StoreStep, PipelineStatus
  <2> HIDE DEF st
  <2>2. QED
    BY <2>1, CompleteStepSimulated
<1>5. CASE StoreFirstDraft(r)
  <2>1. PICK c \in Content : CreateVersion(Owner, 1, c, "fact_check")
    BY <1>5 DEF StoreFirstDraft
  <2>2. QED
    BY <2>1, StoredStepsAssumption, CreateVersionSimulated
<1>6. CASE WriteVersion(r)
  <2>1. PICK c \in Content : CreateVersion(req[r].by, req[r].base + 1, c, None)
    BY <1>6 DEF WriteVersion
  <2>2. QED
    BY <2>1, CreateVersionSimulated
<1>7. CASE FlagClarify(r) \/ SaveClarify(r) \/ Clear(r) \/ Close(r)
  <2>1. \/ FlagEscalation(Owner) \/ NoteEvent(Owner) \/ ClearEscalation(Holder[LegalRole])
        \/ UNCHANGED prVars
    BY <1>7 DEF FlagClarify, SaveClarify, Clear, Close
  <2>2. QED
    BY <2>1, HumanWriteSimulated
<1>8. CASE Sign(r)
  <2>1. \/ Reject(req[r].role, req[r].by, req[r].base)
        \/ ApproveReview(req[r].role, req[r].by, req[r].base)
        \/ ApproveFinal(req[r].by, req[r].base)
    BY <1>8 DEF Sign
  <2>2. QED
    BY <2>1, HumanWriteSimulated
<1>9. CASE \/ LeaseStep(r) \/ LeaseRevise(r) \/ WriteLabel(r) \/ FailEdit(r)
           \/ ReleaseRevise(r) \/ SignRefused(r) \/ \E x \in Step : SkipStored(r, x)
  BY <1>9 DEF LeaseStep, LeaseRevise, WriteLabel, FailEdit, ReleaseRevise, SignRefused, SkipStored
<1>10. CASE \/ FinishScreen(r) \/ FinishPackage(r) \/ FinishNotes(r)
            \/ \E s \in RunStep : FinishBuild(r, s) \/ FailStep(r, s)
  BY <1>10 DEF FinishScreen, FinishPackage, FinishNotes, FinishBuild, FailStep, Finish
<1>11. QED
  BY <1>1, <1>2, <1>3, <1>4, <1>5, <1>6, <1>7, <1>8, <1>9, <1>10 DEF Proceed

(* Every step of the service is a step of the store, or leaves the run *)
(* document alone.                                                     *)
LEMMA StepSimulated ==
  ASSUME TypeOK, [FlowNext]_vars
  PROVE  [Next]_prVars
<1>1. CASE \E r \in Request : Arrive(r)
  BY <1>1 DEF Arrive, LoadStep, LoadClarify, LoadEscalation, LoadEdit, LoadSign
<1>2. CASE \E r \in Request : Proceed(r)
  BY <1>2, RequestStepSimulated
<1>3. CASE \/ \E r \in Request : Crash(r)
           \/ \E s \in LeaseKey : Lapse(s)
           \/ \E p \in Person : Open(p)
           \/ UNCHANGED vars
  BY <1>3 DEF Crash, Lapse, Open, vars
<1>4. QED
  BY <1>1, <1>2, <1>3 DEF FlowNext

(* The service implements the store's run (PrRun): every behaviour of its    *)
(* requests, with crashes and lapsed leases, is one of Spec.                 *)
THEOREM FlowImplementsRun == FlowSpec => Spec
<1>1. FlowInit => Init /\ TypeOK
  BY InitTypeCorrect DEF FlowInit
<1>2. TypeOK /\ [FlowNext]_vars => TypeOK' /\ [Next]_prVars
  BY StepSimulated, StepKeepsType
<1>3. QED
  BY <1>1, <1>2, PTL DEF FlowSpec, Spec

(* So nothing the requests do, in whatever order, approves a run that does   *)
(* not meet every condition of approval, or changes an approved one.         *)
THEOREM FlowApprovesSoundly == FlowSpec => []ApprovedIsSound
  BY FlowImplementsRun, ApprovedCorrect, PTL

-----------------------------------------------------------------------------
(* Types: what a request knows is told by its kind, and by where it is. *)
LEMMA KindTypes ==
  ASSUME FlowTypeOK, NEW r \in Request, ~Free(r)
  PROVE  /\ req[r].kind = "create" => req[r] \in CreateType
         /\ req[r].kind = "step" /\ req[r].at = "loaded" => req[r] \in LoadedType
         /\ req[r].kind = "step" /\ req[r].at = "leased" => req[r] \in LeasedType
         /\ req[r].kind = "step" => req[r].step \in RunStep /\ req[r].at \in {"loaded", "leased"}
         /\ req[r].kind = "clarify" => req[r] \in ClarifyType
         /\ req[r].kind \in {"revise", "verify", "send"} => req[r] \in EditType
         /\ req[r].kind \in {"approve", "reject"} => req[r] \in SignType
<1>1. req[r] \in RequestType
  BY DEF FlowTypeOK, Free
<1>2. QED
  BY <1>1 DEF RequestType, CreateType, LoadedType, LeasedType, ClarifyType, EscalationType,
              EditType, SignType

(* A slot that is given a request of some kind, or emptied. *)
LEMMA SlotType ==
  ASSUME FlowTypeOK, NEW r \in Request, NEW q \in RequestType \cup {None},
         req' = [req EXCEPT ![r] = q]
  PROVE  /\ req' \in [Request -> RequestType \cup {None}]
         /\ req'[r] = q
         /\ \A x \in Request \ {r} : req'[x] = req[x]
BY DEF FlowTypeOK

(* A request that ends leaves the others as they are. *)
LEMMA EndType ==
  ASSUME FlowTypeOK, NEW r \in Request, End(r)
  PROVE  /\ req' \in [Request -> RequestType \cup {None}]
         /\ req'[r] = None
         /\ \A x \in Request \ {r} : req'[x] = req[x]
BY SlotType DEF End

(* Labels of versions are labels, and so are the ones that follow them. *)
LEMMA LabelTypes ==
  ASSUME FlowTypeOK, NEW v \in Version
  PROVE  /\ LabelOf(v) \in Label
         /\ \A l \in Label : NextMinor(l) \in Label /\ NextMajor(l) \in Label
         /\ \A l \in Label, lk \in BOOLEAN :
              Entry(l, lk) \in [label : Label, locked : BOOLEAN]
<1>1. v \in Nat
  BY DEF Version
<1>2. LabelOf(v) \in Label
  BY <1>1 DEF LabelOf, FlowTypeOK, Meta, Label
<1>3. QED
  BY <1>2 DEF NextMinor, NextMajor, Entry, Label

(* What a step still has to store is a list of the store's steps. *)
LEMMA TodoType ==
  ASSUME NEW s \in RunStep
  PROVE  Todo(s) \in Seq(Step)
<1>1. \A x \in {"research", "angle", "draft", "qa"} : Missing(x) \in Seq(Step)
  BY StoredStepsAssumption DEF Missing
<1>2. <<"intake">> \in Seq(Step) /\ <<"fact_check">> \in Seq(Step) /\ <<>> \in Seq(Step)
  BY StoredStepsAssumption
<1>3. \A x, y \in Seq(Step) : x \o y \in Seq(Step)
  OBVIOUS
<1>4. s \in {"screen", "research", "draft", "package", "notes"}
  BY DEF RunStep, StepIds
<1>5. QED
  BY <1>1, <1>2, <1>3, <1>4 DEF Todo

(* A request's own variables keep their types, action by action; what the    *)
(* actions do to the stored run is TypeOK's affair.                          *)
LEMMA ArriveKeepsType ==
  ASSUME TypeOK, FlowTypeOK, NEW r \in Request, Arrive(r)
  PROVE  FlowTypeOK'
<1>1. PICK q \in RequestType : req' = [req EXCEPT ![r] = q]
  <2>1. CASE \E s \in RunStep : LoadStep(r, s)
    <3>1. PICK s \in RunStep :
            req' = [req EXCEPT ![r] = [kind |-> "step", step |-> s, at |-> "loaded"]]
      BY <2>1 DEF LoadStep
    <3>2. [kind |-> "step", step |-> s, at |-> "loaded"] \in LoadedType
      BY DEF LoadedType
    <3>3. QED
      BY <3>1, <3>2 DEF RequestType
  <2>2. CASE LoadClarify(r)
    <3>1. PICK d \in {"none", "safe", "escalate"} :
            req' = [req EXCEPT ![r] = [kind |-> "clarify", decision |-> d, at |-> ClarifyStarts(d)]]
      BY <2>2 DEF LoadClarify
    <3>2. [kind |-> "clarify", decision |-> d, at |-> ClarifyStarts(d)] \in ClarifyType
      BY DEF ClarifyType, ClarifyStarts, Verdict
    <3>3. QED
      BY <3>1, <3>2 DEF RequestType
  <2>3. CASE LoadEscalation(r)
    <3>1. PICK k \in {"clear", "close"} : req' = [req EXCEPT ![r] = [kind |-> k]]
      BY <2>3 DEF LoadEscalation
    <3>2. [kind |-> k] \in EscalationType
      BY DEF EscalationType
    <3>3. QED
      BY <3>1, <3>2 DEF RequestType
  <2>4. CASE \E p \in Person : LoadEdit(r, p)
    <3> PICK p \in Person : LoadEdit(r, p)
      BY <2>4
    <3>1. latest \in Version /\ page[p].version \in Version
      <4>1. latest \in 1 .. VersionsCap - 1 /\ page[p] # None
        BY DEF LoadEdit, Editable, HasCurrentOpen
      <4>2. page[p] \in [version : Version, label : Label]
        BY <4>1 DEF FlowTypeOK
      <4>3. QED
        BY <4>1, <4>2, CapsAssumption DEF Version
    <3>2. ASSUME NEW k \in {"revise", "verify", "send"}, NEW l \in Label, NEW lk \in BOOLEAN
          PROVE  EditRequest(p, k, l, lk) \in EditType
      BY <3>1 DEF EditRequest, EditType
    <3>3. NextMinor(LabelOf(latest)) \in Label /\ NextMajor(LabelOf(latest)) \in Label
      BY <3>1, LabelTypes
    <3>4. \/ \E k \in {"revise", "verify"} :
               req' = [req EXCEPT ![r] = EditRequest(p, k, NextMinor(LabelOf(latest)), FALSE)]
          \/ req' = [req EXCEPT ![r] = EditRequest(p, "send", NextMajor(LabelOf(latest)), TRUE)]
      BY DEF LoadEdit
    <3>5. QED
      BY <3>2, <3>3, <3>4 DEF RequestType
  <2>5. CASE \E p \in Person : LoadSign(r, p)
    <3> PICK p \in Person : LoadSign(r, p)
      BY <2>5
    <3>1. latest \in Version /\ page[p].version \in Version
      <4>1. latest # 0 /\ page[p] # None
        BY DEF LoadSign, MaySign, CurrentLocked, HasCurrentOpen
      <4>2. page[p] \in [version : Version, label : Label]
        BY <4>1 DEF FlowTypeOK
      <4>3. QED
        BY <4>1, <4>2 DEF TypeOK, Version
    <3>2. ASSUME NEW k \in {"approve", "reject"}, NEW role \in Role
          PROVE  SignRequest(p, k, role) \in SignType
      BY <3>1 DEF SignRequest, SignType
    <3>3. \E k \in {"approve", "reject"}, role \in Role :
            req' = [req EXCEPT ![r] = SignRequest(p, k, role)]
      BY DEF LoadSign, Role
    <3>4. QED
      BY <3>2, <3>3 DEF RequestType
  <2>6. QED
    BY <2>1, <2>2, <2>3, <2>4, <2>5 DEF Arrive
<1>2. req' \in [Request -> RequestType \cup {None}]
  BY <1>1, SlotType
<1>3. UNCHANGED <<flowVars, page, rescreened>>
  BY DEF Arrive, LoadStep, LoadClarify, LoadEscalation, LoadEdit, LoadSign
<1>4. QED
  BY <1>2, <1>3 DEF FlowTypeOK, flowVars

(* Types, handler by handler: the leases; *)
LEMMA LeaseKeepsType ==
  ASSUME TypeOK, FlowTypeOK, NEW r \in Request, LeaseStep(r) \/ LeaseRevise(r)
  PROVE  FlowTypeOK'
<1>1. CASE LeaseStep(r)
  <2> DEFINE s == req[r].step
             q == [kind |-> "step", step |-> s, at |-> "leased", todo |-> Todo(s),
                   cardOpen |-> clarify = "open", decision |-> "none", first |-> latest = 0,
                   built |-> built, notes |-> notes, meta |-> meta]
  <2>1. s \in RunStep
    BY <1>1, KindTypes DEF LeaseStep
  <2>2. q \in LeasedType
    BY <2>1, TodoType DEF LeasedType, FlowTypeOK, Verdict
  <2>3. req' = [req EXCEPT ![r] = q] \/ req' = [req EXCEPT ![r] = None]
    BY <1>1 DEF LeaseStep, End
  <2> HIDE DEF q
  <2>4. req' \in [Request -> RequestType \cup {None}]
    <3>1. q \in RequestType
      BY <2>2 DEF RequestType
    <3>2. QED
      BY <2>3, <3>1, SlotType
  <2> HIDE DEF s
  <2>5. /\ stage' = stage \/ stage' = [stage EXCEPT ![s] = "running"]
        /\ leased' = leased \/ leased' = [leased EXCEPT ![s] = TRUE]
        /\ UNCHANGED <<meta, clarify, closed, pending, screen, built, notes, page, rescreened>>
    BY <1>1 DEF LeaseStep, s
  <2>6. QED
    BY <2>4, <2>5 DEF FlowTypeOK
<1>2. CASE LeaseRevise(r)
  <2>1. req[r] \in EditType /\ ~Free(r)
    BY <1>2, KindTypes DEF LeaseRevise
  <2>2. \/ req' = [req EXCEPT ![r] = None]
        \/ \E a \in {"write", "release"} : req' = [req EXCEPT ![r] = [req[r] EXCEPT !.at = a]]
    BY <1>2 DEF LeaseRevise, Goto, End
  <2>3. \A a \in {"write", "release"} : [req[r] EXCEPT !.at = a] \in EditType
    BY <2>1 DEF EditType
  <2>4. req' \in [Request -> RequestType \cup {None}]
    <3>1. \A a \in {"write", "release"} : [req[r] EXCEPT !.at = a] \in RequestType
      BY <2>3 DEF RequestType
    <3>2. QED
      BY <2>2, <3>1, SlotType
  <2>5. /\ stage' = stage \/ stage' = [stage EXCEPT !["revise"] = "running"]
        /\ leased' = leased \/ leased' = [leased EXCEPT !["revise"] = TRUE]
        /\ UNCHANGED <<meta, clarify, closed, pending, screen, built, notes, page, rescreened>>
    BY <1>2 DEF LeaseRevise
  <2>6. QED
    BY <2>4, <2>5 DEF FlowTypeOK
<1>3. QED
  BY <1>1, <1>2

(* create_run, after its first write; *)
LEMMA CreateKeepsType ==
  ASSUME TypeOK, FlowTypeOK, NEW r \in Request, CreateFlow(r) \/ CreateIntake(r)
  PROVE  FlowTypeOK'
<1>1. req[r] \in CreateType
  BY KindTypes DEF CreateFlow, CreateIntake
<1>2. req' \in [Request -> RequestType \cup {None}]
  <2>1. \/ req' = [req EXCEPT ![r] = None]
        \/ req' = [req EXCEPT ![r] = [req[r] EXCEPT !.at = "intake"]]
    BY DEF CreateFlow, CreateIntake, Goto, End
  <2>2. [req[r] EXCEPT !.at = "intake"] \in CreateType
    BY <1>1 DEF CreateType
  <2>3. [req[r] EXCEPT !.at = "intake"] \in RequestType
    BY <2>2 DEF RequestType
  <2>4. QED
    BY <2>1, <2>3, SlotType
<1>3. CASE CreateFlow(r)
  <2>1. req[r].decision \in Verdict /\ req[r].card \in {"none", "open"}
    BY <1>1 DEF CreateType
  <2>2. stage' = [stage EXCEPT !["intake"] = "done",
                     !["screen"] = IF req[r].decision = "none" THEN "failed" ELSE "done"]
    BY <1>3 DEF CreateFlow
  <2>3. clarify' = req[r].card /\ pending' \in BOOLEAN /\ screen' = req[r].decision
    BY <1>3 DEF CreateFlow
  <2>4. UNCHANGED <<leased, meta, closed, built, notes, page, rescreened>>
    BY <1>3 DEF CreateFlow
  <2>5. stage' \in [LeaseKey -> {"pending", "running", "done", "partial", "failed"}]
    BY <2>2 DEF FlowTypeOK
  <2>6. QED
    BY <1>2, <2>1, <2>3, <2>4, <2>5 DEF FlowTypeOK
<1>4. CASE CreateIntake(r)
  BY <1>2, <1>4 DEF CreateIntake, flowVars, FlowTypeOK
<1>5. QED
  BY <1>3, <1>4

(* The list of what is to be stored gets shorter, and nothing else changes  *)
(* in a request but what it knows of the screen's decision.                 *)
LEMMA StoresShortens ==
  ASSUME FlowTypeOK, NEW r \in Request, NEW x, Stores(r, x)
  PROVE  /\ req[r] \in LeasedType /\ Next1(r) \in LeasedType
         /\ \A d \in Verdict : [Next1(r) EXCEPT !.decision = d] \in LeasedType
<1>1. req[r] \in LeasedType
  BY KindTypes DEF Stores
<1>2. req[r].todo \in Seq(Step) /\ req[r].todo # <<>>
  BY <1>1 DEF Stores, LeasedType
<1>3. Tail(req[r].todo) \in Seq(Step)
  BY <1>2
<1>4. Next1(r) \in LeasedType
  BY <1>1, <1>3 DEF Next1, LeasedType
<1>5. \A d \in Verdict : [Next1(r) EXCEPT !.decision = d] \in LeasedType
  BY <1>4 DEF LeasedType
<1>6. QED
  BY <1>1, <1>4, <1>5

(* The runners' calls of the store touch nothing but the request. *)
StoreCall(r) ==
  \/ StoreScreen(r) \/ StoreFirstDraft(r)
  \/ \E x \in Step : StoreStep(r, x) \/ SkipStored(r, x)

(* A write of a step to the store takes that write off the request's list *)
(* and may record a verdict.                                              *)
LEMMA StoreCallShortens ==
  ASSUME FlowTypeOK, NEW r \in Request, StoreCall(r)
  PROVE  /\ \E x : Stores(r, x)
         /\ \/ req' = [req EXCEPT ![r] = Next1(r)]
            \/ \E d \in Verdict : req' = [req EXCEPT ![r] = [Next1(r) EXCEPT !.decision = d]]
         /\ UNCHANGED <<flowVars, page>>
         /\ rescreened => rescreened'
         /\ rescreened \in BOOLEAN => rescreened' \in BOOLEAN
<1>1. CASE StoreScreen(r)
  <2>1. PICK e \in BOOLEAN :
          req' = [req EXCEPT ![r] = [Next1(r) EXCEPT !.decision = IF e THEN "escalate" ELSE "safe"]]
    BY <1>1 DEF StoreScreen
  <2>2. (IF e THEN "escalate" ELSE "safe") \in Verdict
    BY DEF Verdict
  <2>3. QED
    BY <1>1, <2>1, <2>2 DEF StoreScreen
<1>2. CASE StoreFirstDraft(r)
  BY <1>2 DEF StoreFirstDraft
<1>3. CASE \E x \in Step : StoreStep(r, x)
  BY <1>3 DEF StoreStep
<1>4. CASE \E x \in Step : SkipStored(r, x)
  <2> PICK x \in Step : SkipStored(r, x)
    BY <1>4
  <2>1. CASE x = "intake"
    <3>1. PICK d \in {"safe", "escalate"} :
            req' = [req EXCEPT ![r] = [Next1(r) EXCEPT !.decision = d]]
      BY <2>1 DEF SkipStored
    <3>2. QED
      BY <3>1 DEF SkipStored, Verdict
  <2>2. CASE x # "intake"
    <3>1. req' = [req EXCEPT ![r] = Next1(r)]
      BY <2>2 DEF SkipStored
    <3>2. QED
      BY <3>1 DEF SkipStored
  <2>3. QED
    BY <2>1, <2>2
<1>5. QED
  BY <1>1, <1>2, <1>3, <1>4 DEF StoreCall

(* Types: the writes of the steps; *)
LEMMA StoreCallKeepsType ==
  ASSUME TypeOK, FlowTypeOK, NEW r \in Request, StoreCall(r)
  PROVE  FlowTypeOK'
<1>1. Next1(r) \in RequestType
      /\ \A d \in Verdict : [Next1(r) EXCEPT !.decision = d] \in RequestType
  BY StoreCallShortens, StoresShortens DEF RequestType
<1>2. req' \in [Request -> RequestType \cup {None}]
  BY <1>1, StoreCallShortens, SlotType
<1>3. QED
  BY <1>2, StoreCallShortens DEF FlowTypeOK, flowVars

(* A step that ends gives its lease back with an outcome; only the screen    *)
(* touches what the run remembers of the screen, only the round that wrote   *)
(* the first draft touches the labels, and either has stored what it had to. *)
FinishCall(r) ==
  \/ FinishScreen(r) \/ FinishPackage(r) \/ FinishNotes(r)
  \/ \E s \in RunStep : FinishBuild(r, s) \/ FailStep(r, s)

ScreenSaved(r) ==
  req[r].decision # "none" /\ req[r].todo = <<>> /\ pending' = FALSE /\ screen' = req[r].decision
FirstLabelled(r) ==
  /\ req[r].first /\ req[r].todo = <<>>
  /\ meta' = [req[r].meta EXCEPT ![1] = Entry(<<0, 1>>, FALSE)]
Ends(r, s, o) ==
  /\ Finish(r, s, o)
  /\ s = "screen" /\ o = "done" => req[r].todo = <<>>
  /\ UNCHANGED <<pending, screen>> \/ (s = "screen" /\ ScreenSaved(r))
  /\ meta' = meta \/ (s = "package" /\ FirstLabelled(r))

(* A step that finishes records its outcome, gives back its lease and ends. *)
LEMMA FinishEnds ==
  ASSUME FlowTypeOK, NEW r \in Request, FinishCall(r)
  PROVE  /\ \E s \in RunStep, o \in {"done", "partial", "failed"} : Ends(r, s, o)
         /\ built' \in Outcome /\ notes' \in Outcome
<1> {"screen", "package", "notes"} \subseteq RunStep
  BY DEF RunStep, StepIds
<1>1. ASSUME NEW s, NEW o, Finish(r, s, o)
      PROVE  req[r].built \in Outcome /\ req[r].notes \in Outcome
  BY <1>1, KindTypes DEF Finish, Working, LeasedType
<1>2. CASE FinishScreen(r)
  BY <1>2 DEF FinishScreen, Ends, ScreenSaved, FlowTypeOK
<1>3. CASE FinishPackage(r)
  <2>1. PICK b \in Sections(r) :
          /\ Finish(r, "package", IF b = "done" THEN "done" ELSE "partial")
          /\ built' = b /\ notes' = req[r].notes
    BY <1>3 DEF FinishPackage
  <2>2. b \in {"failed", "done"}
    BY DEF Sections
  <2>3. UNCHANGED <<pending, screen>> /\ (meta' = meta \/ FirstLabelled(r))
    BY <1>3 DEF FinishPackage, FirstLabelled
  <2>4. PICK o \in {"done", "partial", "failed"} : Finish(r, "package", o)
    BY <2>1
  <2>5. Ends(r, "package", o)
    BY <2>3, <2>4 DEF Ends
  <2>6. QED
    BY <1>1, <2>1, <2>2, <2>5 DEF Outcome
<1>4. CASE FinishNotes(r)
  <2>1. PICK n \in {"done", "failed"} : Finish(r, "notes", n) /\ notes' = n
    BY <1>4 DEF FinishNotes
  <2>2. Ends(r, "notes", n)
    BY <1>4, <2>1 DEF FinishNotes, Ends
  <2>3. QED
    BY <1>1, <1>4, <2>1, <2>2 DEF FinishNotes, Outcome
<1>5. CASE \E s \in RunStep : FinishBuild(r, s)
  BY <1>5 DEF FinishBuild, Ends, FlowTypeOK
<1>6. CASE \E s \in RunStep : FailStep(r, s)
  <2> PICK s \in RunStep : FailStep(r, s)
    BY <1>6
  <2>1. Ends(r, s, "failed")
    BY DEF FailStep, Ends
  <2>2. built' \in {"failed", "done", req[r].built, built} /\ notes' \in {notes, req[r].notes}
    BY DEF FailStep, Sections
  <2>3. built \in Outcome /\ notes \in Outcome
    BY DEF FlowTypeOK
  <2>4. req[r].built \in Outcome /\ req[r].notes \in Outcome
    BY <1>1 DEF FailStep
  <2>5. QED
    BY <2>1, <2>2, <2>3, <2>4 DEF Outcome
<1>7. QED
  BY <1>2, <1>3, <1>4, <1>5, <1>6 DEF FinishCall

(* Types: the ends of the steps; *)
LEMMA FinishKeepsType ==
  ASSUME TypeOK, FlowTypeOK, NEW r \in Request, FinishCall(r)
  PROVE  FlowTypeOK'
<1> PICK s \in RunStep, o \in {"done", "partial", "failed"} : Ends(r, s, o)
  BY FinishEnds
<1>1. req[r] \in LeasedType
  BY KindTypes DEF Ends, Finish, Working
<1>2. meta' \in Meta
  <2>1. CASE meta' = meta
    BY <2>1 DEF FlowTypeOK
  <2>2. CASE FirstLabelled(r)
    <3>1. Entry(<<0, 1>>, FALSE) \in [label : Label, locked : BOOLEAN]
      BY DEF Entry, Label
    <3>2. req[r].meta \in Meta
      BY <1>1 DEF LeasedType
    <3>3. meta' = [req[r].meta EXCEPT ![1] = Entry(<<0, 1>>, FALSE)]
      BY <2>2 DEF FirstLabelled
    <3>4. QED
      BY <3>1, <3>2, <3>3 DEF Meta
  <2>3. QED
    BY <2>1, <2>2 DEF Ends
<1>3. pending' \in BOOLEAN /\ screen' \in Verdict
  BY <1>1 DEF Ends, ScreenSaved, LeasedType, FlowTypeOK
<1>4. req' \in [Request -> RequestType \cup {None}]
  BY EndType DEF Ends, Finish
<1>5. /\ stage' = [stage EXCEPT ![s] = o]
      /\ leased' = [leased EXCEPT ![s] = FALSE]
      /\ UNCHANGED <<clarify, closed, page, rescreened>>
  BY DEF Ends, Finish
<1>6. built' \in Outcome /\ notes' \in Outcome
  BY FinishEnds
<1>7. QED
  BY <1>2, <1>3, <1>4, <1>5, <1>6 DEF FlowTypeOK

(* what people decide; *)
LEMMA PersonKeepsType ==
  ASSUME TypeOK, FlowTypeOK, NEW r \in Request,
         FlagClarify(r) \/ SaveClarify(r) \/ Clear(r) \/ Close(r) \/ Sign(r) \/ SignRefused(r)
  PROVE  FlowTypeOK'
<1>1. CASE FlagClarify(r)
  <2>1. [req[r] EXCEPT !.at = "save"] \in ClarifyType
    BY <1>1, KindTypes DEF FlagClarify, ClarifyType
  <2>2. [req[r] EXCEPT !.at = "save"] \in RequestType
    BY <2>1 DEF RequestType
  <2>3. \/ req' = [req EXCEPT ![r] = None]
        \/ req' = [req EXCEPT ![r] = [req[r] EXCEPT !.at = "save"]]
    BY <1>1 DEF FlagClarify, Goto, End
  <2>4. req' \in [Request -> RequestType \cup {None}]
    BY <2>2, <2>3, SlotType
  <2>5. QED
    BY <1>1, <2>4 DEF FlagClarify, FlowTypeOK, flowVars
<1>2. CASE SaveClarify(r)
  <2>1. req[r].decision \in Verdict
    BY <1>2, KindTypes DEF SaveClarify, ClarifyType
  <2>2. /\ clarify' \in {clarify, "skipped", "answered"}
        /\ screen' \in {screen, req[r].decision}
        /\ End(r)
        /\ UNCHANGED <<stage, leased, meta, closed, pending, built, notes, page, rescreened>>
    BY <1>2 DEF SaveClarify
  <2>3. req' \in [Request -> RequestType \cup {None}]
    BY <2>2, EndType
  <2>4. QED
    BY <2>1, <2>2, <2>3 DEF FlowTypeOK
<1>3. CASE Close(r)
  <2>1. /\ closed' \in {closed, TRUE}
        /\ End(r)
        /\ UNCHANGED <<stage, leased, meta, clarify, pending, screen, built, notes, page, rescreened>>
    BY <1>3 DEF Close
  <2>2. req' \in [Request -> RequestType \cup {None}]
    BY <2>1, EndType
  <2>3. QED
    BY <2>1, <2>2 DEF FlowTypeOK
<1>4. CASE Clear(r) \/ Sign(r) \/ SignRefused(r)
  <2>1. End(r) /\ UNCHANGED <<flowVars, page, rescreened>>
    BY <1>4 DEF Clear, Sign, SignRefused
  <2>2. req' \in [Request -> RequestType \cup {None}]
    BY <2>1, EndType
  <2>3. QED
    BY <2>1, <2>2 DEF FlowTypeOK, flowVars
<1>5. QED
  BY <1>1, <1>2, <1>3, <1>4

(* An edit only moves on, or is over. *)
LEMMA EditMoves ==
  ASSUME FlowTypeOK, NEW r \in Request,
         WriteVersion(r) \/ WriteLabel(r) \/ FailEdit(r) \/ ReleaseRevise(r)
  PROVE  /\ req[r] \in EditType /\ ~Free(r)
         /\ \/ End(r)
            \/ \E a \in {"label", "release"} : req' = [req EXCEPT ![r] = [req[r] EXCEPT !.at = a]]
         /\ req' \in [Request -> RequestType \cup {None}]
<1>1. req[r] \in EditType /\ ~Free(r)
  BY KindTypes DEF WriteVersion, WriteLabel, FailEdit, ReleaseRevise, IsEdit
<1>2. \/ End(r)
      \/ \E a \in {"label", "release"} : req' = [req EXCEPT ![r] = [req[r] EXCEPT !.at = a]]
  BY DEF WriteVersion, WriteLabel, FailEdit, ReleaseRevise, EndEdit, Goto
<1>3. \A a \in {"label", "release"} : [req[r] EXCEPT !.at = a] \in EditType
  BY <1>1 DEF EditType
<1>4. \A a \in {"label", "release"} : [req[r] EXCEPT !.at = a] \in RequestType
  BY <1>3 DEF RequestType
<1>5. QED
  BY <1>1, <1>2, <1>4, SlotType, EndType

(* edits of a version; *)
LEMMA EditKeepsType ==
  ASSUME TypeOK, FlowTypeOK, NEW r \in Request,
         WriteVersion(r) \/ WriteLabel(r) \/ FailEdit(r) \/ ReleaseRevise(r)
  PROVE  FlowTypeOK'
<1>1. req' \in [Request -> RequestType \cup {None}]
  BY EditMoves
<1>2. CASE WriteVersion(r) \/ FailEdit(r)
  BY <1>1, <1>2 DEF WriteVersion, FailEdit, flowVars, FlowTypeOK
<1>3. CASE WriteLabel(r)
  <2>1. Entry(req[r].label, req[r].locked) \in [label : Label, locked : BOOLEAN]
    BY EditMoves DEF EditType, Entry
  <2>2. meta' = [meta EXCEPT ![req[r].base + 1] = Entry(req[r].label, req[r].locked)]
    BY <1>3 DEF WriteLabel
  <2>3. meta' \in Meta
    BY <2>1, <2>2 DEF Meta, FlowTypeOK
  <2>4. QED
    BY <1>1, <1>3, <2>3 DEF WriteLabel, FlowTypeOK
<1>4. CASE ReleaseRevise(r)
  BY <1>1, <1>4 DEF ReleaseRevise, FlowTypeOK
<1>5. QED
  BY <1>2, <1>3, <1>4

(* A request is cut short: it dies, or create_run's write fails. *)
Dies(r) == Crash(r) \/ FailCreate(r)

(* crashes, lapses and pages opened; *)
LEMMA OthersKeepType ==
  ASSUME TypeOK, FlowTypeOK,
         \/ \E r \in Request : Dies(r)
         \/ \E s \in LeaseKey : Lapse(s)
         \/ \E p \in Person : Open(p)
  PROVE  FlowTypeOK'
<1>1. CASE \E r \in Request : Dies(r)
  <2> PICK r \in Request : Dies(r)
    BY <1>1
  <2>1. req' \in [Request -> RequestType \cup {None}]
    BY EndType DEF Dies, Crash, FailCreate
  <2>2. QED
    BY <2>1 DEF Dies, Crash, FailCreate, flowVars, FlowTypeOK
<1>2. CASE \E s \in LeaseKey : Lapse(s)
  BY <1>2 DEF Lapse, FlowTypeOK
<1>3. CASE \E p \in Person : Open(p)
  <2> PICK p \in Person : Open(p)
    BY <1>3
  <2>1. latest \in Version
    BY DEF Open, TypeOK, Version
  <2>2. LabelOf(latest) \in Label
    BY <2>1, LabelTypes
  <2>3. page' \in [Person -> [version : Version, label : Label] \cup {None}]
    BY <2>1, <2>2 DEF Open, FlowTypeOK
  <2>4. QED
    BY <2>3 DEF Open, flowVars, FlowTypeOK
<1>4. QED
  BY <1>1, <1>2, <1>3

(* What a step of the service is, in the groups above. *)
LEMMA FlowStepCases ==
  ASSUME [FlowNext]_vars
  PROVE  \/ \E r \in Request :
              \/ Arrive(r) \/ CreateFlow(r) \/ CreateIntake(r) \/ LeaseStep(r) \/ LeaseRevise(r)
              \/ StoreCall(r) \/ FinishCall(r)
              \/ FlagClarify(r) \/ SaveClarify(r) \/ Clear(r) \/ Close(r)
              \/ Sign(r) \/ SignRefused(r)
              \/ WriteVersion(r) \/ WriteLabel(r) \/ FailEdit(r) \/ ReleaseRevise(r)
         \/ \E r \in Request : Dies(r)
         \/ \E s \in LeaseKey : Lapse(s)
         \/ \E p \in Person : Open(p)
         \/ UNCHANGED vars
BY Zenon DEF FlowNext, Proceed, StoreCall, FinishCall, Dies

(* and so every step. *)
LEMMA StepKeepsFlowType ==
  ASSUME TypeOK, FlowTypeOK, [FlowNext]_vars
  PROVE  FlowTypeOK'
<1>1. CASE UNCHANGED vars
  BY <1>1 DEF vars, flowVars, FlowTypeOK
<1>2. QED
  BY <1>1, FlowStepCases, ArriveKeepsType, LeaseKeepsType, CreateKeepsType, StoreCallKeepsType,
     FinishKeepsType, PersonKeepsType, EditKeepsType, OthersKeepType

(* A request holds only what its checks found: each field of every request   *)
(* and of the run's flow stays in its set.                                   *)
THEOREM FlowTypeCorrect == FlowSpec => []FlowTypeOK
<1>1. FlowInit => FlowTypeOK
  <2> SUFFICES ASSUME FlowInit PROVE FlowTypeOK
    OBVIOUS
  <2>1. PICK r \in Request, d \in FirstScreen, c \in Card :
          req = [x \in Request |->
                   IF x = r THEN [kind |-> "create", at |-> "flow", decision |-> d, card |-> c]
                   ELSE None]
    BY DEF FlowInit
  <2>2. [kind |-> "create", at |-> "flow", decision |-> d, card |-> c] \in CreateType
    BY IntakeAssumption DEF CreateType, Verdict
  <2>3. req \in [Request -> RequestType \cup {None}]
    BY <2>1, <2>2 DEF RequestType
  <2>4. QED
    BY <2>3 DEF FlowInit, FlowTypeOK, Meta, Verdict, Outcome
<1>2. TypeOK /\ FlowTypeOK /\ [FlowNext]_vars => FlowTypeOK'
  BY StepKeepsFlowType
<1>3. FlowSpec => []TypeOK
  BY FlowImplementsRun, TypeCorrect, PTL
<1>4. QED
  BY <1>1, <1>2, <1>3, PTL DEF FlowSpec

-----------------------------------------------------------------------------
(* Leases: while a request works on a step, the step is running under a      *)
(* live lease. It is what makes one lease one worker: a step is leased only  *)
(* when it is not alive, and a lease lapses only when nobody works on it.    *)
OfKind(r, k) == ~Free(r) /\ req[r].kind = k
AtFlow(r) == OfKind(r, "create") /\ req[r].at = "flow"
Starting == \E r \in Request : AtFlow(r)
NothingYet ==
  /\ stage = [s \in LeaseKey |-> "pending"]
  /\ clarify = "none" /\ ~pending /\ screen = "none"
  /\ latest = 0 /\ escalation = "none" /\ ~Stored("intake")
CreateFirst == \A r, x \in Request : AtFlow(r) => NothingYet /\ (x # r => Free(x))
WorkIsLeased == \A s \in LeaseKey, r \in Request : WorksOn(r, s) => Alive(s)
WorkInv == CreateFirst /\ WorkIsLeased /\ OneWorksOnAStep

(* A request that takes a step leaves the others where they are. *)
LEMMA OnlyItsSlot ==
  ASSUME FlowTypeOK, NEW r \in Request, Arrive(r) \/ Proceed(r) \/ Crash(r)
  PROVE  \A x \in Request \ {r} : req'[x] = req[x]
<1>1. ASSUME NEW q, req' = [req EXCEPT ![r] = q]
      PROVE  \A x \in Request \ {r} : req'[x] = req[x]
  BY <1>1 DEF FlowTypeOK
<1>2. CASE Arrive(r)
  <2>1. \E q : req' = [req EXCEPT ![r] = q]
    <3>1. CASE \E s \in RunStep : LoadStep(r, s)
      BY <3>1, Zenon DEF LoadStep
    <3>2. CASE LoadClarify(r)
      BY <3>2, Zenon DEF LoadClarify
    <3>3. CASE LoadEscalation(r)
      BY <3>3, Zenon DEF LoadEscalation
    <3>4. CASE \E p \in Person : LoadEdit(r, p)
      BY <3>4, Zenon DEF LoadEdit
    <3>5. CASE \E p \in Person : LoadSign(r, p)
      BY <3>5, Zenon DEF LoadSign
    <3>6. QED
      BY <1>2, <3>1, <3>2, <3>3, <3>4, <3>5, Zenon DEF Arrive
  <2>2. QED
    BY <1>1, <2>1
<1>3. CASE CreateFlow(r) \/ CreateIntake(r) \/ Crash(r) \/ FailCreate(r)
  BY <1>3 DEF CreateFlow, CreateIntake, Crash, FailCreate, End, Goto, FlowTypeOK
<1>4. CASE LeaseStep(r) \/ LeaseRevise(r)
  BY <1>4 DEF LeaseStep, LeaseRevise, End, Goto, FlowTypeOK
<1>5. CASE StoreCall(r)
  BY <1>5, StoreCallShortens DEF FlowTypeOK
<1>6. CASE FinishCall(r)
  BY <1>6, FinishEnds, EndType DEF Ends, Finish
<1>7. CASE FlagClarify(r) \/ SaveClarify(r) \/ Clear(r) \/ Close(r) \/ Sign(r) \/ SignRefused(r)
  BY <1>7 DEF FlagClarify, SaveClarify, Clear, Close, Sign, SignRefused, End, Goto, FlowTypeOK
<1>8. CASE WriteVersion(r) \/ WriteLabel(r) \/ FailEdit(r) \/ ReleaseRevise(r)
  BY <1>8, EditMoves, EndType DEF FlowTypeOK
<1>9. QED
  BY <1>2, <1>3, <1>4, <1>5, <1>6, <1>7, <1>8, Zenon DEF Proceed, StoreCall, FinishCall

(* What a request has just checked and read. *)
LEMMA ArriveReads ==
  ASSUME FlowTypeOK, NEW r \in Request, Arrive(r)
  PROVE  /\ UNCHANGED <<prVars, flowVars, page>>
         /\ \/ \E s \in RunStep :
                 req'[r] = [kind |-> "step", step |-> s, at |-> "loaded"] /\ LoadStep(r, s)
            \/ /\ LoadClarify(r)
               /\ req'[r].kind = "clarify"
               /\ req'[r].at = ClarifyStarts(req'[r].decision)
            \/ req'[r] = [kind |-> "clear"] \/ req'[r] = [kind |-> "close"]
            \/ \E p \in Person :
                 /\ Editable(p)
                 /\ \/ \E k \in {"revise", "verify"} :
                         req'[r] = EditRequest(p, k, NextMinor(LabelOf(latest)), FALSE)
                    \/ /\ req'[r] = EditRequest(p, "send", NextMajor(LabelOf(latest)), TRUE)
                       /\ PackageReady
            \/ \E p \in Person, role \in Role, k \in {"approve", "reject"} :
                 MaySign(p) /\ req'[r] = SignRequest(p, k, role)
<1>1. ASSUME NEW q, req' = [req EXCEPT ![r] = q]
      PROVE  req'[r] = q
  BY <1>1 DEF FlowTypeOK
<1>2. CASE \E s \in RunStep : LoadStep(r, s)
  BY <1>1, <1>2 DEF LoadStep
<1>3. CASE LoadClarify(r)
  <2>1. PICK d \in {"none", "safe", "escalate"} :
          req' = [req EXCEPT ![r] = [kind |-> "clarify", decision |-> d, at |-> ClarifyStarts(d)]]
    BY <1>3 DEF LoadClarify
  <2>2. req'[r] = [kind |-> "clarify", decision |-> d, at |-> ClarifyStarts(d)]
    BY <2>1, <1>1
  <2>3. UNCHANGED <<prVars, flowVars, page>>
    BY <1>3 DEF LoadClarify
  <2>4. QED
    BY <1>3, <2>2, <2>3
<1>4. CASE LoadEscalation(r)
  BY <1>1, <1>4 DEF LoadEscalation
<1>5. CASE \E p \in Person : LoadEdit(r, p)
  BY <1>1, <1>5, Zenon DEF LoadEdit
<1>6. CASE \E p \in Person : LoadSign(r, p)
  <2> PICK p \in Person : LoadSign(r, p)
    BY <1>6
  <2>1. \E role \in Role, k \in {"approve", "reject"} :
          req' = [req EXCEPT ![r] = SignRequest(p, k, role)]
    BY DEF LoadSign, Role
  <2>2. \E role \in Role, k \in {"approve", "reject"} : req'[r] = SignRequest(p, k, role)
    BY <2>1, <1>1
  <2>3. MaySign(p) /\ UNCHANGED <<prVars, flowVars, page>>
    BY DEF LoadSign
  <2>4. QED
    BY <2>2, <2>3
<1>7. QED
  BY <1>2, <1>3, <1>4, <1>5, <1>6, Zenon DEF Arrive

(* A run whose flow is not written yet lets no request past its checks.     *)
LEMMA NoneArrives ==
  ASSUME TypeOK, FlowTypeOK, WorkInv, NEW r \in Request, Arrive(r)
  PROVE  ~Starting
<1> SUFFICES ASSUME Starting PROVE FALSE
  OBVIOUS
<1>1. NothingYet
  BY DEF Starting, WorkInv, CreateFirst
<1>2. CASE \E s \in RunStep : LoadStep(r, s)
  <2> PICK s \in RunStep : LoadStep(r, s)
    BY <1>2
  <2>1. PICK i \in 2 .. 6 : s = StepIds[i]
    BY DEF RunStep
  <2>2. \A j \in 1 .. i - 1 : Passed(StepIds[j])
    BY <2>1 DEF LoadStep
  <2>3. Passed("intake")
    <3>1. StepIds[1] = "intake" /\ 1 \in 1 .. i - 1
      BY DEF StepIds
    <3>2. QED
      BY <2>2, <3>1
  <2>4. "intake" \in LeaseKey /\ stage["intake"] = "pending"
    BY <1>1 DEF NothingYet, LeaseKey, StepIds
  <2>5. QED
    BY <1>1, <2>3, <2>4 DEF Passed, StepFinished, NothingYet
<1>3. CASE LoadClarify(r) \/ LoadEscalation(r)
  BY <1>1, <1>3 DEF LoadClarify, LoadEscalation, EscalationOpen, NothingYet
<1>4. CASE \E p \in Person : LoadEdit(r, p) \/ LoadSign(r, p)
  BY <1>1, <1>4 DEF LoadEdit, LoadSign, Editable, MaySign, CurrentLocked, NothingYet
<1>5. QED
  BY <1>2, <1>3, <1>4, Zenon DEF Arrive

(* A step of one request keeps the leases right if it begins no work, starts *)
(* no run, and changes no step but one that nobody works on afterwards.      *)
LEMMA WorkFrame ==
  ASSUME WorkInv, NEW r \in Request,
         \A x \in Request \ {r} : req'[x] = req[x],
         ~Starting \/ ~Free(r),
         ~AtFlow(r)',
         \A s \in LeaseKey : WorksOn(r, s)' => WorksOn(r, s),
         \A s \in LeaseKey : \/ stage'[s] = stage[s] /\ leased'[s] = leased[s]
                             \/ \A x \in Request : ~WorksOn(x, s)'
  PROVE  WorkInv'
<1>1. \A x \in Request \ {r} : /\ AtFlow(x)' <=> AtFlow(x)
                               /\ \A s \in LeaseKey : WorksOn(x, s)' <=> WorksOn(x, s)
  BY DEF Free, OfKind, WorksOn, AtFlow
<1>2. CreateFirst'
  <2> SUFFICES ASSUME NEW x \in Request, AtFlow(x)' PROVE FALSE
    BY DEF CreateFirst
  <2>1. x # r /\ AtFlow(x)
    BY <1>1
  <2>2. Starting /\ Free(r)
    BY <2>1 DEF Starting, WorkInv, CreateFirst
  <2>3. QED
    BY <2>2
<1>3. \A s \in LeaseKey, x \in Request : WorksOn(x, s)' => WorksOn(x, s)
  BY <1>1
<1>4. WorkIsLeased'
  BY <1>3 DEF WorkInv, WorkIsLeased, Alive
<1>5. OneWorksOnAStep'
  BY <1>3 DEF WorkInv, OneWorksOnAStep
<1>6. QED
  BY <1>2, <1>4, <1>5 DEF WorkInv

(* A lease is taken on a step nobody works on. *)
LEMMA LeaseFrame ==
  ASSUME WorkInv, NEW r \in Request, NEW k \in LeaseKey,
         \A x \in Request \ {r} : req'[x] = req[x],
         ~Free(r), ~AtFlow(r), ~AtFlow(r)',
         ~Alive(k), Alive(k)',
         \A s \in LeaseKey \ {k} : ~WorksOn(r, s)' /\ stage'[s] = stage[s] /\ leased'[s] = leased[s]
  PROVE  WorkInv'
<1>1. \A x \in Request \ {r} : /\ AtFlow(x)' <=> AtFlow(x)
                               /\ \A s \in LeaseKey : WorksOn(x, s)' <=> WorksOn(x, s)
  BY DEF Free, OfKind, WorksOn, AtFlow
<1>2. CreateFirst'
  BY <1>1 DEF WorkInv, CreateFirst
<1>3. \A x \in Request : ~WorksOn(x, k)
  BY DEF WorkInv, WorkIsLeased
<1>4. WorkIsLeased'
  BY <1>1, <1>3 DEF WorkInv, WorkIsLeased, Alive
<1>5. OneWorksOnAStep'
  BY <1>1, <1>3 DEF WorkInv, OneWorksOnAStep
<1>6. QED
  BY <1>2, <1>4, <1>5 DEF WorkInv

(* Every step keeps it: a lease is taken only when it is free, and lapses *)
(* when nobody works under it.                                            *)
LEMMA StepKeepsWork ==
  ASSUME TypeOK, FlowTypeOK, WorkInv, [FlowNext]_vars
  PROVE  WorkInv'
<1>1. CASE \E r \in Request : Arrive(r)
  <2> PICK r \in Request : Arrive(r)
    BY <1>1
  <2>1. \A x \in Request \ {r} : req'[x] = req[x]
    BY OnlyItsSlot
  <2>2. ~Starting /\ UNCHANGED <<stage, leased>>
    BY ArriveReads, NoneArrives DEF flowVars
  <2>3. ~AtFlow(r)' /\ \A s \in LeaseKey : ~WorksOn(r, s)'
    <3>1. /\ req'[r].kind # "create"
          /\ req'[r].kind \in {"step", "revise"} => req'[r].at = "loaded"
      <4>1. \A p, k, l, lk : /\ EditRequest(p, k, l, lk).kind = k
                             /\ k = "revise" => EditRequest(p, k, l, lk).at = "loaded"
        BY DEF EditRequest
      <4>2. \A p, k, role : SignRequest(p, k, role).kind = k
        BY DEF SignRequest
      <4>3. CASE \E s \in RunStep : req'[r] = [kind |-> "step", step |-> s, at |-> "loaded"]
        BY <4>3
      <4>4. CASE req'[r].kind = "clarify" \/ req'[r] = [kind |-> "clear"] \/ req'[r] = [kind |-> "close"]
        BY <4>4
      <4>5. CASE \E p, k, l, lk :
                   req'[r] = EditRequest(p, k, l, lk) /\ k \in {"revise", "verify", "send"}
        BY <4>1, <4>5
      <4>6. CASE \E p, role, k :
                   req'[r] = SignRequest(p, k, role) /\ k \in {"approve", "reject"}
        BY <4>2, <4>6
      <4>7. QED
        BY ArriveReads, <4>3, <4>4, <4>5, <4>6, Zenon
    <3>2. QED
      BY <3>1 DEF AtFlow, OfKind, WorksOn
  <2>4. QED
    BY <2>1, <2>2, <2>3, WorkFrame
<1>2. CASE \E r \in Request : CreateFlow(r) \/ CreateIntake(r)
  <2> PICK r \in Request : CreateFlow(r) \/ CreateIntake(r)
    BY <1>2
  <2>1. \A x \in Request \ {r} : req'[x] = req[x]
    BY OnlyItsSlot DEF Proceed
  <2>2. OfKind(r, "create") /\ req[r] \in CreateType
    BY KindTypes DEF CreateFlow, CreateIntake, OfKind
  <2>3. req'[r] = None \/ req'[r] = [req[r] EXCEPT !.at = "intake"]
    BY DEF CreateFlow, CreateIntake, End, Goto, FlowTypeOK
  <2>4. ~AtFlow(r)' /\ \A s \in LeaseKey : ~WorksOn(r, s)'
    BY <2>2, <2>3 DEF AtFlow, OfKind, Free, WorksOn, CreateType
  <2>5. CASE CreateFlow(r)
    <3>1. AtFlow(r)
      BY <2>2, <2>5 DEF CreateFlow, AtFlow
    <3>2. \A x \in Request \ {r} : Free(x)
      BY <3>1 DEF WorkInv, CreateFirst
    <3>3. \A s \in LeaseKey, x \in Request : ~WorksOn(x, s)'
      BY <2>1, <2>4, <3>2 DEF WorksOn, Free
    <3>4. QED
      BY <2>1, <2>2, <2>4, <3>3, WorkFrame DEF OfKind
  <2>6. CASE CreateIntake(r)
    <3>1. UNCHANGED <<stage, leased>>
      BY <2>6 DEF CreateIntake, flowVars
    <3>2. QED
      BY <2>1, <2>2, <2>4, <3>1, WorkFrame DEF OfKind
  <2>7. QED
    BY <2>5, <2>6
<1>3. CASE \E r \in Request : LeaseStep(r)
  <2> PICK r \in Request : LeaseStep(r)
    BY <1>3
  <2>1. \A x \in Request \ {r} : req'[x] = req[x]
    BY OnlyItsSlot DEF Proceed
  <2>2. ~Free(r) /\ ~AtFlow(r) /\ req[r].kind = "step" /\ req[r].at = "loaded"
    BY DEF LeaseStep, AtFlow, OfKind
  <2>3. PICK k \in LeaseKey : k = req[r].step
    BY <2>2, KindTypes DEF RunStep, LeaseKey
  <2>4. CASE Takes(k)
    <3>1. req'[r].kind = "step" /\ req'[r].at = "leased" /\ req'[r].step = k
      BY <2>3, <2>4 DEF LeaseStep, FlowTypeOK
    <3>2. stage' = [stage EXCEPT ![k] = "running"] /\ leased' = [leased EXCEPT ![k] = TRUE]
      BY <2>3, <2>4 DEF LeaseStep
    <3>3. ~AtFlow(r)' /\ \A s \in LeaseKey \ {k} : ~WorksOn(r, s)'
      BY <3>1 DEF AtFlow, OfKind, WorksOn
    <3>4. ~Alive(k) /\ Alive(k)'
      BY <2>3, <2>4, <3>2 DEF Takes, Alive, FlowTypeOK
    <3>5. \A s \in LeaseKey \ {k} : stage'[s] = stage[s] /\ leased'[s] = leased[s]
      BY <3>2 DEF FlowTypeOK
    <3>6. QED
      BY <2>1, <2>2, <2>3, <3>3, <3>4, <3>5, LeaseFrame
  <2>5. CASE ~Takes(k)
    <3>1. req'[r] = None /\ UNCHANGED <<stage, leased>>
      BY <2>3, <2>5 DEF LeaseStep, End, FlowTypeOK
    <3>2. ~AtFlow(r)' /\ \A s \in LeaseKey : ~WorksOn(r, s)'
      BY <3>1 DEF AtFlow, OfKind, WorksOn, Free
    <3>3. QED
      BY <2>1, <2>2, <3>1, <3>2, WorkFrame
  <2>6. QED
    BY <2>4, <2>5
<1>4. CASE \E r \in Request : LeaseRevise(r)
  <2> PICK r \in Request : LeaseRevise(r)
    BY <1>4
  <2>1. \A x \in Request \ {r} : req'[x] = req[x]
    BY OnlyItsSlot DEF Proceed
  <2>2. ~Free(r) /\ ~AtFlow(r) /\ req[r] \in EditType /\ req[r].kind = "revise"
    BY KindTypes DEF LeaseRevise, AtFlow, OfKind
  <2>3. "revise" \in LeaseKey
    BY DEF LeaseKey
  <2>4. CASE Takes("revise")
    <3>1. \E a \in {"write", "release"} : req'[r] = [req[r] EXCEPT !.at = a]
      BY <2>4 DEF LeaseRevise, Goto, FlowTypeOK
    <3>2. req'[r].kind = "revise"
      BY <3>1, <2>2 DEF EditType
    <3>3. /\ stage' = [stage EXCEPT !["revise"] = "running"]
          /\ leased' = [leased EXCEPT !["revise"] = TRUE]
      BY <2>4 DEF LeaseRevise
    <3>4. ~AtFlow(r)' /\ \A s \in LeaseKey \ {"revise"} : ~WorksOn(r, s)'
      BY <3>2 DEF AtFlow, OfKind, WorksOn
    <3>5. ~Alive("revise") /\ Alive("revise")'
      BY <2>3, <2>4, <3>3 DEF Takes, Alive, FlowTypeOK
    <3>6. \A s \in LeaseKey \ {"revise"} : stage'[s] = stage[s] /\ leased'[s] = leased[s]
      BY <3>3 DEF FlowTypeOK
    <3>7. QED
      BY <2>1, <2>2, <2>3, <3>4, <3>5, <3>6, LeaseFrame
  <2>5. CASE ~Takes("revise")
    <3>1. req'[r] = None /\ UNCHANGED <<stage, leased>>
      BY <2>5 DEF LeaseRevise, End, FlowTypeOK
    <3>2. ~AtFlow(r)' /\ \A s \in LeaseKey : ~WorksOn(r, s)'
      BY <3>1 DEF AtFlow, OfKind, WorksOn, Free
    <3>3. QED
      BY <2>1, <2>2, <3>1, <3>2, WorkFrame
  <2>6. QED
    BY <2>4, <2>5
<1>5. CASE \E r \in Request : StoreCall(r)
  <2> PICK r \in Request : StoreCall(r)
    BY <1>5
  <2>1. \A x \in Request \ {r} : req'[x] = req[x]
    BY OnlyItsSlot, Zenon DEF Proceed, StoreCall
  <2>2. PICK x : Stores(r, x)
    BY StoreCallShortens
  <2>3. ~Free(r) /\ req[r] \in LeasedType
    BY <2>2, StoresShortens DEF Stores
  <2>4. req'[r] = Next1(r) \/ \E d \in Verdict : req'[r] = [Next1(r) EXCEPT !.decision = d]
    BY StoreCallShortens DEF FlowTypeOK
  <2>5. req'[r].kind = "step" /\ req'[r].at = "leased" /\ req'[r].step = req[r].step
    BY <2>3, <2>4 DEF Next1, LeasedType
  <2>6. UNCHANGED <<stage, leased>>
    BY StoreCallShortens DEF flowVars
  <2>7. ~AtFlow(r)' /\ \A s \in LeaseKey : WorksOn(r, s)' => WorksOn(r, s)
    BY <2>3, <2>5 DEF AtFlow, OfKind, WorksOn, LeasedType
  <2>8. QED
    BY <2>1, <2>3, <2>6, <2>7, WorkFrame
<1>6. CASE \E r \in Request : FinishCall(r)
  <2> PICK r \in Request : FinishCall(r)
    BY <1>6
  <2>1. \A x \in Request \ {r} : req'[x] = req[x]
    BY OnlyItsSlot, Zenon DEF Proceed, FinishCall
  <2>2. PICK s \in RunStep, o \in {"done", "partial", "failed"} : Finish(r, s, o)
    BY FinishEnds DEF Ends
  <2>3. s \in LeaseKey /\ WorksOn(r, s) /\ ~Free(r)
    BY <2>2 DEF Finish, Working, WorksOn, RunStep, LeaseKey
  <2>4. req'[r] = None
    BY <2>2 DEF Finish, End, FlowTypeOK
  <2>5. ~AtFlow(r)' /\ \A k \in LeaseKey : ~WorksOn(r, k)'
    BY <2>4 DEF AtFlow, OfKind, WorksOn, Free
  <2>6. \A k \in LeaseKey \ {s} : stage'[k] = stage[k] /\ leased'[k] = leased[k]
    BY <2>2 DEF Finish, FlowTypeOK
  <2>7. \A x \in Request : ~WorksOn(x, s)'
    <3>1. \A x \in Request \ {r} : ~WorksOn(x, s)
      BY <2>3 DEF WorkInv, OneWorksOnAStep
    <3>2. QED
      BY <2>1, <2>3, <2>5, <3>1 DEF WorksOn, Free
  <2>8. QED
    BY <2>1, <2>3, <2>5, <2>6, <2>7, WorkFrame
<1>7. CASE \E r \in Request : \/ FlagClarify(r) \/ SaveClarify(r) \/ Clear(r) \/ Close(r)
                              \/ Sign(r) \/ SignRefused(r)
  <2> PICK r \in Request : \/ FlagClarify(r) \/ SaveClarify(r) \/ Clear(r) \/ Close(r)
                           \/ Sign(r) \/ SignRefused(r)
    BY <1>7
  <2>1. \A x \in Request \ {r} : req'[x] = req[x]
    BY OnlyItsSlot, Zenon DEF Proceed
  <2>2. ~Free(r) /\ UNCHANGED <<stage, leased>>
    BY DEF FlagClarify, SaveClarify, Clear, Close, Sign, SignRefused, flowVars
  <2>3. req'[r] = None \/ (req[r].kind = "clarify" /\ req'[r] = [req[r] EXCEPT !.at = "save"])
    BY DEF FlagClarify, SaveClarify, Clear, Close, Sign, SignRefused, End, Goto, FlowTypeOK
  <2>4. req'[r] = None \/ req'[r].kind = "clarify"
    BY <2>2, <2>3, KindTypes DEF ClarifyType
  <2>5. ~AtFlow(r)' /\ \A s \in LeaseKey : ~WorksOn(r, s)'
    BY <2>4 DEF AtFlow, OfKind, WorksOn, Free
  <2>6. QED
    BY <2>1, <2>2, <2>5, WorkFrame
<1>8. CASE \E r \in Request : WriteVersion(r) \/ WriteLabel(r) \/ FailEdit(r) \/ ReleaseRevise(r)
  <2> PICK r \in Request : WriteVersion(r) \/ WriteLabel(r) \/ FailEdit(r) \/ ReleaseRevise(r)
    BY <1>8
  <2>1. \A x \in Request \ {r} : req'[x] = req[x]
    BY OnlyItsSlot, Zenon DEF Proceed
  <2>2. /\ req[r] \in EditType /\ ~Free(r)
        /\ \/ req'[r] = None
           \/ \E a \in {"label", "release"} : req'[r] = [req[r] EXCEPT !.at = a]
    BY EditMoves DEF End, FlowTypeOK
  <2>3. req[r].at \in {"write", "label", "release"}
    BY DEF WriteVersion, WriteLabel, FailEdit, ReleaseRevise
  <2>4. req'[r] = None \/ req'[r].kind = req[r].kind
    BY <2>2 DEF EditType
  <2>5. ~AtFlow(r)' /\ \A s \in LeaseKey : WorksOn(r, s)' => WorksOn(r, s)
    BY <2>2, <2>3, <2>4 DEF AtFlow, OfKind, WorksOn, Free, EditType
  <2>6. CASE ~ReleaseRevise(r)
    <3>1. UNCHANGED <<stage, leased>>
      BY <2>6 DEF WriteVersion, WriteLabel, FailEdit, flowVars
    <3>2. QED
      BY <2>1, <2>2, <2>5, <3>1, WorkFrame
  <2>7. CASE ReleaseRevise(r)
    <3>1. /\ \A s \in LeaseKey \ {"revise"} : stage'[s] = stage[s] /\ leased'[s] = leased[s]
          /\ WorksOn(r, "revise") /\ req'[r] = None
      BY <2>7 DEF ReleaseRevise, End, FlowTypeOK, WorksOn
    <3>2. \A x \in Request : ~WorksOn(x, "revise")'
      <4>1. \A x \in Request \ {r} : ~WorksOn(x, "revise")
        BY <3>1 DEF WorkInv, OneWorksOnAStep, LeaseKey
      <4>2. QED
        BY <2>1, <3>1, <4>1 DEF WorksOn, Free
    <3>3. QED
      BY <2>1, <2>2, <2>5, <3>1, <3>2, WorkFrame
  <2>8. QED
    BY <2>6, <2>7
<1>9. CASE \E r \in Request : Dies(r)
  <2> PICK r \in Request : Dies(r)
    BY <1>9
  <2>1. \A x \in Request \ {r} : req'[x] = req[x]
    BY OnlyItsSlot DEF Dies, Proceed
  <2>2. ~Free(r) /\ req'[r] = None /\ UNCHANGED <<stage, leased>>
    BY DEF Dies, Crash, FailCreate, End, FlowTypeOK, flowVars
  <2>3. ~AtFlow(r)' /\ \A s \in LeaseKey : ~WorksOn(r, s)'
    BY <2>2 DEF AtFlow, OfKind, WorksOn, Free
  <2>4. QED
    BY <2>1, <2>2, <2>3, WorkFrame
<1>10. CASE \E s \in LeaseKey : Lapse(s)
  <2> PICK s \in LeaseKey : Lapse(s)
    BY <1>10
  <2>1. UNCHANGED <<req, stage, clarify, pending, screen, latest, escalation, round>>
        /\ \A k \in LeaseKey \ {s} : leased'[k] = leased[k]
    BY DEF Lapse, FlowTypeOK, prVars, contentVars
  <2>2. \A x \in Request : ~WorksOn(x, s)
    BY DEF Lapse, RunsOut
  <2>3. QED
    BY <2>1, <2>2 DEF WorkInv, CreateFirst, NothingYet, AtFlow, OneWorksOnAStep, WorkIsLeased, WorksOn,
             OfKind, Free, Alive, Stored
<1>11. CASE UNCHANGED vars \/ \E p \in Person : Open(p)
  <2>1. UNCHANGED <<req, stage, leased, clarify, pending, screen, latest, escalation, round>>
    BY <1>11 DEF vars, Open, flowVars, prVars, contentVars
  <2>2. QED
    BY <2>1 DEF WorkInv, CreateFirst, NothingYet, AtFlow, OneWorksOnAStep, WorkIsLeased, WorksOn,
             OfKind, Free, Alive, Stored
<1>12. QED
  BY <1>1, <1>2, <1>3, <1>4, <1>5, <1>6, <1>7, <1>8, <1>9, <1>10, <1>11, FlowStepCases, Zenon

(* At the start only create_run is on its way, and no lease is held. *)
LEMMA InitWork ==
  ASSUME FlowInit
  PROVE  WorkInv
<1>1. PICK r \in Request, d \in FirstScreen, c \in Card :
        req = [x \in Request |->
                 IF x = r THEN [kind |-> "create", at |-> "flow", decision |-> d, card |-> c]
                 ELSE None]
  BY DEF FlowInit
<1>2. \A x \in Request : x # r => Free(x)
  BY <1>1 DEF Free
<1>3. req[r].kind = "create"
  BY <1>1
<1>4. \A x \in Request, s \in LeaseKey : ~WorksOn(x, s)
  BY <1>2, <1>3 DEF WorksOn
<1>5. CreateFirst
  <2>1. NothingYet
    BY StoredStepsAssumption DEF FlowInit, Init, NothingYet, Stored
  <2>2. QED
    BY <1>2, <1>3, <2>1 DEF CreateFirst, AtFlow, OfKind, Free
<1>6. QED
  BY <1>4, <1>5 DEF WorkInv, WorkIsLeased, OneWorksOnAStep

(* At most one request works on a step of the run, or on a revision of it,   *)
(* wherever others die and whenever leases lapse.                            *)
THEOREM WorkCorrect == FlowSpec => []OneWorksOnAStep
<1>1. FlowInit => WorkInv
  BY InitWork
<1>2. TypeOK /\ FlowTypeOK /\ WorkInv /\ [FlowNext]_vars => WorkInv'
  BY StepKeepsWork
<1>3. FlowSpec => []TypeOK
  BY FlowImplementsRun, TypeCorrect, PTL
<1>4. WorkInv => OneWorksOnAStep
  BY DEF WorkInv
<1>5. QED
  BY <1>1, <1>2, <1>3, <1>4, FlowTypeCorrect, PTL DEF FlowSpec

(* Who works under a lease holds it, always. *)
LEMMA WorkInvariant == FlowSpec => [](TypeOK /\ FlowTypeOK /\ WorkInv)
<1>1. FlowInit => WorkInv
  BY InitWork
<1>2. TypeOK /\ FlowTypeOK /\ WorkInv /\ [FlowNext]_vars => WorkInv'
  BY StepKeepsWork
<1>3. FlowSpec => []TypeOK
  BY FlowImplementsRun, TypeCorrect, PTL
<1>4. QED
  BY <1>1, <1>2, <1>3, FlowTypeCorrect, PTL DEF FlowSpec

-----------------------------------------------------------------------------
(* Labels: every version has at most one writer of its label, which comes    *)
(* after the version. The round that writes the first draft puts back the    *)
(* list of labels it read, when there was none; that is harmless because     *)
(* nothing is sent for review while it works, so that the labels written     *)
(* meanwhile are the ones the versions have without an entry.                *)
LockedVersion(v) == meta[v] # None /\ meta[v].locked
PackagesFirst(r) == Working(r, "package") /\ req[r].first
LabelsOwing(r) == IsEdit(r) /\ req[r].at = "label"
FirstRound(r) ==
  /\ req[r].todo = <<"fact_check">> \/ (req[r].todo = <<>> /\ latest # 0)
  /\ \A v \in Version : req[r].meta[v] = None
PlainEntries == \A v \in Version : meta[v] # None => meta[v] = Entry(<<0, v>>, FALSE)
PlainEdits ==
  \A x \in Request : IsEdit(x) => req[x].label = <<0, req[x].base + 1>> /\ req[x].locked = FALSE

LabelInv ==
  /\ \A v \in Version : meta[v] # None => v <= latest
  /\ \A r \in Request : IsEdit(r) => req[r].base <= latest
  /\ \A r \in Request :
       LabelsOwing(r) => req[r].base < latest /\ meta[req[r].base + 1] = None
  /\ \A r, x \in Request :
       LabelsOwing(r) /\ LabelsOwing(x) /\ r # x => req[r].base # req[x].base
  /\ \A r \in Request :
       PackagesFirst(r) => FirstRound(r) /\ PlainEntries /\ PlainEdits

(* The request types of the labels' part of a request. *)
LEMMA EditTypes ==
  ASSUME FlowTypeOK, NEW r \in Request
  PROVE  /\ IsEdit(r) => /\ req[r] \in EditType
                         /\ req[r].base \in Nat /\ req[r].base >= 1 /\ req[r].base <= VersionsCap
         /\ PackagesFirst(r) => req[r] \in LeasedType
<1>1. IsEdit(r) => req[r] \in EditType
  BY KindTypes DEF IsEdit
<1>2. PackagesFirst(r) => req[r] \in LeasedType
  BY KindTypes DEF PackagesFirst, Working
<1>3. QED
  BY <1>1, <1>2, CapsAssumption DEF EditType, Version

(* A step that writes no label, starts no edit and no first round. *)
LEMMA LabelFrame ==
  ASSUME TypeOK, FlowTypeOK, LabelInv, NEW r \in Request,
         \A x \in Request \ {r} : req'[x] = req[x],
         meta' = meta, latest' \in Nat, latest <= latest',
         IsEdit(r)' => /\ IsEdit(r)
                       /\ req'[r].base = req[r].base /\ req'[r].label = req[r].label
                       /\ req'[r].locked = req[r].locked
                       /\ req'[r].at = "label" => req[r].at = "label",
         PackagesFirst(r)' =>
           /\ PackagesFirst(r) /\ req'[r].meta = req[r].meta
           /\ \/ req'[r].todo = req[r].todo
              \/ req'[r].todo = <<>> /\ latest' # 0
  PROVE  LabelInv'
<1>1. latest \in Nat
  BY DEF TypeOK
<1>2. \A x \in Request \ {r} : /\ IsEdit(x)' <=> IsEdit(x)
                               /\ LabelsOwing(x)' <=> LabelsOwing(x)
                               /\ PackagesFirst(x)' <=> PackagesFirst(x)
                               /\ FirstRound(x) => FirstRound(x)'
  BY <1>1 DEF IsEdit, LabelsOwing, PackagesFirst, Working, FirstRound, Free
<1>3. LabelsOwing(r)' => LabelsOwing(r)
  BY DEF LabelsOwing
<1>4. PackagesFirst(r)' => (FirstRound(r) => FirstRound(r)')
  BY <1>1 DEF FirstRound
<1>5. \A v \in Version : meta'[v] # None => v <= latest'
  BY <1>1 DEF LabelInv, Version
<1>6. \A x \in Request : IsEdit(x)' => req'[x].base <= latest'
  BY <1>1, <1>2, EditTypes DEF LabelInv
<1>7. \A x \in Request :
        LabelsOwing(x)' => req'[x].base < latest' /\ meta'[req'[x].base + 1] = None
  <2> SUFFICES ASSUME NEW x \in Request, LabelsOwing(x)'
               PROVE  req'[x].base < latest' /\ meta'[req'[x].base + 1] = None
    OBVIOUS
  <2>1. LabelsOwing(x) /\ req'[x].base = req[x].base
    BY <1>2, <1>3 DEF LabelsOwing
  <2>2. req[x].base \in Nat
    BY <2>1, EditTypes DEF LabelsOwing
  <2>3. QED
    BY <1>1, <2>1, <2>2 DEF LabelInv
<1>8. \A x, y \in Request :
        LabelsOwing(x)' /\ LabelsOwing(y)' /\ x # y => req'[x].base # req'[y].base
  <2>1. \A x \in Request : LabelsOwing(x)' => LabelsOwing(x) /\ req'[x].base = req[x].base
    BY <1>2, <1>3 DEF LabelsOwing
  <2>2. QED
    BY <2>1 DEF LabelInv
<1>9. PlainEntries => PlainEntries'
  BY DEF PlainEntries
<1>10. PlainEdits => PlainEdits'
  BY <1>2 DEF PlainEdits
<1>11. \A x \in Request : PackagesFirst(x)' => FirstRound(x)' /\ PlainEntries' /\ PlainEdits'
  BY <1>2, <1>4, <1>9, <1>10 DEF LabelInv
<1>12. QED
  BY <1>5, <1>6, <1>7, <1>8, <1>11 DEF LabelInv

(* The steps that do write labels, start an edit, or start a first round. *)
LEMMA LoadEditKeepsLabels ==
  ASSUME TypeOK, FlowTypeOK, WorkInv, LabelInv, NEW r \in Request, Arrive(r)
  PROVE  LabelInv'
<1>1. \A x \in Request \ {r} : req'[x] = req[x]
  BY OnlyItsSlot
<1>2. meta' = meta /\ latest' = latest /\ latest \in Nat /\ stage' = stage
  <2>1. UNCHANGED <<prVars, flowVars>>
    BY ArriveReads, Zenon
  <2>2. QED
    BY <2>1 DEF flowVars, prVars, TypeOK
<1>3. ~PackagesFirst(r)'
  <2>1. req'[r].kind = "step" => req'[r].at = "loaded"
    <3>1. CASE \E s \in RunStep : req'[r] = [kind |-> "step", step |-> s, at |-> "loaded"]
      BY <3>1
    <3>2. CASE req'[r].kind = "clarify" \/ req'[r] = [kind |-> "clear"] \/ req'[r] = [kind |-> "close"]
      BY <3>2
    <3>3. CASE \E p, k, l, lk :
                 req'[r] = EditRequest(p, k, l, lk) /\ k \in {"revise", "verify", "send"}
      BY <3>3 DEF EditRequest
    <3>4. CASE \E p, role, k :
                 req'[r] = SignRequest(p, k, role) /\ k \in {"approve", "reject"}
      BY <3>4 DEF SignRequest
    <3>5. QED
      BY ArriveReads, <3>1, <3>2, <3>3, <3>4, Zenon
  <2>2. QED
    BY <2>1 DEF PackagesFirst, Working
<1>4. CASE ~IsEdit(r)'
  BY <1>1, <1>2, <1>3, <1>4, LabelFrame
<1>5. CASE IsEdit(r)'
  <2>1. PICK p \in Person :
          /\ Editable(p)
          /\ \/ \E k \in {"revise", "verify"} :
                  req'[r] = EditRequest(p, k, NextMinor(LabelOf(latest)), FALSE)
             \/ /\ req'[r] = EditRequest(p, "send", NextMajor(LabelOf(latest)), TRUE)
                /\ PackageReady
    <3>1. req'[r].kind \in {"revise", "verify", "send"}
      BY <1>5 DEF IsEdit
    <3>2. CASE \E s \in RunStep : req'[r] = [kind |-> "step", step |-> s, at |-> "loaded"]
      BY <3>1, <3>2
    <3>3. CASE req'[r].kind = "clarify" \/ req'[r] = [kind |-> "clear"] \/ req'[r] = [kind |-> "close"]
      BY <3>1, <3>3
    <3>4. CASE \E q \in Person, role \in Role, k \in {"approve", "reject"} :
                 MaySign(q) /\ req'[r] = SignRequest(q, k, role)
      BY <3>1, <3>4 DEF SignRequest
    <3>5. QED
      BY ArriveReads, <3>2, <3>3, <3>4, Zenon
  <2>2. latest \in Version /\ req'[r].base = latest /\ ~LabelsOwing(r)'
    <3>1. latest \in Version
      BY <2>1, CapsAssumption DEF Editable, Version
    <3>2. \A k, l, lk : EditRequest(p, k, l, lk).base = latest
                        /\ EditRequest(p, k, l, lk).at # "label"
      BY DEF EditRequest
    <3>3. QED
      BY <2>1, <3>1, <3>2 DEF LabelsOwing
  <2>3. \A x \in Request \ {r} : /\ IsEdit(x)' <=> IsEdit(x)
                                 /\ LabelsOwing(x)' <=> LabelsOwing(x)
                                 /\ PackagesFirst(x)' <=> PackagesFirst(x)
                                 /\ FirstRound(x) => FirstRound(x)'
    BY <1>1, <1>2 DEF IsEdit, LabelsOwing, PackagesFirst, Working, FirstRound, Free
  <2>4. ASSUME NEW x \in Request, PackagesFirst(x)'
        PROVE  FirstRound(x)' /\ PlainEntries' /\ PlainEdits'
    <3>1. x # r /\ PackagesFirst(x)
      BY <1>3, <2>3, <2>4
    <3>2. FirstRound(x)' /\ PlainEntries /\ PlainEntries' /\ PlainEdits
      BY <1>2, <2>3, <3>1 DEF LabelInv, PlainEntries
    <3>3. LabelOf(latest) = <<0, latest>>
      <4>1. CASE meta[latest] = None
        BY <4>1 DEF LabelOf
      <4>2. CASE meta[latest] # None
        <5>1. meta[latest] = Entry(<<0, latest>>, FALSE)
          BY <2>2, <3>2, <4>2 DEF PlainEntries
        <5>2. meta[latest].label = <<0, latest>>
          BY <5>1 DEF Entry
        <5>3. QED
          BY <4>2, <5>2 DEF LabelOf
      <4>3. QED
        BY <4>1, <4>2
    <3>4. stage["package"] = "running"
      <4>1. WorksOn(x, "package") /\ "package" \in LeaseKey
        BY <3>1 DEF PackagesFirst, Working, WorksOn, LeaseKey, StepIds
      <4>2. QED
        BY <4>1 DEF WorkInv, WorkIsLeased, Alive
    <3>5. ~PackageReady
      BY <3>4 DEF PackageReady, StepFinished
    <3>6. req'[r].label = <<0, latest + 1>> /\ req'[r].locked = FALSE
      <4>1. NextMinor(LabelOf(latest)) = <<0, latest + 1>>
        BY <3>3 DEF NextMinor
      <4>2. PICK k \in {"revise", "verify"} :
              req'[r] = EditRequest(p, k, NextMinor(LabelOf(latest)), FALSE)
        BY <2>1, <3>5, Zenon
      <4>3. req'[r].label = NextMinor(LabelOf(latest)) /\ req'[r].locked = FALSE
        BY <4>2 DEF EditRequest
      <4>4. QED
        BY <4>1, <4>3
    <3>7. PlainEdits'
      BY <1>1, <2>2, <2>3, <3>2, <3>6 DEF PlainEdits
    <3>8. QED
      BY <3>2, <3>7
  <2>5. \A x \in Request : IsEdit(x)' => req'[x].base <= latest'
    BY <1>1, <1>2, <2>2, <2>3 DEF LabelInv
  <2>6. \A x \in Request : LabelsOwing(x)' => LabelsOwing(x) /\ req'[x] = req[x]
    BY <1>1, <2>2, <2>3
  <2>7. QED
    BY <1>2, <2>4, <2>5, <2>6 DEF LabelInv
<1>6. QED
  BY <1>4, <1>5

(* Labels: the steps that take a lease; *)
LEMMA LeaseStepKeepsLabels ==
  ASSUME TypeOK, FlowTypeOK, LabelInv, NEW r \in Request, LeaseStep(r)
  PROVE  LabelInv'
<1>1. \A x \in Request \ {r} : req'[x] = req[x]
  BY OnlyItsSlot DEF Proceed
<1>2. meta' = meta /\ latest' = latest /\ latest \in Nat
  BY DEF LeaseStep, prVars, TypeOK
<1>3. \/ req'[r] = None
      \/ req'[r] = [kind |-> "step", step |-> req[r].step, at |-> "leased",
                    todo |-> Todo(req[r].step), cardOpen |-> clarify = "open",
                    decision |-> "none", first |-> latest = 0,
                    built |-> built, notes |-> notes, meta |-> meta]
  BY DEF LeaseStep, End, FlowTypeOK
<1>4. ~IsEdit(r)'
  BY <1>3 DEF IsEdit, Free
<1>5. CASE ~PackagesFirst(r)'
  BY <1>1, <1>2, <1>4, <1>5, LabelFrame
<1>6. CASE PackagesFirst(r)'
  <2>1. /\ latest = 0 /\ req'[r].todo = Todo("package") /\ req'[r].meta = meta
    <3>1. PICK q : q = req'[r]
      OBVIOUS
    <3>2. q # None /\ q.step = "package" /\ q.first
      BY <1>6, <3>1, Zenon DEF PackagesFirst, Working, Free
    <3>3. q = [kind |-> "step", step |-> req[r].step, at |-> "leased",
               todo |-> Todo(req[r].step), cardOpen |-> clarify = "open",
               decision |-> "none", first |-> latest = 0,
               built |-> built, notes |-> notes, meta |-> meta]
      BY <1>3, <3>1, <3>2, Zenon
    <3>4. q.todo = Todo("package") /\ q.meta = meta
      BY <3>2, <3>3
    <3>5. q.first => latest = 0
      BY <3>3
    <3>6. QED
      BY <3>1, <3>2, <3>4, <3>5
  <2>2. Todo("package") = <<"fact_check">>
    BY <2>1 DEF Todo
  <2>3. \A v \in Version : meta[v] = None
    BY <2>1 DEF LabelInv, Version
  <2>4. \A x \in Request : ~IsEdit(x) /\ ~IsEdit(x)'
    <3>1. \A x \in Request : ~IsEdit(x)
      BY <2>1, EditTypes DEF LabelInv
    <3>2. QED
      BY <1>1, <1>4, <3>1 DEF IsEdit, Free
  <2>5. FirstRound(r)' /\ PlainEntries' /\ PlainEdits'
    BY <1>2, <2>1, <2>2, <2>3, <2>4 DEF FirstRound, PlainEntries, PlainEdits
  <2>6. \A x \in Request \ {r} : PackagesFirst(x)' => FirstRound(x)'
    BY <1>1, <1>2 DEF LabelInv, PackagesFirst, Working, FirstRound, Free
  <2>7. QED
    BY <1>2, <2>3, <2>4, <2>5, <2>6 DEF LabelInv, LabelsOwing
<1>7. QED
  BY <1>5, <1>6

(* an edit's new version, which owes its label; *)
LEMMA WriteVersionKeepsLabels ==
  ASSUME TypeOK, FlowTypeOK, LabelInv, NEW r \in Request, WriteVersion(r)
  PROVE  LabelInv'
<1>1. \A x \in Request \ {r} : req'[x] = req[x]
  BY OnlyItsSlot, Zenon DEF Proceed
<1>2. IsEdit(r) /\ req[r] \in EditType /\ req[r].base \in Nat /\ req[r].base >= 1
  BY EditTypes DEF WriteVersion
<1>3. req'[r] = [req[r] EXCEPT !.at = "label"]
  BY DEF WriteVersion, Goto, FlowTypeOK
<1>4. /\ req'[r].base = req[r].base /\ req'[r].label = req[r].label
      /\ req'[r].locked = req[r].locked /\ req'[r].kind = req[r].kind
  BY <1>2, <1>3 DEF EditType
<1>5. latest = req[r].base /\ latest' = latest + 1 /\ meta' = meta /\ latest' <= VersionsCap
      /\ latest \in Nat
  BY <1>2 DEF WriteVersion, CreateVersion, IsNextVersion, flowVars, TypeOK
<1>6. \A x \in Request \ {r} : /\ IsEdit(x)' <=> IsEdit(x)
                               /\ LabelsOwing(x)' <=> LabelsOwing(x)
                               /\ PackagesFirst(x)' <=> PackagesFirst(x)
                               /\ FirstRound(x) => FirstRound(x)'
  BY <1>1, <1>5 DEF IsEdit, LabelsOwing, PackagesFirst, Working, FirstRound, Free
<1>7. ~PackagesFirst(r)'
  BY <1>2, <1>4 DEF PackagesFirst, Working, IsEdit
<1>8. meta'[req'[r].base + 1] = None
  BY <1>4, <1>5, CapsAssumption DEF LabelInv, Version
<1>9. \A v \in Version : meta'[v] # None => v <= latest'
  BY <1>5 DEF LabelInv, Version
<1>10. \A x \in Request : IsEdit(x)' => req'[x].base <= latest'
  BY <1>1, <1>4, <1>5, <1>6, EditTypes DEF LabelInv
<1>11. \A x \in Request :
         LabelsOwing(x)' => req'[x].base < latest' /\ meta'[req'[x].base + 1] = None
  <2> SUFFICES ASSUME NEW x \in Request, LabelsOwing(x)'
               PROVE  req'[x].base < latest' /\ meta'[req'[x].base + 1] = None
    OBVIOUS
  <2>1. CASE x = r
    BY <1>4, <1>5, <1>8, <2>1
  <2>2. CASE x # r
    <3>1. LabelsOwing(x) /\ req'[x] = req[x] /\ req[x].base \in Nat
      BY <1>1, <1>6, <2>2, EditTypes DEF LabelsOwing
    <3>2. QED
      BY <1>5, <3>1 DEF LabelInv
  <2>3. QED
    BY <2>1, <2>2
<1>12. \A x \in Request \ {r} : LabelsOwing(x) => req[x].base \in Nat /\ req[x].base < latest
  BY EditTypes DEF LabelInv, LabelsOwing
<1>13. \A x, y \in Request :
         LabelsOwing(x)' /\ LabelsOwing(y)' /\ x # y => req'[x].base # req'[y].base
  <2> SUFFICES ASSUME NEW x \in Request, NEW y \in Request,
                      LabelsOwing(x)', LabelsOwing(y)', x # y
               PROVE  req'[x].base # req'[y].base
    OBVIOUS
  <2>1. CASE x = r
    BY <1>1, <1>4, <1>5, <1>6, <1>12, <2>1
  <2>2. CASE y = r
    BY <1>1, <1>4, <1>5, <1>6, <1>12, <2>2
  <2>3. CASE x # r /\ y # r
    BY <1>1, <1>6, <2>3 DEF LabelInv
  <2>4. QED
    BY <2>1, <2>2, <2>3
<1>14. PlainEdits => PlainEdits'
  BY <1>1, <1>2, <1>4, <1>6 DEF PlainEdits
<1>15. PlainEntries => PlainEntries'
  BY <1>5 DEF PlainEntries
<1>16. \A x \in Request : PackagesFirst(x)' => FirstRound(x)' /\ PlainEntries' /\ PlainEdits'
  BY <1>6, <1>7, <1>14, <1>15 DEF LabelInv
<1>17. QED
  BY <1>9, <1>10, <1>11, <1>13, <1>16 DEF LabelInv

(* What giving a version its label does to the list of labels. *)
LEMMA WriteLabelEntry ==
  ASSUME FlowTypeOK, LabelInv, TypeOK, NEW r \in Request, WriteLabel(r)
  PROVE  /\ req[r] \in EditType /\ LabelsOwing(r)
         /\ req[r].base \in Nat /\ req[r].base >= 1
         /\ req[r].base + 1 \in Version /\ req[r].base + 1 <= latest
         /\ meta[req[r].base + 1] = None
         /\ meta'[req[r].base + 1] = Entry(req[r].label, req[r].locked)
         /\ \A v \in Version \ {req[r].base + 1} : meta'[v] = meta[v]
         /\ latest' = latest /\ latest \in Nat
<1>1. LabelsOwing(r) /\ req[r] \in EditType /\ req[r].base \in Nat /\ req[r].base >= 1
  BY EditTypes DEF WriteLabel, LabelsOwing
<1>2. latest' = latest /\ latest \in Nat /\ latest <= VersionsCap
  BY CapsAssumption DEF WriteLabel, prVars, TypeOK
<1>3. req[r].base < latest /\ meta[req[r].base + 1] = None
  BY <1>1 DEF LabelInv
<1>4. req[r].base + 1 \in Version
  BY <1>1, <1>2, <1>3, CapsAssumption DEF Version
<1>5. meta' = [meta EXCEPT ![req[r].base + 1] = Entry(req[r].label, req[r].locked)]
  BY DEF WriteLabel
<1>6. /\ meta'[req[r].base + 1] = Entry(req[r].label, req[r].locked)
      /\ \A v \in Version \ {req[r].base + 1} : meta'[v] = meta[v]
  BY <1>4, <1>5 DEF FlowTypeOK, Meta
<1>7. QED
  BY <1>1, <1>2, <1>3, <1>4, <1>6

(* the label it is then given; *)
LEMMA WriteLabelKeepsLabels ==
  ASSUME TypeOK, FlowTypeOK, LabelInv, NEW r \in Request, WriteLabel(r)
  PROVE  LabelInv'
<1>1. \A x \in Request \ {r} : req'[x] = req[x]
  BY OnlyItsSlot, Zenon DEF Proceed
<1>2. PICK b \in Version : b = req[r].base + 1
  BY WriteLabelEntry
<1>3. req'[r] = None \/ req'[r] = [req[r] EXCEPT !.at = "release"]
  BY DEF WriteLabel, EndEdit, End, Goto, FlowTypeOK
<1>4. ~Free(r)' => /\ req'[r].base = req[r].base /\ req'[r].label = req[r].label
                   /\ req'[r].locked = req[r].locked /\ req'[r].kind = req[r].kind
                   /\ req'[r].at = "release"
  BY <1>3, WriteLabelEntry DEF EditType, Free
<1>5. ~LabelsOwing(r)' /\ ~PackagesFirst(r)' /\ (IsEdit(r)' => IsEdit(r))
  <2>1. IsEdit(r) /\ req[r].kind \in {"revise", "verify", "send"}
    BY DEF WriteLabel, IsEdit
  <2>2. QED
    BY <1>4, <2>1 DEF LabelsOwing, PackagesFirst, Working, IsEdit
<1>6. \A x \in Request \ {r} : /\ IsEdit(x)' <=> IsEdit(x)
                               /\ LabelsOwing(x)' <=> LabelsOwing(x)
                               /\ PackagesFirst(x)' <=> PackagesFirst(x)
                               /\ FirstRound(x) <=> FirstRound(x)'
  BY <1>1, WriteLabelEntry DEF IsEdit, LabelsOwing, PackagesFirst, Working, FirstRound, Free
<1>7. \A v \in Version : meta'[v] # None => v <= latest'
  BY <1>2, WriteLabelEntry DEF LabelInv
<1>8. \A x \in Request : IsEdit(x)' => req'[x].base <= latest'
  BY <1>1, <1>4, <1>5, <1>6, WriteLabelEntry DEF LabelInv, IsEdit
<1>9. \A x \in Request :
        LabelsOwing(x)' => req'[x].base < latest' /\ meta'[req'[x].base + 1] = None
  <2> SUFFICES ASSUME NEW x \in Request, LabelsOwing(x)'
               PROVE  req'[x].base < latest' /\ meta'[req'[x].base + 1] = None
    OBVIOUS
  <2>1. x # r /\ LabelsOwing(x) /\ req'[x] = req[x]
    BY <1>1, <1>5, <1>6
  <2>2. req[x].base < latest /\ meta[req[x].base + 1] = None /\ req[x].base # req[r].base
    BY <2>1, WriteLabelEntry DEF LabelInv
  <2>3. req[x].base \in Nat
    BY <2>1, EditTypes DEF LabelsOwing
  <2>4. req[x].base + 1 \in Version \ {req[r].base + 1}
    BY <2>2, <2>3, WriteLabelEntry, CapsAssumption DEF Version, TypeOK
  <2>5. QED
    BY <2>1, <2>2, <2>4, WriteLabelEntry
<1>10. \A x, y \in Request :
         LabelsOwing(x)' /\ LabelsOwing(y)' /\ x # y => req'[x].base # req'[y].base
  BY <1>1, <1>5, <1>6 DEF LabelInv
<1>11. ASSUME NEW x \in Request, PackagesFirst(x)'
       PROVE  FirstRound(x)' /\ PlainEntries' /\ PlainEdits'
  <2>1. x # r /\ FirstRound(x)' /\ PlainEntries /\ PlainEdits
    BY <1>5, <1>6, <1>11 DEF LabelInv
  <2>2. Entry(req[r].label, req[r].locked) = Entry(<<0, b>>, FALSE)
    <3>1. req[r].label = <<0, req[r].base + 1>> /\ req[r].locked = FALSE
      BY <2>1 DEF PlainEdits, WriteLabel
    <3>2. QED
      BY <1>2, <3>1 DEF Entry
  <2>3. PlainEntries'
    BY <1>2, <2>1, <2>2, WriteLabelEntry DEF PlainEntries
  <2>4. PlainEdits'
    BY <1>1, <1>4, <1>5, <1>6, <2>1 DEF PlainEdits, IsEdit
  <2>5. QED
    BY <2>1, <2>3, <2>4
<1>12. QED
  BY <1>7, <1>8, <1>9, <1>10, <1>11 DEF LabelInv

(* The round that wrote the first draft puts back the empty list it read,    *)
(* with the first version in it.                                             *)
LEMMA FirstLabelledEntry ==
  ASSUME TypeOK, FlowTypeOK, LabelInv, NEW r \in Request, PackagesFirst(r), FirstLabelled(r),
         latest' = latest
  PROVE  /\ latest # 0 /\ latest \in Nat /\ PlainEntries
         /\ \A v \in Version : meta'[v] # None => v = 1 /\ meta'[v] = Entry(<<0, 1>>, FALSE)
<1>1. FirstRound(r) /\ PlainEntries /\ req[r] \in LeasedType
  BY EditTypes DEF LabelInv
<1>2. latest # 0 /\ latest \in Nat
  BY <1>1 DEF FirstRound, FirstLabelled, TypeOK
<1>3. req[r].meta \in Meta /\ \A v \in Version : req[r].meta[v] = None
  BY <1>1 DEF LeasedType, FirstRound
<1>4. meta' = [req[r].meta EXCEPT ![1] = Entry(<<0, 1>>, FALSE)]
  BY DEF FirstLabelled
<1>5. \A v \in Version : meta'[v] # None => v = 1 /\ meta'[v] = Entry(<<0, 1>>, FALSE)
  BY <1>3, <1>4 DEF Meta
<1>6. QED
  BY <1>1, <1>2, <1>5

(* a first package, which writes the whole list; *)
LEMMA FinishKeepsLabels ==
  ASSUME TypeOK, FlowTypeOK, WorkInv, LabelInv, NEW r \in Request, FinishCall(r)
  PROVE  LabelInv'
<1>1. \A x \in Request \ {r} : req'[x] = req[x]
  BY OnlyItsSlot, Zenon DEF Proceed, FinishCall
<1>2. PICK s \in RunStep, o \in {"done", "partial", "failed"} : Ends(r, s, o)
  BY FinishEnds
<1>3. req'[r] = None /\ latest' = latest /\ latest \in Nat
  BY <1>2 DEF Ends, Finish, End, FlowTypeOK, TypeOK, prVars
<1>4. ~IsEdit(r)' /\ ~PackagesFirst(r)' /\ ~LabelsOwing(r)'
  BY <1>3 DEF IsEdit, PackagesFirst, LabelsOwing, Working, Free
<1>5. CASE meta' = meta
  BY <1>1, <1>3, <1>4, <1>5, LabelFrame
<1>6. CASE s = "package" /\ FirstLabelled(r)
  <2>1. PackagesFirst(r)
    BY <1>2, <1>6 DEF PackagesFirst, Ends, Finish, FirstLabelled
  <2>2. \A v \in Version : meta'[v] # None => v = 1
    BY <1>3, <1>6, <2>1, FirstLabelledEntry
  <2>3. \A x \in Request \ {r} : /\ IsEdit(x)' <=> IsEdit(x)
                                 /\ LabelsOwing(x)' <=> LabelsOwing(x)
                                 /\ PackagesFirst(x)' <=> PackagesFirst(x)
    BY <1>1 DEF IsEdit, LabelsOwing, PackagesFirst, Working, Free
  <2>4. \A x \in Request : ~PackagesFirst(x)'
    <3>1. \A x \in Request : PackagesFirst(x) => WorksOn(x, "package")
      BY DEF PackagesFirst, Working, WorksOn
    <3>2. "package" \in LeaseKey
      BY DEF LeaseKey, StepIds
    <3>3. \A x \in Request \ {r} : ~PackagesFirst(x)
      BY <2>1, <3>1, <3>2 DEF WorkInv, OneWorksOnAStep
    <3>4. QED
      BY <1>4, <2>3, <3>3
  <2>5. \A v \in Version : meta'[v] # None => v <= latest'
    <3>1. latest # 0 /\ latest \in Nat
      BY <1>3, <1>6, <2>1, FirstLabelledEntry
    <3>2. latest' >= 1
      BY <1>3, <3>1
    <3>3. QED
      BY <2>2, <3>2 DEF Version
  <2>6. \A x \in Request : IsEdit(x)' => req'[x].base <= latest'
    BY <1>1, <1>3, <1>4, <2>3 DEF LabelInv
  <2>7. \A x \in Request :
          LabelsOwing(x)' => req'[x].base < latest' /\ meta'[req'[x].base + 1] = None
    <3> SUFFICES ASSUME NEW x \in Request, LabelsOwing(x)'
                 PROVE  req'[x].base < latest' /\ meta'[req'[x].base + 1] = None
      OBVIOUS
    <3>1. LabelsOwing(x) /\ req'[x] = req[x]
      BY <1>1, <1>4, <2>3
    <3>2. req[x].base \in Nat /\ req[x].base >= 1 /\ req[x].base < latest
      BY <3>1, EditTypes DEF LabelsOwing, LabelInv
    <3>3. req[x].base + 1 \in Version /\ req[x].base + 1 # 1
      BY <1>3, <3>2, CapsAssumption DEF TypeOK, Version
    <3>4. QED
      BY <1>3, <2>2, <3>1, <3>2, <3>3
  <2>8. \A x, y \in Request :
          LabelsOwing(x)' /\ LabelsOwing(y)' /\ x # y => req'[x].base # req'[y].base
    BY <1>1, <1>4, <2>3 DEF LabelInv
  <2>9. QED
    BY <2>4, <2>5, <2>6, <2>7, <2>8 DEF LabelInv
<1>7. QED
  BY <1>2, <1>5, <1>6 DEF Ends

(* The runners' calls of the store shorten what a first round has to store.  *)
LEMMA StoreCallKeepsLabels ==
  ASSUME TypeOK, FlowTypeOK, LabelInv, NEW r \in Request, StoreCall(r)
  PROVE  LabelInv'
<1>1. \A x \in Request \ {r} : req'[x] = req[x]
  BY OnlyItsSlot, Zenon DEF Proceed, StoreCall
<1>2. PICK x : Stores(r, x)
  BY StoreCallShortens
<1>3. req[r] \in LeasedType /\ ~Free(r) /\ req[r].kind = "step"
  BY <1>2, StoresShortens DEF Stores
<1>4. req'[r] = Next1(r) \/ \E d \in Verdict : req'[r] = [Next1(r) EXCEPT !.decision = d]
  BY StoreCallShortens DEF FlowTypeOK
<1>5. /\ req'[r].kind = "step" /\ req'[r].step = req[r].step /\ req'[r].at = "leased"
      /\ req'[r].first = req[r].first /\ req'[r].meta = req[r].meta
      /\ req'[r].todo = Tail(req[r].todo)
  BY <1>3, <1>4 DEF Next1, LeasedType
<1>6. ~IsEdit(r)'
  BY <1>5 DEF IsEdit
<1>7. meta' = meta
  BY StoreCallShortens DEF flowVars
<1>8. latest' \in Nat /\ latest \in Nat /\ (latest' = latest \/ (latest = 0 /\ latest' = 1))
  <2>1. CASE StoreFirstDraft(r)
    BY <2>1 DEF StoreFirstDraft, CreateVersion, IsNextVersion, TypeOK
  <2>2. CASE StoreScreen(r) \/ \E y \in Step : StoreStep(r, y) \/ SkipStored(r, y)
    BY <2>2 DEF StoreScreen, StoreStep, SkipStored, CompleteStep, contentVars, prVars, TypeOK
  <2>3. QED
    BY <2>1, <2>2, Zenon DEF StoreCall
<1>9. ASSUME PackagesFirst(r)'
      PROVE  /\ PackagesFirst(r)
             /\ \/ req'[r].todo = req[r].todo
                \/ req'[r].todo = <<>> /\ latest' # 0
  <2>1. PackagesFirst(r)
    BY <1>3, <1>5, <1>9 DEF PackagesFirst, Working, LeasedType
  <2>2. req[r].todo = <<"fact_check">>
    BY <1>2, <2>1 DEF LabelInv, FirstRound, Stores
  <2>3. StoreFirstDraft(r)
    <3>1. \A y : Stores(r, y) => y = "fact_check"
      BY <2>2 DEF Stores
    <3>2. ~StoreScreen(r) /\ \A y \in Step : ~StoreStep(r, y) /\ ~SkipStored(r, y)
      BY <3>1 DEF StoreScreen, StoreStep, SkipStored
    <3>3. QED
      BY <3>2, Zenon DEF StoreCall
  <2>4. latest' # 0
    BY <2>3 DEF StoreFirstDraft, CreateVersion
  <2>5. req'[r].todo = <<>>
    BY <1>5, <2>2
  <2>6. QED
    BY <2>1, <2>4, <2>5
<1>10. latest <= latest'
  BY <1>8
<1>11. QED
  BY <1>1, <1>5, <1>6, <1>7, <1>8, <1>9, <1>10, LabelFrame

(* and so every step. *)
LEMMA StepKeepsLabels ==
  ASSUME TypeOK, FlowTypeOK, WorkInv, LabelInv, [FlowNext]_vars
  PROVE  LabelInv'
<1>1. CASE \E r \in Request : CreateFlow(r) \/ CreateIntake(r)
  <2> PICK r \in Request : CreateFlow(r) \/ CreateIntake(r)
    BY <1>1
  <2>1. \A x \in Request \ {r} : req'[x] = req[x]
    BY OnlyItsSlot DEF Proceed
  <2>2. req[r] \in CreateType
    BY KindTypes DEF CreateFlow, CreateIntake
  <2>3. req'[r] = None \/ req'[r].kind = "create"
    BY <2>2 DEF CreateFlow, CreateIntake, End, Goto, FlowTypeOK, CreateType
  <2>4. meta' = meta /\ latest' = latest /\ latest \in Nat
    BY DEF CreateFlow, CreateIntake, CompleteStep, contentVars, flowVars, prVars, TypeOK
  <2>5. ~IsEdit(r)' /\ ~PackagesFirst(r)'
    BY <2>3 DEF IsEdit, PackagesFirst, Working, Free
  <2>6. QED
    BY <2>1, <2>4, <2>5, LabelFrame
<1>2. CASE \E r \in Request : LeaseRevise(r)
  <2> PICK r \in Request : LeaseRevise(r)
    BY <1>2
  <2>1. \A x \in Request \ {r} : req'[x] = req[x]
    BY OnlyItsSlot DEF Proceed
  <2>2. req[r] \in EditType /\ IsEdit(r)
    BY KindTypes DEF LeaseRevise, IsEdit
  <2>3. req'[r] = None \/ \E a \in {"write", "release"} : req'[r] = [req[r] EXCEPT !.at = a]
    BY DEF LeaseRevise, End, Goto, FlowTypeOK
  <2>4. meta' = meta /\ latest' = latest /\ latest \in Nat
    BY DEF LeaseRevise, prVars, TypeOK
  <2>5. IsEdit(r)' => /\ req'[r].base = req[r].base /\ req'[r].label = req[r].label
                      /\ req'[r].locked = req[r].locked /\ req'[r].at # "label"
    BY <2>2, <2>3 DEF IsEdit, Free, EditType
  <2>6. ~PackagesFirst(r)'
    BY <2>2, <2>3 DEF PackagesFirst, Working, Free, EditType
  <2>7. QED
    BY <2>1, <2>2, <2>4, <2>5, <2>6, LabelFrame
<1>3. CASE \E r \in Request : \/ FlagClarify(r) \/ SaveClarify(r) \/ Clear(r) \/ Close(r)
                              \/ Sign(r) \/ SignRefused(r) \/ Dies(r)
  <2> PICK r \in Request : \/ FlagClarify(r) \/ SaveClarify(r) \/ Clear(r) \/ Close(r)
                           \/ Sign(r) \/ SignRefused(r) \/ Dies(r)
    BY <1>3
  <2>1. \A x \in Request \ {r} : req'[x] = req[x]
    BY OnlyItsSlot, Zenon DEF Proceed, Dies
  <2>2. req'[r] = None \/ (req[r].kind = "clarify" /\ ~Free(r) /\ req'[r] = [req[r] EXCEPT !.at = "save"])
    BY DEF FlagClarify, SaveClarify, Clear, Close, Sign, SignRefused, Dies, Crash, FailCreate, End, Goto, FlowTypeOK
  <2>3. req'[r] = None \/ req'[r].kind = "clarify"
    BY <2>2, KindTypes DEF ClarifyType
  <2>4. meta' = meta /\ latest' = latest
    BY DEF FlagClarify, SaveClarify, Clear, Close, Sign, SignRefused, Dies, Crash, FailCreate, flowVars, prVars,
           FlagEscalation, NoteEvent, ClearEscalation, Reject, ApproveReview, ApproveFinal,
           RecordSignoff, contentVars
  <2>5. ~IsEdit(r)' /\ ~PackagesFirst(r)' /\ latest \in Nat
    BY <2>3 DEF IsEdit, PackagesFirst, Working, Free, TypeOK
  <2>6. QED
    BY <2>1, <2>4, <2>5, LabelFrame
<1>4. CASE \E r \in Request : FailEdit(r) \/ ReleaseRevise(r)
  <2> PICK r \in Request : FailEdit(r) \/ ReleaseRevise(r)
    BY <1>4
  <2>1. \A x \in Request \ {r} : req'[x] = req[x]
    BY OnlyItsSlot, Zenon DEF Proceed
  <2>2. req[r] \in EditType /\ IsEdit(r)
    BY EditMoves DEF FailEdit, ReleaseRevise, IsEdit
  <2>3. req'[r] = None \/ req'[r] = [req[r] EXCEPT !.at = "release"]
    BY DEF FailEdit, ReleaseRevise, EndEdit, End, Goto, FlowTypeOK
  <2>4. meta' = meta /\ latest' = latest /\ latest \in Nat
    BY DEF FailEdit, ReleaseRevise, flowVars, prVars, TypeOK
  <2>5. IsEdit(r)' => /\ req'[r].base = req[r].base /\ req'[r].label = req[r].label
                      /\ req'[r].locked = req[r].locked /\ req'[r].at # "label"
    BY <2>2, <2>3 DEF IsEdit, Free, EditType
  <2>6. ~PackagesFirst(r)'
    BY <2>2, <2>3 DEF PackagesFirst, Working, Free, EditType
  <2>7. QED
    BY <2>1, <2>2, <2>4, <2>5, <2>6, LabelFrame
<1>5. CASE UNCHANGED vars \/ (\E s \in LeaseKey : Lapse(s)) \/ \E p \in Person : Open(p)
  <2>1. UNCHANGED <<req, meta, latest>>
    BY <1>5 DEF vars, Lapse, Open, flowVars, prVars
  <2>2. QED
    BY <2>1 DEF LabelInv, LabelsOwing, IsEdit, PackagesFirst, Working, FirstRound, PlainEntries,
                PlainEdits, Free
<1>6. QED
  BY <1>1, <1>2, <1>3, <1>4, <1>5, FlowStepCases, LoadEditKeepsLabels, LeaseStepKeepsLabels,
     WriteVersionKeepsLabels, WriteLabelKeepsLabels, FinishKeepsLabels, StoreCallKeepsLabels, Zenon

(* At the start no version has a label. *)
LEMMA InitLabels ==
  ASSUME FlowInit
  PROVE  LabelInv
<1>1. PICK r \in Request, d \in FirstScreen, c \in Card :
        req = [x \in Request |->
                 IF x = r THEN [kind |-> "create", at |-> "flow", decision |-> d, card |-> c]
                 ELSE None]
  BY DEF FlowInit
<1>2. \A x \in Request : Free(x) \/ req[x].kind = "create"
  BY <1>1 DEF Free
<1>3. \A x \in Request : ~IsEdit(x) /\ ~PackagesFirst(x)
  BY <1>2 DEF IsEdit, PackagesFirst, Working
<1>4. \A v \in Version : meta[v] = None
  BY DEF FlowInit
<1>5. QED
  BY <1>3, <1>4 DEF LabelInv, LabelsOwing

(* The labels are what LabelInv says, always. *)
LEMMA LabelInvariant == FlowSpec => [](TypeOK /\ FlowTypeOK /\ WorkInv /\ LabelInv)
<1>1. FlowInit => LabelInv
  BY InitLabels
<1>2. TypeOK /\ FlowTypeOK /\ WorkInv /\ LabelInv /\ [FlowNext]_vars => LabelInv'
  BY StepKeepsLabels
<1>3. QED
  BY <1>1, <1>2, WorkInvariant, PTL DEF FlowSpec

(* The only writes of the list of labels.                                    *)
LEMMA LabelWrites ==
  ASSUME FlowTypeOK, [FlowNext]_vars
  PROVE  \/ meta' = meta
         \/ \E r \in Request : WriteLabel(r)
         \/ \E r \in Request : PackagesFirst(r) /\ FirstLabelled(r) /\ latest' = latest
<1>1. CASE \E r \in Request : FinishCall(r)
  <2> PICK r \in Request : FinishCall(r)
    BY <1>1
  <2>1. PICK s \in RunStep, o \in {"done", "partial", "failed"} : Ends(r, s, o)
    BY FinishEnds
  <2>2. latest' = latest
    BY <2>1 DEF Ends, Finish, prVars
  <2>3. CASE s = "package" /\ FirstLabelled(r)
    BY <2>1, <2>2, <2>3 DEF PackagesFirst, Ends, Finish, FirstLabelled
  <2>4. QED
    BY <2>1, <2>2, <2>3 DEF Ends
<1>2. CASE \E r \in Request : Arrive(r) \/ StoreCall(r)
  <2>1. UNCHANGED flowVars
    BY <1>2, ArriveReads, StoreCallShortens, Zenon
  <2>2. QED
    BY <2>1 DEF flowVars
<1>3. CASE \E r \in Request :
             \/ CreateFlow(r) \/ CreateIntake(r) \/ LeaseStep(r) \/ LeaseRevise(r)
             \/ FlagClarify(r) \/ SaveClarify(r) \/ Clear(r) \/ Close(r)
             \/ Sign(r) \/ SignRefused(r)
             \/ WriteVersion(r) \/ FailEdit(r) \/ ReleaseRevise(r)
  BY <1>3 DEF CreateFlow, CreateIntake, LeaseStep, LeaseRevise, FlagClarify, SaveClarify, Clear,
     Close, Sign, SignRefused, WriteVersion, FailEdit, ReleaseRevise, flowVars
<1>4. CASE \/ \E r \in Request : Dies(r)
           \/ \E s \in LeaseKey : Lapse(s)
           \/ \E p \in Person : Open(p)
           \/ UNCHANGED vars
  BY <1>4 DEF Dies, Crash, FailCreate, Lapse, Open, vars, flowVars
<1>5. QED
  BY <1>1, <1>2, <1>3, <1>4, FlowStepCases, Zenon

(* No step changes a label or unlocks a version. *)
LEMMA LabelsKept ==
  ASSUME TypeOK, FlowTypeOK, LabelInv, [FlowNext]_vars, NEW v \in Version, meta[v] # None
  PROVE  /\ LabelOf(v)' = LabelOf(v)
         /\ meta[v].locked => meta'[v] # None /\ meta'[v].locked
<1>1. CASE meta'[v] = meta[v]
  BY <1>1 DEF LabelOf
<1>2. CASE \E r \in Request : WriteLabel(r)
  <2> PICK r \in Request : WriteLabel(r)
    BY <1>2
  <2>1. v # req[r].base + 1
    BY WriteLabelEntry
  <2>2. QED
    BY <1>1, <2>1, WriteLabelEntry
<1>3. CASE \E r \in Request : PackagesFirst(r) /\ FirstLabelled(r) /\ latest' = latest
  <2>1. PlainEntries /\ (meta'[v] # None => v = 1 /\ meta'[v] = Entry(<<0, 1>>, FALSE))
    BY <1>3, FirstLabelledEntry
  <2>2. meta[v] = Entry(<<0, v>>, FALSE)
    BY <2>1 DEF PlainEntries
  <2>3. meta[v].label = <<0, v>> /\ ~meta[v].locked
    BY <2>2 DEF Entry
  <2>4. meta'[v] # None => meta'[v].label = <<0, v>>
    BY <2>1 DEF Entry
  <2>5. QED
    BY <2>3, <2>4 DEF LabelOf
<1>4. QED
  BY <1>1, <1>2, <1>3, LabelWrites

(* A version keeps the label it was given and, once sent for review, its     *)
(* lock, whatever writes the list of labels: the label of a later edit, or   *)
(* the first package's whole list, made from what it read under its lease.   *)
THEOREM LabelsCorrect == FlowSpec => LabelsAreStable
<1>1. TypeOK /\ FlowTypeOK /\ LabelInv /\ [FlowNext]_vars =>
        [\A v \in Version : meta[v] # None =>
           /\ LabelOf(v)' = LabelOf(v)
           /\ meta[v].locked => meta'[v] # None /\ meta'[v].locked]_vars
  BY LabelsKept
<1>2. QED
  BY <1>1, LabelInvariant, PTL DEF FlowSpec, LabelsAreStable

-----------------------------------------------------------------------------
(* Sign-offs: whoever is about to sign found the version locked, a locked    *)
(* version stays locked, and the store records a sign-off on the latest      *)
(* version or not at all. A new version clears them.                         *)
Signing(r) == ~Free(r) /\ req[r].kind \in {"approve", "reject"}
SignInv ==
  /\ \A r \in Request : Signing(r) => LockedVersion(req[r].base)
  /\ SignedOnlyInReview

(* Where a request in flight after a step comes from.                        *)
LEMMA RequestMoves ==
  ASSUME FlowTypeOK, [FlowNext]_vars, NEW x \in Request, ~Free(x)'
  PROVE  \/ req'[x] = req[x] /\ ~Free(x)
         \/ Arrive(x)
         \/ CreateFlow(x) /\ req[x] \in CreateType /\ req'[x] = [req[x] EXCEPT !.at = "intake"]
         \/ LeaseStep(x) /\ Takes(req[x].step)
         \/ StoreCall(x)
         \/ FlagClarify(x) /\ req[x] \in ClarifyType /\ req'[x] = [req[x] EXCEPT !.at = "save"]
         \/ /\ req[x] \in EditType
            /\ \E a \in {"write", "label", "release"} : req'[x] = [req[x] EXCEPT !.at = a]
<1>1. ASSUME NEW r \in Request, Arrive(r) \/ Proceed(r) \/ Crash(r), x # r
      PROVE  req'[x] = req[x] /\ ~Free(x)
  BY <1>1, OnlyItsSlot DEF Free
<1>2. CASE CreateFlow(x) \/ CreateIntake(x)
  BY <1>2, KindTypes DEF CreateFlow, CreateIntake, End, Goto, Free, FlowTypeOK
<1>3. CASE LeaseStep(x)
  BY <1>3 DEF LeaseStep, End, Free, FlowTypeOK
<1>4. CASE LeaseRevise(x)
  <2>1. req[x] \in EditType
    BY <1>4, KindTypes DEF LeaseRevise
  <2>2. \E a \in {"write", "release"} : req'[x] = [req[x] EXCEPT !.at = a]
    BY <1>4 DEF LeaseRevise, End, Goto, Free, FlowTypeOK
  <2>3. QED
    BY <2>1, <2>2
<1>5. CASE FinishCall(x)
  BY <1>5, FinishEnds DEF Ends, Finish, End, Free, FlowTypeOK
<1>6. CASE FlagClarify(x) \/ SaveClarify(x) \/ Clear(x) \/ Close(x) \/ Sign(x) \/ SignRefused(x)
  BY <1>6, KindTypes
     DEF FlagClarify, SaveClarify, Clear, Close, Sign, SignRefused, End, Goto, Free, FlowTypeOK
<1>7. CASE WriteVersion(x) \/ WriteLabel(x) \/ FailEdit(x) \/ ReleaseRevise(x)
  BY <1>7, EditMoves DEF End, Free, FlowTypeOK
<1>8. CASE Dies(x)
  BY <1>8 DEF Dies, Crash, FailCreate, End, Free, FlowTypeOK
<1>9. CASE (\E s \in LeaseKey : Lapse(s)) \/ (\E p \in Person : Open(p)) \/ UNCHANGED vars
  BY <1>9 DEF Lapse, Open, vars, Free
<1>10. CASE \E r \in Request : Arrive(r) \/ Proceed(r) \/ Crash(r)
  <2> PICK r \in Request : Arrive(r) \/ Proceed(r) \/ Crash(r)
    BY <1>10
  <2>1. CASE x # r
    BY <1>1, <2>1
  <2>2. CASE x = r
    BY <1>2, <1>3, <1>4, <1>5, <1>6, <1>7, <1>8, <2>2, Zenon DEF Proceed, StoreCall, FinishCall, Dies
  <2>3. QED
    BY <2>1, <2>2
<1>11. QED
  BY <1>9, <1>10, Zenon DEF FlowNext

(* A request to sign was let in by the lock of the version it names.         *)
LEMMA SignersFromReview ==
  ASSUME FlowTypeOK, [FlowNext]_vars, NEW x \in Request, Signing(x)'
  PROVE  \/ Signing(x) /\ req'[x] = req[x]
         \/ CurrentLocked /\ meta' = meta /\ req'[x].base = latest
<1>0. ~Free(x)' /\ req'[x].kind \in {"approve", "reject"}
  BY DEF Signing
<1>1. CASE req'[x] = req[x] /\ ~Free(x)
  BY <1>1 DEF Signing, Free
<1>2. CASE Arrive(x)
  <2>1. \E p \in Person, role \in Role, k \in {"approve", "reject"} :
          MaySign(p) /\ req'[x] = SignRequest(p, k, role)
    <3>1. \A p, k, l, lk : EditRequest(p, k, l, lk).kind = k
      BY DEF EditRequest
    <3>2. \A s : req'[x] # [kind |-> "step", step |-> s, at |-> "loaded"]
      <4>1. \A s : [kind |-> "step", step |-> s, at |-> "loaded"].kind = "step"
        OBVIOUS
      <4>2. QED
        BY <1>0, <4>1
    <3>3. req'[x].kind # "clarify" /\ req'[x] # [kind |-> "clear"] /\ req'[x] # [kind |-> "close"]
      <4>1. [kind |-> "clear"].kind = "clear" /\ [kind |-> "close"].kind = "close"
        OBVIOUS
      <4>2. QED
        BY <1>0, <4>1
    <3>4. \A p, l, lk : \A k \in {"revise", "verify", "send"} : req'[x] # EditRequest(p, k, l, lk)
      BY <1>0, <3>1
    <3>5. {"revise", "verify"} \subseteq {"revise", "verify", "send"}
          /\ "send" \in {"revise", "verify", "send"}
      OBVIOUS
    <3>6. QED
      BY <1>2, <3>2, <3>3, <3>4, <3>5, ArriveReads, Zenon
  <2>2. \A p, k, role : SignRequest(p, k, role).base = latest
    BY DEF SignRequest
  <2>3. meta' = meta
    BY <1>2, ArriveReads, Zenon DEF flowVars
  <2>4. QED
    BY <2>1, <2>2, <2>3 DEF MaySign
<1>3. CASE \/ CreateFlow(x) /\ req[x] \in CreateType /\ req'[x] = [req[x] EXCEPT !.at = "intake"]
           \/ FlagClarify(x) /\ req[x] \in ClarifyType /\ req'[x] = [req[x] EXCEPT !.at = "save"]
  BY <1>0, <1>3 DEF CreateType, ClarifyType
<1>4. CASE LeaseStep(x) /\ Takes(req[x].step)
  BY <1>0, <1>4 DEF LeaseStep, FlowTypeOK
<1>5. CASE StoreCall(x)
  <2>1. req'[x] = Next1(x) \/ \E d \in Verdict : req'[x] = [Next1(x) EXCEPT !.decision = d]
    BY <1>5, StoreCallShortens DEF FlowTypeOK
  <2>2. Next1(x) \in LeasedType
    BY <1>5, StoreCallShortens, StoresShortens
  <2>3. QED
    BY <1>0, <2>1, <2>2 DEF LeasedType
<1>6. CASE /\ req[x] \in EditType
           /\ \E a \in {"write", "label", "release"} : req'[x] = [req[x] EXCEPT !.at = a]
  BY <1>0, <1>6 DEF EditType
<1>7. QED
  BY <1>0, <1>1, <1>2, <1>3, <1>4, <1>5, <1>6, RequestMoves, Zenon

(* The only writes of the sign-offs.                                         *)
LEMMA SignoffWrites ==
  ASSUME FlowTypeOK, [FlowNext]_vars
  PROVE  \/ UNCHANGED <<latest, signoffs>>
         \/ \A role \in Role : signoffs'[role] = None
         \/ \E r \in Request : Signing(r) /\ req[r].base = latest /\ latest # 0 /\ latest' = latest
<1>1. CASE \E r \in Request : FinishCall(r)
  <2> PICK r \in Request : FinishCall(r)
    BY <1>1
  <2>1. PICK s \in RunStep, o \in {"done", "partial", "failed"} : Ends(r, s, o)
    BY FinishEnds
  <2>2. QED
    BY <2>1 DEF Ends, Finish, prVars
<1>2. CASE \E r \in Request : Arrive(r)
  <2>1. UNCHANGED prVars
    BY <1>2, ArriveReads, Zenon
  <2>2. QED
    BY <2>1 DEF prVars
<1>3. CASE \E r \in Request : StoreCall(r)
  <2>1. CASE \E r \in Request : StoreFirstDraft(r)
    BY <2>1 DEF StoreFirstDraft, CreateVersion
  <2>2. CASE \E r \in Request : StoreScreen(r) \/ \E x \in Step : StoreStep(r, x) \/ SkipStored(r, x)
    BY <2>2 DEF StoreScreen, StoreStep, SkipStored, CompleteStep, contentVars, prVars
  <2>3. QED
    BY <1>3, <2>1, <2>2, Zenon DEF StoreCall
<1>4. CASE \E r \in Request : WriteVersion(r)
  BY <1>4 DEF WriteVersion, CreateVersion
<1>5. CASE \E r \in Request : Sign(r)
  <2> PICK r \in Request : Sign(r)
    BY <1>5
  <2>1. Signing(r) /\ latest' = latest /\ MayRecord(req[r].by, req[r].base)
    BY DEF Sign, Signing, Reject, ApproveReview, ApproveFinal, RecordSignoff
  <2>2. QED
    BY <2>1 DEF MayRecord
<1>6. CASE \E r \in Request :
             \/ CreateFlow(r) \/ CreateIntake(r) \/ LeaseStep(r) \/ LeaseRevise(r)
             \/ FlagClarify(r) \/ SaveClarify(r) \/ Clear(r) \/ Close(r) \/ SignRefused(r)
             \/ WriteLabel(r) \/ FailEdit(r) \/ ReleaseRevise(r)
  BY <1>6 DEF CreateFlow, CreateIntake, CompleteStep, LeaseStep, LeaseRevise, FlagClarify,
     FlagEscalation, SaveClarify, NoteEvent, Clear, ClearEscalation, Close, SignRefused,
     WriteLabel, FailEdit, ReleaseRevise, prVars, contentVars
<1>7. CASE \/ \E r \in Request : Dies(r)
           \/ \E s \in LeaseKey : Lapse(s)
           \/ \E p \in Person : Open(p)
           \/ UNCHANGED vars
  BY <1>7 DEF Dies, Crash, FailCreate, Lapse, Open, vars, prVars
<1>8. QED
  BY <1>1, <1>2, <1>3, <1>4, <1>5, <1>6, <1>7, FlowStepCases, Zenon

(* Every step keeps what is known of the sign-offs on their way. *)
LEMMA StepKeepsSigns ==
  ASSUME TypeOK, FlowTypeOK, LabelInv, SignInv, [FlowNext]_vars
  PROVE  SignInv'
<1>1. \A v \in Version : LockedVersion(v) => LockedVersion(v)'
  BY LabelsKept DEF LockedVersion
<1>2. CurrentLocked <=> latest \in Version /\ LockedVersion(latest)
  BY DEF CurrentLocked, LockedVersion, TypeOK, Version
<1>3. \A r \in Request : Signing(r) => req[r].base \in Version
  BY KindTypes DEF Signing, SignType
<1>4. ASSUME NEW x \in Request, Signing(x)'
      PROVE  LockedVersion(req[x].base)'
  <2>1. CASE Signing(x) /\ req'[x] = req[x]
    BY <1>1, <1>3, <2>1 DEF SignInv
  <2>2. CASE CurrentLocked /\ meta' = meta /\ req'[x].base = latest
    BY <1>2, <2>2 DEF LockedVersion
  <2>3. QED
    BY <1>4, <2>1, <2>2, SignersFromReview
<1>5. CurrentLocked /\ latest' = latest => CurrentLocked'
  BY <1>1, <1>2 DEF CurrentLocked, LockedVersion
<1>6. SignedOnlyInReview'
  <2>1. CASE UNCHANGED <<latest, signoffs>>
    BY <1>5, <2>1 DEF SignInv, SignedOnlyInReview
  <2>2. CASE \A role \in Role : signoffs'[role] = None
    BY <2>2 DEF SignedOnlyInReview
  <2>3. CASE \E r \in Request :
               Signing(r) /\ req[r].base = latest /\ latest # 0 /\ latest' = latest
    <3>1. latest \in Version /\ LockedVersion(latest)
      BY <1>3, <2>3 DEF SignInv
    <3>2. QED
      BY <1>2, <1>5, <2>3, <3>1 DEF SignedOnlyInReview
  <2>4. QED
    BY <2>1, <2>2, <2>3, SignoffWrites
<1>7. QED
  BY <1>4, <1>6 DEF SignInv

(* A sign-off stands only on a version that was sent for review: the lock    *)
(* that let the person in, and the version the store recorded the sign-off   *)
(* on in a later transaction, are of one version, the latest.                *)
THEOREM SignedCorrect == FlowSpec => []SignedOnlyInReview
<1>1. FlowInit => SignInv
  <2> SUFFICES ASSUME FlowInit PROVE SignInv
    OBVIOUS
  <2>1. PICK r \in Request, d \in FirstScreen, c \in Card :
          req = [x \in Request |->
                   IF x = r THEN [kind |-> "create", at |-> "flow", decision |-> d, card |-> c]
                   ELSE None]
    BY DEF FlowInit
  <2>2. \A x \in Request : Free(x) \/ req[x].kind = "create"
    BY <2>1 DEF Free
  <2>3. \A role \in Role : signoffs[role] = None
    BY DEF FlowInit, Init
  <2>4. QED
    BY <2>2, <2>3 DEF SignInv, Signing, SignedOnlyInReview
<1>2. TypeOK /\ FlowTypeOK /\ LabelInv /\ SignInv /\ [FlowNext]_vars => SignInv'
  BY StepKeepsSigns
<1>3. SignInv => SignedOnlyInReview
  BY DEF SignInv
<1>4. QED
  BY <1>1, <1>2, <1>3, LabelInvariant, PTL DEF FlowSpec

-----------------------------------------------------------------------------

(* The screen comes first. Once create_run has written the flow, the run is  *)
(* judged: its intake is checkpointed, or its screen is pending, or the flow *)
(* says what create_run's screen decided. A screen is owed while there is    *)
(* neither a checkpoint nor a decision to go by; it is never owed again, and *)
(* nothing past the screen step passes its checks while it is.               *)
Owed == ~Stored("intake") /\ (pending \/ screen = "none")
Judged == Stored("intake") \/ pending \/ screen # "none"
Screens(r) == OfKind(r, "step") /\ req[r].step = "screen" /\ req[r].at = "leased"
Screening(r) ==
  \/ req[r].todo = <<"intake">> /\ (Stored("intake") \/ pending)
  \/ req[r].todo = <<>> /\ ~Owed /\ (req[r].decision # "none" => Stored("intake"))
Builds(r) == OfKind(r, "step") /\ req[r].step # "screen" /\ req[r].at = "leased"
NeverScreens(todo) == \A i \in DOMAIN todo : todo[i] # "intake"
Checked(r) ==
  OfKind(r, "step") =>
    /\ Judged
    /\ req[r].step # "screen" => ~Owed
    /\ Screens(r) => Screening(r)
    /\ Builds(r) => NeverScreens(req[r].todo)
IntakeInv ==
  /\ Owed => latest = 0 /\ stage["screen"] # "done"
  /\ stage["intake"] = "done" => Judged
  /\ \A r \in Request : Checked(r)

(* What is checkpointed stays so, and an escalation once raised does not go  *)
(* without a trace.                                                          *)
LEMMA StoreKeeps ==
  ASSUME TypeOK, [FlowNext]_vars
  PROVE  /\ \A x \in Step : Stored(x) => Stored(x)'
         /\ escalation # "none" => escalation' # "none"
<1>1. [Next]_prVars
  BY StepSimulated
<1>2. latest \in Nat /\ round \in [Step -> Nat]
  BY CapsAssumption DEF TypeOK
<1>3. CASE \E u \in Actor, s \in Step, st \in PipelineStatus \cup {None}, e \in BOOLEAN :
              CompleteStep(u, s, st, e)
  BY <1>2, <1>3 DEF CompleteStep, Stored, BuildRound
<1>4. CASE \E u \in Actor, v \in Version, c \in Content, s \in Step \cup {None} :
              CreateVersion(u, v, c, s)
  <2> PICK u \in Actor, v \in Version, c \in Content, s \in Step \cup {None} :
              CreateVersion(u, v, c, s)
    BY <1>4
  <2>1. v # 0 /\ escalation' = escalation
    BY DEF CreateVersion, Version
  <2>2. round' = IF s = None THEN round ELSE [round EXCEPT ![s] = v]
    BY DEF CreateVersion
  <2>3. QED
    BY <1>2, <2>1, <2>2 DEF Stored
<1>5. CASE \/ \E a \in Actor : ClearEscalation(a) \/ FlagEscalation(a)
  BY <1>5 DEF ClearEscalation, FlagEscalation, Stored
<1>6. CASE UNCHANGED <<round, escalation>>
  BY <1>6 DEF Stored
<1>7. QED
  <2>1. \A a, u, q, w, d, role, v :
          \/ AddParticipant(a, u) \/ NoteEvent(a) \/ AttestQuote(a, q, w, d)
          \/ Reject(role, a, v) \/ ApproveReview(role, a, v) \/ ApproveFinal(a, v)
          => UNCHANGED <<round, escalation>>
    BY DEF AddParticipant, NoteEvent, AttestQuote, Reject, ApproveReview, ApproveFinal, RecordSignoff
  <2>2. UNCHANGED prVars => UNCHANGED <<round, escalation>>
    BY DEF prVars
  <2>3. QED
    BY <1>1, <1>3, <1>4, <1>5, <1>6, <2>1, <2>2, StepCases, Zenon

(* Only the screen's runner checkpoints the intake. *)
LEMMA BuildersNeverScreen ==
  ASSUME NEW s \in RunStep, s # "screen"
  PROVE  NeverScreens(Todo(s))
<1>1. s \in {"research", "draft", "package", "notes"}
  BY DEF RunStep, StepIds
<1>2. CASE s \in {"research", "draft"}
  <2>1. PICK a \in {"research", "draft"}, b \in {"angle", "qa"} : Todo(s) = Missing(a) \o Missing(b)
    BY <1>2 DEF Todo
  <2>2. ASSUME NEW x \in Step, x # "intake"
        PROVE  Missing(x) \in Seq(Step) /\ NeverScreens(Missing(x))
    <3>1. <<x>> \in Seq(Step) /\ DOMAIN <<x>> = {1} /\ <<x>>[1] = x
      BY <2>2
    <3>2. <<>> \in Seq(Step) /\ DOMAIN <<>> = {}
      OBVIOUS
    <3>3. NeverScreens(<<x>>) /\ NeverScreens(<<>>)
      BY <2>2, <3>1, <3>2 DEF NeverScreens
    <3>4. CASE Stored(x)
      BY <3>2, <3>3, <3>4 DEF Missing
    <3>5. CASE ~Stored(x)
      BY <3>1, <3>3, <3>5 DEF Missing
    <3>6. QED
      BY <3>4, <3>5
  <2>3. \A p, q \in Seq(Step) : NeverScreens(p) /\ NeverScreens(q) => NeverScreens(p \o q)
    <3> SUFFICES ASSUME NEW p \in Seq(Step), NEW q \in Seq(Step),
                        NeverScreens(p), NeverScreens(q), NEW i \in DOMAIN (p \o q)
                 PROVE  (p \o q)[i] # "intake"
      BY DEF NeverScreens
    <3>1. i \in 1 .. Len(p) + Len(q)
      OBVIOUS
    <3>2. CASE i \in 1 .. Len(p)
      BY <3>2 DEF NeverScreens
    <3>3. CASE i \in Len(p) + 1 .. Len(p) + Len(q)
      BY <3>3 DEF NeverScreens
    <3>4. QED
      BY <3>1, <3>2, <3>3
  <2>4. PICK p, q : p = Missing(a) /\ q = Missing(b)
    OBVIOUS
  <2>5. /\ p \in Seq(Step) /\ NeverScreens(p)
        /\ q \in Seq(Step) /\ NeverScreens(q)
    <3>1. a \in Step /\ a # "intake" /\ b \in Step /\ b # "intake"
      BY StoredStepsAssumption
    <3>2. QED
      BY <2>2, <2>4, <3>1
  <2>6. QED
    BY <2>1, <2>3, <2>4, <2>5
<1>3. CASE s = "package"
  BY <1>3 DEF Todo, NeverScreens
<1>4. CASE s = "notes"
  BY <1>4 DEF Todo, NeverScreens
<1>5. QED
  BY <1>1, <1>2, <1>3, <1>4

(* A step that begins no screen and leaves what is known of the intake. *)
LEMMA IntakeFrame ==
  ASSUME IntakeInv, NEW r \in Request,
         \A x \in Request \ {r} : req'[x] = req[x],
         Stored("intake") => Stored("intake")',
         pending' => pending,
         pending => pending' \/ Stored("intake")',
         screen # "none" => screen' # "none",
         stage'["intake"] = stage["intake"],
         \/ stage'["screen"] = stage["screen"]
         \/ stage'["screen"] # "done"
         \/ ~Owed,
         latest' = latest \/ ~Owed,
         Checked(r)'
  PROVE  IntakeInv'
<1>1. (Owed' => Owed) /\ (Judged => Judged')
  BY DEF Owed, Judged
<1>2. ASSUME NEW x \in Request \ {r}
      PROVE  Checked(x)'
  <2>1. Checked(x) /\ req'[x] = req[x]
    BY DEF IntakeInv
  <2>2. Screening(x) => Screening(x)'
    BY <1>1, <2>1 DEF Screening
  <2>3. /\ OfKind(x, "step")' <=> OfKind(x, "step")
        /\ Screens(x)' <=> Screens(x)
        /\ Builds(x)' <=> Builds(x)
    BY <2>1 DEF OfKind, Screens, Builds, Free
  <2>4. QED
    BY <1>1, <2>1, <2>2, <2>3 DEF Checked
<1>3. Owed' => latest' = 0 /\ stage'["screen"] # "done"
  BY <1>1 DEF IntakeInv
<1>4. stage'["intake"] = "done" => Judged'
  BY <1>1 DEF IntakeInv
<1>5. QED
  BY <1>2, <1>3, <1>4 DEF IntakeInv

(* A request that has just passed its checks is a step, or no step and no new run. *)
LEMMA ArriveKinds ==
  ASSUME FlowTypeOK, NEW r \in Request, Arrive(r)
  PROVE  \/ \E s \in RunStep :
               req'[r] = [kind |-> "step", step |-> s, at |-> "loaded"] /\ LoadStep(r, s)
         \/ /\ req'[r].kind = "clarify" /\ req'[r].at = ClarifyStarts(req'[r].decision)
         \/ req'[r].kind \notin {"create", "step", "clarify"}
<1>1. [kind |-> "clear"].kind = "clear" /\ [kind |-> "close"].kind = "close"
  OBVIOUS
<1>2. \A p, k, l, lk : EditRequest(p, k, l, lk).kind = k
  BY DEF EditRequest
<1>3. \A p, k, role : SignRequest(p, k, role).kind = k
  BY DEF SignRequest
<1>4. CASE req'[r] = [kind |-> "clear"] \/ req'[r] = [kind |-> "close"]
  BY <1>1, <1>4
<1>5. CASE \E p, l, lk : \E k \in {"revise", "verify", "send"} : req'[r] = EditRequest(p, k, l, lk)
  BY <1>2, <1>5
<1>6. CASE \E p, role : \E k \in {"approve", "reject"} : req'[r] = SignRequest(p, k, role)
  BY <1>3, <1>6
<1>7. {"revise", "verify"} \subseteq {"revise", "verify", "send"} /\ "send" \in {"revise", "verify", "send"}
  OBVIOUS
<1>8. QED
  BY <1>4, <1>5, <1>6, <1>7, ArriveReads, Zenon

(* The end of a step, which may save what the screen decided. *)
LEMMA FinishKeepsIntake ==
  ASSUME TypeOK, FlowTypeOK, IntakeInv, NEW r \in Request, FinishCall(r)
  PROVE  IntakeInv'
<1>1. \A x \in Request \ {r} : req'[x] = req[x]
  BY OnlyItsSlot, Zenon DEF Proceed, FinishCall
<1>2. PICK s \in RunStep, o \in {"done", "partial", "failed"} : Ends(r, s, o)
  BY FinishEnds
<1>3. /\ UNCHANGED <<round, latest>> /\ req'[r] = None
      /\ stage' = [stage EXCEPT ![s] = o]
      /\ OfKind(r, "step") /\ req[r].step = s /\ req[r].at = "leased"
  BY <1>2 DEF Ends, Finish, Working, End, FlowTypeOK, prVars, OfKind
<1>4. s # "intake" /\ {"intake", "screen"} \subseteq LeaseKey
  BY DEF RunStep, StepIds, LeaseKey
<1>5. Checked(r)
  BY DEF IntakeInv
<1>6. s = "screen" => Screening(r)
  BY <1>3, <1>5 DEF Checked, Screens
<1>7. <<"intake">> # <<>>
  OBVIOUS
<1>8. s = "screen" /\ req[r].todo = <<>> =>
        ~Owed /\ (req[r].decision # "none" => Stored("intake"))
  BY <1>6, <1>7 DEF Screening
<1>9. stage'["screen"] = stage["screen"] \/ stage'["screen"] # "done" \/ ~Owed
  BY <1>2, <1>3, <1>4, <1>8 DEF Ends, FlowTypeOK
<1>10. Stored("intake") <=> Stored("intake")'
  BY <1>3 DEF Stored
<1>11. /\ pending' => pending
       /\ pending => pending' \/ Stored("intake")'
       /\ screen # "none" => screen' # "none"
  BY <1>2, <1>8, <1>10 DEF Ends, ScreenSaved
<1>12. stage'["intake"] = stage["intake"]
  BY <1>3, <1>4 DEF FlowTypeOK
<1>13. Checked(r)'
  BY <1>3 DEF Checked, OfKind, Free
<1>14. QED
  BY <1>1, <1>3, <1>9, <1>10, <1>11, <1>12, <1>13, IntakeFrame

(* The screen's runner leaves nothing to store but a checkpointed intake;    *)
(* any other runner works on a run whose screen is not owed.                 *)
LEMMA StoreCallKeepsIntake ==
  ASSUME TypeOK, FlowTypeOK, IntakeInv, [FlowNext]_vars, NEW r \in Request, StoreCall(r)
  PROVE  IntakeInv'
<1>1. \A x \in Request \ {r} : req'[x] = req[x]
  BY OnlyItsSlot, Zenon DEF Proceed, StoreCall
<1>2. PICK x : Stores(r, x)
  BY StoreCallShortens
<1>3. req[r] \in LeasedType /\ OfKind(r, "step") /\ req[r].at = "leased"
  BY <1>2, StoresShortens DEF Stores, OfKind
<1>4. req'[r] = Next1(r) \/ \E d \in Verdict : req'[r] = [Next1(r) EXCEPT !.decision = d]
  BY StoreCallShortens DEF FlowTypeOK
<1>5. /\ req'[r].kind = "step" /\ req'[r].step = req[r].step
      /\ req'[r].todo = Tail(req[r].todo)
  BY <1>3, <1>4 DEF Next1, LeasedType
<1>6. UNCHANGED <<stage, pending, screen>>
  BY StoreCallShortens DEF flowVars
<1>7. Stored("intake") => Stored("intake")'
  BY StoreKeeps, StoredStepsAssumption
<1>8. Checked(r)
  BY DEF IntakeInv
<1>9. req[r].step = "screen" => req[r].todo = <<"intake">> /\ x = "intake"
  BY <1>2, <1>3, <1>8 DEF Checked, Screens, Screening, Stores
<1>10. ASSUME req[r].step = "screen"
       PROVE  Stored("intake")' /\ latest' = latest
  <2>1. \A y : Stores(r, y) => y = "intake"
    BY <1>9, <1>10 DEF Stores
  <2>2. ~StoreFirstDraft(r) /\ \A y \in Step : ~StoreStep(r, y)
    BY <2>1 DEF StoreFirstDraft, StoreStep
  <2>3. CASE StoreScreen(r)
    BY <2>3, StoredStepsAssumption
       DEF StoreScreen, CompleteStep, Stored, BuildRound, TypeOK, contentVars
  <2>4. CASE \E y \in Step : SkipStored(r, y)
    BY <2>1, <2>4, StoredStepsAssumption
       DEF SkipStored, StepDone, Stored, BuildRound, TypeOK, prVars
  <2>5. QED
    BY <2>2, <2>3, <2>4, Zenon DEF StoreCall
<1>11. req[r].step # "screen" => ~Owed
  BY <1>3, <1>8 DEF Checked
<1>12. latest' = latest \/ ~Owed
  BY <1>10, <1>11
<1>13. Judged' /\ (req[r].step # "screen" => ~Owed')
  BY <1>3, <1>6, <1>7, <1>8, <1>11 DEF Checked, Judged, Owed
<1>14. Screens(r)' => Screening(r)'
  <2>1. Tail(<<"intake">>) = <<>>
    OBVIOUS
  <2>2. Screens(r)' => req[r].step = "screen"
    BY <1>5 DEF Screens
  <2>3. QED
    BY <1>5, <1>9, <1>10, <2>1, <2>2 DEF Screening, Owed
<1>15. Builds(r)' => NeverScreens(req'[r].todo)
  <2>1. Builds(r)' => Builds(r)
    BY <1>3, <1>5 DEF Builds
  <2>2. PICK todo \in Seq(Step) : todo = req[r].todo /\ todo # <<>>
    BY <1>2, <1>3 DEF LeasedType, Stores
  <2>3. NeverScreens(todo) => NeverScreens(Tail(todo))
    BY <2>2 DEF NeverScreens
  <2>4. QED
    BY <1>3, <1>5, <1>8, <2>1, <2>2, <2>3 DEF Checked
<1>16. Checked(r)'
  BY <1>5, <1>13, <1>14, <1>15 DEF Checked
<1>17. QED
  BY <1>1, <1>6, <1>7, <1>12, <1>16, IntakeFrame

(* A run is let past the screen only when its screen is not owed.            *)
LEMMA ArriveKeepsIntake ==
  ASSUME TypeOK, FlowTypeOK, IntakeInv, NEW r \in Request, Arrive(r)
  PROVE  IntakeInv'
<1>1. \A x \in Request \ {r} : req'[x] = req[x]
  BY OnlyItsSlot
<1>2. UNCHANGED <<prVars, flowVars>>
  BY ArriveReads, Zenon
<1>3. UNCHANGED <<latest, round, stage, pending, screen>>
  BY <1>2 DEF prVars, flowVars
<1>4. /\ Stored("intake")' <=> Stored("intake")
      /\ Owed' <=> Owed
      /\ Judged' <=> Judged
  BY <1>3 DEF Stored, Owed, Judged
<1>5. Checked(r)'
  <2>1. CASE \E s \in RunStep :
               req'[r] = [kind |-> "step", step |-> s, at |-> "loaded"] /\ LoadStep(r, s)
    <3> PICK s \in RunStep :
               req'[r] = [kind |-> "step", step |-> s, at |-> "loaded"] /\ LoadStep(r, s)
      BY <2>1
    <3>1. req'[r].step = s /\ req'[r].at = "loaded"
      OBVIOUS
    <3>2. PICK i \in 2 .. 6 : s = StepIds[i]
      BY DEF RunStep
    <3>3. \A j \in 1 .. i - 1 : Passed(StepIds[j])
      BY <3>2 DEF LoadStep
    <3>4. Passed("intake") /\ (s # "screen" => Passed("screen"))
      <4>1. StepIds[1] = "intake" /\ StepIds[2] = "screen" /\ (s # "screen" => i # 2)
        BY <3>2 DEF StepIds
      <4>2. QED
        BY <3>3, <4>1
    <3>5. Judged
      BY <3>4 DEF Passed, StepFinished, IntakeInv, Judged
    <3>6. s # "screen" => ~Owed
      BY <3>4 DEF Passed, StepFinished, ScreenPassed, IntakeInv, Owed
    <3>7. ~Screens(r)' /\ ~Builds(r)'
      BY <3>1 DEF Screens, Builds
    <3>8. QED
      BY <1>4, <3>1, <3>5, <3>6, <3>7 DEF Checked
  <2>2. CASE req'[r].kind \notin {"create", "step"}
    BY <2>2 DEF Checked, OfKind
  <2>3. QED
    BY <2>1, <2>2, ArriveKinds
<1>6. QED
  BY <1>1, <1>3, <1>4, <1>5, IntakeFrame

(* A person's request, or an edit, stays what it is until it is over.        *)
LEMMA SameKind ==
  ASSUME FlowTypeOK, NEW r \in Request,
         \/ LeaseRevise(r) \/ FlagClarify(r) \/ SaveClarify(r) \/ Clear(r) \/ Close(r)
         \/ Sign(r) \/ SignRefused(r)
         \/ WriteVersion(r) \/ WriteLabel(r) \/ FailEdit(r) \/ ReleaseRevise(r)
  PROVE  Free(r)' \/ (~Free(r) /\ req'[r].kind = req[r].kind)
<1>1. CASE LeaseRevise(r)
  <2>1. req[r] \in EditType /\ ~Free(r)
    BY <1>1, KindTypes DEF LeaseRevise
  <2>2. req'[r] = None \/ \E a \in {"write", "release"} : req'[r] = [req[r] EXCEPT !.at = a]
    BY <1>1 DEF LeaseRevise, End, Goto, FlowTypeOK
  <2>3. QED
    BY <2>1, <2>2 DEF EditType, Free
<1>2. CASE FlagClarify(r) \/ SaveClarify(r) \/ Clear(r) \/ Close(r) \/ Sign(r) \/ SignRefused(r)
  <2>1. \/ req'[r] = None
        \/ ~Free(r) /\ req[r].kind = "clarify" /\ req'[r] = [req[r] EXCEPT !.at = "save"]
    BY <1>2 DEF FlagClarify, SaveClarify, Clear, Close, Sign, SignRefused, End, Goto, FlowTypeOK
  <2>2. QED
    BY <2>1, KindTypes DEF ClarifyType, Free
<1>3. CASE WriteVersion(r) \/ WriteLabel(r) \/ FailEdit(r) \/ ReleaseRevise(r)
  <2>1. /\ req[r] \in EditType /\ ~Free(r)
        /\ \/ req'[r] = None
           \/ \E a \in {"label", "release"} : req'[r] = [req[r] EXCEPT !.at = a]
    BY <1>3, EditMoves DEF End, FlowTypeOK
  <2>2. QED
    BY <2>1 DEF EditType, Free
<1>4. QED
  BY <1>1, <1>2, <1>3

(* Every step keeps the screening, whatever dies. *)
LEMMA StepKeepsIntake ==
  ASSUME TypeOK, FlowTypeOK, WorkInv, LabelInv, IntakeInv, [FlowNext]_vars
  PROVE  IntakeInv'
<1> USE StoredStepsAssumption
<1>1. Stored("intake") => Stored("intake")'
  BY StoreKeeps
<1>2. CASE \E r \in Request : CreateFlow(r)
  <2> PICK r \in Request : CreateFlow(r)
    BY <1>2
  <2>1. OfKind(r, "create") /\ req[r] \in CreateType /\ AtFlow(r)
    BY KindTypes DEF CreateFlow, OfKind, AtFlow
  <2>2. NothingYet /\ \A x \in Request \ {r} : Free(x)'
    BY <2>1, OnlyItsSlot DEF Proceed, WorkInv, CreateFirst, Free
  <2>3. req'[r] = None \/ req'[r] = [req[r] EXCEPT !.at = "intake"]
    BY DEF CreateFlow, End, Goto, FlowTypeOK
  <2>4. \A x \in Request : Checked(x)'
    BY <2>1, <2>2, <2>3 DEF Checked, OfKind, Free, CreateType
  <2>5. latest' = 0 /\ pending' = (req[r].decision = "none") /\ screen' = req[r].decision
    BY <2>2 DEF CreateFlow, prVars, NothingYet
  <2>6. Judged' /\ (Owed' => req[r].decision = "none")
    BY <2>5 DEF Judged, Owed
  <2>7. req[r].decision = "none" => stage'["screen"] # "done"
    <3>1. {"intake", "screen"} \subseteq LeaseKey
      BY DEF LeaseKey, StepIds
    <3>2. ASSUME req[r].decision = "none"
          PROVE  stage' = [stage EXCEPT !["intake"] = "done", !["screen"] = "failed"]
      BY <3>2 DEF CreateFlow
    <3>3. QED
      BY <3>1, <3>2 DEF FlowTypeOK
  <2>8. QED
    BY <2>4, <2>5, <2>6, <2>7 DEF IntakeInv
<1>3. CASE \E r \in Request : CreateIntake(r) \/ Dies(r)
  <2> PICK r \in Request : CreateIntake(r) \/ Dies(r)
    BY <1>3
  <2>1. \A x \in Request \ {r} : req'[x] = req[x]
    BY OnlyItsSlot DEF Proceed, Dies
  <2>2. req'[r] = None /\ UNCHANGED <<latest, stage, pending, screen>>
    BY DEF CreateIntake, CompleteStep, Dies, Crash, FailCreate, End, FlowTypeOK, flowVars, prVars, contentVars
  <2>3. Checked(r)'
    BY <2>2 DEF Checked, OfKind, Free
  <2>4. QED
    BY <1>1, <2>1, <2>2, <2>3, IntakeFrame
<1>4. CASE \E r \in Request : LeaseStep(r)
  <2> PICK r \in Request : LeaseStep(r)
    BY <1>4
  <2>1. \A x \in Request \ {r} : req'[x] = req[x]
    BY OnlyItsSlot DEF Proceed
  <2>2. ~Free(r) /\ OfKind(r, "step") /\ req[r].step \in RunStep
    BY KindTypes DEF LeaseStep, OfKind
  <2>3. UNCHANGED <<pending, screen, latest, round>>
    BY DEF LeaseStep, prVars
  <2>4. PICK k \in RunStep : k = req[r].step
    BY <2>2
  <2>5. k # "intake" /\ {"intake", "screen"} \subseteq LeaseKey
    BY DEF RunStep, StepIds, LeaseKey
  <2>6. stage'["intake"] = stage["intake"] /\ (stage'["screen"] = stage["screen"] \/ stage'["screen"] = "running")
    BY <2>4, <2>5 DEF LeaseStep, FlowTypeOK
  <2>7. Judged /\ (k # "screen" => ~Owed)
    BY <2>2, <2>4 DEF IntakeInv, Checked
  <2>8. /\ Judged' <=> Judged
        /\ Owed' <=> Owed
    BY <2>3 DEF Judged, Owed, Stored
  <2>9. \/ req'[r] = None
        \/ /\ req'[r].kind = "step" /\ req'[r].step = k
           /\ req'[r].todo = Todo(k) /\ req'[r].decision = "none"
    BY <2>4 DEF LeaseStep, End, FlowTypeOK
  <2>10. k = "screen" => Todo(k) = IF pending THEN <<"intake">> ELSE <<>>
    BY DEF Todo
  <2>11. Screens(r)' => Screening(r)'
    <3>1. Screens(r)' => k = "screen" /\ req'[r].todo = Todo(k) /\ req'[r].decision = "none"
      BY <2>9 DEF Screens, OfKind, Free
    <3>2. ~pending => ~Owed
      BY <2>7 DEF Judged, Owed
    <3>3. QED
      BY <2>3, <2>8, <2>10, <3>1, <3>2 DEF Screening
  <2>12. Builds(r)' => NeverScreens(req'[r].todo)
    <3>1. Builds(r)' => k # "screen" /\ req'[r].todo = Todo(k)
      BY <2>9 DEF Builds, OfKind, Free
    <3>2. QED
      BY <3>1, BuildersNeverScreen
  <2>13. Checked(r)'
    BY <2>7, <2>8, <2>9, <2>11, <2>12 DEF Checked, OfKind, Free
  <2>14. QED
    BY <1>1, <2>1, <2>3, <2>6, <2>13, IntakeFrame
<1>5. CASE \E r \in Request :
             \/ LeaseRevise(r) \/ FlagClarify(r) \/ SaveClarify(r) \/ Clear(r) \/ Close(r)
             \/ Sign(r) \/ SignRefused(r)
             \/ WriteVersion(r) \/ WriteLabel(r) \/ FailEdit(r) \/ ReleaseRevise(r)
  <2> PICK r \in Request :
             \/ LeaseRevise(r) \/ FlagClarify(r) \/ SaveClarify(r) \/ Clear(r) \/ Close(r)
             \/ Sign(r) \/ SignRefused(r)
             \/ WriteVersion(r) \/ WriteLabel(r) \/ FailEdit(r) \/ ReleaseRevise(r)
    BY <1>5
  <2>1. \A x \in Request \ {r} : req'[x] = req[x]
    BY OnlyItsSlot, Zenon DEF Proceed
  <2>2. ~OfKind(r, "step")
    BY DEF LeaseRevise, FlagClarify, SaveClarify, Clear, Close, Sign, SignRefused,
           WriteVersion, WriteLabel, FailEdit, ReleaseRevise, IsEdit, OfKind
  <2>3. Checked(r)'
    BY <2>2, SameKind DEF OfKind, Checked
  <2>4. pending' = pending /\ stage'["intake"] = stage["intake"] /\ stage'["screen"] = stage["screen"]
    <3>1. \A k : stage' = [stage EXCEPT !["revise"] = k]
                 => stage'["intake"] = stage["intake"] /\ stage'["screen"] = stage["screen"]
      BY DEF FlowTypeOK, LeaseKey, StepIds
    <3>2. CASE LeaseRevise(r) \/ ReleaseRevise(r)
      BY <3>1, <3>2 DEF LeaseRevise, ReleaseRevise
    <3>3. CASE \/ FlagClarify(r) \/ SaveClarify(r) \/ Clear(r) \/ Close(r)
               \/ Sign(r) \/ SignRefused(r)
               \/ WriteVersion(r) \/ WriteLabel(r) \/ FailEdit(r)
      BY <3>3 DEF FlagClarify, SaveClarify, Clear, Close, Sign, SignRefused,
           WriteVersion, WriteLabel, FailEdit, flowVars
    <3>4. QED
      BY <3>2, <3>3
  <2>5. screen' = screen \/ screen' # "none"
    BY DEF LeaseRevise, FlagClarify, SaveClarify, Clear, Close, Sign, SignRefused,
           WriteVersion, WriteLabel, FailEdit, ReleaseRevise, flowVars
  <2>6. latest' = latest \/ ~Owed
    <3>1. CASE WriteVersion(r)
      <4>1. IsEdit(r) /\ req[r].base + 1 = latest + 1
        BY <3>1 DEF WriteVersion, CreateVersion, IsNextVersion
      <4>2. latest # 0
        BY <4>1, EditTypes DEF TypeOK
      <4>3. QED
        BY <4>2 DEF IntakeInv
    <3>2. CASE \/ LeaseRevise(r) \/ FlagClarify(r) \/ SaveClarify(r) \/ Clear(r) \/ Close(r)
               \/ Sign(r) \/ SignRefused(r) \/ WriteLabel(r) \/ FailEdit(r) \/ ReleaseRevise(r)
      BY <3>2 DEF LeaseRevise, FlagClarify, FlagEscalation, SaveClarify, NoteEvent, Clear,
         ClearEscalation, Close, Sign, Reject, ApproveReview, ApproveFinal, RecordSignoff,
         SignRefused, WriteLabel, FailEdit, ReleaseRevise, prVars, contentVars
    <3>3. QED
      BY <3>1, <3>2
  <2>7. QED
    BY <1>1, <2>1, <2>3, <2>4, <2>5, <2>6, IntakeFrame
<1>6. CASE UNCHANGED vars \/ (\E s \in LeaseKey : Lapse(s)) \/ \E p \in Person : Open(p)
  <2>1. UNCHANGED <<req, stage, pending, screen, latest, round>>
    BY <1>6 DEF vars, Lapse, Open, flowVars, prVars
  <2>2. QED
    BY <2>1 DEF IntakeInv, Checked, OfKind, Screens, Builds, Screening, Owed, Judged, Free, Stored
<1>7. QED
  BY <1>2, <1>3, <1>4, <1>5, <1>6, ArriveKeepsIntake, FinishKeepsIntake, StoreCallKeepsIntake,
     FlowStepCases, Zenon

(* The screening goes first, always. *)
LEMMA IntakeInvariant ==
  FlowSpec => [](TypeOK /\ FlowTypeOK /\ WorkInv /\ LabelInv /\ IntakeInv)
<1>1. FlowInit => IntakeInv
  <2> SUFFICES ASSUME FlowInit PROVE IntakeInv
    OBVIOUS
  <2>1. PICK r \in Request, d \in FirstScreen, c \in Card :
          req = [x \in Request |->
                   IF x = r THEN [kind |-> "create", at |-> "flow", decision |-> d, card |-> c]
                   ELSE None]
    BY DEF FlowInit
  <2>2. \A x \in Request : ~OfKind(x, "step")
    BY <2>1 DEF Free, OfKind
  <2>3. stage["intake"] = "pending" /\ stage["screen"] = "pending" /\ latest = 0
    BY DEF FlowInit, Init, LeaseKey, StepIds
  <2>4. QED
    BY <2>2, <2>3 DEF IntakeInv, Checked
<1>2. TypeOK /\ FlowTypeOK /\ WorkInv /\ LabelInv /\ IntakeInv /\ [FlowNext]_vars => IntakeInv'
  BY StepKeepsIntake
<1>3. QED
  BY <1>1, <1>2, LabelInvariant, PTL DEF FlowSpec

(* No draft exists of a story that no screen has judged, and none while the  *)
(* screen is owed, wherever create_run and the others are cut short.         *)
THEOREM IntakeCorrect == FlowSpec => []NoUnscreenedDraft
<1>1. IntakeInv => NoUnscreenedDraft
  BY DEF IntakeInv, Owed, NoUnscreenedDraft
<1>2. QED
  BY <1>1, IntakeInvariant, PTL

-----------------------------------------------------------------------------
(* Escalations: whoever is about to save a decision to escalate has raised   *)
(* the escalation before, but for a screen that found the intake             *)
(* checkpointed by another; and a raised one stays, open or cleared. A       *)
(* decision that stands unflagged is create_run's, which raises it with the  *)
(* checkpoint, if it gets there: nobody else can write one.                  *)
Decided(r) ==
  \/ OfKind(r, "step") /\ req[r].at = "leased"
  \/ OfKind(r, "clarify") /\ req[r].at = "save"
Unflagged == screen = "escalate" /\ escalation = "none" /\ ~rescreened
Raises(r) == OfKind(r, "create") /\ req[r].at = "intake" => req[r].decision = "escalate"
Flagged(r) == Decided(r) /\ req[r].decision = "escalate" => escalation # "none" \/ rescreened
EscalationInv ==
  /\ \A r \in Request : Flagged(r)
  /\ Unflagged => /\ ~Stored("intake") /\ ~pending
                  /\ \A r \in Request : Raises(r)

(* A step after which no decision stands unflagged that did not before. *)
LEMMA EscalationFrame ==
  ASSUME EscalationInv, NEW r \in Request,
         \A x \in Request \ {r} : req'[x] = req[x],
         escalation # "none" => escalation' # "none",
         rescreened => rescreened',
         Flagged(r)',
         Unflagged' => Unflagged /\ ~Stored("intake")' /\ ~pending' /\ Raises(r)'
  PROVE  EscalationInv'
<1>1. \A x \in Request \ {r} : /\ Decided(x)' <=> Decided(x)
                               /\ Raises(x) => Raises(x)'
  BY DEF OfKind, Decided, Raises, Free
<1>2. \A x \in Request : Flagged(x)'
  BY <1>1 DEF EscalationInv, Flagged
<1>3. Unflagged' => \A x \in Request : Raises(x)'
  BY <1>1 DEF EscalationInv
<1>4. QED
  BY <1>2, <1>3 DEF EscalationInv

(* The screen's runner decides and raises in one write, and there is none    *)
(* where a decision stands unflagged.                                        *)
LEMMA StoreCallKeepsEscalation ==
  ASSUME TypeOK, FlowTypeOK, IntakeInv, EscalationInv, [FlowNext]_vars,
         NEW r \in Request, StoreCall(r)
  PROVE  EscalationInv'
<1>1. \A x \in Request \ {r} : req'[x] = req[x]
  BY OnlyItsSlot, Zenon DEF Proceed, StoreCall
<1>2. PICK x : Stores(r, x)
  BY StoreCallShortens
<1>3. Next1(r) \in LeasedType /\ req[r] \in LeasedType /\ OfKind(r, "step") /\ req[r].at = "leased"
  BY <1>2, StoresShortens DEF Stores, OfKind
<1>4. Next1(r).decision = req[r].decision /\ Next1(r).kind = "step"
  BY <1>3 DEF Next1, LeasedType
<1>5. \A d : [Next1(r) EXCEPT !.decision = d].decision = d
             /\ [Next1(r) EXCEPT !.decision = d].kind = "step"
  BY <1>3 DEF LeasedType
<1>6. UNCHANGED <<screen, pending>> /\ (rescreened => rescreened')
  BY StoreCallShortens DEF flowVars
<1>7. escalation # "none" => escalation' # "none"
  BY StoreKeeps
<1>8. req[r].decision = "escalate" => escalation # "none" \/ rescreened
  BY <1>3 DEF EscalationInv, Flagged, Decided
<1>9. /\ req'[r].kind = "step"
      /\ req'[r].decision = "escalate" => escalation' # "none" \/ rescreened'
      /\ Stored("intake")' => Stored("intake") \/ x = "intake"
  <2>1. CASE StoreScreen(r)
    <3>1. PICK e \in BOOLEAN :
            /\ CompleteStep(Owner, "intake", IntakeStatus(req[r].cardOpen), e)
            /\ req'[r] = [Next1(r) EXCEPT !.decision = IF e THEN "escalate" ELSE "safe"]
      BY <2>1 DEF StoreScreen, FlowTypeOK
    <3>2. e => escalation' # "none"
      BY <3>1 DEF CompleteStep
    <3>3. x = "intake"
      BY <1>2, <2>1 DEF StoreScreen, Stores
    <3>4. QED
      BY <1>5, <3>1, <3>2, <3>3
  <2>2. CASE StoreFirstDraft(r)
    <3>1. req'[r] = Next1(r)
      BY <2>2 DEF StoreFirstDraft, FlowTypeOK
    <3>2. Stored("intake")' => Stored("intake")
      BY <2>2, StoredStepsAssumption DEF StoreFirstDraft, CreateVersion, Stored, TypeOK
    <3>3. QED
      BY <1>4, <1>6, <1>7, <1>8, <3>1, <3>2
  <2>3. CASE \E y \in Step : StoreStep(r, y)
    <3> PICK y \in Step : StoreStep(r, y)
      BY <2>3
    <3>1. req'[r] = Next1(r)
      BY DEF StoreStep, FlowTypeOK
    <3>2. Stored("intake")' => Stored("intake")
      BY StoredStepsAssumption DEF StoreStep, CompleteStep, Stored, TypeOK
    <3>3. QED
      BY <1>4, <1>6, <1>7, <1>8, <3>1, <3>2
  <2>4. CASE \E y \in Step : SkipStored(r, y)
    <3> PICK y \in Step : SkipStored(r, y)
      BY <2>4
    <3>1. Stored("intake")' => Stored("intake")
      BY DEF SkipStored, prVars, Stored
    <3>2. CASE y = "intake"
      <4>1. \E d : req'[r] = [Next1(r) EXCEPT !.decision = d]
        BY <3>2 DEF SkipStored, FlowTypeOK
      <4>2. rescreened'
        BY <3>2 DEF SkipStored
      <4>3. QED
        BY <1>5, <3>1, <4>1, <4>2
    <3>3. CASE y # "intake"
      <4>1. req'[r] = Next1(r)
        BY <3>3 DEF SkipStored, FlowTypeOK
      <4>2. QED
        BY <1>4, <1>6, <1>7, <1>8, <3>1, <4>1
    <3>4. QED
      BY <3>2, <3>3
  <2>5. QED
    BY <2>1, <2>2, <2>3, <2>4, Zenon DEF StoreCall
<1>10. Flagged(r)' /\ Raises(r)'
  BY <1>9 DEF Flagged, Raises, OfKind
<1>11. Unflagged' => Unflagged /\ ~Stored("intake")'
  <2>1. Unflagged' => Unflagged
    BY <1>6, <1>7 DEF Unflagged
  <2>2. x = "intake" => Stored("intake") \/ pending
    <3>1. ASSUME x = "intake" PROVE req[r].todo # <<>> /\ Head(req[r].todo) = "intake"
      BY <1>2, <3>1 DEF Stores
    <3>2. CASE req[r].step = "screen"
      <4>1. Screening(r)
        BY <1>3, <3>2 DEF IntakeInv, Checked, Screens
      <4>2. QED
        BY <3>1, <4>1 DEF Screening
    <3>3. CASE req[r].step # "screen"
      <4>1. NeverScreens(req[r].todo)
        BY <1>3, <3>3 DEF IntakeInv, Checked, Builds
      <4>2. PICK todo \in Seq(Step) : todo = req[r].todo
        BY <1>3 DEF LeasedType
      <4>3. todo # <<>> => Head(todo) = todo[1] /\ 1 \in DOMAIN todo
        BY <4>2
      <4>4. ~(x = "intake")
        BY <3>1, <4>1, <4>2, <4>3 DEF NeverScreens
      <4>5. QED
        BY <4>4
    <3>4. QED
      BY <3>2, <3>3
  <2>3. QED
    BY <1>9, <2>1, <2>2 DEF EscalationInv
<1>12. Unflagged' => ~pending'
  BY <1>6, <1>11 DEF EscalationInv
<1>13. QED
  BY <1>1, <1>6, <1>7, <1>10, <1>11, <1>12, EscalationFrame

(* Every step keeps the flag ahead of the decision, but where create_run and *)
(* a second screen do not.                                                   *)
LEMMA StepKeepsEscalation ==
  ASSUME TypeOK, FlowTypeOK, WorkInv, IntakeInv, EscalationInv, [FlowNext]_vars
  PROVE  EscalationInv'
<1>1. escalation # "none" => escalation' # "none"
  BY StoreKeeps
<1>2. CASE \E r \in Request : CreateFlow(r)
  <2> PICK r \in Request : CreateFlow(r)
    BY <1>2
  <2>1. OfKind(r, "create") /\ req[r] \in CreateType /\ AtFlow(r)
    BY KindTypes DEF CreateFlow, OfKind, AtFlow
  <2>2. NothingYet /\ \A x \in Request \ {r} : Free(x)'
    BY <2>1, OnlyItsSlot DEF Proceed, WorkInv, CreateFirst, Free
  <2>3. req'[r] = None \/ req'[r] = [req[r] EXCEPT !.at = "intake"]
    BY DEF CreateFlow, End, Goto, FlowTypeOK
  <2>4. Free(r)' \/ (req'[r].kind = "create" /\ req'[r].decision = req[r].decision)
    BY <2>1, <2>3 DEF Free, CreateType
  <2>5. \A x \in Request : Flagged(x)'
    BY <2>2, <2>4 DEF Flagged, Decided, OfKind, Free
  <2>6. screen' = req[r].decision /\ pending' = (req[r].decision = "none")
        /\ (Stored("intake")' <=> Stored("intake"))
    BY DEF CreateFlow, prVars, Stored
  <2>7. \A x \in Request : screen' = "escalate" => Raises(x)'
    BY <2>2, <2>4, <2>6 DEF Raises, OfKind, Free
  <2>8. QED
    BY <2>2, <2>5, <2>6, <2>7 DEF EscalationInv, Unflagged, NothingYet
<1>3. CASE \E r \in Request : CreateIntake(r)
  <2> PICK r \in Request : CreateIntake(r)
    BY <1>3
  <2>1. \A x \in Request \ {r} : req'[x] = req[x]
    BY OnlyItsSlot DEF Proceed
  <2>2. Raises(r) => req[r].decision = "escalate"
    BY DEF CreateIntake, Raises, OfKind
  <2>3. /\ req[r].decision = "escalate" => escalation' # "none"
        /\ req'[r] = None /\ rescreened' = rescreened /\ screen' = screen
    BY DEF CreateIntake, CompleteStep, End, FlowTypeOK, flowVars
  <2>4. ~Unflagged'
    BY <1>1, <2>2, <2>3 DEF EscalationInv, Unflagged
  <2>5. Flagged(r)'
    BY <2>3 DEF Flagged, Decided, OfKind, Free
  <2>6. QED
    BY <1>1, <2>1, <2>3, <2>4, <2>5, EscalationFrame
<1>4. CASE \E r \in Request : Arrive(r)
  <2> PICK r \in Request : Arrive(r)
    BY <1>4
  <2>1. \A x \in Request \ {r} : req'[x] = req[x]
    BY OnlyItsSlot
  <2>2. UNCHANGED <<screen, escalation, pending, round, rescreened>>
    <3>1. UNCHANGED <<prVars, flowVars>>
      BY ArriveReads, Zenon
    <3>2. rescreened' = rescreened
      BY Zenon DEF Arrive, LoadStep, LoadClarify, LoadEscalation, LoadEdit, LoadSign
    <3>3. QED
      BY <3>1, <3>2 DEF flowVars, prVars
  <2>3. Raises(r)' /\ Flagged(r)'
    <3>1. CASE \E s \in RunStep :
                 req'[r] = [kind |-> "step", step |-> s, at |-> "loaded"] /\ LoadStep(r, s)
      BY <3>1 DEF OfKind, Decided, Raises, Flagged
    <3>2. CASE req'[r].kind = "clarify" /\ req'[r].at = ClarifyStarts(req'[r].decision)
      BY <3>2 DEF OfKind, Decided, Raises, Flagged, ClarifyStarts
    <3>3. CASE req'[r].kind \notin {"create", "step", "clarify"}
      BY <3>3 DEF OfKind, Decided, Raises, Flagged
    <3>4. QED
      BY <3>1, <3>2, <3>3, ArriveKinds
  <2>4. Unflagged' => Unflagged /\ ~Stored("intake")' /\ ~pending'
    BY <2>2 DEF EscalationInv, Unflagged, Stored
  <2>5. QED
    BY <1>1, <2>1, <2>2, <2>3, <2>4, EscalationFrame
<1>5. CASE \E r \in Request : LeaseStep(r)
  <2> PICK r \in Request : LeaseStep(r)
    BY <1>5
  <2>1. \A x \in Request \ {r} : req'[x] = req[x]
    BY OnlyItsSlot DEF Proceed
  <2>2. req'[r] = None \/ (req'[r].kind = "step" /\ req'[r].decision = "none")
    BY DEF LeaseStep, End, FlowTypeOK
  <2>3. UNCHANGED <<screen, escalation, pending, round, rescreened>>
    BY DEF LeaseStep, prVars
  <2>4. Raises(r)' /\ Flagged(r)'
    BY <2>2 DEF OfKind, Decided, Raises, Flagged, Free
  <2>5. Unflagged' => Unflagged /\ ~Stored("intake")' /\ ~pending'
    BY <2>3 DEF EscalationInv, Unflagged, Stored
  <2>6. QED
    BY <1>1, <2>1, <2>3, <2>4, <2>5, EscalationFrame
<1>6. CASE \E r \in Request : FinishCall(r)
  <2> PICK r \in Request : FinishCall(r)
    BY <1>6
  <2>1. \A x \in Request \ {r} : req'[x] = req[x]
    BY OnlyItsSlot, Zenon DEF Proceed, FinishCall
  <2>2. PICK s \in RunStep, o \in {"done", "partial", "failed"} : Ends(r, s, o)
    BY FinishEnds
  <2>3. req'[r] = None /\ Decided(r) /\ rescreened' = rescreened /\ UNCHANGED <<round, escalation>>
    BY <2>2 DEF Ends, Finish, Working, End, FlowTypeOK, Decided, OfKind, prVars
  <2>4. Flagged(r)
    BY DEF EscalationInv
  <2>5. Unflagged' => UNCHANGED <<pending, screen>>
    BY <2>2, <2>3, <2>4 DEF Ends, ScreenSaved, Unflagged, Flagged
  <2>6. Unflagged' => Unflagged /\ ~Stored("intake")' /\ ~pending'
    BY <2>3, <2>5 DEF EscalationInv, Unflagged, Stored
  <2>7. Raises(r)' /\ Flagged(r)'
    BY <2>3 DEF OfKind, Decided, Raises, Flagged, Free
  <2>8. QED
    BY <1>1, <2>1, <2>3, <2>6, <2>7, EscalationFrame
<1>7. CASE \E r \in Request : FlagClarify(r) \/ SaveClarify(r)
  <2> PICK r \in Request : FlagClarify(r) \/ SaveClarify(r)
    BY <1>7
  <2>1. \A x \in Request \ {r} : req'[x] = req[x]
    BY OnlyItsSlot, Zenon DEF Proceed
  <2>2. UNCHANGED <<pending, round, rescreened>>
    BY DEF FlagClarify, SaveClarify, FlagEscalation, NoteEvent, flowVars, prVars
  <2>3. req'[r] = None \/ (req'[r].kind = "clarify" /\ escalation' # "none")
    <3>1. CASE FlagClarify(r)
      <4>1. req[r] \in ClarifyType
        BY <3>1, KindTypes DEF FlagClarify
      <4>2. req'[r] = None \/ (req'[r] = [req[r] EXCEPT !.at = "save"] /\ escalation' # "none")
        BY <3>1 DEF FlagClarify, FlagEscalation, EscalationOpen, End, Goto, FlowTypeOK, prVars
      <4>3. QED
        BY <4>1, <4>2 DEF ClarifyType
    <3>2. CASE SaveClarify(r)
      BY <3>2 DEF SaveClarify, End, FlowTypeOK
    <3>3. QED
      BY <3>1, <3>2
  <2>4. screen' = screen \/ (screen' = "escalate" => escalation # "none" \/ rescreened)
    <3>1. CASE FlagClarify(r)
      BY <3>1 DEF FlagClarify, flowVars
    <3>2. CASE SaveClarify(r)
      <4>1. Decided(r) /\ Flagged(r)
        BY <3>2 DEF SaveClarify, Decided, OfKind, EscalationInv
      <4>2. screen' \in {screen, req[r].decision}
        BY <3>2 DEF SaveClarify
      <4>3. QED
        BY <4>1, <4>2 DEF Flagged
    <3>3. QED
      BY <3>1, <3>2
  <2>5. Raises(r)' /\ Flagged(r)'
    BY <2>3 DEF OfKind, Decided, Raises, Flagged, Free
  <2>6. Unflagged' => Unflagged /\ ~Stored("intake")' /\ ~pending'
    BY <1>1, <2>2, <2>4 DEF EscalationInv, Unflagged, Stored
  <2>7. QED
    BY <1>1, <2>1, <2>2, <2>5, <2>6, EscalationFrame
<1>8. CASE \E r \in Request :
              \/ LeaseRevise(r) \/ Clear(r) \/ Close(r) \/ Sign(r) \/ SignRefused(r)
              \/ WriteVersion(r) \/ WriteLabel(r) \/ FailEdit(r) \/ ReleaseRevise(r)
  <2> PICK r \in Request :
              \/ LeaseRevise(r) \/ Clear(r) \/ Close(r) \/ Sign(r) \/ SignRefused(r)
              \/ WriteVersion(r) \/ WriteLabel(r) \/ FailEdit(r) \/ ReleaseRevise(r)
    BY <1>8
  <2>1. \A x \in Request \ {r} : req'[x] = req[x]
    BY OnlyItsSlot, Zenon DEF Proceed
  <2>2. ~Free(r) /\ req[r].kind \notin {"create", "step", "clarify"}
    BY DEF LeaseRevise, Clear, Close, Sign, SignRefused, WriteVersion, WriteLabel, FailEdit,
           ReleaseRevise, IsEdit
  <2>3. Raises(r)' /\ Flagged(r)'
    BY <2>2, SameKind DEF OfKind, Decided, Raises, Flagged
  <2>4. UNCHANGED <<screen, pending, rescreened>>
    BY DEF LeaseRevise, Clear, Close, Sign, SignRefused, WriteVersion, WriteLabel, FailEdit,
           ReleaseRevise, flowVars
  <2>5. Stored("intake")' => Stored("intake")
    <3>1. CASE WriteVersion(r)
      BY <3>1 DEF WriteVersion, CreateVersion, Stored
    <3>2. CASE LeaseRevise(r) \/ WriteLabel(r) \/ FailEdit(r) \/ ReleaseRevise(r) \/ SignRefused(r)
      BY <3>2 DEF LeaseRevise, WriteLabel, FailEdit, ReleaseRevise, SignRefused, prVars, Stored
    <3>3. CASE Clear(r) \/ Close(r)
      BY <3>3 DEF Clear, Close, ClearEscalation, NoteEvent, prVars, Stored
    <3>4. CASE Sign(r)
      BY <3>4 DEF Sign, Reject, ApproveReview, ApproveFinal, RecordSignoff, Stored
    <3>5. QED
      BY <3>1, <3>2, <3>3, <3>4
  <2>6. Unflagged' => Unflagged /\ ~Stored("intake")' /\ ~pending'
    BY <1>1, <2>4, <2>5 DEF EscalationInv, Unflagged
  <2>7. QED
    BY <1>1, <2>1, <2>3, <2>4, <2>6, EscalationFrame
<1>9. CASE \E r \in Request : Dies(r)
  <2> PICK r \in Request : Dies(r)
    BY <1>9
  <2>1. \A x \in Request \ {r} : req'[x] = req[x]
    BY OnlyItsSlot DEF Dies, Proceed
  <2>2. req'[r] = None /\ UNCHANGED <<screen, escalation, pending, round, rescreened>>
    BY DEF Dies, Crash, FailCreate, End, FlowTypeOK, flowVars, prVars
  <2>3. Raises(r)' /\ Flagged(r)'
    BY <2>2 DEF OfKind, Decided, Raises, Flagged, Free
  <2>4. Unflagged' => Unflagged /\ ~Stored("intake")' /\ ~pending'
    BY <2>2 DEF EscalationInv, Unflagged, Stored
  <2>5. QED
    BY <1>1, <2>1, <2>2, <2>3, <2>4, EscalationFrame
<1>10. CASE UNCHANGED vars \/ (\E s \in LeaseKey : Lapse(s)) \/ \E p \in Person : Open(p)
  <2>1. UNCHANGED <<req, screen, escalation, pending, round, rescreened>>
    BY <1>10 DEF vars, Lapse, Open, flowVars, prVars
  <2>2. QED
    BY <2>1 DEF EscalationInv, Flagged, Unflagged, Raises, Decided, OfKind, Free, Stored
<1>11. QED
  BY <1>2, <1>3, <1>4, <1>5, <1>6, <1>7, <1>8, <1>9, <1>10, StoreCallKeepsEscalation,
     FlowStepCases, Zenon

(* A decision to escalate, once saved, has raised the escalation, but where  *)
(* create_run has not come to its checkpoint and where a screen ran over one *)
(* that stood already.                                                       *)
THEOREM EscalationCorrect == FlowSpec => []EscalationIsFlagged
<1>1. FlowInit => EscalationInv
  <2> SUFFICES ASSUME FlowInit PROVE EscalationInv
    OBVIOUS
  <2>1. PICK r \in Request, d \in FirstScreen, c \in Card :
          req = [x \in Request |->
                   IF x = r THEN [kind |-> "create", at |-> "flow", decision |-> d, card |-> c]
                   ELSE None]
    BY DEF FlowInit
  <2>2. \A x \in Request : Free(x) \/ (req[x].kind = "create" /\ req[x].at = "flow")
    BY <2>1 DEF Free
  <2>3. screen = "none"
    BY DEF FlowInit
  <2>4. QED
    BY <2>2, <2>3 DEF EscalationInv, Flagged, Unflagged, Decided, OfKind
<1>2. TypeOK /\ FlowTypeOK /\ WorkInv /\ IntakeInv /\ EscalationInv /\ [FlowNext]_vars
        => EscalationInv'
  BY StepKeepsEscalation
<1>3. EscalationInv => EscalationIsFlagged
  BY DEF EscalationInv, Unflagged, EscalationIsFlagged
<1>4. QED
  BY <1>1, <1>2, <1>3, IntakeInvariant, PTL DEF FlowSpec

=============================================================================
