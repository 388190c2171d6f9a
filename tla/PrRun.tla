------------------------------- MODULE PrRun -------------------------------
(***************************************************************************)
(* One PR Writer run as the store keeps it: the document pr_runs/{id}, its *)
(* create-only versions, and the transactions of                           *)
(* app/services/firestore_repo.py that write them. Every transaction reads *)
(* the run again and applies all its checks inside, so each is one atomic  *)
(* action here. Nothing is assumed of the callers: any person or the       *)
(* pipeline may call any transaction at any time with any argument, stale  *)
(* or not. PrFlow models the requests that really call them.               *)
(*                                                                         *)
(* Left out: title, brief, evidence and angle (no check reads them), sizes *)
(* in bytes, and the wording of notes and reasons. A definition marked     *)
(* "variant" is a plausible mistake in the one that follows it: it is used *)
(* to see that the properties notice, and is no part of the model.         *)
(***************************************************************************)
EXTENDS Integers, FiniteSets

CONSTANTS
  Person,       \* ids of signed-in people
  Agent,        \* the identity the pipeline writes under (PR_AGENT_ACTOR)
  Owner,        \* the person who started the run
  ReviewRole,   \* the roles that review a version (PR_REVIEW_ROLES)
  Final,        \* the role whose sign-off approves the run
  Quote,        \* ids of the quotes a version may carry
  Text,         \* the hashes of the texts a quote may have
  Speaker,      \* whom a quote may be attributed to: speaker, title, organization
  Step,         \* the checkpoints of the pipeline (PR_STEPS)
  None,         \* no such thing
  ParticipantsCap,  \* PR_PARTICIPANTS_CAP
  VersionsCap,  \* PR_VERSIONS_CAP
  EventsCap     \* PR_EVENTS_CAP

ASSUME ActorsAssumption ==
  /\ Owner \in Person
  /\ Agent \notin Person
  /\ None \notin Person \cup {Agent}
ASSUME RolesAssumption == Final \notin ReviewRole
ASSUME CapsAssumption == VersionsCap \in Nat /\ EventsCap \in Nat \ {0}

VARIABLES
  participants,  \* who may see and write the run
  status,        \* the run's status
  latest,        \* latest_version: 0 until there is a draft
  docs,          \* docs[v]: the create-only version document v, or None
  openVerify,    \* whether [VERIFY] flags are open on the latest version
  quotes,        \* quotes[q]: the state of the quote on the latest version
  signoffs,      \* signoffs[role]: the sign-off recorded for the role, or None
  escalation,    \* "none", "open" or "cleared"
  round,         \* round[s]: the build round step s was checkpointed for
  approval,      \* approved_version and approved_by, or None
  events         \* event_count

contentVars == <<latest, docs, openVerify, quotes, signoffs>>
prVars == <<participants, status, latest, docs, openVerify, quotes, signoffs,
            escalation, round, approval, events>>

-----------------------------------------------------------------------------
Actor == Person \cup {Agent}
Role == ReviewRole \cup {Final}
Version == 1 .. VersionsCap

(* What the pipeline may set, and the two statuses only a sign-off reaches. *)
PipelineStatus ==
  {"intake", "in_progress", "needs_input", "escalated", "in_review", "failed"}
Status == PipelineStatus \cup {"approved", "changes_requested"}

(* The quotes of a version: each one's text and attribution, None if absent. *)
Wording == [text : Text, speaker : Speaker]
QuoteSet == [Quote -> Wording \cup {None}]

(* What a version document holds that the checks read. *)
Content == [openVerify : BOOLEAN, quotes : QuoteSet]

(* A quote on the run. "shown" is not stored: it is the wording the person *)
(* had on the screen when the approval was recorded.                       *)
QuoteState == [wording : Wording, status : {"pending", "approved", "rejected"},
               by : Actor \cup {None}, shown : Wording \cup {None}]
Signoff == [decision : {"approve", "reject"}, by : Actor, version : Version]
Approval == [version : Version, by : Actor]

ASSUME NoneAssumption ==
  /\ None \notin Step \cup PipelineStatus
  /\ None \notin Wording \cup Content \cup QuoteState \cup Signoff \cup Approval

TypeOK ==
  /\ participants \in SUBSET Actor
  /\ status \in Status
  /\ latest \in 0 .. VersionsCap
  /\ docs \in [Version -> Content \cup {None}]
  /\ openVerify \in BOOLEAN
  /\ quotes \in [Quote -> QuoteState \cup {None}]
  /\ signoffs \in [Role -> Signoff \cup {None}]
  /\ escalation \in {"none", "open", "cleared"}
  /\ round \in [Step -> 0 .. VersionsCap + 1]
  /\ approval \in Approval \cup {None}
  /\ events \in 0 .. EventsCap

-----------------------------------------------------------------------------
EscalationOpen == escalation = "open"
Locked == status = "approved"
BuildRound == latest + 1
StepDone(s) == round[s] = BuildRound

(* A write that appends an event: create-only under the next sequence number. *)
AppendEventOffByOne == events <= EventsCap /\ events' = events + 1  \* variant
AppendEvent == events < EventsCap /\ events' = events + 1

(* The pipeline writes only for a participant, on a run that is neither      *)
(* approved nor paused by an escalation.                                     *)
MayBuildEscalated(u) == u \in participants /\ ~Locked  \* variant
MayBuild(u) == u \in participants /\ ~Locked /\ ~EscalationOpen

(* Versions are create-only and numbered one by one. *)
IsNextVersionRewriting(v) == v \in {latest, latest + 1}  \* variant
IsNextVersion(v) == v = latest + 1 /\ docs[v] = None

(* The states a new version's quotes start in: an approval is carried only *)
(* while the text and the attribution are the ones it was given for.       *)
NewQuote(w) == [wording |-> w, status |-> "pending", by |-> None, shown |-> None]
ResetByHashOnly(incoming) ==  \* variant
  [q \in Quote |->
     IF incoming[q] = None THEN None
     ELSE IF quotes[q] # None /\ quotes[q].wording.text = incoming[q].text THEN quotes[q]
     ELSE NewQuote(incoming[q])]
CarryEveryApproval(incoming) ==  \* variant
  [q \in Quote |->
     IF incoming[q] = None THEN None
     ELSE IF quotes[q] # None THEN [quotes[q] EXCEPT !.wording = incoming[q]]
     ELSE NewQuote(incoming[q])]
ResetChangedQuotes(incoming) ==
  [q \in Quote |->
     IF incoming[q] = None THEN None
     ELSE IF quotes[q] # None /\ quotes[q].wording = incoming[q] THEN quotes[q]
     ELSE NewQuote(incoming[q])]

(* Why the final sign-off would be refused, negated. *)
SignedOff(r) ==
  /\ signoffs[r] # None
  /\ signoffs[r].decision = "approve"
  /\ signoffs[r].version = latest
NoFinalBlockersButFlags ==  \* variant
  /\ latest # 0
  /\ \A q \in Quote : quotes[q] # None => quotes[q].status = "approved"
  /\ ~EscalationOpen
  /\ \A r \in ReviewRole : SignedOff(r)
NoFinalBlockers ==
  /\ latest # 0
  /\ ~openVerify
  /\ \A q \in Quote : quotes[q] # None => quotes[q].status = "approved"
  /\ ~EscalationOpen
  /\ \A r \in ReviewRole : SignedOff(r)

-----------------------------------------------------------------------------
(* create_pr_run: the owner, the card's reviewers and the people given are  *)
(* the participants; nothing is written or signed yet; one event.           *)
Init ==
  /\ participants \in {S \in SUBSET Actor :
                      Owner \in S /\ Cardinality(S) <= ParticipantsCap}
  /\ status = "intake"
  /\ latest = 0
  /\ docs = [v \in Version |-> None]
  /\ openVerify = FALSE
  /\ quotes = [q \in Quote |-> None]
  /\ signoffs = [r \in Role |-> None]
  /\ escalation = "none"
  /\ round = [s \in Step |-> 0]
  /\ approval = None
  /\ events = 1

(* add_pr_participant: a person on the run adds anyone, even after approval. *)
AddParticipant(a, u) ==
  /\ a \in Person \cap participants
  /\ u \notin participants
  /\ Cardinality(participants) < ParticipantsCap
  /\ participants' = participants \cup {u}
  /\ AppendEvent
  /\ UNCHANGED <<status, contentVars, escalation, round, approval>>

(* add_pr_comment, and update_pr_flow when it names an event. *)
NoteEvent(a) ==
  /\ a \in participants
  /\ AppendEvent
  /\ UNCHANGED <<participants, status, contentVars, escalation, round, approval>>

(* complete_pr_step: checkpoint s for the round being built, once. newStatus *)
(* is the status in the patch, or None; escalate is an escalation_reason in  *)
(* the patch. A step already done in this round writes nothing.              *)
CompleteStep(u, s, newStatus, escalate) ==
  /\ MayBuild(u)
  /\ ~StepDone(s)
  /\ round' = [round EXCEPT ![s] = BuildRound]
  /\ escalation' = IF escalate THEN "open" ELSE escalation
  /\ status' = IF escalate THEN "escalated"
               ELSE IF newStatus # None THEN newStatus ELSE status
  /\ UNCHANGED <<participants, contentVars, approval, events>>

(* create_pr_version: create-only, exactly latest_version + 1, and clears    *)
(* every sign-off. closeStep is the checkpoint it closes, or None.           *)
CreateVersion(u, v, content, closeStep) ==
  /\ v <= VersionsCap
  /\ MayBuild(u)
  /\ IsNextVersion(v)
  /\ closeStep # None => ~StepDone(closeStep)
  /\ docs' = [docs EXCEPT ![v] = content]
  /\ latest' = v
  /\ openVerify' = content.openVerify
  /\ quotes' = ResetChangedQuotes(content.quotes)
  /\ signoffs' = [r \in Role |-> None]
  /\ status' = "in_review"
  /\ round' = IF closeStep = None THEN round ELSE [round EXCEPT ![closeStep] = v]
  /\ AppendEvent
  /\ UNCHANGED <<participants, escalation, approval>>

(* attest_pr_quote: a person records that a quote is approved or rejected.   *)
(* Of the wording the person was shown, the quote of some version, the       *)
(* request names the hash of the text.                                       *)
AttestQuote(a, q, shown, decision) ==
  /\ a \in Person \cap participants
  /\ ~Locked
  /\ quotes[q] # None
  /\ quotes[q].wording.text = shown.text
  /\ quotes' = [quotes EXCEPT ![q] = [wording |-> quotes[q].wording, status |-> decision,
                                      by |-> a, shown |-> shown]]
  /\ AppendEvent
  /\ UNCHANGED <<participants, status, latest, docs, openVerify, signoffs,
                 escalation, round, approval>>

(* clear_pr_escalation *)
ClearEscalation(a) ==
  /\ a \in Person \cap participants
  /\ ~Locked
  /\ EscalationOpen
  /\ escalation' = "cleared"
  /\ status' = IF latest # 0 THEN "in_review" ELSE "in_progress"
  /\ AppendEvent
  /\ UNCHANGED <<participants, contentVars, round, approval>>

(* flag_pr_escalation: raises only; one that is open is left as it is. *)
FlagEscalation(a) ==
  /\ a \in Person \cap participants
  /\ ~Locked
  /\ ~EscalationOpen
  /\ escalation' = "open"
  /\ status' = "escalated"
  /\ AppendEvent
  /\ UNCHANGED <<participants, contentVars, round, approval>>

(* record_pr_signoff, in its three outcomes. *)
MayRecordByAnyActor(a, v) ==  \* variant
  a \in participants /\ ~Locked /\ latest # 0 /\ v = latest
MayRecordWhenLocked(a, v) ==  \* variant
  a \in Person \cap participants /\ latest # 0 /\ v = latest
MayRecord(a, v) ==
  /\ a \in Person \cap participants
  /\ ~Locked
  /\ latest # 0
  /\ v = latest

RecordSignoff(role, a, v, decision) ==
  /\ role \in Role
  /\ MayRecord(a, v)
  /\ signoffs' = [signoffs EXCEPT ![role] =
                    [decision |-> decision, by |-> a, version |-> v]]
  /\ AppendEvent
  /\ UNCHANGED <<participants, latest, docs, openVerify, quotes, escalation, round>>

Reject(role, a, v) ==
  /\ RecordSignoff(role, a, v, "reject")
  /\ status' = "changes_requested"
  /\ UNCHANGED approval

ApproveReview(role, a, v) ==
  /\ role \in ReviewRole
  /\ RecordSignoff(role, a, v, "approve")
  /\ UNCHANGED <<status, approval>>

ApproveFinal(a, v) ==
  /\ RecordSignoff(Final, a, v, "approve")
  /\ NoFinalBlockers
  /\ status' = "approved"
  /\ approval' = [version |-> v, by |-> a]

-----------------------------------------------------------------------------
PipelineWrites(u) ==
  \/ \E s \in Step, st \in PipelineStatus \cup {None}, e \in BOOLEAN :
       CompleteStep(u, s, st, e)
  \/ \E v \in Version, c \in Content, s \in Step \cup {None} :
       CreateVersion(u, v, c, s)

HumanWrites(a) ==
  \/ \E u \in Actor : AddParticipant(a, u)
  \/ NoteEvent(a)
  \/ \E q \in Quote, v \in Version, d \in {"approved", "rejected"} :
       /\ docs[v] # None
       /\ docs[v].quotes[q] # None
       /\ AttestQuote(a, q, docs[v].quotes[q], d)
  \/ ClearEscalation(a)
  \/ FlagEscalation(a)
  \/ \E r \in Role, v \in Version :
       \/ Reject(r, a, v)
       \/ ApproveReview(r, a, v)
  \/ \E v \in Version : ApproveFinal(a, v)

Next == \E u \in Actor : PipelineWrites(u) \/ HumanWrites(u)

Spec == Init /\ [][Next]_prVars

-----------------------------------------------------------------------------
(* An approved run is one that met every condition of approval and still    *)
(* does: the approved version is the latest, carries no open [VERIFY] flag, *)
(* every quote on it is approved, no escalation is open, and every review   *)
(* role approved that very version (pr_final_blockers, record_pr_signoff).  *)
ApprovedIsSound ==
  status = "approved" =>
    /\ approval # None
    /\ approval.version = latest
    /\ docs[latest] # None
    /\ ~docs[latest].openVerify
    /\ NoFinalBlockers

(* Only people approve, sign off or attest, and only people on the run: the *)
(* pipeline's own identity is refused even if somebody adds it to the run.  *)
HumanActs ==
  LET byPerson(x) == x \in Person \cap participants IN
  /\ approval # None => byPerson(approval.by)
  /\ \A r \in Role : signoffs[r] # None => byPerson(signoffs[r].by)
  /\ \A q \in Quote : quotes[q] # None /\ quotes[q].status # "pending"
                       => byPerson(quotes[q].by)

(* What the run doc repeats of the latest version (its flags, its quotes)   *)
(* is what that version's document says, and no sign-off is left over from  *)
(* an earlier version, whatever was signed in between.                      *)
RunDocMatchesVersion ==
  /\ \A r \in Role : signoffs[r] # None => signoffs[r].version = latest
  /\ latest = 0 => \A q \in Quote : quotes[q] = None
  /\ latest # 0 =>
       /\ docs[latest] # None
       /\ openVerify = docs[latest].openVerify
       /\ \A q \in Quote :
            IF quotes[q] = None THEN docs[latest].quotes[q] = None
            ELSE quotes[q].wording = docs[latest].quotes[q]

(* A quote counts as approved only for the text its approver was shown: an  *)
(* edit between the reading and the approval, or a later version that       *)
(* changes the text and one that changes it back, never carries it over.    *)
AttestedTextWasShown ==
  \A q \in Quote :
    quotes[q] # None /\ quotes[q].status # "pending" =>
      quotes[q].shown # None /\ quotes[q].shown.text = quotes[q].wording.text

(* Approval is final: nothing that was approved changes afterwards, neither *)
(* by the pipeline nor by a person (_pr_refuse_locked).                     *)
ApprovedIsLocked ==
  [][Locked => UNCHANGED <<status, contentVars, escalation, round, approval>>]_prVars

(* A version document, once written, is never rewritten or removed, and     *)
(* versions are numbered without a gap.                                     *)
VersionsAreImmutable ==
  [][/\ \A v \in Version : docs[v] # None => docs'[v] = docs[v]
     /\ latest' \in {latest, latest + 1}]_prVars

(* While an escalation is open the pipeline stands still: no checkpoint and *)
(* no new version until a person clears it.                                 *)
EscalationPausesPipeline ==
  [][EscalationOpen => latest' = latest /\ docs' = docs /\ round' = round]_prVars

=============================================================================
