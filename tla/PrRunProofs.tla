---------------------------- MODULE PrRunProofs ----------------------------
(***************************************************************************)
(* Proofs about the PR Writer run document, for every number of people,    *)
(* roles, quotes, texts, steps and versions.                               *)
(***************************************************************************)
EXTENDS PrRun, TLAPS

USE ActorsAssumption, CapsAssumption

(* What a new version makes of one quote: nothing, the quote it was, or the  *)
(* new wording with no decision on it.                                      *)
LEMMA ResetQuoteLemma ==
  ASSUME NEW incoming \in QuoteSet,
         NEW q \in Quote
  PROVE  \/ /\ incoming[q] = None
            /\ ResetChangedQuotes(incoming)[q] = None
         \/ /\ quotes[q] # None
            /\ quotes[q].wording = incoming[q]
            /\ incoming[q] # None
            /\ ResetChangedQuotes(incoming)[q] = quotes[q]
         \/ /\ incoming[q] \in Wording
            /\ ResetChangedQuotes(incoming)[q] =
                 NewQuote(incoming[q])
<1>1. ResetChangedQuotes(incoming)[q] =
        IF incoming[q] = None THEN None
        ELSE IF quotes[q] # None /\ quotes[q].wording = incoming[q] THEN quotes[q]
        ELSE NewQuote(incoming[q])
  BY DEF ResetChangedQuotes
<1>2. incoming[q] \in Wording \cup {None}
  BY DEF QuoteSet
<1>3. QED
  BY <1>1, <1>2

(* A new version adds no decision on a quote: a quote that is decided in it *)
(* is the very quote it was.                                                *)
LEMMA NoDecisionByVersion ==
  ASSUME NEW u, NEW v, NEW c \in Content, NEW s, CreateVersion(u, v, c, s),
         NEW q \in Quote
  PROVE  \/ quotes'[q] = None
         \/ quotes'[q] = quotes[q]
         \/ quotes'[q].status = "pending"
<1>1. quotes'[q] = ResetChangedQuotes(c.quotes)[q] /\ c.quotes \in QuoteSet
  BY DEF CreateVersion, Content
<1>2. \/ quotes'[q] = None
      \/ quotes'[q] = quotes[q]
      \/ quotes'[q] = NewQuote(c.quotes[q])
  BY <1>1, ResetQuoteLemma
<1>3. QED
  BY <1>2 DEF NewQuote

(* The quotes of a new version are again quotes of the run. *)
LEMMA ResetQuotesType ==
  ASSUME quotes \in [Quote -> QuoteState \cup {None}],
         NEW incoming \in QuoteSet
  PROVE  ResetChangedQuotes(incoming) \in [Quote -> QuoteState \cup {None}]
<1>1. ASSUME NEW w \in Wording
      PROVE  NewQuote(w) \in QuoteState
  BY DEF QuoteState, NewQuote
<1>2. ASSUME NEW q \in Quote
      PROVE  ResetChangedQuotes(incoming)[q] \in QuoteState \cup {None}
  <2> DEFINE new == ResetChangedQuotes(incoming)[q]
  <2>1. \/ new = None
        \/ new = quotes[q]
        \/ \E w \in Wording :
             new = NewQuote(w)
    BY ResetQuoteLemma
  <2>2. quotes[q] \in QuoteState \cup {None}
    OBVIOUS
  <2> HIDE DEF new
  <2>3. new \in QuoteState \cup {None}
    BY <2>1, <2>2, <1>1
  <2>4. QED
    BY <2>3 DEF new
<1>3. QED
  BY <1>2 DEF ResetChangedQuotes

(* What a step is: one call of one transaction. *)
LEMMA StepCases ==
  ASSUME TypeOK, [Next]_prVars
  PROVE  \/ \E u \in Actor, s \in Step, st \in PipelineStatus \cup {None}, e \in BOOLEAN :
              CompleteStep(u, s, st, e)
         \/ \E u \in Actor, v \in Version, c \in Content, s \in Step \cup {None} :
              CreateVersion(u, v, c, s)
         \/ \E a \in Actor, u \in Actor : AddParticipant(a, u)
         \/ \E a \in Actor : NoteEvent(a)
         \/ \E a \in Actor, q \in Quote, w \in Wording, d \in {"approved", "rejected"} :
              AttestQuote(a, q, w, d)
         \/ \E a \in Actor : ClearEscalation(a)
         \/ \E a \in Actor : FlagEscalation(a)
         \/ \E a \in Actor, r \in Role, v \in Version : Reject(r, a, v)
         \/ \E a \in Actor, r \in Role, v \in Version : ApproveReview(r, a, v)
         \/ \E a \in Actor, v \in Version : ApproveFinal(a, v)
         \/ UNCHANGED prVars
<1>1. CASE UNCHANGED prVars
  BY <1>1
<1>2. CASE \E u \in Actor : PipelineWrites(u)
  BY <1>2 DEF PipelineWrites
<1>3. CASE \E a \in Actor : HumanWrites(a)
  <2> PICK a \in Actor : HumanWrites(a)
    BY <1>3
  <2>1. CASE \E r \in Role, v \in Version : Reject(r, a, v) \/ ApproveReview(r, a, v)
    BY <2>1
  <2>2. CASE \E q \in Quote, v \in Version, d \in {"approved", "rejected"} :
               /\ docs[v] # None
               /\ docs[v].quotes[q] # None
               /\ AttestQuote(a, q, docs[v].quotes[q], d)
    <3> PICK q \in Quote, v \in Version, d \in {"approved", "rejected"} :
               /\ docs[v] # None
               /\ docs[v].quotes[q] # None
               /\ AttestQuote(a, q, docs[v].quotes[q], d)
      BY <2>2
    <3>1. docs[v].quotes[q] \in Wording
      BY DEF TypeOK, Content, QuoteSet
    <3>2. QED
      BY <3>1
  <2>3. CASE /\ ~\E r \in Role, v \in Version : Reject(r, a, v) \/ ApproveReview(r, a, v)
             /\ ~\E q \in Quote, v \in Version, d \in {"approved", "rejected"} :
                  /\ docs[v] # None
                  /\ docs[v].quotes[q] # None
                  /\ AttestQuote(a, q, docs[v].quotes[q], d)
    BY <2>3, Zenon DEF HumanWrites
  <2>4. QED
    BY <2>1, <2>2, <2>3
<1>4. QED
  BY <1>1, <1>2, <1>3 DEF Next

(* Every step of the store, whoever takes it, leaves a well-formed run. *)
LEMMA StepKeepsType ==
  ASSUME TypeOK, [Next]_prVars
  PROVE  TypeOK'
<1> USE DEF TypeOK
<1>1. ASSUME NEW u \in Actor, NEW s \in Step, NEW st \in PipelineStatus \cup {None},
             NEW e \in BOOLEAN, CompleteStep(u, s, st, e)
      PROVE  TypeOK'
  BY <1>1 DEF CompleteStep, contentVars, Status, PipelineStatus, BuildRound
<1>2. ASSUME NEW u \in Actor, NEW v \in Version, NEW c \in Content,
             NEW s \in Step \cup {None}, CreateVersion(u, v, c, s)
      PROVE  TypeOK'
  <2>1. c.quotes \in QuoteSet /\ c.openVerify \in BOOLEAN
    BY DEF Content
  <2>2. quotes' \in [Quote -> QuoteState \cup {None}]
    BY <1>2, <2>1, ResetQuotesType DEF CreateVersion
  <2>3. round' \in [Step -> 0 .. VersionsCap + 1]
    BY <1>2 DEF CreateVersion, Version
  <2>4. QED
    BY <1>2, <2>1, <2>2, <2>3 DEF CreateVersion, AppendEvent, Version, Status, PipelineStatus
<1>3. ASSUME NEW a \in Actor, NEW u \in Actor, AddParticipant(a, u)
      PROVE  TypeOK'
  BY <1>3 DEF AddParticipant, contentVars, AppendEvent
<1>4. ASSUME NEW a \in Actor, NoteEvent(a)
      PROVE  TypeOK'
  BY <1>4 DEF NoteEvent, contentVars, AppendEvent
<1>5. ASSUME NEW a \in Actor, NEW q \in Quote, NEW w \in Wording,
             NEW d \in {"approved", "rejected"}, AttestQuote(a, q, w, d)
      PROVE  TypeOK'
  BY <1>5 DEF AttestQuote, AppendEvent, QuoteState, Actor
<1>6. ASSUME NEW a \in Actor, ClearEscalation(a)
      PROVE  TypeOK'
  BY <1>6 DEF ClearEscalation, contentVars, AppendEvent, Status, PipelineStatus
<1>7. ASSUME NEW a \in Actor, FlagEscalation(a)
      PROVE  TypeOK'
  BY <1>7 DEF FlagEscalation, contentVars, AppendEvent, Status, PipelineStatus
<1>8. ASSUME NEW a \in Actor, NEW r \in Role, NEW v \in Version, Reject(r, a, v)
      PROVE  TypeOK'
  BY <1>8 DEF Reject, RecordSignoff, AppendEvent, Signoff, Status
<1>9. ASSUME NEW a \in Actor, NEW r \in Role, NEW v \in Version, ApproveReview(r, a, v)
      PROVE  TypeOK'
  BY <1>9 DEF ApproveReview, RecordSignoff, AppendEvent, Signoff
<1>10. ASSUME NEW a \in Actor, NEW v \in Version, ApproveFinal(a, v)
       PROVE  TypeOK'
  BY <1>10 DEF ApproveFinal, RecordSignoff, AppendEvent, Signoff, Status, Approval, Role
<1>11. CASE UNCHANGED prVars
  BY <1>11 DEF prVars
<1> HIDE DEF TypeOK
<1>12. QED
  BY <1>1, <1>2, <1>3, <1>4, <1>5, <1>6, <1>7, <1>8, <1>9, <1>10, <1>11, StepCases

(* The types hold of a run that was just created. *)
LEMMA InitTypeCorrect ==
  ASSUME Init
  PROVE  TypeOK
<1>1. participants \in SUBSET Actor /\ status \in Status
  BY DEF Init, Status, PipelineStatus
<1>2. docs \in [Version -> Content \cup {None}] /\ quotes \in [Quote -> QuoteState \cup {None}]
  BY DEF Init
<1>3. /\ latest \in 0 .. VersionsCap /\ events \in 0 .. EventsCap
      /\ round \in [Step -> 0 .. VersionsCap + 1]
  BY DEF Init
<1>4. QED
  BY <1>1, <1>2, <1>3 DEF Init, TypeOK

(* The type invariant, for every value of the constants. *)
THEOREM TypeCorrect == Spec => []TypeOK
<1>1. Init => TypeOK
  BY InitTypeCorrect
<1>2. TypeOK /\ [Next]_prVars => TypeOK'
  BY StepKeepsType
<1>3. QED
  BY <1>1, <1>2, PTL DEF Spec

(* What the run document repeats of the latest version is what that version *)
(* says, and no sign-off is left over from an earlier one.                  *)
THEOREM RunDocCorrect == Spec => []RunDocMatchesVersion
<1>1. Init => RunDocMatchesVersion
  BY DEF Init, RunDocMatchesVersion
<1>2. TypeOK /\ RunDocMatchesVersion /\ [Next]_prVars => RunDocMatchesVersion'
  <2> SUFFICES ASSUME TypeOK, RunDocMatchesVersion, [Next]_prVars
               PROVE  RunDocMatchesVersion'
    OBVIOUS
  <2>1. ASSUME UNCHANGED contentVars
        PROVE  RunDocMatchesVersion'
    BY <2>1 DEF contentVars, RunDocMatchesVersion
  <2>2. ASSUME NEW u \in Actor, NEW v \in Version, NEW c \in Content,
               NEW s \in Step \cup {None}, CreateVersion(u, v, c, s)
        PROVE  RunDocMatchesVersion'
    <3>1. /\ latest' = v /\ v # 0
          /\ docs'[latest'] = c
          /\ c # None
          /\ openVerify' = docs'[latest'].openVerify
      BY <2>2, NoneAssumption DEF CreateVersion, TypeOK, Version
    <3>2. \A r \in Role : signoffs'[r] = None
      BY <2>2 DEF CreateVersion
    <3>3. c.quotes \in QuoteSet
      BY DEF Content
    <3>4. ASSUME NEW q \in Quote
          PROVE  IF quotes'[q] = None THEN c.quotes[q] = None
                 ELSE quotes'[q].wording = c.quotes[q]
      <4>1. quotes'[q] = ResetChangedQuotes(c.quotes)[q]
        BY <2>2 DEF CreateVersion
      <4>2. ASSUME NEW x \in Wording
            PROVE  NewQuote(x) # None
        <5>1. NewQuote(x) \in QuoteState
          BY DEF QuoteState, NewQuote
        <5>2. QED
          BY <5>1, NoneAssumption
      <4>3. \/ c.quotes[q] = None /\ quotes'[q] = None
            \/ quotes[q] # None /\ quotes[q].wording = c.quotes[q] /\ quotes'[q] = quotes[q]
            \/ /\ c.quotes[q] \in Wording
               /\ quotes'[q] = NewQuote(c.quotes[q])
        BY <4>1, <3>3, ResetQuoteLemma
      <4>4. QED
        BY <4>2, <4>3 DEF NewQuote
    <3>5. QED
      BY <3>1, <3>2, <3>4 DEF RunDocMatchesVersion
  <2>3. ASSUME NEW a \in Actor, NEW q \in Quote, NEW w \in Wording,
               NEW d \in {"approved", "rejected"}, AttestQuote(a, q, w, d)
        PROVE  RunDocMatchesVersion'
    <3>1. /\ UNCHANGED <<latest, docs, openVerify, signoffs>>
          /\ latest # 0
          /\ \A p \in Quote \ {q} : quotes'[p] = quotes[p]
          /\ quotes[q] # None /\ quotes'[q].wording = quotes[q].wording
          /\ quotes'[q] # None
      BY <2>3, NoneAssumption DEF AttestQuote, TypeOK, RunDocMatchesVersion, QuoteState
    <3>2. QED
      BY <3>1 DEF RunDocMatchesVersion
  <2>4. ASSUME NEW a \in Actor, NEW r \in Role, NEW v \in Version, NEW d, RecordSignoff(r, a, v, d)
        PROVE  RunDocMatchesVersion'
    <3>1. /\ UNCHANGED <<latest, docs, openVerify, quotes>>
          /\ \A o \in Role \ {r} : signoffs'[o] = signoffs[o]
          /\ signoffs'[r].version = latest
      BY <2>4 DEF RecordSignoff, MayRecord, TypeOK
    <3>2. QED
      BY <3>1 DEF RunDocMatchesVersion
  <2>5. QED
    BY <2>1, <2>2, <2>3, <2>4, StepCases
       DEF CompleteStep, AddParticipant, NoteEvent, ClearEscalation, FlagEscalation,
           Reject, ApproveReview, ApproveFinal, Role, prVars, contentVars
<1>3. QED
  BY <1>1, <1>2, TypeCorrect, PTL DEF Spec

(* Only people on the run approve, sign off or attest. *)
THEOREM HumanActsCorrect == Spec => []HumanActs
<1>1. Init => HumanActs
  BY DEF Init, HumanActs
<1>2. TypeOK /\ HumanActs /\ [Next]_prVars => HumanActs'
  <2> SUFFICES ASSUME TypeOK, HumanActs, [Next]_prVars
               PROVE  HumanActs'
    OBVIOUS
  <2>1. ASSUME UNCHANGED <<quotes, signoffs, approval>>, participants \subseteq participants'
        PROVE  HumanActs'
    BY <2>1 DEF HumanActs
  <2>2. ASSUME NEW u \in Actor, NEW v \in Version, NEW c \in Content,
               NEW s \in Step \cup {None}, CreateVersion(u, v, c, s)
        PROVE  HumanActs'
    <3>1. /\ UNCHANGED <<participants, approval>>
          /\ \A r \in Role : signoffs'[r] = None
      BY <2>2 DEF CreateVersion
    <3>2. QED
      BY <2>2, <3>1, NoDecisionByVersion DEF HumanActs
  <2>3. ASSUME NEW a \in Actor, NEW q \in Quote, NEW w \in Wording,
               NEW d \in {"approved", "rejected"}, AttestQuote(a, q, w, d)
        PROVE  HumanActs'
    <3>1. /\ UNCHANGED <<participants, signoffs, approval>>
          /\ \A p \in Quote \ {q} : quotes'[p] = quotes[p]
          /\ quotes'[q].by \in Person \cap participants
      BY <2>3 DEF AttestQuote, TypeOK
    <3>2. QED
      BY <3>1 DEF HumanActs
  <2>4. ASSUME NEW a \in Actor, NEW r \in Role, NEW v \in Version, NEW d,
               RecordSignoff(r, a, v, d),
               approval' = approval \/ approval' = [version |-> v, by |-> a]
        PROVE  HumanActs'
    <3>1. /\ UNCHANGED <<participants, quotes>>
          /\ \A o \in Role \ {r} : signoffs'[o] = signoffs[o]
          /\ signoffs'[r].by \in Person \cap participants
          /\ a \in Person \cap participants
      BY <2>4 DEF RecordSignoff, MayRecord, TypeOK
    <3>2. approval' # None => approval'.by \in Person \cap participants
      BY <2>4, <3>1 DEF HumanActs
    <3>3. QED
      BY <3>1, <3>2 DEF HumanActs
  <2>5. QED
    BY <2>1, <2>2, <2>3, <2>4, StepCases
       DEF CompleteStep, AddParticipant, NoteEvent, ClearEscalation, FlagEscalation,
           Reject, ApproveReview, ApproveFinal, Role, prVars, contentVars
<1>3. QED
  BY <1>1, <1>2, TypeCorrect, PTL DEF Spec

(* A decision on a quote stands only for the text its author was shown. *)
THEOREM AttestedTextCorrect == Spec => []AttestedTextWasShown
<1>1. Init => AttestedTextWasShown
  BY DEF Init, AttestedTextWasShown
<1>2. TypeOK /\ AttestedTextWasShown /\ [Next]_prVars => AttestedTextWasShown'
  <2> SUFFICES ASSUME TypeOK, AttestedTextWasShown, [Next]_prVars
               PROVE  AttestedTextWasShown'
    OBVIOUS
  <2>1. ASSUME UNCHANGED quotes
        PROVE  AttestedTextWasShown'
    BY <2>1 DEF AttestedTextWasShown
  <2>2. ASSUME NEW u \in Actor, NEW v \in Version, NEW c \in Content,
               NEW s \in Step \cup {None}, CreateVersion(u, v, c, s)
        PROVE  AttestedTextWasShown'
    BY <2>2, NoDecisionByVersion DEF AttestedTextWasShown
  <2>3. ASSUME NEW a \in Actor, NEW q \in Quote, NEW w \in Wording,
               NEW d \in {"approved", "rejected"}, AttestQuote(a, q, w, d)
        PROVE  AttestedTextWasShown'
    <3>1. /\ \A p \in Quote \ {q} : quotes'[p] = quotes[p]
          /\ quotes'[q].shown = w
          /\ quotes'[q].wording = quotes[q].wording
          /\ w.text = quotes[q].wording.text
      BY <2>3 DEF AttestQuote, TypeOK
    <3>2. w # None
      BY NoneAssumption
    <3>3. QED
      BY <3>1, <3>2 DEF AttestedTextWasShown
  <2>4. QED
    BY <2>1, <2>2, <2>3, StepCases
       DEF CompleteStep, AddParticipant, NoteEvent, ClearEscalation, FlagEscalation,
           Reject, ApproveReview, ApproveFinal, RecordSignoff, Role, prVars, contentVars
<1>3. QED
  BY <1>1, <1>2, TypeCorrect, PTL DEF Spec

(* An approved run meets every condition of approval, and goes on doing so: *)
(* the final sign-off is the only step to "approved", and what it read is   *)
(* frozen from then on. The version it approved is free of open flags       *)
(* because the run document repeats the version's own (RunDocCorrect).      *)
THEOREM ApprovedCorrect == Spec => []ApprovedIsSound
<1>1. Init => ApprovedIsSound
  BY DEF Init, ApprovedIsSound
<1>2. TypeOK /\ RunDocMatchesVersion /\ ApprovedIsSound /\ [Next]_prVars => ApprovedIsSound'
  <2> SUFFICES ASSUME TypeOK, RunDocMatchesVersion, ApprovedIsSound, [Next]_prVars
               PROVE  ApprovedIsSound'
    OBVIOUS
  <2>1. ASSUME status' # "approved"
        PROVE  ApprovedIsSound'
    BY <2>1 DEF ApprovedIsSound
  <2>2. ASSUME UNCHANGED <<status, contentVars, escalation, approval>>
        PROVE  ApprovedIsSound'
    BY <2>2 DEF ApprovedIsSound, NoFinalBlockers, SignedOff, EscalationOpen, contentVars
  <2>3. ASSUME NEW u \in Actor, NEW s \in Step, NEW st \in PipelineStatus \cup {None},
               NEW e \in BOOLEAN, CompleteStep(u, s, st, e)
        PROVE  status' # "approved"
    BY <2>3, NoneAssumption DEF CompleteStep, MayBuild, Locked, PipelineStatus
  <2>4. ASSUME NEW a \in Actor, NEW q \in Quote, NEW w \in Wording,
               NEW d \in {"approved", "rejected"}, AttestQuote(a, q, w, d)
        PROVE  status' # "approved"
    BY <2>4 DEF AttestQuote, Locked
  <2>5. ASSUME NEW a \in Actor, NEW r \in Role, NEW v \in Version, ApproveReview(r, a, v)
        PROVE  status' # "approved"
    BY <2>5 DEF ApproveReview, RecordSignoff, MayRecord, Locked
  <2>6. ASSUME NEW a \in Actor, NEW v \in Version, ApproveFinal(a, v)
        PROVE  ApprovedIsSound'
    <3>1. /\ UNCHANGED <<latest, docs, openVerify, quotes, escalation>>
          /\ latest = v
          /\ \A r \in ReviewRole : signoffs'[r] = signoffs[r]
          /\ NoFinalBlockers
          /\ approval' = [version |-> v, by |-> a]
      BY <2>6, RolesAssumption DEF ApproveFinal, RecordSignoff, MayRecord, TypeOK, Role
    <3>2. approval' # None
      <4>1. approval' \in Approval
        BY <3>1 DEF Approval
      <4>2. QED
        BY <4>1, NoneAssumption
    <3>3. docs[latest] # None /\ ~docs[latest].openVerify
      BY <3>1 DEF NoFinalBlockers, RunDocMatchesVersion
    <3>4. NoFinalBlockers'
      BY <3>1 DEF NoFinalBlockers, SignedOff, EscalationOpen
    <3>5. QED
      BY <3>1, <3>2, <3>3, <3>4 DEF ApprovedIsSound
  <2>7. QED
    BY <2>1, <2>2, <2>3, <2>4, <2>5, <2>6, StepCases
       DEF CreateVersion, AddParticipant, NoteEvent, ClearEscalation, FlagEscalation,
           Reject, prVars, contentVars
<1>3. QED
  BY <1>1, <1>2, TypeCorrect, RunDocCorrect, PTL DEF Spec

(* Nothing that was approved changes afterwards. *)
THEOREM ApprovedLocked == Spec => ApprovedIsLocked
<1>1. TypeOK /\ [Next]_prVars =>
        [Locked => UNCHANGED <<status, contentVars, escalation, round, approval>>]_prVars
  <2> SUFFICES ASSUME TypeOK, [Next]_prVars, Locked
               PROVE  UNCHANGED <<status, contentVars, escalation, round, approval>>
    OBVIOUS
  <2>1. QED
    BY StepCases
       DEF CompleteStep, CreateVersion, MayBuild, AddParticipant, NoteEvent, AttestQuote,
           ClearEscalation, FlagEscalation, Reject, ApproveReview, ApproveFinal,
           RecordSignoff, MayRecord, prVars, contentVars
<1>2. QED
  BY <1>1, TypeCorrect, PTL DEF Spec, ApprovedIsLocked

(* Versions are numbered without a gap, and a version once written stays as *)
(* it was written.                                                          *)
THEOREM VersionsImmutable == Spec => VersionsAreImmutable
<1>1. TypeOK /\ [Next]_prVars =>
        [/\ \A v \in Version : docs[v] # None => docs'[v] = docs[v]
         /\ latest' \in {latest, latest + 1}]_prVars
  <2> SUFFICES ASSUME TypeOK, [Next]_prVars
               PROVE  /\ \A v \in Version : docs[v] # None => docs'[v] = docs[v]
                      /\ latest' \in {latest, latest + 1}
    OBVIOUS
  <2>1. ASSUME NEW u \in Actor, NEW v \in Version, NEW c \in Content,
               NEW s \in Step \cup {None}, CreateVersion(u, v, c, s)
        PROVE  /\ \A o \in Version : docs[o] # None => docs'[o] = docs[o]
               /\ latest' = latest + 1
    BY <2>1 DEF CreateVersion, IsNextVersion, TypeOK
  <2>2. QED
    BY <2>1, StepCases
       DEF CompleteStep, AddParticipant, NoteEvent, AttestQuote, ClearEscalation,
           FlagEscalation, Reject, ApproveReview, ApproveFinal, RecordSignoff,
           prVars, contentVars
<1>2. QED
  BY <1>1, TypeCorrect, PTL DEF Spec, VersionsAreImmutable

(* While an escalation is open no checkpoint and no version is written. *)
THEOREM EscalationPauses == Spec => EscalationPausesPipeline
<1>1. TypeOK /\ [Next]_prVars =>
        [EscalationOpen => latest' = latest /\ docs' = docs /\ round' = round]_prVars
  <2> SUFFICES ASSUME TypeOK, [Next]_prVars, EscalationOpen
               PROVE  latest' = latest /\ docs' = docs /\ round' = round
    OBVIOUS
  <2>1. QED
    BY StepCases
       DEF CompleteStep, CreateVersion, MayBuild, AddParticipant, NoteEvent, AttestQuote,
           ClearEscalation, FlagEscalation, Reject, ApproveReview, ApproveFinal,
           RecordSignoff, prVars, contentVars
<1>2. QED
  BY <1>1, TypeCorrect, PTL DEF Spec, EscalationPausesPipeline

=============================================================================
