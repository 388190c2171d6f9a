SPECIFICATION Spec
CONSTANTS
  ann = ann  bob = bob  agent = agent
  editorial = editorial  final = final
  q1 = q1  t1 = t1  t2 = t2  s1 = s1  s2 = s2  draft = draft
  Person = {ann, bob}
  Agent = agent
  Owner = ann
  ReviewRole = {editorial}
  Final = final
  Quote = {q1}
  Text = {t1, t2}
  Speaker = {s1, s2}
  Step = {draft}
  None = None
  ParticipantsCap = 2
  VersionsCap = 3
  EventsCap = 6
SYMMETRY Interchangeable
INVARIANTS
  TypeOK
  ApprovedIsSound
  HumanActs
  RunDocMatchesVersion
  AttestedTextWasShown
PROPERTIES
  ApprovedIsLocked
  VersionsAreImmutable
  EscalationPausesPipeline
CHECK_DEADLOCK FALSE
