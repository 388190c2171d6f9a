SPECIFICATION FlowSpec
CONSTANTS
  ann = ann  agent = agent
  editorial = editorial  final = final  r1 = r1  r2 = r2
  Person = {ann}
  Agent = agent
  Owner = ann
  ReviewRole = {editorial}
  Final = final
  Quote = {}
  Text = {}
  Speaker = {}
  Step <- StoredSteps
  None = None
  ParticipantsCap = 1
  VersionsCap = 3
  EventsCap = 4
  Request = {r1, r2}
  Holder <- AnnHoldsAll
  CommsRole = editorial
  LegalRole = editorial
  FirstScreen = {"safe"}
  Card = {"none"}
  Crashes = FALSE
CONSTRAINT MCCreated
SYMMETRY Slots
INVARIANTS
  SignedOnlyInReview
PROPERTIES
  LabelsAreStable
CHECK_DEADLOCK FALSE
