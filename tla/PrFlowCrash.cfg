SPECIFICATION FairFlowSpec
CONSTANTS
  ann = ann  agent = agent
  editorial = editorial  final = final  r1 = r1  r2 = r2
  Person = {ann}
  Agent = agent
  Owner = ann
  ReviewRole = {editorial}
  Final = final
  Quote = {}
  Text = {}
  Speaker = {}
  Step <- StoredSteps
  None = None
  ParticipantsCap = 1
  VersionsCap = 1
  EventsCap = 2
  Request = {r1, r2}
  Holder <- AnnHoldsAll
  CommsRole = editorial
  LegalRole = editorial
  FirstScreen = {"safe"}
  Card = {"none"}
  Crashes = TRUE
INVARIANTS
  OneWorksOnAStep
PROPERTIES
  LeaseIsGivenBack
CHECK_DEADLOCK FALSE
