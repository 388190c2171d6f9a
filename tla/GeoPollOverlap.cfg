SPECIFICATION Spec
CONSTANTS
  cron1 = cron1  cron2 = cron2  ann = ann  bob = bob  r1 = r1  r2 = r2
  Task <- AllTasks
  Serp = {2}
  CronRun = {cron1}
  ConsoleRun = {ann}
  Asked <- SerpAlone
  Request = {r1, r2}
  None = None
  Cap = 2
  AioCap = 1
  Batch = 2
  FailLimit = 2
  Interval = 1
  LastDay = 2
  HandBack = 2
  Fails = TRUE
  Crashes = TRUE
  SlowSteps = TRUE
  Overlap = TRUE
SYMMETRY Slots
INVARIANTS
  WithinBudget
  SerpCapHolds
PROPERTIES
  ScheduleMovesOnFullSweep
CHECK_DEADLOCK FALSE
