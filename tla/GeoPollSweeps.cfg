SPECIFICATION FairSpec
CONSTANTS
  cron1 = cron1  cron2 = cron2  ann = ann  bob = bob  r1 = r1  r2 = r2
  Task <- AllTasks
  Serp = {2}
  CronRun = {cron1}
  ConsoleRun = {ann, bob}
  Asked <- EachEngine
  Request = {r1, r2}
  None = None
  Cap = 3
  AioCap = 9
  Batch = 2
  FailLimit = 2
  Interval = 1
  LastDay = 1
  HandBack = 1
  Fails = TRUE
  Crashes = TRUE
  SlowSteps = FALSE
  Overlap = FALSE
INVARIANTS
  GeoTypeOK
  OneSweep
  OneCheckADay
PROPERTIES
  EverySweepEnds
CHECK_DEADLOCK FALSE
