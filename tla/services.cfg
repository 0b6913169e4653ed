SPECIFICATION ServicesSpec
CONSTANTS
  NoJob = NoJob
  Job = {"j1", "j3"}
  TypeOf <- MCTypeOf
  Registry <- ByVerb
  Queues <- HighLow
  Worker = {w1, w2}
  Drivers = {"memory", "redis"}
  Delay = {0, 1}
  MaxAttempts = 2
  MaxStops = 1
  MaxCrashes = 1
  Code = {200, 404}
  MaxWrites = 2
  Task = {t1, t2}
  Tick = {g1, g2, g3}
  MaxStarts = 2
  StoreKey = {k1}
  MaxBoots = 2
  MaxChanges = 2
  MaxNow = 2
  CheckName = {"db", "queue"}
  MaxChecks = 3
INVARIANTS
  ServicesTypeOK
  JobsAccounted
  WholeAnswer
  NoSelfOverlap
  HealthTruth
PROPERTIES
  SnapshotRestores
  ServicesFinish
CHECK_DEADLOCK FALSE
