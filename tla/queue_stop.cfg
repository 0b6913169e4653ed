SPECIFICATION Spec
CONSTANTS
  NoJob = NoJob
  Job = {"j1"}
  TypeOf <- MCTypeOf
  Registry <- ByVerb
  Queues <- OneQueue
  Worker = {w1}
  Drivers = {"redis"}
  Delay = {0}
  MaxAttempts = 2
  MaxStops = 1
  MaxCrashes = 0
INVARIANT DrainKeepsJobs
CHECK_DEADLOCK FALSE
