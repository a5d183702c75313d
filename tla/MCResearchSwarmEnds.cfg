SPECIFICATION FairSpec
CONSTANTS
  MaxRuns = 1
  Faults = {"deadline", "worker_crash"}
CHECK_DEADLOCK FALSE
PROPERTIES
  EveryRunReturns
  HealthyRunSucceeds
