SPECIFICATION Spec
CONSTANTS
  MaxRuns = 1
  Faults = {"spawn_error", "db_error", "worker_crash", "leader_crash", "timeout", "deadline"}
CHECK_DEADLOCK FALSE
INVARIANTS
  TypeOK
  IdleTellsTheTruth
  DoneAfterTheWriter
  NoWorkerLeftBehind
PROPERTIES
  ImplementsPipeline
