SPECIFICATION Spec
CONSTANTS
  MaxRuns = 2
  Faults = {"leader_crash"}
CHECK_DEADLOCK FALSE
INVARIANTS
  TaskRunOnce
CONSTRAINTS TwoOrphans SecondRunStarts
