SPECIFICATION Spec
CONSTANTS
  MaxTaskID = 3
  Proc = {p1, p2}
  Requests <- MCRequests
  Faults = {"write_error", "crash"}
SYMMETRY Sym
INVARIANTS
  TypeOK
  RetiredNeverReturn
  GraphValidAtRest
  CorruptOnlyIfInterrupted
  SomeTaskReady
