SPECIFICATION Spec
CONSTANTS
  MaxTaskID = 2
  Proc = {p1}
  Requests <- FewRequests
  Faults = {"write_error"}
PROPERTY WriteErrorKeepsFiles
