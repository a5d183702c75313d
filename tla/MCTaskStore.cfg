SPECIFICATION FairSpec
CONSTANTS
  MaxTaskID = 3
  Proc = {p1, p2}
  Requests <- FewRequests
  Faults = {}
PROPERTIES
  ImplementsTaskGraph
  EveryCallReturns
