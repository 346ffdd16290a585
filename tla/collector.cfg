SPECIFICATION Spec
CONSTANTS
  Calls = {get, post}
  Blank = Blank
  MaxFaults = 1
INVARIANTS
  IInv
  StatisticsAreOwn
  ApiServerCallsAreOwn
  ClientThroughputIsOwn
