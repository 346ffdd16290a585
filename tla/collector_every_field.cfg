SPECIFICATION Spec
CONSTANTS
  Calls = {get, post}
  Blank = Blank
  MaxFaults = 0
INVARIANT
  EveryFieldIsReported
