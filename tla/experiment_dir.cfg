SPECIFICATION FairSpec
CONSTANTS
  Processes = {p1, p2}
  maxExperimentsPerDay = 3
  LastDay = 2
INVARIANTS
  IInv
  LaterRunsApart
  UnexpandedIsAlwaysFirst
  SmallestFree
PROPERTY
  ScanEnds
