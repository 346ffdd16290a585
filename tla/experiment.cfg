SPECIFICATION FairSpec
CONSTANTS
  Host = Host
  c1 = c1
  c2 = c2
  Virtual <- TwoVirtual
  Configs <- SmallConfigs
  Batches <- SmallBatches
  MaxRuns = 2
  None = None
INVARIANTS
  IInv
  LoadMeetsItsResources
  ReportCoversTheLoad
  CleanBetweenConfigs
  ReportsOfCompleted
  HostLeftoverStays
PROPERTY
  RunsEnd
