SPECIFICATION FairSpec
CONSTANTS
  Configs <- SmallConfigs
  Nobody = Nobody
INVARIANTS
  IInv
  ReportIsComplete
  OneClusterPerWorker
  ListsAgree
  PairedWhenSerial
PROPERTIES
  NoDurationLost
  RunEnds
