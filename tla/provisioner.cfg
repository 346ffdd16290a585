SPECIFICATION FairSpec
CONSTANTS
  Manifests = 6
  Pools = {apiserver, controllermanager, etcd}
  OuterTimeout = 2
  InnerTimeout = 3
  Stopped = Stopped
  MaxTargets = 2
INVARIANTS
  WaitInv
  WaitIsBounded
  TimeoutsAreHonest
  HealthyUnlessCountedTwice
PROPERTY
  ProvisionEnds
