SPECIFICATION Spec
CONSTANTS
  Manifests = 6
  Pools = {apiserver, controllermanager, etcd}
  OuterTimeout = 2
  InnerTimeout = 3
  Stopped = Stopped
  MaxTargets = 2
INVARIANT
  HealthyMeansEveryPool
