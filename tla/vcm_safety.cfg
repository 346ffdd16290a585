SPECIFICATION Spec
CONSTANTS
  Clusters = {c1, c2, c3}
  UserValues = UserValues
  Torn = Torn
  None = None
INVARIANTS
  IInv
  ReadyWhenCreateReturns
  DeleteLeavesNothing
  NeverRawTemplate
  OwnIngressValues
SYMMETRY Symmetry
