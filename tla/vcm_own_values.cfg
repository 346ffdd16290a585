SPECIFICATION Spec
CONSTANTS
  Clusters = {c1, c2}
  UserValues = UserValues
  Torn = Torn
  None = None
INVARIANT
  OwnValues
