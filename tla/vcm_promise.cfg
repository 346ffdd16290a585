SPECIFICATION FairSpec
CONSTANTS
  Clusters = {c1, c2}
  UserValues = UserValues
  Torn = Torn
  None = None
PROPERTIES
  FleetSpec
  CallsReturn
  TempFilesRemoved
