SPECIFICATION Spec
CONSTANTS
  Arguments <- SmallArguments
  Durations <- SmallDurations
  Null = Null
INVARIANTS
  IInv
  OneConfigPerFile
  ViewsApart
  WindowsCoverTheRun
