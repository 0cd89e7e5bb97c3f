CONSTANTS
  Feature = {1, 2}
  Value = {0, 1}
  MaxKeyframes = 4
  MaxId = 3
  MaxPasses = 3
  MaxSaved = 3
  MaxPoints = 2
  MinLoose = 1
  MinShared = 1
  LbaShared = 1
  LbaWindow = 3
  LoopExclude = 1
  LoopMin = 1
SPECIFICATION Spec

INVARIANTS
  MapInv
  LoadedAsSaved
PROPERTIES
  ReferenceStays
