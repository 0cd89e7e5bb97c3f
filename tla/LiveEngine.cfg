SPECIFICATION Spec
CONSTANTS
  Cells <- MCCells
  SubScores <- MCSubScores
  MinSharedPoints = 1
  MaxKfDistance = 2
  WeakThreshold = 70
  MaxWeakAreas = 1
  Places = {0, 2}
  Tables = {lutA}
  Plain = plain
  None = none
  MaxKfs = 3
  MaxPoints = 3
  MaxMapPoints = 2
  HasLidar = FALSE

INVARIANTS
  RegionsAreComponents
  AreasTallied
  PublishedOfThisMap
  OneLensChange
PROPERTIES
  IdsHeldByUntouchedRooms
