CONSTANTS
  N = 5
  Feature = {1, 2}
  Matchable <- MCMatchable
  MinLive = 2
  MinPoints = 1
  MinResiduals = 2
  MinInliers = 1
  MinMerge = 1
  MinComponent = 3
  MaxComponents = 1
  GrowIters = 1
  MinVotes = 2
  Rounds = 2
  WeakPercent = 25
  MaxImages = 3
  MinImages = 2
  MinPerImage = 1
  MinShared = 1
  MaxAbsorb = 64
SPECIFICATION Spec
INVARIANTS DroppedMayReturn
