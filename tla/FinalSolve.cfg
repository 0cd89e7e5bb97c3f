CONSTANTS
  N = 5
  Feature = {1, 2}
  Matchable <- MCMatchable
  MinLive = 2
  MinPoints = 1
  MinResiduals = 2
  MinInliers = 1
  MinMerge = 1
  MinComponent = 3
  MaxComponents = 2
  GrowIters = 2
  MinVotes = 2
  Rounds = 2
  WeakPercent = 25
  MaxImages = 3
  MinImages = 2
  MinPerImage = 1
  MinShared = 1
  MaxAbsorb = 2
SPECIFICATION Spec

INVARIANTS
  TracksSound
  OneGauge
  OneViewPerImage
  ReportMatches
  SplitSound
