SPECIFICATION FairSpec

CONSTANTS
  GiveUpFrames = 2
  RecentCandidates = 1
  SweepCandidates = 1
  MaxSweepCandidates = 2
  WidenEvery = 1
  DirectiveCap = 2
  DrainCap = 1
  MaxFileKeyframes = 1
  MaxKeyframes = 3
  MaxSegments = 1

PROPERTIES
  LostEventuallyResolves

CHECK_DEADLOCK FALSE
