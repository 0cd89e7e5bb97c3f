SPECIFICATION FairSpec

CONSTANTS
  GiveUpFrames = 2
  RecentCandidates = 1
  SweepCandidates = 1
  MaxSweepCandidates = 2
  WidenEvery = 1
  DirectiveCap = 2
  DrainCap = 1
  MaxFileKeyframes = 2
  MaxKeyframes = 4
  MaxSegments = 2

INVARIANTS
  OneWorldFrame
  SavedScaleEarned
PROPERTIES
  NewKeyframeAnnounced
  LostFrameResolves

CHECK_DEADLOCK FALSE
