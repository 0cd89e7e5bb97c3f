SPECIFICATION EpisodeSpec

CONSTANTS
  GiveUpFrames = 5
  RecentCandidates = 2
  SweepCandidates = 2
  MaxSweepCandidates = 4
  WidenEvery = 3
  MaxCount = 10

INVARIANTS
  SweepInv
PROPERTIES
  GiveUpOnlyAfterFullSweep
