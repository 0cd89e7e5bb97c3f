SPECIFICATION Spec
CONSTANTS
  N = 2
  Configs = {"orb", "sift", "orbMasked"}
  Sift = {"sift"}
  Masked = {"orbMasked"}
  MinFrames = 1
  MaxRuns = 3
  MaxMask = 1
  None = None
  Torn = Torn

INVARIANTS
  CacheInv
  MatchesFitFeatures

CHECK_DEADLOCK FALSE
