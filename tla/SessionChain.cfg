SPECIFICATION Spec
CONSTANTS
  S = 3
  MaxFrames = 3
  Budget = 6
  MaxFaults = 1
  MaxMishaps = 1
  Positions <- MCPositions
  MaxChain = 3
  MinCaps = 1
  None = None

INVARIANTS
  ChainInv
  ChainOpens
  GapsFilled
  RescanSound

CHECK_DEADLOCK FALSE
