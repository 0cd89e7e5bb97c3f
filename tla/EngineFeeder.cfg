SPECIFICATION FeederSpec

CONSTANTS
  CountModulus = 5
  CameraFirst = TRUE

INVARIANTS
  NoLostWakeup
  NothingDiscarded
PROPERTIES
  FinishSettles
  IsMailbox

CHECK_DEADLOCK FALSE
