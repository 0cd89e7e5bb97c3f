SPECIFICATION Spec
CONSTANTS
  Plans = {"rooms", "single"}
  RoomIds = {1}
  MaxEncodesInFlight = 2
  StoredFrameCap = 2
  RoomCaptureCap = 2
  DirectiveCap = 2
  DrainCap = 1
  MaxFrames = 3
  RemovalFails = FALSE
  Keyframes = {3}
  Gated = {2, 3}
  FloorReadings = {3}

INVARIANTS
  SessionInv
  CapHonoured
  CountMatchesDisk
  KeyframesKeptWhileRunning
PROPERTIES
  RedrawnRoomSpared

CHECK_DEADLOCK FALSE
