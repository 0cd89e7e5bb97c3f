SPECIFICATION FairJobSpec

CONSTANTS
  WorkStages = 3
  CancelStages = {1, 2}
  MaxSolves = 2
  Cancels = TRUE
  Concurrent = FALSE

INVARIANTS
  PublishedInOrder
  CancelledOnlyIfAsked
PROPERTIES
  VerdictExplained
  CancelStops
  ClientLearns

CHECK_DEADLOCK FALSE
