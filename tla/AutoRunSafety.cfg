\* One exception and one restart, a DELETE request before a restart, the watchdog.
CONSTANTS
  t1 = t1
  t2 = t2
  d1 = d1
  Threads <- MCThreads
  Deleters <- MCOneDeleter
  NumBatches = 2
  EmptyBatches <- MCNoneEmpty
  MaxFaults = 1
  MaxRestarts = 1
SPECIFICATION Spec
SYMMETRY MCSymmetry
INVARIANTS
  SingleDriver
  CheckpointCovers
  CompletedIsComplete
  DuplicatesNeedFaults
  PromotionNeedsCompletion
  RunningIsDriven
CONSTRAINT MCOneTrouble
CHECK_DEADLOCK FALSE
