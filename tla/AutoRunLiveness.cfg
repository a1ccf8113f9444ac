\* Fair scheduling, no exception, no restart.
CONSTANTS
  t1 = t1
  t2 = t2
  d1 = d1
  Threads <- MCThreads
  Deleters <- MCNoDeleter
  NumBatches = 2
  EmptyBatches <- MCLastEmpty
  MaxFaults = 0
  MaxRestarts = 0
SPECIFICATION FairSpec
PROPERTIES
  RegistrySpec
  RunningEnds
  StopsInLoopHonoured
  SuspendedExpires
CHECK_DEADLOCK FALSE
