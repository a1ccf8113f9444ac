\* Two values, three targets, two batches, up to two claims an answer.
CONSTANTS
  None = None
  Providers <- MCProviders
  Configured = {"primary", "other"}
  Sources = {"a", "b"}
  Targets = {"a", "x", "y"}
  Ghosts = {"g"}
  Chains = {"c1", "c2"}
  Yield <- MCYield
  Claims <- MCClaims
  LibraryPairs <- MCLibrary
  Layouts <- MCLayouts
  NumBatches = 2
  MaxRows = 1
  MaxProposals = 2
  MaxDeletes = 1
  MaxRetries = 2
SPECIFICATION Spec
INVARIANTS
  EveryValueOnce
  LaterBatchesReuse
  PairsAreGrounded
CHECK_DEADLOCK FALSE
