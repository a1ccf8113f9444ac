CONSTANTS
  Contracts <- MCContracts
  Sources <- MCSources
  Targets <- MCTargets
  SampleMin = 2
  SampleMax = 2
  Unfound <- MCUnfound
  RaisesOn <- MCRaisesOn
SPECIFICATION EngineSpec
INVARIANTS
  RowsAccounted
  FailsOnlyOnValues
  JoinIsExact
CHECK_DEADLOCK FALSE
