SPECIFICATION Spec
CONSTANTS
  MaxCalls = 2
  MaxChanges = 3
CONSTRAINT MCChanges
INVARIANT
  AutoRunUsesSteps
PROPERTY
  EditsAreKept
CHECK_DEADLOCK FALSE
