\* Two callers between their reads and their writes.
CONSTANTS
  c1 = c1
  c2 = c2
  Callers <- MCCallers
SPECIFICATION Spec
PROPERTY
  AtomicTransitions
CHECK_DEADLOCK FALSE
