SPECIFICATION FetchSpec
CONSTANTS
  Days = 4
  MaxRows = 2
  Threshold = 3
  MaxDates = 2
  Keys = {1, 2}
  MaxLines = 3
  PageSize = 2
  ServerCap = 3
INVARIANTS
  DatesPartitioned
  WindowsBounded
  RowsInOneBatch
  RowsFetchedOnce
CHECK_DEADLOCK FALSE
