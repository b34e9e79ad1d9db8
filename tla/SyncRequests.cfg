SPECIFICATION FairSpec
CONSTANTS
  Requests = {r1, r2}
  Firings = {f1, f2}
  MaxRetries = 1
  MaxRare = 1
  None = None
INVARIANTS
  LapsesBoundOverlaps
  RowsTellTheEnd
  RunningIsExplained
  DispatchedOnce
PROPERTY RequestsSettle
CHECK_DEADLOCK FALSE
