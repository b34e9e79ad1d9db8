SPECIFICATION BreakerSpec
CONSTANTS
  Wrappers = {w1, w2}
  Threshold = 2
  Recovery = 2
  MaxTime = 5
INVARIANTS
  ClosedCountsStreak
PROPERTY RestsAfterFailures
