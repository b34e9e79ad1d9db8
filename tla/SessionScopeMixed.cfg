SPECIFICATION Spec
CONSTANTS
  Requests = {r1, r2, r3}
  Threads = {t1, t2}
  Sessions = {s1, s2, s3, s4}
  NoSession = NoSession
SYMMETRY Symmetry
INVARIANTS
  NothingLeftBehind
  AloneIsAtomic
CHECK_DEADLOCK FALSE
