SPECIFICATION Spec
CONSTANTS
  Requests = {r1, r2}
  Threads = {t1, t2}
  Sessions = {s1, s2, s3, s4}
  NoSession = NoSession
INVARIANT OwnSession
CHECK_DEADLOCK FALSE
