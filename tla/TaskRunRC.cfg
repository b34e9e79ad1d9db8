SPECIFICATION FairSpec
CONSTANTS
  Callers = {c1, c2}
  MaxRetries = 3
INVARIANTS
  RowIsSound
  LateStartersRefused
PROPERTIES
  CallReturns
  OnlyCrossedWritesStray
