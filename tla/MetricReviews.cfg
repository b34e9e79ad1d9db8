SPECIFICATION Spec
CONSTANTS
  Metrics = {m1, m2}
  Users = {u1, u2}
  Texts = {x, y}
  u1 = u1
  Creator <- OneCreator
  Requests = {q1, q2}
  MaxChanges = 2
  Nobody = nobody
  NoText = notext
  None = none
SYMMETRY Symmetry
INVARIANTS
  ReviewHolds
  CyclesNeedARace
PROPERTIES
  ChangesTakeEffect
