SPECIFICATION Spec
CONSTANTS
  Requests = {r1, r2, r3}
  Callers = {c1, c2}
  MaxId = 2
  MaxIncarnation = 2
  MaxCrashes = 1
  MaxCancels = 1
  StableIdentity = TRUE
  NoOne = NoOne
CHECK_DEADLOCK FALSE
SYMMETRY MCSymmetry
INVARIANTS
  TypeOK
  OpenIsTracked
  RightAnswer
  DrainedSettles
  OneConnection
