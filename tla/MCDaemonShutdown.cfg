SPECIFICATION Spec
CONSTANTS
  f1 = f1
  f2 = f2
  q1 = q1
  x1 = x1
  a = a
  b = b
  Quick = {q1}
  Frame = {f1}
  Cancel = {x1}
  Suspect = {q1}
  Client <- MCClient
  ReqId <- MCReqId
  Target <- MCTarget
  MaxWorkers = 1
  NoOne = NoOne
CHECK_DEADLOCK FALSE
INVARIANTS
  ShutdownIsComplete
