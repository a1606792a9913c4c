SPECIFICATION Spec
CONSTANTS
  Requests = {r1}
  Callers = {c1}
  MaxId = 2
  MaxIncarnation = 2
  MaxCrashes = 1
  MaxCancels = 1
  StableIdentity = FALSE
  NoOne = NoOne
CHECK_DEADLOCK FALSE
INVARIANTS
  WorkerExitFailsRequests
