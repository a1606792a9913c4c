SPECIFICATION Spec
CONSTANTS
  Requests = {r1, r2}
  Callers = {c1, c2}
  MaxId = 1
  MaxIncarnation = 1
  MaxCrashes = 1
  MaxCancels = 2
  StableIdentity = FALSE
  NoOne = NoOne
CHECK_DEADLOCK FALSE
PROPERTIES
  ImplementsLifecycle
  CloseStopsWorker
