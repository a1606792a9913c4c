SPECIFICATION CallsSpec
CONSTANTS
  Codes = {l1}
  Scripts = {}
  Reloads = {l2}
  Readers = {g1}
  Kinds = {"ping", "get_stats", "get_outputs", "request_frame"}
  Hosted = Hosted
  MaxWorkers = 2
  NoOne = NoOne
CHECK_DEADLOCK FALSE
INVARIANTS
  AuthenticationIsReported
