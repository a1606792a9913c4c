SPECIFICATION Spec
CONSTANTS
  Codes = {l1, l2}
  Scripts = {}
  Reloads = {}
  Readers = {}
  Hosted = Hosted
  MaxWorkers = 2
  NoOne = NoOne
CHECK_DEADLOCK FALSE
INVARIANTS
  LoadedOutputsStay
