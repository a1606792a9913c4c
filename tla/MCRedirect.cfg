SPECIFICATION Spec
CONSTANTS
  Daemons = {d1, d2}
  Captures = {c1, c2, c3}
  Original = Original
CHECK_DEADLOCK FALSE
INVARIANTS
  TextArrives
  BothDispatch
  HookFollowsUse
