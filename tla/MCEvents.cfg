SPECIFICATION Spec
CONSTANTS
  Clients = {c1, c2}
  Replaying = {c1}
  Returning = {c1}
  MaxEvents = 2
  MaxLoads = 1
  MaxHistory = 1
  NoOne = NoOne
CHECK_DEADLOCK FALSE
INVARIANTS
  NothingMissed
  LiveInOrder
PROPERTIES
  EventsArrive
