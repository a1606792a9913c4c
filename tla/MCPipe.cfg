SPECIFICATION Spec
CONSTANTS
  NumFrames = 6
  Prefetch = 2
  Backlog = 3
INVARIANTS
  TypeOK
  WrittenInOrder
  Unbroken
PROPERTIES
  Completes
