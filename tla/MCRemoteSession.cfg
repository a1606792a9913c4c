SPECIFICATION SessionSpec
CONSTANTS
  Threads = {t1, t2}
  NumFrames = 4
  Prefetch = 2
  Backlog = 2
  MaxFetches = 3
  MaxLoads = 1
  NoOne = NoOne
CHECK_DEADLOCK FALSE
SYMMETRY MCSymmetry
INVARIANTS
  TypeOK
  WindowReady
  WaitersAreSafe
  OneOwner
  PlaybackAsksOnce
  PlayedForward
  StaleFramesRunOut
