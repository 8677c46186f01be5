SPECIFICATION FairSpec
CONSTANTS
  p1 = p1
  p2 = p2
  p3 = p3
  Procs <- MCProcs
  MaxSignals = 2
  MaxExits = 3
INVARIANTS
  TypeOK
  OverlapsCounted
  HeldBySomeone
PROPERTIES
  IsAMutex
  WaitersGetIn
CHECK_DEADLOCK FALSE
