SPECIFICATION Spec
CONSTANTS
  p1 = p1
  p2 = p2
  p3 = p3
  Procs <- MCProcs
  MaxSignals = 1
  MaxExits = 0
INVARIANTS
  OneInside
CHECK_DEADLOCK FALSE
