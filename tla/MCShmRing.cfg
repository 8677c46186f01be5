SPECIFICATION Spec
CONSTANTS
  iShmSize = 22
  iMaxFrameSize = 4
  HEAD = 2
  MAX_SEQUENCE = 5
  Lengths <- MCLengths
  Keys <- MCKeys
  MaxFrames = 8
  MaxStarts = 2
INVARIANTS
  TypeOK
  FramesIntact
  NewestValid
  NextHeadClear
  LinksGoForward
  NeighboursLinked
  NewestKept
CHECK_DEADLOCK FALSE
