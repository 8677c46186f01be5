SPECIFICATION ApiSpec
CONSTANTS
  iShmSize = 18
  iMaxFrameSize = 3
  HEAD = 1
  MAX_SEQUENCE = 100
  Lengths <- LongOnly
  Keys <- AllKeys
  MaxFrames = 6
  MaxStarts = 1
  Ids <- MCIds
  Ops <- KeyedOps
  Steps <- OneStep
  Buffers <- MCBuffers
  H264 = TRUE
  Crashes = FALSE
INVARIANTS
  StartsAtNewestKey
  KeyedMovesEndOnKey
CHECK_DEADLOCK FALSE
