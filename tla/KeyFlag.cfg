SPECIFICATION ApiSpec
CONSTANTS
  iShmSize = 14
  iMaxFrameSize = 3
  HEAD = 1
  MAX_SEQUENCE = 100
  Lengths <- LongOnly
  Keys <- AllKeys
  MaxFrames = 6
  MaxStarts = 1
  Ids <- MCIds
  Ops <- KeyedOps
  Steps <- MCSteps
  Buffers <- MCBuffers
  H264 = TRUE
  Crashes = FALSE
INVARIANTS
  KeyedMovesFindAKey
CHECK_DEADLOCK FALSE
