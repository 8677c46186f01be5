SPECIFICATION ApiSpec
CONSTANTS
  iShmSize = 10
  iMaxFrameSize = 3
  HEAD = 1
  MAX_SEQUENCE = 100
  Lengths <- MCLengths
  Keys <- NoKeys
  MaxFrames = 6
  MaxStarts = 2
  Ids <- MCIds
  Ops <- ReadOps
  Steps <- MCSteps
  Buffers <- AnyBuffer
  H264 = FALSE
  Crashes = TRUE
INVARIANTS
  ReadsInOrder
  TornOnlyAfterCrash
  ReadsEveryFrame
CHECK_DEADLOCK FALSE
