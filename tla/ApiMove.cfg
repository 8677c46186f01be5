SPECIFICATION ApiSpec
CONSTANTS
  iShmSize = 18
  iMaxFrameSize = 3
  HEAD = 1
  MAX_SEQUENCE = 100
  Lengths <- MCLengths
  Keys <- NoKeys
  MaxFrames = 7
  MaxStarts = 1
  Ids <- MCIds
  Ops <- MoveOps
  Steps <- MCSteps
  Buffers <- MCBuffers
  H264 = FALSE
  Crashes = FALSE
INVARIANTS
  ApiTypeOK
  ReadsEveryFrame
  MovesExactly
  DistanceIsExact
CHECK_DEADLOCK FALSE
