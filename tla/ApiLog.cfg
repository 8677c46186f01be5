SPECIFICATION ApiSpec
CONSTANTS
  iShmSize = 10
  iMaxFrameSize = 3
  HEAD = 1
  MAX_SEQUENCE = 100
  Lengths <- MCLengths
  Keys <- NoKeys
  MaxFrames = 6
  MaxStarts = 2
  Ids <- TwoIds
  Ops <- ShareOps
  Steps <- OneStep
  Buffers <- MCBuffers
  H264 = FALSE
  Crashes = FALSE
INVARIANTS
  ComparesAsFrames
PROPERTIES
  BehavesAsLog
CHECK_DEADLOCK FALSE
