SPECIFICATION FairApiSpec
CONSTANTS
  iShmSize = 14
  iMaxFrameSize = 3
  HEAD = 1
  MAX_SEQUENCE = 100
  Lengths <- MCLengths
  Keys <- NoKeys
  MaxFrames = 5
  MaxStarts = 1
  Ids <- MCIds
  Ops <- PollOps
  Steps <- MCSteps
  Buffers <- MCBuffers
  H264 = FALSE
  Crashes = FALSE
PROPERTIES
  CatchesUp
CHECK_DEADLOCK FALSE
