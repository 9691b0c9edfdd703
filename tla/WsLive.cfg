SPECIFICATION WsFairSpec
CONSTANTS
  Ids <- OneId
  MaxStreams = 1
  FrameCap = 1
  OutCap = 1
  MaxFrames = 2
  MaxChunks = 1
  MaxBatch = 2
  MaxWire = 1
PROPERTIES
  EveryEndReported
  ByeAnswered
  TornDown
  FailureReported
CHECK_DEADLOCK FALSE
