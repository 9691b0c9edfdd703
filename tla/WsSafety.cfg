SPECIFICATION WsSpec
CONSTANTS
  Ids <- OneId
  MaxStreams = 1
  FrameCap = 1
  OutCap = 1
  MaxFrames = 4
  MaxChunks = 1
  MaxBatch = 2
  MaxWire = 1
INVARIANTS
  WsRestsQuiet
PROPERTIES
  DrivesSession
CHECK_DEADLOCK FALSE
