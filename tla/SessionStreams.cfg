SPECIFICATION Spec
CONSTANTS
  Ids <- MCIds
  MaxStreams = 1
  FrameCap = 2
  OutCap = 1
  MaxFrames = 4
  MaxChunks = 1
INVARIANTS
  TypeOK
  WriterOwnership
  UpOrder
PROPERTIES
  KeepsPromise
CHECK_DEADLOCK FALSE
