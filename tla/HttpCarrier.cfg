SPECIFICATION CSpec
CONSTANTS
  Programs <- MCPrograms
  Ids = {1}
  MaxStreams = 1
  OutCap = 1
  MaxChunks = 2
  MaxPushes = 6
  ChanCap = 1
  BatchMax = 2
  MaxFrames = 3
  RetryMax = 2
  MaxTries = 3
INVARIANTS
  DownOrder
  RestsQuiet
PROPERTIES
  RefusedOnlyIfDoubled
  DrivesUnlessDoubled
CHECK_DEADLOCK FALSE
