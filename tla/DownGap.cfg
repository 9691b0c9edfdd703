SPECIFICATION DSpec
CONSTANTS
  Cap = 2
  BatchMax = 2
  MaxMsgs = 3
  MaxTries = 3
INVARIANTS
  ClientGapFree
CHECK_DEADLOCK FALSE
