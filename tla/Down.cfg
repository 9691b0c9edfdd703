SPECIFICATION DFairSpec
CONSTANTS
  Cap = 1
  BatchMax = 2
  MaxMsgs = 3
  MaxTries = 2
INVARIANTS
  BatchContiguous
  NeverTwice
  CursorCounts
PROPERTIES
  PollAnswered
CHECK_DEADLOCK FALSE
