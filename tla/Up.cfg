SPECIFICATION UFairSpec
CONSTANTS
  ChanCap = 1
  BatchMax = 2
  MaxFrames = 3
  RetryMax = 2
  MaxTries = 4
INVARIANTS
  AckMeansApplied
  NoFrameAhead
  OnceUnlessRetried
PROPERTIES
  DeleteEndsSession
CHECK_DEADLOCK FALSE
