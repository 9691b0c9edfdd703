SPECIFICATION LFairSpec
CONSTANTS
  QueueLimit = 5
  ItemLimit = 4
  BatchLimit = 2
  MaxFrames = 7
  MaxItem = 3
  LaneIds = {1, 2}
  LaneLimit = 3
  ClosedLimit = 1
  MaxPosts = 6
INVARIANTS
  Accounted
  OnceInOrder
  Bounded
  LanesAccounted
  EndTold
PROPERTIES
  EveryFrameLeaves
  LaneFrameLeaves
CHECK_DEADLOCK FALSE
