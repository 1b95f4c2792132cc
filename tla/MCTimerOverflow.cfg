SPECIFICATION WheelSpec
CONSTANTS
  s1 = s1  s2 = s2
  Ids <- MCIds
  LeastValue = 2
  LevelValue = 4
  LevelCount = 2
  Timeouts <- MCAnyTimeouts
  MaxTime = 20
INVARIANTS QueueAssert
CHECK_DEADLOCK FALSE
