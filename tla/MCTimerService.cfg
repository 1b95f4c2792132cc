SPECIFICATION Spec
CONSTANTS
  s1 = s1  s2 = s2
  Ids <- MCIds
  Timeouts <- MCTimeouts
  LeastValue = 2
  LevelValue = 3
  LevelCount = 2
  MaxTime = 9  MaxMailbox = 3
INVARIANTS InPlace NoneOverdue
PROPERTIES DeadlineExact SendsOnTime EverySleepEnds
CHECK_DEADLOCK FALSE
