SPECIFICATION Spec
CONSTANTS
  w1 = w1  w2 = w2  k1 = k1  k2 = k2  m1 = m1  m2 = m2  kill = kill
  Writers <- MCWriters
  Workers <- MCWorkers
  Messages <- MCMessages
  KillProcess = kill
  MaxPending = 3
INVARIANTS OneToken NoLostWakeup
PROPERTIES QueueSafe QueueLive
CHECK_DEADLOCK FALSE
