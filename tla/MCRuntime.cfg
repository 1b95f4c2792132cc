SPECIFICATION Spec
CONSTANTS
  p1 = p1  p2 = p2  w1 = w1  o1 = o1  None = None
  Processes <- MCProcesses
  Workers <- MCWorkers
  Others <- MCOthers
INVARIANTS RefBalance NoDangling RequestKept
PROPERTIES Freed KillEnds
CHECK_DEADLOCK FALSE
