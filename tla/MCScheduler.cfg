SPECIFICATION Spec
CONSTANTS
  k1 = k1  k2 = k2  timer = timer  p1 = p1  p2 = p2  p3 = p3  c1 = c1  c2 = c2
  Workers <- MCWorkers
  Others <- MCOthers
  Processes <- MCProcesses
  Codes <- MCCodes
  None = None
INVARIANTS SignalBalance WorkConserving StopReachesAll
PROPERTIES QueueSafe ServeReturns QueueLive
CHECK_DEADLOCK FALSE
