SPECIFICATION Spec
CONSTANTS
  p1 = p1  p2 = p2  f1 = f1  f2 = f2  kRead = kRead  None = None
  Processes <- MCProcesses
  Fds <- MCFds
  Events <- MCEvents
  MaxSession = 2
INVARIANTS CtlSucceeds EventKept Genuine
PROPERTIES WaitEnds
CHECK_DEADLOCK FALSE
