SPECIFICATION Spec
CONSTANTS
  main = main  a = a  b = b  None = None
  Coroutines <- MCCoroutines
  Main <- main
  Catching = FALSE
  MaxMailbox = 2
  MaxInbox = 1
INVARIANTS OnePlace ServeTakesMessage
PROPERTIES WokenRuns DispatchStarts ExitEnds
CHECK_DEADLOCK FALSE
