SPECIFICATION SafeSpec
CONSTANTS
  main = main  a = a  b = b  None = None
  Coroutines <- MCCoroutines
  Main <- main
  Catching = TRUE
  MaxMailbox = 1
  MaxInbox = 1
INVARIANTS NotDestroyed
CHECK_DEADLOCK FALSE
