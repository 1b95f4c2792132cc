SPECIFICATION SafeSpec
CONSTANTS
  a = a  b = b  c = c  d = d
  Coroutines <- MCCoroutines
INVARIANTS LockAssert
CHECK_DEADLOCK FALSE
