SPECIFICATION Spec
CONSTANTS
  a = a  b = b  c = c  d = d
  Coroutines <- MCCoroutines
INVARIANTS MutualExclusion HandoffKept AssertsHold
PROPERTIES LockServed
CHECK_DEADLOCK FALSE
