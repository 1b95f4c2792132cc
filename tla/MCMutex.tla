---- MODULE MCMutex ----
EXTENDS Mutex
CONSTANTS a, b, c, d
MCCoroutines == {a, b, c, d}
====
