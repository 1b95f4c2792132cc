---- MODULE MCRuntime ----
EXTENDS Runtime
CONSTANTS p1, p2, w1, o1
MCProcesses == {p1, p2}
MCWorkers == {w1}
MCOthers == {o1}
====
