---- MODULE MCScheduler ----
EXTENDS Scheduler
CONSTANTS k1, k2, timer, p1, p2, p3, c1, c2
MCWorkers == {k1, k2}
MCOthers == {timer}
MCProcesses == {p1, p2, p3}
MCCodes == {c1, c2}
====
