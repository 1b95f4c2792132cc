---- MODULE MCFdPoll ----
EXTENDS FdPoll
CONSTANTS p1, p2, f1, f2, kRead
MCProcesses == {p1, p2}
MCFds == {f1, f2}
MCEvents == {kRead}
====
