---- MODULE MCRequests ----
EXTENDS Requests
CONSTANTS c1, c2, s1, s2
MCCallers == {c1, c2}
MCServers == {s1, s2}
MCSessions == 1 .. 2
====
