---- MODULE MCTimerWheel ----
EXTENDS TimerWheel
CONSTANTS s1, s2
MCIds == {s1, s2}
MCAnyTimeouts == 0 .. Range64 - 1
====
