---- MODULE MCTimerService ----
EXTENDS TimerService
CONSTANTS s1, s2
MCIds == {s1, s2}
MCTimeouts == {0, 1, 2, 5}
====
