---- MODULE MCMailbox ----
EXTENDS Mailbox, TLC
CONSTANTS w1, w2, k1, k2, m1, m2, kill
MCWriters == {w1, w2}
MCWorkers == {k1, k2}
MCMessages == {m1, m2, kill}
====
