------------------------------- MODULE Timer -------------------------------
(***************************************************************************)
(* What the timer promises: a clock that advances one unit at a time and   *)
(* sends each pending timeout at the very tick at which it expires.        *)
(* TimerWheel.tla is shown to implement it.                                *)
(***************************************************************************)
EXTENDS Naturals

CONSTANTS Ids,      \* who waits: process and session
          Times     \* clock values

VARIABLES time,     \* the tick to come
          pending   \* timeouts not sent yet

vars == <<time, pending>>

Init == time = 0 /\ pending = {}

Waiting(id) == \E n \in pending : n.id = id

(* A timeout of 0 is sent at the tick to come. *)
Timeout(id, timeout) ==
  /\ ~Waiting(id)
  /\ time + timeout \in Times
  /\ pending' = pending \cup {[id |-> id, expire |-> time + timeout]}
  /\ UNCHANGED time

Expired == {n \in pending : n.expire = time}

Tick == /\ time + 1 \in Times
        /\ pending' = pending \ Expired
        /\ time' = time + 1

Next == Tick \/ \E id \in Ids, timeout \in Times : Timeout(id, timeout)

Spec == Init /\ [][Next]_vars
=============================================================================
