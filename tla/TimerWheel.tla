----------------------------- MODULE TimerWheel -----------------------------
(***************************************************************************)
(* The hierarchical timing wheel of the timer service (src/time.cpp):      *)
(* one list for each of the next LeastValue ticks and, for later times,    *)
(* LevelCount levels of LevelValue - 1 lists, one for each non-zero digit  *)
(* of the expiry time at that level.  When the clock enters a new block of *)
(* LeastValue ticks, the list of the lowest level whose digit is not zero  *)
(* is queued anew, one level or more further down.                         *)
(*                                                                         *)
(* The code has LeastValue 2^14, LevelValue 2^10, LevelCount 5, which      *)
(* makes 64 bits.  A list is the set of its nodes: nothing depends on the  *)
(* order in which one tick sends.                                          *)
(***************************************************************************)
EXTENDS Naturals

CONSTANTS Ids,         \* who waits: process and session
          LeastValue,  \* TIME_LEAST_VALUE
          LevelValue,  \* TIME_LEVEL_VALUE
          LevelCount,  \* TIME_LEVEL_COUNT
          Timeouts,    \* what is asked for
          MaxTime      \* bound on the clock

ASSUME TimerAssumption == /\ LeastValue \in Nat \ {0}
                          /\ LevelValue \in Nat \ {0, 1}
                          /\ LevelCount \in Nat \ {0}
                          /\ Timeouts \subseteq Nat
                          /\ MaxTime \in Nat

Levels == 0 .. LevelCount - 1
Digits == 1 .. LevelValue - 1

(* The ticks that one list of level l covers; times have LevelCount digits. *)
Span[l \in 0 .. LevelCount] == IF l = 0 THEN LeastValue ELSE Span[l - 1] * LevelValue
Range64 == Span[LevelCount]
Digit(t, l) == (t \div Span[l]) % LevelValue

ASSUME ClockFits == MaxTime < Range64

VARIABLES time,     \* Timer::time
          least,    \* Timer::least
          level,    \* Timer::level
          failed    \* an assertion failed

wheel == <<time, least, level, failed>>

WheelInit ==
  /\ time = 0
  /\ least = [i \in 0 .. LeastValue - 1 |-> {}]
  /\ level = [l \in Levels |-> [v \in Digits |-> {}]]
  /\ failed = FALSE

pending == (UNION {least[i] : i \in DOMAIN least})
           \cup (UNION {level[l][v] : l \in Levels, v \in Digits})

-----------------------------------------------------------------------------
(* _queue: where a node goes when the clock shows t. *)

(* A mistake: the comparison takes one tick too many. *)
NearOrAt(t, n) == n.expire - t <= LeastValue

Near(t, n) == n.expire - t < LeastValue

(* (expire | mask) == (time | mask): no digit above level l differs. *)
Agree(t, u, l) == t \div Span[l + 1] = u \div Span[l + 1]

LevelOf(t, n) == CHOOSE l \in Levels : /\ Agree(n.expire, t, l)
                                       /\ \A k \in Levels : k < l => ~Agree(n.expire, t, k)

Goes(t, n, l, v) == ~Near(t, n) /\ LevelOf(t, n) = l /\ Digit(n.expire, l) = v

(* The lists after queueing all of ns. *)
LeastWith(lists, t, ns) ==
  [i \in DOMAIN lists |-> lists[i] \cup {n \in ns : Near(t, n) /\ n.expire % LeastValue = i}]
LevelWith(lists, t, ns) ==
  [l \in Levels |-> [v \in Digits |-> lists[l][v] \cup {n \in ns : Goes(t, n, l, v)}]]

(* _timeout: a sum that does not fit wraps around, and _queue asserts       *)
(* expire >= time.                                                          *)
Timeout(id, timeout) ==
  LET node == [id |-> id, expire |-> (time + timeout) % Range64] IN
  /\ ~failed
  /\ \A n \in pending : n.id # id
  /\ IF node.expire >= time
     THEN /\ least' = LeastWith(least, time, {node})
          /\ level' = LevelWith(level, time, {node})
          /\ UNCHANGED failed
     ELSE failed' = TRUE /\ UNCHANGED <<least, level>>
  /\ UNCHANGED time

(* A mistake: the highest level with a digit is brought down, not the lowest. *)
EnteredHighest(t) == CHOOSE l \in Levels : /\ Digit(t, l) # 0
                                           /\ \A k \in Levels : k > l => Digit(t, k) = 0

(* The level whose list the clock enters at t. *)
Entered(t) == CHOOSE l \in Levels : /\ Digit(t, l) # 0
                                    /\ \A k \in Levels : k < l => Digit(t, k) = 0

(* _tick: send this tick's list, advance, and bring down the list that the  *)
(* clock enters.                                                            *)
Tick ==
  LET t == time + 1
      sent == [least EXCEPT ![time % LeastValue] = {}]
  IN
  /\ ~failed
  /\ t <= MaxTime
  /\ time' = t
  /\ IF t % LeastValue # 0
     THEN least' = sent /\ UNCHANGED level
     ELSE LET l == Entered(t)
              down == level[l][Digit(t, l)]
          IN  /\ level' = LevelWith([level EXCEPT ![l][Digit(t, l)] = {}], t, down)
              /\ least' = LeastWith(sent, t, down)
  /\ UNCHANGED failed

WheelNext == Tick \/ \E id \in Ids, timeout \in Timeouts : Timeout(id, timeout)

WheelSpec == WheelInit /\ [][WheelNext]_wheel
-----------------------------------------------------------------------------
Nodes == [id : Ids, expire : 0 .. Range64 - 1]

(* Every node is where the clock will find it: in the list of its own tick, *)
(* at most LeastValue ticks ahead, or in the list of the block of ticks it  *)
(* belongs to, of which the clock has not reached the start.                *)
InPlace ==
  /\ least \in [0 .. LeastValue - 1 -> SUBSET Nodes]
  /\ level \in [Levels -> [Digits -> SUBSET Nodes]]
  /\ \A i \in DOMAIN least : \A n \in least[i] :
       /\ n.expire % LeastValue = i
       /\ n.expire \in time .. time + LeastValue - 1
  /\ \A l \in Levels, v \in Digits : \A n \in level[l][v] :
       /\ Agree(n.expire, time, l)
       /\ Digit(n.expire, l) = v
       /\ Digit(time, l) < v

(* _queue's assertion expire >= time never fails.                           *)
QueueAssert == ~failed

Abstract == INSTANCE Timer WITH Times <- 0 .. Range64 - 1

(* _tick sends every timeout at the tick of its expiry: the wheel           *)
(* implements the timer that keeps one set of pending timeouts.             *)
SendsOnTime == Abstract!Spec
=============================================================================
