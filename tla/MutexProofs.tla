---------------------------- MODULE MutexProofs ----------------------------
(***************************************************************************)
(* For any set of coroutines: the mutex excludes, and, when user code does *)
(* not wake the coroutines that wait in lock(), the assertions of lock()   *)
(* hold and the lock is always handed on.                                  *)
(***************************************************************************)
EXTENDS Mutex, SequenceTheorems, TLAPS

(* What erase() leaves: the elements before the one removed, then those     *)
(* after it.                                                                *)
LEMMA RemoveAtElements ==
  ASSUME NEW S, NEW q \in Seq(S), NEW i \in 1 .. Len(q)
  PROVE  /\ RemoveAt(q, i) \in Seq(S)
         /\ Len(RemoveAt(q, i)) = Len(q) - 1
         /\ \A j \in 1 .. Len(q) - 1 :
              RemoveAt(q, i)[j] = IF j < i THEN q[j] ELSE q[j + 1]
<1> DEFINE s == SubSeq(q, 1, i - 1)
           t == SubSeq(q, i + 1, Len(q))
<1>1. Len(q) \in Nat /\ i \in Nat
  BY LenProperties
<1>2. /\ s \in Seq(S)
      /\ Len(s) = i - 1
      /\ \A j \in 1 .. i - 1 : s[j] = q[j]
  BY <1>1
<1>3. /\ t \in Seq(S)
      /\ Len(t) = Len(q) - i
      /\ \A j \in 1 .. Len(q) - i : t[j] = q[i + j]
  BY <1>1
<1>4. /\ s \o t \in Seq(S)
      /\ Len(s \o t) = Len(q) - 1
      /\ \A j \in 1 .. Len(q) - 1 : (s \o t)[j] = IF j <= i - 1 THEN s[j] ELSE t[j - (i - 1)]
  <2> HIDE DEF s, t
  <2>1. i - 1 \in Nat /\ Len(q) - i \in Nat /\ Len(s) + Len(t) = Len(q) - 1
    BY <1>1, <1>2, <1>3
  <2>2. /\ s \o t \in Seq(S)
        /\ Len(s \o t) = Len(s) + Len(t)
        /\ \A j \in 1 .. Len(s) + Len(t) :
             (s \o t)[j] = IF j <= Len(s) THEN s[j] ELSE t[j - Len(s)]
    <3>1. s \in Seq(S) /\ t \in Seq(S)
      BY <1>2, <1>3
    <3>2. QED BY <3>1, ConcatProperties
  <2>3. QED BY <1>2, <2>1, <2>2
<1> HIDE DEF s, t
<1>5. ASSUME NEW j \in 1 .. Len(q) - 1
      PROVE  (s \o t)[j] = IF j < i THEN q[j] ELSE q[j + 1]
  <2>1. CASE j < i
    BY <1>1, <1>2, <1>4, <2>1
  <2>2. CASE ~(j < i)
    <3>1. j - (i - 1) \in 1 .. Len(q) - i /\ i + (j - (i - 1)) = j + 1
      BY <1>1, <2>2
    <3>2. QED BY <1>1, <1>3, <1>4, <2>2, <3>1
  <2>3. QED BY <2>1, <2>2
<1>6. RemoveAt(q, i) = s \o t
  BY DEF RemoveAt, s, t
<1>7. QED
  BY <1>4, <1>5, <1>6

(* Who is in the queue, and where: a coroutine that is out of lock() and    *)
(* unlock() is not in it, the holder is its front.                          *)
Queued == /\ \A c \in Coroutines : state[c] # "out" => \E i \in 1 .. Len(queue) : queue[i] = c
          /\ \A i \in 1 .. Len(queue) : state[queue[i]] # "out"
HolderFirst == \A c \in Coroutines : state[c] = "holding" => queue # << >> /\ queue[1] = c

IInv == TypeOK /\ Queued /\ HolderFirst

(* The queue is empty at first and nobody is in lock() or holds.            *)
LEMMA InitIInv == Init => IInv
<1> SUFFICES ASSUME Init PROVE IInv
  OBVIOUS
<1>1. queue \in Seq(Coroutines) /\ Len(queue) = 0 /\ 1 .. Len(queue) = {}
  BY DEF Init
<1>2. QED
  BY <1>1 DEF Init, IInv, TypeOK, Queued, HolderFirst

(* lock() on a free mutex keeps the invariant. *)
LEMMA LockIInv ==
  ASSUME IInv, NEW c \in Coroutines, Lock(c)
  PROVE  IInv'
<1>1. queue' = <<c>> /\ queue' \in Seq(Coroutines) /\ Len(queue') = 1 /\ queue'[1] = c /\ queue' # << >>
  BY DEF Lock
<1>2. \A d \in Coroutines : state[d] = "out"
  BY EmptySeq DEF IInv, TypeOK, Queued, Lock
<1>3. QED
  BY <1>1, <1>2 DEF IInv, TypeOK, Queued, HolderFirst, Lock

(* lock() on a held mutex keeps the invariant. *)
LEMMA WaitIInv ==
  ASSUME IInv, NEW c \in Coroutines, Wait(c)
  PROVE  IInv'
<1>1. /\ queue \in Seq(Coroutines)
      /\ Len(queue) \in Nat
      /\ queue' \in Seq(Coroutines)
      /\ Len(queue') = Len(queue) + 1
      /\ \A i \in 1 .. Len(queue) : queue'[i] = queue[i]
      /\ queue'[Len(queue) + 1] = c
      /\ queue' # << >>
  BY AppendProperties, LenProperties DEF IInv, TypeOK, Wait
<1>2. Len(queue) > 0
  BY <1>1, EmptySeq DEF Wait
<1>3. \A i \in 1 .. Len(queue) : queue[i] # c
  BY DEF IInv, TypeOK, Queued, Wait
<1>4. \A i \in 1 .. Len(queue') : i \in 1 .. Len(queue) \/ i = Len(queue) + 1
  BY <1>1
<1>5. state' = [state EXCEPT ![c] = "suspended"] /\ state \in [Coroutines -> {"out", "suspended", "woken", "holding"}]
  BY DEF Wait, IInv, TypeOK
<1>6. TypeOK'
  BY <1>1, <1>3, <1>4, <1>5 DEF IInv, TypeOK, Wait
<1>7. Queued'
  <2>1. ASSUME NEW d \in Coroutines, state'[d] # "out" PROVE \E i \in 1 .. Len(queue') : queue'[i] = d
    <3>1. CASE d = c
      BY <1>1, <3>1
    <3>2. CASE d # c
      <4>1. PICK i \in 1 .. Len(queue) : queue[i] = d
        BY <1>5, <2>1, <3>2 DEF IInv, Queued
      <4>2. QED BY <1>1, <4>1
    <3>3. QED BY <3>1, <3>2
  <2>2. ASSUME NEW i \in 1 .. Len(queue') PROVE state'[queue'[i]] # "out"
    <3>1. CASE i = Len(queue) + 1
      BY <1>1, <1>5, <3>1
    <3>2. CASE i \in 1 .. Len(queue)
      BY <1>1, <1>3, <1>5, <3>2 DEF IInv, Queued
    <3>3. QED BY <1>4, <3>1, <3>2
  <2>3. QED BY <2>1, <2>2 DEF Queued
<1>8. HolderFirst'
  BY <1>1, <1>2, <1>5 DEF IInv, HolderFirst
<1>9. QED
  BY <1>6, <1>7, <1>8 DEF IInv

(* A step that leaves the queue alone, takes nobody in or out and makes only *)
(* the front a holder keeps the invariant.                                  *)
LEMMA SameQueueIInv ==
  ASSUME IInv, UNCHANGED queue,
         state' \in [Coroutines -> {"out", "suspended", "woken", "holding"}],
         \A c \in Coroutines : state'[c] = "out" <=> state[c] = "out",
         \A c \in Coroutines : state'[c] = "holding" =>
           state[c] = "holding" \/ (queue # << >> /\ queue[1] = c),
         thrown' \subseteq Coroutines, exiting' \in BOOLEAN, failed' \in BOOLEAN, meddled' \in BOOLEAN
  PROVE  IInv'
<1>1. TypeOK'
  BY DEF IInv, TypeOK
<1>2. \A i \in 1 .. Len(queue) : queue[i] \in Coroutines
  BY ElementOfSeq DEF IInv, TypeOK
<1>3. Queued'
  BY <1>2 DEF IInv, Queued
<1>4. HolderFirst'
  BY DEF IInv, HolderFirst
<1>5. QED
  BY <1>1, <1>3, <1>4 DEF IInv

(* The return from suspend() in lock() keeps the invariant.                 *)
LEMMA ResumeIInv ==
  ASSUME IInv, NEW c \in Coroutines, Resume(c)
  PROVE  IInv'
<1>1. CASE queue # << >> /\ Head(queue) = c
  <2>1. state' = [state EXCEPT ![c] = "holding"] /\ UNCHANGED <<queue, thrown, exiting, failed, meddled>>
    BY <1>1 DEF Resume
  <2>2. queue[1] = c
    BY <1>1, HeadTailProperties DEF IInv, TypeOK
  <2>3. QED BY <1>1, <2>1, <2>2, SameQueueIInv DEF IInv, TypeOK, Resume
<1>2. CASE ~(queue # << >> /\ Head(queue) = c)
  BY <1>2, SameQueueIInv DEF IInv, TypeOK, Resume
<1>3. QED BY <1>1, <1>2

(* Interrupts and wakeups keep the invariant.                               *)
LEMMA WokenIInv ==
  ASSUME IInv, NEW S, state' = Woken(S), UNCHANGED queue,
         thrown' \subseteq Coroutines, exiting' \in BOOLEAN, failed' \in BOOLEAN, meddled' \in BOOLEAN
  PROVE  IInv'
BY SameQueueIInv DEF IInv, TypeOK, Woken

(* A step that removes one element of the queue and takes its coroutine out *)
(* keeps the invariant.                                                     *)
LEMMA RemovedIInv ==
  ASSUME IInv, NEW i \in 1 .. Len(queue), NEW c \in Coroutines, queue[i] = c,
         queue' \in Seq(Coroutines), Len(queue') = Len(queue) - 1,
         \A j \in 1 .. Len(queue) - 1 : queue'[j] = IF j < i THEN queue[j] ELSE queue[j + 1],
         state' \in [Coroutines -> {"out", "suspended", "woken", "holding"}],
         state'[c] = "out",
         \A d \in Coroutines \ {c} : state'[d] = "out" <=> state[d] = "out",
         \A d \in Coroutines \ {c} : state'[d] = "holding" => state[d] = "holding",
         thrown' \subseteq Coroutines, exiting' \in BOOLEAN, failed' \in BOOLEAN, meddled' \in BOOLEAN
  PROVE  IInv'
<1>1. Len(queue) \in Nat /\ i \in Nat /\ i >= 1 /\ i <= Len(queue)
  BY LenProperties DEF IInv, TypeOK
<1>2. \A j \in 1 .. Len(queue) : queue[j] \in Coroutines /\ (queue[j] = c => j = i)
  BY ElementOfSeq DEF IInv, TypeOK
<1>3. \A j, k \in 1 .. Len(queue) : queue[j] = queue[k] => j = k
  BY DEF IInv, TypeOK
<1>4. ASSUME NEW j \in 1 .. Len(queue')
      PROVE  \E k \in 1 .. Len(queue) : /\ k # i
                                        /\ queue'[j] = queue[k]
                                        /\ k = (IF j < i THEN j ELSE j + 1)
  <2> DEFINE k == IF j < i THEN j ELSE j + 1
  <2>1. j \in 1 .. Len(queue) - 1 /\ k \in 1 .. Len(queue) /\ k # i
    BY <1>1
  <2>2. queue'[j] = queue[k]
    BY <2>1
  <2>3. QED BY <2>1, <2>2
<1>5. ASSUME NEW j \in 1 .. Len(queue'), NEW k \in 1 .. Len(queue'), queue'[j] = queue'[k]
      PROVE  j = k
  BY <1>1, <1>3, <1>4, <1>5
<1>6. TypeOK'
  BY <1>5 DEF IInv, TypeOK
<1>7. ASSUME NEW d \in Coroutines, state'[d] # "out"
      PROVE  \E j \in 1 .. Len(queue') : queue'[j] = d
  <2>1. PICK k \in 1 .. Len(queue) : queue[k] = d
    BY <1>7 DEF IInv, Queued
  <2>2. k # i
    BY <1>7, <2>1
  <2>3. CASE k < i
    BY <1>1, <2>1, <2>3
  <2>4. CASE k > i
    <3>1. /\ k - 1 \in 1 .. Len(queue') /\ k - 1 \in 1 .. Len(queue) - 1
          /\ ~(k - 1 < i) /\ (k - 1) + 1 = k
      BY <1>1, <2>4
    <3>2. queue'[k - 1] = queue[k]
      BY <3>1
    <3>3. QED BY <2>1, <3>1, <3>2
  <2>5. QED BY <1>1, <2>2, <2>3, <2>4
<1>8. ASSUME NEW j \in 1 .. Len(queue')
      PROVE  state'[queue'[j]] # "out"
  <2>1. PICK k \in 1 .. Len(queue) : k # i /\ queue'[j] = queue[k]
    BY <1>4
  <2>2. queue[k] \in Coroutines \ {c} /\ state[queue[k]] # "out"
    BY <1>2, <2>1 DEF IInv, Queued
  <2>3. QED BY <2>1, <2>2
<1>9. Queued'
  BY <1>7, <1>8 DEF Queued
<1>10. ASSUME NEW d \in Coroutines, state'[d] = "holding"
       PROVE  queue' # << >> /\ queue'[1] = d
  <2>1. d # c /\ state[d] = "holding" /\ queue[1] = d
    BY <1>10 DEF IInv, HolderFirst
  <2>2. i # 1 /\ 1 \in 1 .. Len(queue) - 1 /\ Len(queue') > 0
    BY <1>1, <2>1
  <2>3. queue'[1] = queue[1]
    BY <1>1, <2>2
  <2>4. QED BY <2>1, <2>2, <2>3, EmptySeq
<1>11. QED
  BY <1>6, <1>9, <1>10 DEF IInv, HolderFirst

(* The return with an exception keeps the invariant.                        *)
LEMMA AbandonIInv ==
  ASSUME IInv, NEW c \in Coroutines, Abandon(c)
  PROVE  IInv'
<1>1. PICK i \in 1 .. Len(queue) : queue[i] = c /\ queue' = RemoveAt(queue, i)
  BY DEF Abandon
<1>2. /\ queue' \in Seq(Coroutines)
      /\ Len(queue') = Len(queue) - 1
      /\ \A j \in 1 .. Len(queue) - 1 : queue'[j] = IF j < i THEN queue[j] ELSE queue[j + 1]
  BY <1>1, RemoveAtElements DEF IInv, TypeOK
<1>3. state' = [state EXCEPT ![c] = "out"] /\ UNCHANGED <<thrown, exiting, failed, meddled>>
  BY DEF Abandon
<1>4. QED
  BY <1>1, <1>2, <1>3, RemovedIInv DEF IInv, TypeOK

(* What unlock() leaves of the queue.                                       *)
LEMMA UnlockQueue ==
  ASSUME IInv, NEW c \in Coroutines, Unlock(c)
  PROVE  /\ queue # << >>
         /\ 1 \in 1 .. Len(queue)
         /\ queue[1] = c
         /\ queue' \in Seq(Coroutines)
         /\ Len(queue') = Len(queue) - 1
         /\ \A j \in 1 .. Len(queue) - 1 : queue'[j] = queue[j + 1]
<1>1. queue \in Seq(Coroutines) /\ queue # << >> /\ queue[1] = c
  BY DEF IInv, TypeOK, HolderFirst, Unlock
<1>2. Len(queue) \in Nat \ {0}
  BY <1>1, EmptySeq, LenProperties
<1>3. queue' = Tail(queue)
  BY DEF Unlock
<1>4. QED
  BY <1>1, <1>2, <1>3, HeadTailProperties

(* unlock() keeps the invariant.                                            *)
LEMMA UnlockIInv ==
  ASSUME IInv, NEW c \in Coroutines, Unlock(c)
  PROVE  IInv'
<1>1. \A j \in 1 .. Len(queue) - 1 : queue'[j] = IF j < 1 THEN queue[j] ELSE queue[j + 1]
  BY UnlockQueue
<1>2. PICK S : state' = [Woken(S) EXCEPT ![c] = "out"]
  BY DEF Unlock
<1>3. UNCHANGED <<thrown, exiting, failed, meddled>>
  BY DEF Unlock
<1>4. /\ state' \in [Coroutines -> {"out", "suspended", "woken", "holding"}]
      /\ state'[c] = "out"
      /\ \A d \in Coroutines \ {c} : state'[d] = "out" <=> state[d] = "out"
      /\ \A d \in Coroutines \ {c} : state'[d] = "holding" => state[d] = "holding"
  BY <1>2 DEF IInv, TypeOK, Woken
<1>5. QED
  BY <1>1, <1>3, <1>4, UnlockQueue, RemovedIInv DEF IInv, TypeOK

(* Every step keeps the invariant.                                          *)
LEMMA NextIInv == IInv /\ [Next]_vars => IInv'
<1> SUFFICES ASSUME IInv, [Next]_vars PROVE IInv'
  OBVIOUS
<1>1. ASSUME NEW c \in Coroutines, Wakeup(c) PROVE IInv'
  BY <1>1, WokenIInv DEF Wakeup, IInv, TypeOK
<1>2. CASE Exit
  BY <1>2, WokenIInv DEF Exit, Suspended, IInv, TypeOK
<1>3. CASE UNCHANGED vars
  BY <1>3 DEF vars, IInv, TypeOK, Queued, HolderFirst
<1>4. QED
  BY <1>1, <1>2, <1>3, LockIInv, WaitIInv, ResumeIInv, AbandonIInv, UnlockIInv DEF Next

(* The variables keep their types, and no coroutine is queued twice.        *)
THEOREM TypeCorrect == SafeSpec => []TypeOK
<1>1. IInv => TypeOK
  BY DEF IInv
<1>2. QED
  BY <1>1, InitIInv, NextIInv, PTL DEF SafeSpec

(* Two coroutines never hold the mutex at once, whatever user code wakes.   *)
THEOREM MutexExcludes == SafeSpec => []MutualExclusion
<1>1. IInv => MutualExclusion
  BY DEF IInv, HolderFirst, MutualExclusion
<1>2. QED
  BY <1>1, InitIInv, NextIInv, PTL DEF SafeSpec
-----------------------------------------------------------------------------
(* When only unlock() and exit() wake the coroutines that wait: who returns *)
(* from suspend() in lock() without an exception is the front, and until    *)
(* the process exits the front is awake.                                    *)
WokenFirst == \A c \in Coroutines : state[c] = "woken" /\ c \notin thrown =>
                queue # << >> /\ queue[1] = c
FrontAwake == ~exiting => thrown = {} /\ (queue # << >> => state[queue[1]] \in {"holding", "woken"})

HInv == IInv /\ WokenFirst /\ FrontAwake /\ ~failed

(* Every step keeps the second invariant, unless it is user code that wakes *)
(* a waiting coroutine.                                                     *)
LEMMA NextHInv ==
  ASSUME HInv, [Next]_vars, ~meddled'
  PROVE  HInv'
<1>1. IInv /\ IInv'
  BY NextIInv DEF HInv
<1>2. /\ queue \in Seq(Coroutines) /\ Len(queue) \in Nat
      /\ state \in [Coroutines -> {"out", "suspended", "woken", "holding"}]
      /\ \A i \in 1 .. Len(queue) : queue[i] \in Coroutines
  BY <1>1, ElementOfSeq, LenProperties DEF IInv, TypeOK
<1>3. queue # << >> => 1 \in 1 .. Len(queue)
  BY <1>2, EmptySeq
<1>4. ASSUME NEW c \in Coroutines, Lock(c) PROVE HInv'
  <2>1. queue' = <<c>> /\ queue'[1] = c /\ state' = [state EXCEPT ![c] = "holding"]
    BY <1>4 DEF Lock
  <2>2. \A d \in Coroutines : state[d] = "out"
    BY <1>1, <1>4, EmptySeq DEF IInv, TypeOK, Queued, Lock
  <2>3. QED BY <1>1, <1>2, <1>4, <2>1, <2>2 DEF HInv, WokenFirst, FrontAwake, Lock
<1>5. ASSUME NEW c \in Coroutines, Wait(c) PROVE HInv'
  <2>1. queue' = Append(queue, c) /\ queue # << >> /\ queue' # << >> /\ queue'[1] = queue[1]
    BY <1>2, <1>3, <1>5, AppendProperties DEF Wait
  <2>2. queue[1] # c
    BY <1>1, <1>3, <1>5 DEF IInv, Queued, Wait
  <2>3. queue[1] \in Coroutines
    BY <1>2, <1>3, <2>1
  <2>4. QED BY <1>1, <1>2, <1>5, <2>1, <2>2, <2>3 DEF HInv, WokenFirst, FrontAwake, Wait
<1>6. ASSUME NEW c \in Coroutines, Resume(c) PROVE HInv'
  <2>1. queue # << >> /\ queue[1] = c /\ Head(queue) = c
    BY <1>2, <1>6, HeadTailProperties DEF HInv, WokenFirst, Resume
  <2>2. state' = [state EXCEPT ![c] = "holding"] /\ UNCHANGED <<queue, thrown, exiting, failed, meddled>>
    BY <1>6, <2>1 DEF Resume
  <2>3. QED BY <1>1, <1>2, <2>1, <2>2 DEF HInv, WokenFirst, FrontAwake
<1>7. ASSUME NEW c \in Coroutines, Abandon(c) PROVE HInv'
  <2>1. PICK i \in 1 .. Len(queue) : queue[i] = c /\ queue' = RemoveAt(queue, i)
    BY <1>7 DEF Abandon
  <2>2. exiting' /\ c \in thrown
    BY <1>7 DEF Abandon, HInv, FrontAwake, IInv, TypeOK
  <2>3. /\ Len(queue') = Len(queue) - 1
        /\ queue' \in Seq(Coroutines)
        /\ \A j \in 1 .. Len(queue) - 1 : queue'[j] = IF j < i THEN queue[j] ELSE queue[j + 1]
    BY <1>2, <2>1, RemoveAtElements
  <2>4. ASSUME NEW d \in Coroutines, state'[d] = "woken", d \notin thrown'
        PROVE  queue' # << >> /\ queue'[1] = d
    <3>1. d # c /\ state[d] = "woken" /\ queue # << >> /\ queue[1] = d
      BY <1>2, <1>7, <2>2, <2>4 DEF Abandon, HInv, WokenFirst
    <3>2. i # 1 /\ 1 \in 1 .. Len(queue) - 1 /\ 1 < i
      BY <1>2, <2>1, <3>1
    <3>3. queue'[1] = queue[1]
      BY <2>3, <3>2
    <3>4. QED BY <1>2, <2>3, <3>1, <3>2, <3>3, EmptySeq
  <2>5. QED BY <1>1, <1>7, <2>2, <2>4 DEF Abandon, HInv, WokenFirst, FrontAwake
<1>8. ASSUME NEW c \in Coroutines, Unlock(c) PROVE HInv'
  <2> DEFINE S == IF Len(queue) > 1 THEN {queue[2]} ELSE {}
  <2>1. state' = [Woken(S) EXCEPT ![c] = "out"] /\ UNCHANGED <<thrown, exiting, failed, meddled>>
    BY <1>8 DEF Unlock
  <2>2. queue # << >> /\ queue[1] = c /\ Len(queue') = Len(queue) - 1 /\ queue' \in Seq(Coroutines)
    BY <1>1, <1>8, UnlockQueue
  <2>3. Len(queue) > 1 => queue'[1] = queue[2] /\ queue' # << >>
    <3>1. Len(queue) > 1 => 1 \in 1 .. Len(queue) - 1
      BY <1>2
    <3>2. Len(queue) > 1 => queue'[1] = queue[2]
      BY <1>1, <1>8, <3>1, UnlockQueue
    <3>3. QED BY <1>2, <2>2, <3>2, EmptySeq
  <2>4. queue' # << >> => Len(queue) > 1
    BY <1>2, <2>2, EmptySeq
  <2>5. Len(queue) > 1 => /\ queue[2] \in Coroutines /\ queue[2] # c
                          /\ state[queue[2]] # "out"
    <3>1. Len(queue) > 1 => 2 \in 1 .. Len(queue) /\ 1 \in 1 .. Len(queue)
      BY <1>2
    <3>2. QED BY <1>1, <1>2, <2>2, <3>1 DEF IInv, TypeOK, Queued
  <2>6. ASSUME NEW d \in Coroutines, state'[d] = "woken", d \notin thrown'
        PROVE  queue' # << >> /\ queue'[1] = d
    <3>1. d # c
      BY <1>2, <2>1, <2>6 DEF Woken
    <3>2. state[d] = "woken" => FALSE
      BY <2>1, <2>2, <2>6, <3>1 DEF HInv, WokenFirst
    <3>3. d \in S
      BY <1>2, <2>1, <2>6, <3>1, <3>2 DEF Woken
    <3>4. QED BY <2>3, <3>3
  <2>7. ASSUME ~exiting', queue' # << >>
        PROVE  state'[queue'[1]] \in {"holding", "woken"}
    <3>1. queue'[1] = queue[2] /\ queue[2] \in Coroutines /\ queue[2] # c /\ S = {queue[2]}
      BY <2>3, <2>4, <2>5, <2>7
    <3>2. state[queue[2]] # "out"
      BY <2>4, <2>5, <2>7
    <3>3. state'[queue[2]] \in {"holding", "woken"}
      BY <1>2, <2>1, <3>1, <3>2 DEF Woken
    <3>4. QED BY <3>1, <3>3
  <2>8. QED BY <1>1, <2>1, <2>6, <2>7 DEF HInv, WokenFirst, FrontAwake
<1>9. CASE Exit
  <2>1. \A c \in Coroutines : state'[c] = "woken" /\ c \notin thrown' => state[c] = "woken" /\ c \notin thrown
    BY <1>2, <1>9 DEF Exit, Woken, Suspended
  <2>2. QED BY <1>1, <1>9, <2>1 DEF Exit, HInv, WokenFirst, FrontAwake
<1>10. CASE UNCHANGED vars
  BY <1>1, <1>10 DEF vars, HInv, WokenFirst, FrontAwake
<1>11. \A c \in Coroutines : ~Wakeup(c)
  BY DEF Wakeup
<1>12. QED
  BY <1>4, <1>5, <1>6, <1>7, <1>8, <1>9, <1>10, <1>11 DEF Next

(* User code that has woken a waiting coroutine has done so for good.       *)
LEMMA StillUnmeddled ==
  ASSUME [Next]_vars, ~meddled'
  PROVE  ~meddled
BY DEF Next, vars, Lock, Wait, Resume, Abandon, Unlock, Wakeup, Exit

(* The invariant of all runs: the second one, until user code meddles.      *)
UInv == IInv /\ (~meddled => HInv)

(* It holds at first and after every step.                                  *)
LEMMA AlwaysUInv == SafeSpec => []UInv
<1>1. Init => UInv
  BY InitIInv DEF Init, UInv, HInv, WokenFirst, FrontAwake
<1>2. UInv /\ [Next]_vars => UInv'
  BY NextIInv, NextHInv, StillUnmeddled DEF UInv
<1>3. QED
  BY <1>1, <1>2, PTL DEF SafeSpec

(* As long as user code wakes none of the coroutines that wait in lock(),   *)
(* unlock() hands the lock to a coroutine that runs or will run.            *)
THEOREM HandoffIsKept == SafeSpec => []HandoffKept
<1>1. UInv => HandoffKept
  BY HeadTailProperties DEF UInv, HInv, FrontAwake, HandoffKept, IInv, TypeOK
<1>2. QED
  BY <1>1, AlwaysUInv, PTL

(* As long as user code wakes none of them, the assertions of lock() hold.  *)
THEOREM AssertionsHold == SafeSpec => []AssertsHold
<1>1. UInv => AssertsHold
  BY DEF UInv, HInv, AssertsHold
<1>2. QED
  BY <1>1, AlwaysUInv, PTL
=============================================================================
