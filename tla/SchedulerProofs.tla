-------------------------- MODULE SchedulerProofs --------------------------
(***************************************************************************)
(* Proofs about Scheduler for any finite pool of workers, any threads      *)
(* outside it and any processes.                                           *)
(***************************************************************************)
EXTENDS Scheduler, SequenceTheorems, FiniteSetTheorems, TLAPS

(* Appending to the second of two concatenated lists appends to the whole.  *)
LEMMA AppendConcat ==
  ASSUME NEW S, NEW s \in Seq(S), NEW t \in Seq(S), NEW e \in S
  PROVE  s \o Append(t, e) = Append(s \o t, e)
<1>1. Append(t, e) = t \o <<e>> /\ <<e>> \in Seq(S)
  BY AppendIsConcat
<1>2. s \o t \in Seq(S)
  BY ConcatProperties
<1>3. Append(s \o t, e) = (s \o t) \o <<e>>
  BY <1>2, AppendIsConcat
<1>4. QED
  BY <1>1, <1>3, ConcatAssociative

(* Taking from the first of two concatenated lists takes from the whole.    *)
LEMMA TailConcat ==
  ASSUME NEW S, NEW s \in Seq(S), NEW t \in Seq(S), s # << >>
  PROVE  Tail(s) \o t = Tail(s \o t) /\ s \o t # << >>
<1>1. Tail(s) \in Seq(S) /\ Len(Tail(s)) = Len(s) - 1 /\ Len(s) \in Nat \ {0}
  BY HeadTailProperties, EmptySeq
<1>2. s \o t \in Seq(S) /\ Len(s \o t) = Len(s) + Len(t) /\ Len(t) \in Nat
  BY ConcatProperties, LenProperties
<1>3. s \o t # << >>
  BY <1>1, <1>2, EmptySeq
<1>4. /\ Tail(s \o t) \in Seq(S)
      /\ Len(Tail(s \o t)) = Len(s) + Len(t) - 1
      /\ \A i \in 1 .. Len(Tail(s \o t)) : Tail(s \o t)[i] = (s \o t)[i + 1]
  BY <1>1, <1>2, <1>3, HeadTailProperties
<1>5. /\ Tail(s) \o t \in Seq(S)
      /\ Len(Tail(s) \o t) = Len(s) + Len(t) - 1
  BY <1>1, <1>2, ConcatProperties
<1>6. ASSUME NEW i \in 1 .. Len(s) + Len(t) - 1
      PROVE  (Tail(s) \o t)[i] = Tail(s \o t)[i]
  <2>1. i \in 1 .. Len(Tail(s)) + Len(t) /\ i + 1 \in 1 .. Len(s) + Len(t)
    BY <1>1, <1>2
  <2>2. (Tail(s) \o t)[i] = IF i <= Len(Tail(s)) THEN Tail(s)[i] ELSE t[i - Len(Tail(s))]
    BY <1>1, <2>1, ConcatProperties
  <2>3. (s \o t)[i + 1] = IF i + 1 <= Len(s) THEN s[i + 1] ELSE t[i + 1 - Len(s)]
    BY <2>1, ConcatProperties
  <2>4. \A j \in 1 .. Len(Tail(s)) : Tail(s)[j] = s[j + 1]
    BY HeadTailProperties
  <2>5. Tail(s \o t)[i] = (s \o t)[i + 1]
    BY <1>4
  <2>6. QED BY <1>1, <1>2, <2>2, <2>3, <2>4, <2>5
<1>7. QED
  BY <1>3, <1>4, <1>5, <1>6, SeqEqual

-----------------------------------------------------------------------------
(* The variables have their types at first.                                 *)
LEMMA InitType == Init => TypeOK
<1> SUFFICES ASSUME Init PROVE TypeOK
  OBVIOUS
<1>1. << >> \in Seq(Processes)
  BY EmptySeq
<1>2. pc \in [Threads -> Places]
  BY DEF Init, Places
<1>3. QED
  BY <1>1, <1>2 DEF Init, TypeOK

(* Every step keeps the types.                                              *)
LEMMA TypeStep == TypeOK /\ [Next]_vars => TypeOK'
<1> SUFFICES ASSUME TypeOK, [Next]_vars PROVE TypeOK'
  OBVIOUS
<1> USE DEF TypeOK, Places, queues, stopvars
<1>0. /\ \A k \in Workers : k \in Threads
      /\ << >> \in Seq(Processes)
  BY EmptySeq DEF Threads
<1>1. ASSUME Serve PROVE TypeOK'
  BY <1>0, <1>1 DEF Serve, Start, Emplaced, Served
<1>2. ASSUME NEW t \in Threads, NEW p \in Processes, Resume(t, p) PROVE TypeOK'
  <2>1. idle' \in Nat
    BY <1>2 DEF Resume
  <2>2. running' \in [Workers -> Processes \cup {None}]
    BY <1>2 DEF Resume
  <2>3. QED BY <1>2, <2>1, <2>2 DEF Resume
<1>3. ASSUME NEW t \in Threads, Signal(t) PROVE TypeOK'
  BY <1>3 DEF Signal
<1>4. ASSUME NEW k \in Workers, Loop(k) PROVE TypeOK'
  <2>1. CASE CheckStop(k)
    BY <1>0, <2>1 DEF CheckStop
  <2>2. CASE Pick(k)
    <3> DEFINE q == IF runq # << >> THEN runq ELSE resumeq
    <3>1. q \in Seq(Processes) /\ q # << >>
      BY <2>2 DEF Pick
    <3>2. Head(q) \in Processes /\ Tail(q) \in Seq(Processes)
      BY <3>1, HeadTailProperties
    <3> HIDE DEF q
    <3>3. /\ runq' = Tail(q)
          /\ running' = [running EXCEPT ![k] = Head(q)]
          /\ resumeq' \in {resumeq, << >>}
          /\ pc' = [pc EXCEPT ![k] = "user"]
          /\ UNCHANGED <<idle, signals, size, stopvars>>
      BY <2>2 DEF Pick, q
    <3>4. QED BY <1>0, <3>2, <3>3
  <2>3. CASE Sleep(k)
    BY <1>0, <2>3 DEF Sleep
  <2>4. CASE Wake(k)
    BY <1>0, <2>4 DEF Wake
  <2>5. QED BY <1>4, <2>1, <2>2, <2>3, <2>4 DEF Loop
<1>5. ASSUME NEW k \in Workers, Return(k) PROVE TypeOK'
  BY <1>0, <1>5 DEF Return
<1>6. ASSUME NEW k \in Workers, StopFire(k) PROVE TypeOK'
  BY <1>0, <1>6 DEF StopFire
<1>7. ASSUME NEW k \in Workers, StopOthers(k) PROVE TypeOK'
  BY <1>0, <1>7 DEF StopOthers
<1>8. ASSUME NEW k \in Workers, Stop(k) PROVE TypeOK'
  <2>1. CASE StopSize(k)
    BY <1>0, <2>1 DEF StopSize
  <2>2. ASSUME NEW code \in Codes, StopSet(k, code) PROVE TypeOK'
    BY <1>0, <2>2 DEF StopSet
  <2>3. CASE StopSend(k) /\ tosend > 0
    BY <2>3 DEF StopSend
  <2>4. CASE StopSend(k) /\ ~(tosend > 0)
    BY <1>0, <2>4 DEF StopSend
  <2>5. QED BY <1>8, <2>1, <2>2, <2>3, <2>4 DEF Stop
<1>9. CASE UNCHANGED vars
  BY <1>9 DEF vars
<1>10. QED
  BY <1>1, <1>2, <1>3, <1>4, <1>5, <1>6, <1>7, <1>8, <1>9 DEF Next

(* Every variable of the scheduler keeps its type.                          *)
THEOREM TypeCorrect == SafeSpec => []TypeOK
BY InitType, TypeStep, PTL DEF SafeSpec
-----------------------------------------------------------------------------
(* Counting threads: all the sets of threads here are finite.               *)
LEMMA Counting ==
  ASSUME NEW S \in SUBSET Threads, NEW t
  PROVE  /\ Cardinality(S) \in Nat
         /\ t \notin S => Cardinality(S \cup {t}) = Cardinality(S) + 1
         /\ t \in S => Cardinality(S \ {t}) = Cardinality(S) - 1
<1>1. IsFiniteSet(Threads)
  BY SchedulerAssumption, FS_Union DEF Threads
<1>2. IsFiniteSet(S)
  BY <1>1, FS_Subset
<1>3. QED
  BY <1>2, FS_CardinalityType, FS_AddElement, FS_RemoveElement

(* At most one thread is inside stop(), and how far it is shows in _stop.   *)
InStop(k) == pc[k] \in {"stop", "stopped", "size", "send"}

StopOrder ==
  /\ \A k, l \in Workers : InStop(k) /\ InStop(l) => k = l
  /\ \A k \in Workers : InStop(k) => fired
  /\ \A k \in Workers : pc[k] \in {"stop", "stopped"} => ~stop
  /\ \A k \in Workers : pc[k] \in {"size", "send"} => stop
  /\ stop => fired
  /\ \A t \in Others : pc[t] \in {"user", "signal", "exited"}
  /\ exitcode # None => stop
  /\ tosend > 0 => \E k \in Workers : pc[k] = "send"

(* Every step keeps the order of the steps of stop().                       *)
LEMMA StopOrderStep ==
  TypeOK /\ StopOrder /\ [Next]_vars => StopOrder'
<1> SUFFICES ASSUME TypeOK, StopOrder, [Next]_vars PROVE StopOrder'
  OBVIOUS
<1> USE SchedulerAssumption DEF TypeOK, StopOrder, InStop, Threads, stopvars
<1>1. ASSUME Serve PROVE StopOrder'
  BY <1>1 DEF Serve, Start, Emplaced, Served
<1>2. ASSUME NEW t \in Threads, NEW p \in Processes, Resume(t, p) PROVE StopOrder'
  <2>1. CASE idle # 0
    BY <1>2, <2>1 DEF Resume
  <2>2. CASE idle = 0
    BY <1>2, <2>2 DEF Resume
  <2>3. QED BY <2>1, <2>2
<1>3. ASSUME NEW t \in Threads, Signal(t) PROVE StopOrder'
  BY <1>3 DEF Signal
<1>4. ASSUME NEW k \in Workers, Loop(k) PROVE StopOrder'
  BY <1>4 DEF Loop, CheckStop, Pick, Sleep, Wake
<1>5. ASSUME NEW k \in Workers, Return(k) PROVE StopOrder'
  BY <1>5 DEF Return
<1>6. ASSUME NEW k \in Workers, StopFire(k) PROVE StopOrder'
  BY <1>6 DEF StopFire
<1>7. ASSUME NEW k \in Workers, StopOthers(k) PROVE StopOrder'
  BY <1>7 DEF StopOthers
<1>8. ASSUME NEW k \in Workers, Stop(k) PROVE StopOrder'
  <2>1. CASE StopSize(k)
    BY <2>1 DEF StopSize
  <2>2. ASSUME NEW code \in Codes, StopSet(k, code) PROVE StopOrder'
    BY <2>2 DEF StopSet
  <2>3. CASE StopSend(k) /\ tosend > 0
    BY <2>3 DEF StopSend
  <2>4. CASE StopSend(k) /\ ~(tosend > 0)
    BY <2>4 DEF StopSend
  <2>5. QED BY <1>8, <2>1, <2>2, <2>3, <2>4 DEF Stop
<1>9. CASE UNCHANGED vars
  BY <1>9 DEF vars
<1>10. QED
  BY <1>1, <1>2, <1>3, <1>4, <1>5, <1>6, <1>7, <1>8, <1>9 DEF Next
-----------------------------------------------------------------------------
(* The counting invariants.  serve() is at most one thread ahead of size(). *)
Sleepers == {k \in Workers : pc[k] \in {"pick", "wait"}}

SizeBound == Cardinality(Started) \in {size, size + 1}

Counts == SizeBound /\ SignalBalance /\ WorkConserving /\ StopReachesAll

IInv == TypeOK /\ StopOrder /\ Counts

(* The counts that the invariants compare are numbers.                      *)
LEMMA Numbers ==
  /\ Cardinality(Started) \in Nat
  /\ Cardinality(Waiting) \in Nat
  /\ Cardinality(Seeking) \in Nat
  /\ Cardinality(Signalling) \in Nat
  /\ Cardinality(Sleepers) \in Nat
  /\ TypeOK => Len(runq) \in Nat /\ Len(resumeq) \in Nat
BY Counting, LenProperties
DEF Started, Waiting, Seeking, Signalling, Sleepers, Threads, TypeOK

(* The invariant holds before serve() has created a thread.                 *)
LEMMA InitInv == Init => IInv
<1> SUFFICES ASSUME Init PROVE IInv
  OBVIOUS
<1>1. /\ Started = {} /\ Waiting = {} /\ Signalling = {} /\ Sleepers = {}
  BY SchedulerAssumption
  DEF Init, Started, Waiting, Signalling, Sleepers, Threads
<1>2. Cardinality({}) = 0
  BY FS_EmptySet
<1>3. Counts
  BY <1>1, <1>2
  DEF Init, Counts, SizeBound, SignalBalance, WorkConserving, StopReachesAll
<1>4. StopOrder
  BY SchedulerAssumption DEF Init, StopOrder, InStop, Threads
<1>5. QED BY <1>3, <1>4, InitType DEF IInv

(* A step that moves nobody into or out of the counted places.              *)
Quiet == /\ Started' = Started /\ Waiting' = Waiting /\ Seeking' = Seeking
         /\ Signalling' = Signalling /\ Sleepers' = Sleepers

(* A step that moves no worker, process or signal keeps the counts; the     *)
(* size of the vector may grow by the thread just started.                  *)
LEMMA QuietCounts ==
  ASSUME IInv, Quiet,
         UNCHANGED <<queues, idle, signals, stop, tosend>>,
         size' = size \/ (size' = size + 1 /\ size < Cardinality(Started)),
         \A l \in Workers : pc'[l] = "size" <=> pc[l] = "size"
  PROVE  Counts'
<1> USE DEF IInv, TypeOK, Counts, Quiet, queues
<1>1. SizeBound'
  BY Numbers DEF SizeBound
<1>2. SignalBalance' /\ WorkConserving'
  BY DEF SignalBalance, WorkConserving
<1>3. StopReachesAll'
  <2>1. Cardinality(Sleepers') = Cardinality(Sleepers) /\ Sends' >= Sends
    BY DEF Sends
  <2>2. Sends \in Nat /\ Sends' \in Nat
    BY DEF Sends
  <2>3. QED BY <2>1, <2>2, Numbers DEF StopReachesAll, Sleepers
<1>4. QED BY <1>1, <1>2, <1>3

(* serve() starts a worker, which looks for work.                           *)
LEMMA StartCounts ==
  ASSUME IInv, NEW k \in Workers, Start(k) PROVE Counts'
<1> USE DEF IInv, TypeOK, Threads, queues, stopvars
<1>1. /\ k \notin Started /\ Started' = Started \cup {k}
      /\ Waiting' = Waiting
      /\ k \notin Seeking /\ Seeking' = Seeking \cup {k}
      /\ Signalling' = Signalling
      /\ Sleepers' = Sleepers
  BY SchedulerAssumption
  DEF Start, Started, Waiting, Seeking, Signalling, Sleepers
<1>2. /\ Cardinality(Started') = Cardinality(Started) + 1
      /\ Cardinality(Seeking') = Cardinality(Seeking) + 1
  BY <1>1, Counting DEF Started, Seeking
<1>3. UNCHANGED <<queues, idle, signals, size, stop, tosend>> /\ size = Cardinality(Started)
  BY DEF Start
<1>4. \A l \in Workers : pc'[l] = "size" <=> pc[l] = "size"
  BY DEF Start
<1>5. SizeBound'
  BY <1>2, <1>3, Numbers DEF SizeBound
<1>6. SignalBalance'
  BY <1>1, <1>3 DEF Counts, SignalBalance
<1>7. WorkConserving'
  BY <1>1, <1>2, <1>3, Numbers DEF Counts, WorkConserving
<1>8. StopReachesAll'
  BY <1>1, <1>3, <1>4 DEF Counts, StopReachesAll, Sleepers, Sends
<1>9. QED BY <1>5, <1>6, <1>7, <1>8 DEF Counts

(* serve() goes on: the vector grows, or the threads are joined.            *)
LEMMA ServeCounts ==
  ASSUME IInv, Emplaced \/ Served PROVE Counts'
<1>1. Quiet
  BY DEF Emplaced, Served, Quiet, Started, Waiting, Seeking, Signalling, Sleepers
<1>2. /\ UNCHANGED <<queues, idle, signals, pc, stop, tosend>>
      /\ size' = size \/ (size' = size + 1 /\ size < Cardinality(Started))
  BY DEF Emplaced, Served, queues, stopvars
<1>3. QED
  BY <1>1, <1>2, QuietCounts

(* resume() queues a process, and takes an idle worker for it.              *)
LEMMA ResumeCounts ==
  ASSUME IInv, NEW t \in Threads, NEW p \in Processes, Resume(t, p)
  PROVE  Counts'
<1> USE SchedulerAssumption DEF IInv, TypeOK, Threads, stopvars
<1>1. Len(resumeq') = Len(resumeq) + 1 /\ Len(runq') = Len(runq)
  BY AppendProperties DEF Resume
<1>2. /\ Started' = Started /\ Waiting' = Waiting /\ Seeking' = Seeking
      /\ Sleepers' = Sleepers
      /\ UNCHANGED <<signals, size, stop, tosend>>
      /\ \A l \in Workers : pc'[l] = "size" <=> pc[l] = "size"
  <2>1. CASE idle # 0
    BY <2>1 DEF Resume, Started, Waiting, Seeking, Sleepers
  <2>2. CASE idle = 0
    BY <2>2 DEF Resume, Started, Waiting, Seeking, Sleepers
  <2>3. QED BY <2>1, <2>2
<1>3. SizeBound' /\ StopReachesAll'
  BY <1>2 DEF Counts, SizeBound, StopReachesAll, Sleepers, Sends
<1>4. CASE idle # 0
  <2>1. t \notin Signalling /\ Signalling' = Signalling \cup {t} /\ idle' = idle - 1
    BY <1>4 DEF Resume, Signalling
  <2>2. Cardinality(Signalling') = Cardinality(Signalling) + 1
    BY <2>1, Counting DEF Signalling
  <2>3. SignalBalance'
    BY <1>2, <2>1, <2>2, Numbers DEF Counts, SignalBalance
  <2>4. WorkConserving'
    BY <1>1, <1>2, <1>4, <2>1, <2>2, Numbers DEF Counts, WorkConserving
  <2>5. QED BY <1>3, <2>3, <2>4 DEF Counts
<1>5. CASE idle = 0
  <2>1. Signalling' = Signalling /\ idle' = 0
    BY <1>5 DEF Resume, Signalling
  <2>2. SignalBalance'
    BY <1>2, <1>5, <2>1 DEF Counts, SignalBalance
  <2>3. WorkConserving'
    BY <2>1 DEF WorkConserving
  <2>4. QED BY <1>3, <2>2, <2>3 DEF Counts
<1>6. QED BY <1>4, <1>5

(* resume() sends the signal it owes.                                       *)
LEMMA SignalCounts ==
  ASSUME IInv, NEW t \in Threads, Signal(t) PROVE Counts'
<1> USE SchedulerAssumption DEF IInv, TypeOK, Threads, queues, stopvars
<1>1. /\ Started' = Started /\ Waiting' = Waiting /\ Seeking' = Seeking
      /\ Sleepers' = Sleepers
      /\ UNCHANGED <<queues, idle, size, stop, tosend>>
      /\ signals' = signals + 1
      /\ \A l \in Workers : pc'[l] = "size" <=> pc[l] = "size"
  BY DEF Signal, Started, Waiting, Seeking, Sleepers
<1>2. t \in Signalling /\ Signalling' = Signalling \ {t}
  BY DEF Signal, Signalling
<1>3. Cardinality(Signalling') = Cardinality(Signalling) - 1
  BY <1>2, Counting DEF Signalling
<1>4. SizeBound'
  BY <1>1 DEF Counts, SizeBound
<1>5. SignalBalance'
  BY <1>1, <1>3, Numbers DEF Counts, SignalBalance
<1>6. WorkConserving'
  BY <1>1, <1>3, Numbers DEF Counts, WorkConserving
<1>7. StopReachesAll'
  <2>1. Cardinality(Sleepers') = Cardinality(Sleepers) /\ Sends' = Sends /\ Sends \in Nat
    BY <1>1 DEF Sends
  <2>2. QED BY <1>1, <2>1, Numbers DEF Counts, StopReachesAll, Sleepers
<1>8. QED BY <1>4, <1>5, <1>6, <1>7 DEF Counts

(* A worker looks at the stop flag: it leaves, or looks for work.           *)
LEMMA CheckStopCounts ==
  ASSUME IInv, NEW k \in Workers, CheckStop(k) PROVE Counts'
<1> USE SchedulerAssumption DEF IInv, TypeOK, Threads, queues, stopvars
<1>1. /\ Started' = Started /\ Waiting' = Waiting /\ Signalling' = Signalling
      /\ UNCHANGED <<queues, idle, signals, size, stop, tosend>>
      /\ \A l \in Workers : pc'[l] = "size" <=> pc[l] = "size"
  BY DEF CheckStop, Started, Waiting, Signalling
<1>2. CASE stop
  <2>1. Sleepers' = Sleepers
    BY <1>2 DEF CheckStop, Sleepers
  <2>2. QED
    BY <1>1, <1>2, <2>1
    DEF Counts, SizeBound, SignalBalance, WorkConserving, StopReachesAll, Sleepers, Sends
<1>3. CASE ~stop
  <2>1. Seeking' = Seeking
    BY <1>3 DEF CheckStop, Seeking
  <2>2. QED
    BY <1>1, <1>3, <2>1
    DEF Counts, SizeBound, SignalBalance, WorkConserving, StopReachesAll
<1>4. QED BY <1>2, <1>3

(* A worker takes a process.                                                *)
LEMMA PickCounts ==
  ASSUME IInv, NEW k \in Workers, Pick(k) PROVE Counts'
<1> USE SchedulerAssumption DEF IInv, TypeOK, Threads, queues, stopvars
<1>1. /\ Started' = Started /\ Waiting' = Waiting /\ Signalling' = Signalling
      /\ UNCHANGED <<idle, signals, size, stop, tosend>>
      /\ \A l \in Workers : pc'[l] = "size" <=> pc[l] = "size"
  BY DEF Pick, Started, Waiting, Signalling
<1>2. /\ k \in Seeking /\ Seeking' = Seeking \ {k}
      /\ k \in Sleepers /\ Sleepers' = Sleepers \ {k}
  BY DEF Pick, Seeking, Sleepers
<1>3. /\ Cardinality(Seeking') = Cardinality(Seeking) - 1
      /\ Cardinality(Sleepers') = Cardinality(Sleepers) - 1
  BY <1>2, Counting DEF Seeking, Sleepers
<1>4. Len(runq') + Len(resumeq') = Len(runq) + Len(resumeq) - 1
  <2>1. Len(<< >>) = 0 /\ Len(runq) \in Nat /\ Len(resumeq) \in Nat
    BY EmptySeq, LenProperties
  <2>2. CASE runq # << >>
    <3>1. Len(Tail(runq)) = Len(runq) - 1
      BY <2>2, HeadTailProperties
    <3>2. QED BY <2>1, <2>2, <3>1 DEF Pick
  <2>3. CASE runq = << >>
    <3>1. resumeq # << >> /\ runq' = Tail(resumeq) /\ resumeq' = << >>
      BY <2>3 DEF Pick
    <3>2. Len(Tail(resumeq)) = Len(resumeq) - 1
      BY <3>1, HeadTailProperties
    <3>3. Len(runq) = 0
      BY <2>1, <2>3
    <3>4. QED BY <2>1, <3>1, <3>2, <3>3
  <2>4. QED BY <2>2, <2>3
<1>5. SizeBound' /\ SignalBalance'
  BY <1>1 DEF Counts, SizeBound, SignalBalance
<1>6. WorkConserving'
  BY <1>1, <1>3, <1>4, Numbers DEF Counts, WorkConserving
<1>7. StopReachesAll'
  <2>1. Sends' = Sends /\ Sends \in Nat
    BY <1>1 DEF Sends
  <2>2. QED BY <1>1, <1>3, <2>1, Numbers DEF Counts, StopReachesAll, Sleepers
<1>8. QED BY <1>5, <1>6, <1>7 DEF Counts

(* A worker counts itself idle and sleeps.                                  *)
LEMMA SleepCounts ==
  ASSUME IInv, NEW k \in Workers, Sleep(k) PROVE Counts'
<1> USE SchedulerAssumption DEF IInv, TypeOK, Threads, queues, stopvars
<1>1. /\ Started' = Started /\ Signalling' = Signalling /\ Sleepers' = Sleepers
      /\ UNCHANGED <<queues, signals, size, stop, tosend>>
      /\ idle' = idle + 1
      /\ \A l \in Workers : pc'[l] = "size" <=> pc[l] = "size"
  BY DEF Sleep, Started, Signalling, Sleepers
<1>2. k \notin Waiting /\ Waiting' = Waiting \cup {k}
  BY DEF Sleep, Waiting
<1>3. Cardinality(Waiting') = Cardinality(Waiting) + 1
  BY <1>2, Counting DEF Waiting
<1>4. Cardinality(Seeking') \in Nat
  BY Counting DEF Seeking
<1>5. SizeBound' /\ StopReachesAll'
  BY <1>1 DEF Counts, SizeBound, StopReachesAll, Sleepers, Sends
<1>6. SignalBalance'
  BY <1>1, <1>3, Numbers DEF Counts, SignalBalance
<1>7. WorkConserving'
  <2>1. Len(runq') + Len(resumeq') = 0
    BY EmptySeq DEF Sleep
  <2>2. QED BY <1>1, <1>4, <2>1, Numbers DEF WorkConserving
<1>8. QED BY <1>5, <1>6, <1>7 DEF Counts

(* A signal wakes a worker.                                                 *)
LEMMA WakeCounts ==
  ASSUME IInv, NEW k \in Workers, Wake(k) PROVE Counts'
<1> USE SchedulerAssumption DEF IInv, TypeOK, Threads, queues, stopvars
<1>1. /\ Started' = Started /\ Signalling' = Signalling
      /\ UNCHANGED <<queues, idle, size, stop, tosend>>
      /\ signals' = signals - 1
      /\ \A l \in Workers : pc'[l] = "size" <=> pc[l] = "size"
  BY DEF Wake, Started, Signalling
<1>2. /\ k \in Waiting /\ Waiting' = Waiting \ {k}
      /\ k \in Sleepers /\ Sleepers' = Sleepers \ {k}
      /\ k \notin Seeking /\ Seeking' = Seeking \cup {k}
  BY DEF Wake, Waiting, Sleepers, Seeking
<1>3. /\ Cardinality(Waiting') = Cardinality(Waiting) - 1
      /\ Cardinality(Sleepers') = Cardinality(Sleepers) - 1
      /\ Cardinality(Seeking') = Cardinality(Seeking) + 1
  BY <1>2, Counting DEF Waiting, Sleepers, Seeking
<1>4. SizeBound'
  BY <1>1 DEF Counts, SizeBound
<1>5. SignalBalance'
  BY <1>1, <1>3, Numbers DEF Counts, SignalBalance
<1>6. WorkConserving'
  <2>1. signals \in Nat /\ signals' = signals - 1
    BY <1>1
  <2>2. QED BY <1>1, <1>3, <2>1, Numbers DEF Counts, WorkConserving
<1>7. StopReachesAll'
  <2>1. Sends' = Sends /\ Sends \in Nat
    BY <1>1 DEF Sends
  <2>2. QED BY <1>1, <1>3, <2>1, Numbers DEF Counts, StopReachesAll, Sleepers
<1>8. QED BY <1>4, <1>5, <1>6, <1>7 DEF Counts

(* A worker comes back from the process it ran.                             *)
LEMMA ReturnCounts ==
  ASSUME IInv, NEW k \in Workers, Return(k) PROVE Counts'
<1> USE SchedulerAssumption DEF IInv, TypeOK, Threads, queues, stopvars
<1>1. /\ Started' = Started /\ Waiting' = Waiting /\ Signalling' = Signalling
      /\ Sleepers' = Sleepers
      /\ UNCHANGED <<queues, idle, signals, size, stop, tosend>>
      /\ \A l \in Workers : pc'[l] = "size" <=> pc[l] = "size"
  BY DEF Return, Started, Waiting, Signalling, Sleepers
<1>2. k \notin Seeking /\ Seeking' = Seeking \cup {k}
  BY DEF Return, Seeking
<1>3. Cardinality(Seeking') = Cardinality(Seeking) + 1
  BY <1>2, Counting DEF Seeking
<1>4. SizeBound' /\ SignalBalance'
  BY <1>1 DEF Counts, SizeBound, SignalBalance
<1>5. WorkConserving'
  BY <1>1, <1>3, Numbers DEF Counts, WorkConserving
<1>6. StopReachesAll'
  BY <1>1 DEF Counts, StopReachesAll, Sleepers, Sends
<1>7. QED BY <1>4, <1>5, <1>6 DEF Counts

(* The first steps of stop() leave the counts alone.                        *)
LEMMA StopFireCounts ==
  ASSUME IInv, NEW k \in Workers, StopFire(k) \/ StopOthers(k) PROVE Counts'
<1> USE SchedulerAssumption DEF IInv, TypeOK, StopOrder, Threads, queues, stopvars
<1>1. Quiet
  BY DEF StopFire, StopOthers, Quiet, Started, Waiting, Seeking, Signalling, Sleepers
<1>2. /\ UNCHANGED <<queues, idle, signals, stop, tosend, size>>
      /\ \A l \in Workers : pc'[l] = "size" <=> pc[l] = "size"
  BY DEF StopFire, StopOthers
<1>3. QED
  BY <1>1, <1>2, QuietCounts

(* The thread that stops is started and does not sleep, so size(), late by  *)
(* one thread at most, covers all that do.                                  *)
LEMMA StopSetCounts ==
  ASSUME IInv, NEW k \in Workers, NEW code \in Codes, StopSet(k, code) PROVE Counts'
<1> USE SchedulerAssumption DEF IInv, TypeOK, Threads, queues, stopvars
<1>1. Quiet
  BY DEF StopSet, Quiet, Started, Waiting, Seeking, Signalling, Sleepers
<1>2. UNCHANGED <<queues, idle, signals, tosend, size>> /\ stop'
  BY DEF StopSet
<1>3. SizeBound' /\ SignalBalance' /\ WorkConserving'
  BY <1>1, <1>2 DEF Counts, Quiet, SizeBound, SignalBalance, WorkConserving
<1>4. StopReachesAll'
  <2>1. k \in Started /\ Sleepers \subseteq Started \ {k}
    BY DEF StopSet, Started, Sleepers
  <2>2. /\ Cardinality(Started \ {k}) = Cardinality(Started) - 1
        /\ IsFiniteSet(Started \ {k})
    BY <2>1, Counting, FS_Subset DEF Started
  <2>3. Cardinality(Sleepers) <= Cardinality(Started) - 1
    BY <2>1, <2>2, FS_Subset
  <2>4. Cardinality(Sleepers') <= size
    BY <1>1, <2>3, Numbers DEF Counts, SizeBound, Quiet
  <2>5. Sends' = size
    BY <1>2 DEF StopSet, Sends
  <2>6. signals' \in Nat /\ size \in Nat /\ Cardinality(Sleepers') \in Nat
    BY <1>1, <1>2, Numbers DEF Quiet
  <2>7. Cardinality(Sleepers') <= signals' + Sends'
    BY <2>4, <2>5, <2>6
  <2>8. QED BY <2>7 DEF StopReachesAll, Sleepers
<1>5. QED BY <1>3, <1>4 DEF Counts

(* stop() reads the size of the vector and sends its signals.               *)
LEMMA StopSendCounts ==
  ASSUME IInv, NEW k \in Workers, StopSize(k) \/ StopSend(k) PROVE Counts'
<1> USE SchedulerAssumption DEF IInv, TypeOK, Threads, queues, stopvars
<1>1. stop /\ \A l \in Workers : pc[l] = "size" => l = k
  BY DEF StopSize, StopSend, StopOrder, InStop
<1>2. Quiet /\ UNCHANGED <<queues, size, stop>>
  <2>1. CASE StopSize(k)
    BY <2>1 DEF StopSize, Quiet, Started, Waiting, Seeking, Signalling, Sleepers
  <2>2. CASE StopSend(k) /\ tosend > 0
    BY <2>2 DEF StopSend, Quiet, Started, Waiting, Seeking, Signalling, Sleepers
  <2>3. CASE StopSend(k) /\ ~(tosend > 0)
    BY <2>3 DEF StopSend, Quiet, Started, Waiting, Seeking, Signalling, Sleepers
  <2>4. QED BY <2>1, <2>2, <2>3
<1>3. SizeBound' /\ SignalBalance' /\ WorkConserving'
  BY <1>1, <1>2 DEF Counts, Quiet, SizeBound, SignalBalance, WorkConserving
<1>4. signals' + Sends' = signals + Sends
  <2>1. CASE StopSize(k)
    BY <1>1, <2>1 DEF StopSize, Sends
  <2>2. CASE StopSend(k) /\ tosend > 0
    BY <1>1, <2>2 DEF StopSend, Sends
  <2>3. CASE StopSend(k) /\ ~(tosend > 0)
    BY <1>1, <2>3 DEF StopSend, Sends
  <2>4. QED BY <2>1, <2>2, <2>3
<1>5. StopReachesAll'
  BY <1>1, <1>2, <1>4 DEF Counts, Quiet, StopReachesAll, Sleepers
<1>6. QED BY <1>3, <1>5 DEF Counts

(* Every step keeps the invariant.                                          *)
LEMMA StepInv == IInv /\ [Next]_vars => IInv'
<1> SUFFICES ASSUME IInv, [Next]_vars PROVE IInv'
  OBVIOUS
<1>1. TypeOK' /\ StopOrder'
  BY TypeStep, StopOrderStep DEF IInv
<1>2. Counts'
  <2>1. CASE UNCHANGED vars
    BY <2>1
    DEF vars, queues, stopvars, IInv, Counts, SizeBound, SignalBalance,
        WorkConserving, StopReachesAll, Started, Waiting, Seeking, Signalling, Sends
  <2>2. QED
    BY <2>1, StartCounts, ServeCounts, ResumeCounts, SignalCounts,
       CheckStopCounts, PickCounts, SleepCounts, WakeCounts, ReturnCounts,
       StopFireCounts, StopSetCounts, StopSendCounts
    DEF Next, Serve, Loop, Stop
<1>3. QED BY <1>1, <1>2 DEF IInv

(* The invariant holds always.                                              *)
LEMMA Invariance == SafeSpec => []IInv
BY InitInv, StepInv, PTL DEF SafeSpec

(* A sleeping worker is counted idle or has exactly one signal coming.      *)
THEOREM SignalsMatchSleepers == SafeSpec => []SignalBalance
BY Invariance, PTL DEF IInv, Counts

(* No process is queued behind a sleeping pool: resume() always wakes       *)
(* enough workers.                                                          *)
THEOREM WorkIsConserved == SafeSpec => []WorkConserving
BY Invariance, PTL DEF IInv, Counts

(* stop() sends a signal to every worker that sleeps or is about to, even   *)
(* while serve() is still creating threads.                                 *)
THEOREM StopWakesAll == SafeSpec => []StopReachesAll
BY Invariance, PTL DEF IInv, Counts

(* Only the first caller of stop() sets the exit code.                      *)
THEOREM ExitCodeIsFirst == SafeSpec => FirstCodeWins
<1>1. IInv /\ [Next]_vars => [exitcode # None => exitcode' = exitcode]_vars
  <2> SUFFICES ASSUME IInv, [Next]_vars, exitcode # None PROVE exitcode' = exitcode
    OBVIOUS
  <2>1. stop /\ \A k \in Workers : pc[k] # "stopped"
    BY DEF IInv, StopOrder
  <2>2. QED
    BY <2>1
    DEF Next, Serve, Start, Emplaced, Served, Signal, Resume, Loop, CheckStop, Pick,
        Sleep, Wake, Return, StopFire, StopOthers, Stop, StopSize, StopSend, StopSet,
        vars, stopvars
<1>2. QED BY <1>1, Invariance, PTL DEF SafeSpec, FirstCodeWins

-----------------------------------------------------------------------------
(* _runq and _resumeq as one queue: a step is a Put (resume), a Get (a      *)
(* worker picks), the Close (the last worker leaves) or a stutter.          *)
LEMMA QueueStep == IInv /\ [Next]_vars => [Queue!Next]_(Queue!vars)
<1> SUFFICES ASSUME IInv, [Next]_vars PROVE [Queue!Next]_(Queue!vars)
  OBVIOUS
<1> DEFINE left == \A k \in Workers : pc[k] = "exited"
<1> USE SchedulerAssumption DEF IInv, TypeOK, Threads, queues, stopvars,
        Queue!Next, Queue!vars, Queue!Put, Queue!Get, Queue!Close
<1>0. runq \in Seq(Processes) /\ resumeq \in Seq(Processes)
  OBVIOUS
<1>1. ASSUME NEW t \in Threads, NEW p \in Processes, Resume(t, p) PROVE Queue!Put(p)
  <2>1. left' = left
    BY <1>1 DEF Resume
  <2>2. runq' \o resumeq' = Append(runq \o resumeq, p)
    BY <1>0, <1>1, AppendConcat DEF Resume
  <2>3. QED BY <2>1, <2>2
<1>2. ASSUME NEW k \in Workers, Pick(k) PROVE Queue!Get
  <2>1. ~left /\ ~left'
    BY <1>2 DEF Pick
  <2>2. CASE runq # << >>
    BY <1>0, <1>2, <2>1, <2>2, TailConcat DEF Pick
  <2>3. CASE runq = << >>
    <3>1. runq \o resumeq = resumeq /\ Tail(resumeq) \o << >> = Tail(resumeq)
      BY <1>0, <1>2, <2>3, ConcatEmptySeq, HeadTailProperties DEF Pick
    <3>2. QED BY <1>2, <2>1, <2>3, <3>1 DEF Pick
  <2>4. QED BY <2>2, <2>3
<1>3. ASSUME NEW k \in Workers, CheckStop(k) PROVE Queue!Close \/ UNCHANGED Queue!vars
  <2>1. UNCHANGED <<runq, resumeq>> /\ ~left
    BY <1>3 DEF CheckStop
  <2>2. QED BY <2>1
<1>4. ASSUME NEW k \in Workers,
             \/ Start(k) \/ Sleep(k) \/ Wake(k) \/ Return(k)
             \/ StopFire(k) \/ StopOthers(k) \/ Stop(k)
      PROVE  UNCHANGED Queue!vars
  <2>1. UNCHANGED <<runq, resumeq>> /\ ~left
    BY <1>4 DEF Start, Sleep, Wake, Return, StopFire, StopOthers, Stop,
                StopSize, StopSend, StopSet
  <2>2. ~left'
    <3>1. CASE StopSend(k)
      BY <3>1 DEF StopSend
    <3>2. CASE ~StopSend(k)
      BY <1>4, <3>2 DEF Start, Sleep, Wake, Return, StopFire, StopOthers, Stop,
                        StopSize, StopSet
    <3>3. QED BY <3>1, <3>2
  <2>3. QED BY <2>1, <2>2
<1>5. ASSUME NEW t \in Threads, Signal(t) PROVE UNCHANGED Queue!vars
  <2>1. UNCHANGED <<runq, resumeq>> /\ left' = left
    BY <1>5 DEF Signal
  <2>2. QED BY <2>1
<1>6. CASE Emplaced \/ Served \/ UNCHANGED vars
  BY <1>6 DEF Emplaced, Served, vars
<1>7. QED
  BY <1>1, <1>2, <1>3, <1>4, <1>5, <1>6 DEF Next, Serve, Loop

(* Processes are run in the order in which they were resumed; none is lost  *)
(* and none is taken twice for one resume.                                  *)
THEOREM SchedulerIsQueue == SafeSpec => QueueSafe
<1>1. Init => Queue!Init
  <2>1. << >> \o << >> = << >>
    BY ConcatEmptySeq, EmptySeq
  <2>2. QED BY <2>1, SchedulerAssumption DEF Init, Queue!Init, Threads
<1>2. QED
  BY <1>1, QueueStep, Invariance, PTL DEF SafeSpec, QueueSafe, Queue!SafeSpec
=============================================================================
