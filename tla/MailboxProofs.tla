--------------------------- MODULE MailboxProofs ---------------------------
(***************************************************************************)
(* Proofs about Mailbox for any number of writers and workers, any         *)
(* messages and any bound on the mailbox.                                  *)
(***************************************************************************)
EXTENDS Mailbox, SequenceTheorems, TLAPS

(* Appending to the second of two concatenated lists appends to the whole.  *)
LEMMA AppendConcat ==
  ASSUME NEW S, NEW s \in Seq(S), NEW t \in Seq(S), NEW e \in S
  PROVE  s \o Append(t, e) = Append(s \o t, e)
<1>1. Append(t, e) = t \o <<e>> /\ <<e>> \in Seq(S)
  BY AppendIsConcat
<1>2. s \o t \in Seq(S)
  BY ConcatProperties
<1>3. Append(s \o t, e) = (s \o t) \o <<e>>
  BY <1>2, AppendIsConcat
<1>4. QED
  BY <1>1, <1>3, ConcatAssociative

(* Taking from the first of two concatenated lists takes from the whole.    *)
LEMMA TailConcat ==
  ASSUME NEW S, NEW s \in Seq(S), NEW t \in Seq(S), s # << >>
  PROVE  Tail(s) \o t = Tail(s \o t) /\ s \o t # << >>
<1>1. Tail(s) \in Seq(S) /\ Len(Tail(s)) = Len(s) - 1 /\ Len(s) \in Nat \ {0}
  BY HeadTailProperties, EmptySeq
<1>2. s \o t \in Seq(S) /\ Len(s \o t) = Len(s) + Len(t) /\ Len(t) \in Nat
  BY ConcatProperties, LenProperties
<1>3. s \o t # << >>
  BY <1>1, <1>2, EmptySeq
<1>4. /\ Tail(s \o t) \in Seq(S)
      /\ Len(Tail(s \o t)) = Len(s) + Len(t) - 1
      /\ \A i \in 1 .. Len(Tail(s \o t)) : Tail(s \o t)[i] = (s \o t)[i + 1]
  BY <1>1, <1>2, <1>3, HeadTailProperties
<1>5. /\ Tail(s) \o t \in Seq(S)
      /\ Len(Tail(s) \o t) = Len(s) + Len(t) - 1
  BY <1>1, <1>2, ConcatProperties
<1>6. ASSUME NEW i \in 1 .. Len(s) + Len(t) - 1
      PROVE  (Tail(s) \o t)[i] = Tail(s \o t)[i]
  <2>1. i \in 1 .. Len(Tail(s)) + Len(t) /\ i + 1 \in 1 .. Len(s) + Len(t)
    BY <1>1, <1>2
  <2>2. (Tail(s) \o t)[i] = IF i <= Len(Tail(s)) THEN Tail(s)[i] ELSE t[i - Len(Tail(s))]
    BY <1>1, <2>1, ConcatProperties
  <2>3. (s \o t)[i + 1] = IF i + 1 <= Len(s) THEN s[i + 1] ELSE t[i + 1 - Len(s)]
    BY <2>1, ConcatProperties
  <2>4. \A j \in 1 .. Len(Tail(s)) : Tail(s)[j] = s[j + 1]
    BY HeadTailProperties
  <2>5. Tail(s \o t)[i] = (s \o t)[i + 1]
    BY <1>4
  <2>6. QED BY <1>1, <1>2, <2>2, <2>3, <2>4, <2>5
<1>7. QED
  BY <1>3, <1>4, <1>5, <1>6, SeqEqual

-----------------------------------------------------------------------------
(* The three invariants are inductive together: OneToken fixes where the    *)
(* token can be, hence nobody takes while the process is parked.            *)
IInv == TypeOK /\ OneToken /\ NoLostWakeup

(* A process just spawned is queued, with an empty mailbox.                 *)
LEMMA InitInv == Init => IInv
<1> SUFFICES ASSUME Init PROVE IInv
  OBVIOUS
<1>1. TypeOK
  <2>1. << >> \in Seq(Messages)
    BY EmptySeq
  <2>2. QED BY <2>1, MailboxAssumption DEF Init, TypeOK
<1>2. OneToken
  BY DEF Init, OneToken, AtMostOnePlace, NoPlaceIffDown, Resuming, Running
<1>3. NoLostWakeup
  BY DEF Init, NoLostWakeup
<1>4. QED BY <1>1, <1>2, <1>3 DEF IInv

(* Every step keeps the types.                                              *)
LEMMA TypeStep == TypeOK /\ [Next]_vars => TypeOK'
<1> SUFFICES ASSUME TypeOK, [Next]_vars PROVE TypeOK'
  OBVIOUS
<1> USE MailboxAssumption DEF TypeOK
<1>1. ASSUME NEW w \in Writers, NEW m \in Messages, Push(w, m) PROVE TypeOK'
  BY <1>1 DEF Push
<1>2. ASSUME NEW w \in Writers, Notify(w) PROVE TypeOK'
  BY <1>2 DEF Notify
<1>3. ASSUME NEW w \in Writers, Resume(w) PROVE TypeOK'
  BY <1>3 DEF Resume
<1>4. ASSUME NEW k \in Workers, Pop(k) PROVE TypeOK'
  BY <1>4 DEF Pop
<1>5. ASSUME NEW k \in Workers, DispatchDown(k) PROVE TypeOK'
  BY <1>5 DEF DispatchDown
<1>6. ASSUME NEW k \in Workers, TakeRead(k) PROVE TypeOK'
  BY <1>6 DEF TakeRead
<1>7. ASSUME NEW k \in Workers, TakeWrite(k) PROVE TypeOK'
  BY <1>7 DEF TakeWrite
<1>8. ASSUME NEW k \in Workers, Park(k) PROVE TypeOK'
  BY <1>8 DEF Park
<1>9. ASSUME NEW k \in Workers, Requeue(k) PROVE TypeOK'
  BY <1>9 DEF Requeue
<1>10. ASSUME NEW k \in Workers, Kill(k) PROVE TypeOK'
  BY <1>10 DEF Kill
<1>11. CASE UNCHANGED vars
  BY <1>11 DEF vars
<1>12. QED
  BY <1>1, <1>2, <1>3, <1>4, <1>5, <1>6, <1>7, <1>8, <1>9, <1>10, <1>11
  DEF Next, Writer, Worker

(* The token moves, it is never copied: each step that takes it from one    *)
(* place puts it in one other, unless the process goes down.                *)
LEMMA TokenStep ==
  IInv /\ [Next]_vars => OneToken'
<1> SUFFICES ASSUME IInv, [Next]_vars PROVE OneToken'
  OBVIOUS
<1> USE DEF IInv, TypeOK, OneToken, AtMostOnePlace, NoPlaceIffDown, Resuming, Running
<1>1. ASSUME NEW w \in Writers, NEW m \in Messages, Push(w, m)
      PROVE  OneToken'
  BY <1>1 DEF Push
<1>2. ASSUME NEW w \in Writers, Notify(w) PROVE OneToken'
  BY <1>2 DEF Notify
<1>3. ASSUME NEW w \in Writers, Resume(w) PROVE OneToken'
  BY <1>3 DEF Resume
<1>4. ASSUME NEW k \in Workers, Pop(k) PROVE OneToken'
  BY <1>4 DEF Pop
<1>5. ASSUME NEW k \in Workers, DispatchDown(k) PROVE OneToken'
  BY <1>5 DEF DispatchDown
<1>6. ASSUME NEW k \in Workers, TakeRead(k) PROVE OneToken'
  BY <1>6 DEF TakeRead
<1>7. ASSUME NEW k \in Workers, TakeWrite(k) PROVE OneToken'
  BY <1>7 DEF TakeWrite
<1>8. ASSUME NEW k \in Workers, Park(k) PROVE OneToken'
  BY <1>8 DEF Park
<1>9. ASSUME NEW k \in Workers, Requeue(k) PROVE OneToken'
  BY <1>9 DEF Requeue
<1>10. ASSUME NEW k \in Workers, Kill(k) PROVE OneToken'
  BY <1>10 DEF Kill
<1>11. CASE UNCHANGED vars
  BY <1>11 DEF vars
<1>12. QED
  BY <1>1, <1>2, <1>3, <1>4, <1>5, <1>6, <1>7, <1>8, <1>9, <1>10, <1>11
  DEF Next, Writer, Worker

(* A message arriving in a parked process's mailbox comes with its writer's *)
(* pending compare-exchange, and that one ends the parking.                 *)
LEMMA WakeupStep ==
  IInv /\ [Next]_vars => NoLostWakeup'
<1> SUFFICES ASSUME IInv, [Next]_vars PROVE NoLostWakeup'
  OBVIOUS
<1> USE DEF IInv, TypeOK, NoLostWakeup
<1>1. ASSUME NEW w \in Writers, NEW m \in Messages, Push(w, m)
      PROVE  NoLostWakeup'
  BY <1>1 DEF Push
<1>2. ASSUME NEW w \in Writers, Notify(w) PROVE NoLostWakeup'
  BY <1>2 DEF Notify
<1>3. ASSUME NEW w \in Writers, Resume(w) PROVE NoLostWakeup'
  BY <1>3 DEF Resume
<1>4. ASSUME NEW k \in Workers, Worker(k), ~Park(k)
      PROVE  NoLostWakeup'
  <2>1. wait' = wait /\ wpc' = wpc
    BY <1>4 DEF Worker, Pop, DispatchDown, TakeRead, TakeWrite, Requeue, Kill
  <2>2. wait => Running(k) = FALSE
    BY DEF OneToken, AtMostOnePlace, Running
  <2>3. CASE wait
    <3>1. UNCHANGED <<read, write>>
      BY <1>4, <2>2, <2>3
      DEF Worker, Pop, DispatchDown, TakeRead, TakeWrite, Requeue, Kill, Running
    <3>2. QED BY <2>1, <3>1
  <2>4. QED BY <2>1, <2>3
<1>5. ASSUME NEW k \in Workers, Park(k) PROVE NoLostWakeup'
  BY <1>5 DEF Park
<1>6. CASE UNCHANGED vars
  BY <1>6 DEF vars
<1>7. QED
  BY <1>1, <1>2, <1>3, <1>4, <1>5, <1>6 DEF Next, Writer

(* The invariant holds always.                                              *)
LEMMA Invariance == SafeSpec => []IInv
<1>1. IInv /\ [Next]_vars => IInv'
  BY TypeStep, TokenStep, WakeupStep DEF IInv
<1>2. QED
  BY InitInv, <1>1, PTL DEF SafeSpec

(* Every variable of the mailbox keeps its type.                            *)
THEOREM TypeCorrect == SafeSpec => []TypeOK
BY Invariance, PTL DEF IInv

(* At most one worker runs a process and at most one link to it is queued:  *)
(* the intrusive queue and Mailbox::_read need no lock of their own.  And a *)
(* process that is not down can always be reached by a resume.              *)
THEOREM ProcessRunsOnce == SafeSpec => []OneToken
BY Invariance, PTL DEF IInv

(* No message is left in a parked process's mailbox with nobody to wake it. *)
THEOREM WakeupNeverLost == SafeSpec => []NoLostWakeup
BY Invariance, PTL DEF IInv

-----------------------------------------------------------------------------
(* The mailbox as a queue: what has been swapped in, then what has not.     *)

(* Every step of the mailbox is a Put, a Get, a Close or a stutter of the   *)
(* queue it stands for.                                                     *)
LEMMA QueueStep == IInv /\ [Next]_vars => [Queue!Next]_(Queue!vars)
<1> SUFFICES ASSUME IInv, [Next]_vars PROVE [Queue!Next]_(Queue!vars)
  OBVIOUS
<1> USE DEF Queue!Next, Queue!vars, Queue!Put, Queue!Get, Queue!Close
<1>0. read \in Seq(Messages) /\ write \in Seq(Messages)
  BY DEF IInv, TypeOK
<1>1. ASSUME NEW w \in Writers, NEW m \in Messages, Push(w, m)
      PROVE  Queue!Put(m)
  BY <1>0, <1>1, AppendConcat DEF Push
<1>2. ASSUME NEW k \in Workers, TakeRead(k) PROVE Queue!Get
  <2>1. ~down
    BY <1>2 DEF TakeRead, IInv, OneToken, NoPlaceIffDown, Running
  <2>2. QED BY <1>0, <1>2, <2>1, TailConcat DEF TakeRead
<1>3. ASSUME NEW k \in Workers, TakeWrite(k) PROVE Queue!Get
  <2>1. ~down
    BY <1>3 DEF TakeWrite, IInv, OneToken, NoPlaceIffDown, Running
  <2>2. read \o write = write /\ Tail(write) \o << >> = Tail(write)
    BY <1>0, <1>3, ConcatEmptySeq, HeadTailProperties DEF TakeWrite
  <2>3. QED BY <1>3, <2>1, <2>2 DEF TakeWrite
<1>4. ASSUME NEW k \in Workers, DispatchDown(k) \/ Kill(k) PROVE Queue!Close
  <2>1. ~down
    BY <1>4 DEF DispatchDown, Kill, IInv, OneToken, NoPlaceIffDown, Running
  <2>2. QED BY <1>4, <2>1 DEF DispatchDown, Kill
<1>5. ASSUME NEW w \in Writers, Notify(w) \/ Resume(w)
      PROVE  UNCHANGED <<read, write, down>>
  BY <1>5 DEF Notify, Resume
<1>6. ASSUME NEW k \in Workers, Pop(k) \/ Park(k) \/ Requeue(k)
      PROVE  UNCHANGED <<read, write, down>>
  BY <1>6 DEF Pop, Park, Requeue
<1>7. CASE UNCHANGED vars
  BY <1>7 DEF vars
<1>8. QED
  BY <1>1, <1>2, <1>3, <1>4, <1>5, <1>6, <1>7 DEF Next, Writer, Worker

(* The mailbox is a FIFO queue: pushing appends, taking removes the oldest  *)
(* message, nothing else changes it, and after kDown nothing is taken.      *)
THEOREM MailboxIsQueue == SafeSpec => QueueSafe
<1>1. Init => Queue!Init
  <2>1. << >> \o << >> = << >>
    BY ConcatEmptySeq, EmptySeq
  <2>2. QED BY <2>1 DEF Init, Queue!Init
<1>2. QED
  BY <1>1, QueueStep, Invariance, PTL DEF SafeSpec, QueueSafe, Queue!SafeSpec
=============================================================================
