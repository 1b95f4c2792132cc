------------------------------ MODULE IoProofs ------------------------------
(***************************************************************************)
(* Input and output, for constants of any size.                            *)
(*                                                                         *)
(* Polling: for any number of processes, descriptors and events, with      *)
(* epoll and with kqueue, epoll_ctl() succeeds, no event is lost although  *)
(* the filters are shared without a lock, and as long as nobody is killed  *)
(* in wait() each response is for the wait whose event was reported.       *)
(*                                                                         *)
(* Reads and writes: for any numbers of clients and addresses, and sizes   *)
(* of message and streams that Echo allows, the loops of read_full(),      *)
(* read() and write() move each byte once and in order, connect() gives a  *)
(* connection or an error, and the example's client gets back what it      *)
(* sent.                                                                   *)
(***************************************************************************)
EXTENDS FdPoll, Echo, SequenceTheorems, TLAPS


Waits   == {"added", "blocked"}
Entered == Waits \cup {"resumed", "interrupted"}   \* between ADD and DEL
Busy    == Fields \cup {"add"} \cup Entered

(* Whoever is in wait() has the descriptor open; it is not shared.          *)
Owned == \A p \in Processes :
           pc[p] \in Busy => slot[p] \in Slots /\ owner[slot[p][1]] = p /\ session[p] >= 1

(* What wait() has written of its filter is there.                          *)
Mine(p) == [source |-> p, session |-> session[p]]

Written == \A p \in Processes :
             /\ pc[p] = "source" => filter[slot[p]].source = p
             /\ pc[p] = "session" => filter[slot[p]].session = session[p]
             /\ pc[p] \in {"add"} \cup Entered => filter[slot[p]] = Mine(p)

(* A registration with epoll is of somebody between ADD and DEL, and that   *)
(* somebody has one.                                                        *)
Registered == \A s \in Slots : backend = "epoll" /\ reg[s] # "none" =>
                \E p \in Processes : pc[p] \in Entered /\ slot[p] = s

Holds == \A p \in Processes : /\ pc[p] \in Fields \cup {"add"} => backend = "epoll"
                              /\ pc[p] \in Entered => reg[slot[p]] # "none"

(* What the polling thread reads has been filled once, and stays so.        *)
Whole(s) == filter[s] \in [source : Processes, session : 1 .. MaxSession]

ReadWhole == /\ \A s \in Slots : reg[s] # "none" => Whole(s)
             /\ \A s \in batch : Whole(s)
             /\ \A c \in current : /\ Whole(c.slot)
                                   /\ c.field = "source" => c.value \in Processes
                                   /\ c.field = "session" => c.value \in 1 .. MaxSession

IInv == /\ TypeOK /\ backend \in {"epoll", "kqueue"}
        /\ Owned /\ Written /\ Registered /\ Holds /\ ReadWhole /\ EventKept

-----------------------------------------------------------------------------
(* While nobody was killed in wait(), every event that was reported and not *)
(* yet delivered is in one place and belongs to somebody who waits.         *)
NoKill == \A p \in Processes : pc[p] \notin {"interrupted", "dead"}

For(p, s) == pc[p] \in Waits /\ slot[p] = s

AnswerOf(r) == pc[r.source] \in Waits /\ session[r.source] = r.session
                                      /\ reg[slot[r.source]] = "fired"

ArmedFor    == \A s \in Slots : reg[s] = "armed" => \E p \in Processes : For(p, s)
BatchFor    == \A s \in batch : reg[s] = "fired" /\ \E p \in Processes : For(p, s)
CurrentFor  == \A c \in current : /\ reg[c.slot] = "fired" /\ c.slot \notin batch
                                  /\ \E p \in Processes : For(p, c.slot)
                                  /\ c.value = IF c.field = "source" THEN filter[c.slot].source
                                                                     ELSE filter[c.slot].session
AnswersFor  == \A r \in responses \cup events :
                 /\ AnswerOf(r)
                 /\ slot[r.source] \notin batch
                 /\ \A c \in current : c.slot # slot[r.source]
Once        == responses \cap events = {}

Fresh == NoKill => ArmedFor /\ BatchFor /\ CurrentFor /\ AnswersFor /\ Once

-----------------------------------------------------------------------------
(* The response to c, half of which was read earlier, is the filter of the  *)
(* one who waits.                                                           *)
Answer(c) == IF c.field = "source" THEN [filter[c.slot] EXCEPT !.source = c.value]
                                   ELSE [filter[c.slot] EXCEPT !.session = c.value]

LEMMA Assembled ==
  ASSUME NEW p \in Processes, NEW c, Written, For(p, c.slot),
         c.value = IF c.field = "source" THEN p ELSE session[p]
  PROVE  Answer(c) = Mine(p)
<1>1. filter[c.slot] = Mine(p)
  BY DEF Written, For, Waits, Entered
<1>2. QED
  BY <1>1 DEF Answer, Mine

(* Two in wait() wait for different things.                                 *)
LEMMA Apart ==
  ASSUME Owned, NEW p \in Processes, NEW q \in Processes,
         pc[p] \in Busy, pc[q] \in Busy, slot[p] = slot[q]
  PROVE  p = q
BY DEF Owned

-----------------------------------------------------------------------------
(* The invariant holds at the start, and each step keeps it.                *)
LEMMA InitIInv == Init => IInv
BY FdPollAssumption DEF Init, IInv, TypeOK, Owned, Written, Registered, Holds, ReadWhole,
   EventKept, Waits, Entered, Busy, Slots, Fields

LEMMA NextIInv == IInv /\ [Next]_vars => IInv'
<1>. SUFFICES ASSUME IInv, [Next]_vars PROVE IInv'
  OBVIOUS
<1>. USE FdPollAssumption DEF kernel, waits, thread, Slots, Fields, Waits, Entered, Busy, Mine
<1>0. TypeOK /\ backend \in {"epoll", "kqueue"} /\ Owned /\ Written /\ Registered /\ Holds
      /\ ReadWhole /\ EventKept /\ backend' = backend
  BY DEF IInv, Next, vars
<1>1. ASSUME NEW p \in Processes, NEW s \in Slots, NEW f \in Fields, Fill(p, s, f) PROVE IInv'
  <2>1. TypeOK'
    BY <1>0, <1>1 DEF Fill, Filled, TypeOK, ReadWhole, Whole, Holds, Owned, Written
  <2>2. Owned'
    BY <1>0, <1>1 DEF Fill, Filled, TypeOK, Owned, Holds
  <2>3. Written'
    BY <1>0, <1>1 DEF Fill, Filled, TypeOK, Owned, Written, Holds
  <2>4. Registered'
    BY <1>0, <1>1 DEF Fill, Filled, TypeOK, Owned, Registered, Holds
  <2>5. Holds'
    BY <1>0, <1>1 DEF Fill, Filled, TypeOK, Owned, Holds
  <2>6. ReadWhole'
    BY <1>0, <1>1 DEF Fill, Filled, TypeOK, ReadWhole, Whole, Written, Owned, Holds
  <2>7. EventKept'
    BY <1>0, <1>1 DEF Fill, Filled, TypeOK, EventKept, OnItsWay, Owned, Written, Holds
  <2>8. QED
    BY <1>0, <2>1, <2>2, <2>3, <2>4, <2>5, <2>6, <2>7 DEF IInv
<1>2. ASSUME NEW p \in Processes, FillRest(p) PROVE IInv'
  <2>1. TypeOK'
    BY <1>0, <1>2 DEF FillRest, Filled, TypeOK, ReadWhole, Whole, Holds, Owned, Written
  <2>2. Owned'
    BY <1>0, <1>2 DEF FillRest, Filled, TypeOK, Owned, Holds
  <2>3. Written'
    BY <1>0, <1>2 DEF FillRest, Filled, TypeOK, Owned, Written, Holds
  <2>4. Registered'
    BY <1>0, <1>2 DEF FillRest, Filled, TypeOK, Owned, Registered, Holds
  <2>5. Holds'
    BY <1>0, <1>2 DEF FillRest, Filled, TypeOK, Owned, Holds
  <2>6. ReadWhole'
    BY <1>0, <1>2 DEF FillRest, Filled, TypeOK, ReadWhole, Whole, Written, Owned, Holds
  <2>7. EventKept'
    BY <1>0, <1>2 DEF FillRest, Filled, TypeOK, EventKept, OnItsWay, Owned, Written, Holds
  <2>8. QED
    BY <1>0, <2>1, <2>2, <2>3, <2>4, <2>5, <2>6, <2>7 DEF IInv
<1>3. ASSUME NEW p \in Processes, Add(p) PROVE IInv'
  <2>1. TypeOK'
    BY <1>0, <1>3 DEF Add, TypeOK, ReadWhole, Whole, Holds, Owned, Written
  <2>2. Owned'
    BY <1>0, <1>3 DEF Add, TypeOK, Owned, Holds
  <2>3. Written'
    BY <1>0, <1>3 DEF Add, TypeOK, Owned, Written, Holds
  <2>4. Registered'
    BY <1>0, <1>3 DEF Add, TypeOK, Owned, Registered, Holds
  <2>5. Holds'
    BY <1>0, <1>3 DEF Add, TypeOK, Owned, Holds
  <2>6. ReadWhole'
    <3>1. filter[slot[p]] = Mine(p) /\ session[p] \in 1 .. MaxSession
      BY <1>0, <1>3 DEF Add, Written, Owned, TypeOK
    <3>2. Whole(slot[p])
      BY <3>1 DEF Whole
    <3>3. QED
      BY <1>0, <1>3, <3>2 DEF Add, ReadWhole, Whole, TypeOK, Owned
  <2>7. EventKept'
    BY <1>0, <1>3 DEF Add, TypeOK, EventKept, OnItsWay, Owned, Written, Holds
  <2>8. QED
    BY <1>0, <2>1, <2>2, <2>3, <2>4, <2>5, <2>6, <2>7 DEF IInv
<1>4. ASSUME NEW p \in Processes, NEW s \in Slots, AddEvent(p, s) PROVE IInv'
  BY <1>0, <1>4 DEF IInv, AddEvent, TypeOK, Owned, Written, Registered, Holds, ReadWhole,
     Whole, EventKept, OnItsWay
<1>5. ASSUME NEW p \in Processes, Block(p) PROVE IInv'
  BY <1>0, <1>5 DEF IInv, Block, TypeOK, Owned, Written, Registered, Holds, ReadWhole,
     Whole, EventKept, OnItsWay
<1>6. ASSUME NEW r \in responses, Deliver(r) PROVE IInv'
  BY <1>0, <1>6 DEF IInv, Deliver, TypeOK, Owned, Written, Registered, Holds, ReadWhole,
     Whole, EventKept, OnItsWay
<1>7. ASSUME NEW p \in Processes, Interrupt(p) PROVE IInv'
  BY <1>0, <1>7 DEF IInv, Interrupt, TypeOK, Owned, Written, Registered, Holds, ReadWhole,
     Whole, EventKept, OnItsWay
<1>8. ASSUME NEW p \in Processes, Del(p) PROVE IInv'
  BY <1>0, <1>8 DEF IInv, Del, Returned, TypeOK, Owned, Written, Registered, Holds, ReadWhole,
     Whole, EventKept, OnItsWay
<1>9. ASSUME Poll PROVE IInv'
  BY <1>0, <1>9 DEF IInv, Poll, TypeOK, Owned, Written, Registered, Holds, ReadWhole,
     Whole, EventKept, OnItsWay
<1>10. ASSUME NEW e \in Events, PollEvents(e) PROVE IInv'
  <2>1. TypeOK'
    BY <1>0, <1>10 DEF PollEvents, Reportable, TypeOK, ReadWhole, Whole, Holds, Owned, Written
  <2>2. Owned'
    BY <1>0, <1>10 DEF PollEvents, Reportable, TypeOK, Owned, Holds
  <2>3. Written'
    BY <1>0, <1>10 DEF PollEvents, Reportable, TypeOK, Owned, Written, Holds
  <2>4. Registered'
    BY <1>0, <1>10 DEF PollEvents, Reportable, TypeOK, Owned, Registered, Holds
  <2>5. Holds'
    BY <1>0, <1>10 DEF PollEvents, Reportable, TypeOK, Owned, Holds
  <2>6. ReadWhole'
    BY <1>0, <1>10 DEF PollEvents, Reportable, TypeOK, ReadWhole, Whole, Written, Owned, Holds
  <2>7. EventKept'
    BY <1>0, <1>10 DEF PollEvents, Reportable, TypeOK, EventKept, OnItsWay, Owned, Written, Holds
  <2>8. QED
    BY <1>0, <2>1, <2>2, <2>3, <2>4, <2>5, <2>6, <2>7 DEF IInv
<1>11. ASSUME NEW s \in Slots, NEW f \in Fields, Read(s, f) PROVE IInv'
  BY <1>0, <1>11 DEF IInv, Read, TypeOK, Owned, Written, Registered, Holds, ReadWhole,
     Whole, EventKept, OnItsWay
<1>12. ASSUME Respond PROVE IInv'
  <2>1. TypeOK'
    BY <1>0, <1>12 DEF Respond, TypeOK, ReadWhole, Whole, Holds, Owned, Written
  <2>2. Owned'
    BY <1>0, <1>12 DEF Respond, TypeOK, Owned, Holds
  <2>3. Written'
    BY <1>0, <1>12 DEF Respond, TypeOK, Owned, Written, Holds
  <2>4. Registered'
    BY <1>0, <1>12 DEF Respond, TypeOK, Owned, Registered, Holds
  <2>5. Holds'
    BY <1>0, <1>12 DEF Respond, TypeOK, Owned, Holds
  <2>6. ReadWhole'
    BY <1>0, <1>12 DEF Respond, TypeOK, ReadWhole, Whole, Written, Owned, Holds
  <2>7. EventKept'
    <3>. SUFFICES ASSUME NEW p \in Processes, pc[p] \in Waits PROVE OnItsWay(p) => OnItsWay(p)'
      BY <1>0, <1>12 DEF Respond, EventKept
    <3>1. ASSUME NEW c \in current, c.slot = slot[p],
                 c.value = IF c.field = "source" THEN p ELSE session[p]
          PROVE  Answer(c) = Mine(p)
      BY <1>0, <3>1, Assembled DEF For
    <3>2. QED
      BY <1>12, <3>1 DEF Respond, OnItsWay, Answer
  <2>8. QED
    BY <1>0, <2>1, <2>2, <2>3, <2>4, <2>5, <2>6, <2>7 DEF IInv
<1>13. ASSUME Kevent PROVE IInv'
  <2>1. TypeOK'
    BY <1>0, <1>13 DEF Kevent, TypeOK, ReadWhole, Whole, Holds, Owned, Written
  <2>2. Owned'
    BY <1>0, <1>13 DEF Kevent, TypeOK, Owned, Holds
  <2>3. Written'
    BY <1>0, <1>13 DEF Kevent, TypeOK, Owned, Written, Holds
  <2>4. Registered'
    BY <1>0, <1>13 DEF Kevent, TypeOK, Owned, Registered, Holds
  <2>5. Holds'
    BY <1>0, <1>13 DEF Kevent, TypeOK, Owned, Holds
  <2>6. ReadWhole'
    BY <1>0, <1>13 DEF Kevent, TypeOK, ReadWhole, Whole, Written, Owned, Holds
  <2>7. EventKept'
    BY <1>0, <1>13 DEF Kevent, TypeOK, EventKept, OnItsWay, Owned, Written, Holds
  <2>8. QED
    BY <1>0, <2>1, <2>2, <2>3, <2>4, <2>5, <2>6, <2>7 DEF IInv
<1>14. ASSUME NEW e \in events, RespondEvent(e) PROVE IInv'
  BY <1>0, <1>14 DEF IInv, RespondEvent, TypeOK, Owned, Written, Registered, Holds, ReadWhole,
     Whole, EventKept, OnItsWay
<1>15. ASSUME NEW p \in Processes, NEW f \in Fds, Open(p, f) PROVE IInv'
  BY <1>0, <1>15 DEF IInv, Open, TypeOK, Owned, Written, Registered, Holds, ReadWhole,
     Whole, EventKept, OnItsWay
<1>16. ASSUME NEW p \in Processes, NEW f \in Fds, Close(p, f) PROVE IInv'
  <2>1. TypeOK'
    BY <1>0, <1>16 DEF Close, TypeOK, ReadWhole, Whole, Holds, Owned, Written
  <2>2. Owned'
    BY <1>0, <1>16 DEF Close, TypeOK, Owned, Holds
  <2>3. Written'
    BY <1>0, <1>16 DEF Close, TypeOK, Owned, Written, Holds
  <2>4. Registered'
    BY <1>0, <1>16 DEF Close, TypeOK, Owned, Registered, Holds
  <2>5. Holds'
    BY <1>0, <1>16 DEF Close, TypeOK, Owned, Holds
  <2>6. ReadWhole'
    BY <1>0, <1>16 DEF Close, TypeOK, ReadWhole, Whole, Written, Owned, Holds
  <2>7. EventKept'
    BY <1>0, <1>16 DEF Close, TypeOK, EventKept, OnItsWay, Owned, Written, Holds
  <2>8. QED
    BY <1>0, <2>1, <2>2, <2>3, <2>4, <2>5, <2>6, <2>7 DEF IInv
<1>17. ASSUME NEW s \in Slots, Arrive(s) PROVE IInv'
  BY <1>0, <1>17 DEF IInv, Arrive, TypeOK, Owned, Written, Registered, Holds, ReadWhole,
     Whole, EventKept, OnItsWay
<1>18. ASSUME NEW p \in Processes, NEW s \in Slots, UseUp(p, s) PROVE IInv'
  BY <1>0, <1>18 DEF IInv, UseUp, TypeOK, Owned, Written, Registered, Holds, ReadWhole,
     Whole, EventKept, OnItsWay
<1>19. CASE UNCHANGED vars
  BY <1>0, <1>19 DEF IInv, vars, state, TypeOK, Owned, Written, Registered, Holds, ReadWhole,
     Whole, EventKept, OnItsWay
<1>20. QED
  BY <1>1, <1>2, <1>3, <1>4, <1>5, <1>6, <1>7, <1>8, <1>9, <1>10, <1>11, <1>12, <1>13, <1>14, <1>15, <1>16, <1>17, <1>18, <1>19
     DEF Next, Waiting, EpollThread, KqueueThread, Handles

-----------------------------------------------------------------------------
(* While nobody is killed, whatever was reported belongs to who waits.      *)
LEMMA InitFresh == Init => Fresh
BY DEF Init, Fresh, ArmedFor, BatchFor, CurrentFor, AnswersFor, Once

LEMMA NextFresh == IInv /\ IInv' /\ Fresh /\ [Next]_vars => Fresh'
<1>. SUFFICES ASSUME IInv, IInv', Fresh, [Next]_vars, NoKill' PROVE Fresh'
  BY DEF Fresh
<1>. USE FdPollAssumption DEF kernel, waits, thread, Slots, Fields, Waits, Entered, Busy, Mine
<1>0. TypeOK /\ Owned /\ Written
  BY DEF IInv
<1>a. NoKill
  <2>1. \A p \in Processes : pc[p] \in {"interrupted", "dead"} => pc'[p] \in {"interrupted", "dead"}
    BY <1>0 DEF Next, vars, state, TypeOK, Waiting, EpollThread, KqueueThread, Handles, Fill, FillRest,
       Add, AddEvent, Block, Deliver, Interrupt, Del, Returned, Poll, PollEvents, Read, Respond, Kevent,
       RespondEvent, Open, Close, Arrive, UseUp
  <2>2. QED
    BY <2>1 DEF NoKill
<1>b. NoKill /\ ArmedFor /\ BatchFor /\ CurrentFor /\ AnswersFor /\ Once
  BY <1>a DEF Fresh
<1>1. ASSUME NEW p \in Processes, NEW s \in Slots, NEW f \in Fields, Fill(p, s, f) PROVE Fresh'
  <2>1. ArmedFor'
    BY <1>0, <1>b, <1>1 DEF Fill, Filled, TypeOK, Owned, Written, NoKill,
     ArmedFor, BatchFor, CurrentFor, AnswersFor, AnswerOf, Once, For
  <2>2. BatchFor'
    BY <1>0, <1>b, <1>1 DEF Fill, Filled, TypeOK, Owned, Written, NoKill,
     ArmedFor, BatchFor, CurrentFor, AnswersFor, AnswerOf, Once, For
  <2>3. CurrentFor'
    BY <1>0, <1>b, <1>1 DEF Fill, Filled, TypeOK, Owned, Written, NoKill,
     ArmedFor, BatchFor, CurrentFor, AnswersFor, AnswerOf, Once, For
  <2>4. AnswersFor'
    BY <1>0, <1>b, <1>1 DEF Fill, Filled, TypeOK, Owned, Written, NoKill,
     ArmedFor, BatchFor, CurrentFor, AnswersFor, AnswerOf, Once, For
  <2>5. Once'
    BY <1>0, <1>b, <1>1 DEF Fill, Filled, TypeOK, Owned, Written, NoKill,
     ArmedFor, BatchFor, CurrentFor, AnswersFor, AnswerOf, Once, For
  <2>6. QED
    BY <2>1, <2>2, <2>3, <2>4, <2>5 DEF Fresh
<1>2. ASSUME NEW p \in Processes, FillRest(p) PROVE Fresh'
  <2>1. ArmedFor'
    BY <1>0, <1>b, <1>2 DEF FillRest, Filled, TypeOK, Owned, Written, NoKill,
     ArmedFor, BatchFor, CurrentFor, AnswersFor, AnswerOf, Once, For
  <2>2. BatchFor'
    BY <1>0, <1>b, <1>2 DEF FillRest, Filled, TypeOK, Owned, Written, NoKill,
     ArmedFor, BatchFor, CurrentFor, AnswersFor, AnswerOf, Once, For
  <2>3. CurrentFor'
    BY <1>0, <1>b, <1>2 DEF FillRest, Filled, TypeOK, Owned, Written, NoKill,
     ArmedFor, BatchFor, CurrentFor, AnswersFor, AnswerOf, Once, For
  <2>4. AnswersFor'
    BY <1>0, <1>b, <1>2 DEF FillRest, Filled, TypeOK, Owned, Written, NoKill,
     ArmedFor, BatchFor, CurrentFor, AnswersFor, AnswerOf, Once, For
  <2>5. Once'
    BY <1>0, <1>b, <1>2 DEF FillRest, Filled, TypeOK, Owned, Written, NoKill,
     ArmedFor, BatchFor, CurrentFor, AnswersFor, AnswerOf, Once, For
  <2>6. QED
    BY <2>1, <2>2, <2>3, <2>4, <2>5 DEF Fresh
<1>3. ASSUME NEW p \in Processes, Add(p) PROVE Fresh'
  BY <1>0, <1>b, <1>3 DEF Fresh, Add, TypeOK, Owned, Written, NoKill,
     ArmedFor, BatchFor, CurrentFor, AnswersFor, AnswerOf, Once, For
<1>4. ASSUME NEW p \in Processes, NEW s \in Slots, AddEvent(p, s) PROVE Fresh'
  BY <1>0, <1>b, <1>4 DEF Fresh, AddEvent, TypeOK, Owned, Written, NoKill,
     ArmedFor, BatchFor, CurrentFor, AnswersFor, AnswerOf, Once, For
<1>5. ASSUME NEW p \in Processes, Block(p) PROVE Fresh'
  BY <1>0, <1>b, <1>5 DEF Fresh, Block, TypeOK, Owned, Written, NoKill,
     ArmedFor, BatchFor, CurrentFor, AnswersFor, AnswerOf, Once, For
<1>6. ASSUME NEW r \in responses, Deliver(r) PROVE Fresh'
  BY <1>0, <1>b, <1>6 DEF Fresh, Deliver, TypeOK, Owned, Written, NoKill,
     ArmedFor, BatchFor, CurrentFor, AnswersFor, AnswerOf, Once, For
<1>7. ASSUME NEW p \in Processes, Interrupt(p) PROVE Fresh'
  BY <1>0, <1>b, <1>7 DEF Fresh, Interrupt, TypeOK, Owned, Written, NoKill,
     ArmedFor, BatchFor, CurrentFor, AnswersFor, AnswerOf, Once, For
<1>8. ASSUME NEW p \in Processes, Del(p) PROVE Fresh'
  BY <1>0, <1>b, <1>8 DEF Fresh, Del, Returned, TypeOK, Owned, Written, NoKill,
     ArmedFor, BatchFor, CurrentFor, AnswersFor, AnswerOf, Once, For
<1>9. ASSUME Poll PROVE Fresh'
  BY <1>0, <1>b, <1>9 DEF Fresh, Poll, TypeOK, Owned, Written, NoKill,
     ArmedFor, BatchFor, CurrentFor, AnswersFor, AnswerOf, Once, For
<1>10. ASSUME NEW e \in Events, PollEvents(e) PROVE Fresh'
  BY <1>0, <1>b, <1>10 DEF Fresh, PollEvents, Reportable, TypeOK, Owned, Written, NoKill,
     ArmedFor, BatchFor, CurrentFor, AnswersFor, AnswerOf, Once, For
<1>11. ASSUME NEW s \in Slots, NEW f \in Fields, Read(s, f) PROVE Fresh'
  BY <1>0, <1>b, <1>11 DEF Fresh, Read, TypeOK, Owned, Written, NoKill,
     ArmedFor, BatchFor, CurrentFor, AnswersFor, AnswerOf, Once, For
<1>12. ASSUME Respond PROVE Fresh'
  <2>1. ASSUME NEW c \in current
        PROVE  \E p \in Processes : Answer(c) = Mine(p) /\ For(p, c.slot)
    <3>1. PICK p \in Processes : For(p, c.slot)
      BY <1>b DEF CurrentFor
    <3>2. filter[c.slot] = Mine(p)
      BY <1>0, <3>1 DEF Written, For
    <3>3. c.value = IF c.field = "source" THEN p ELSE session[p]
      BY <1>b, <3>2 DEF CurrentFor
    <3>4. QED
      BY <1>0, <3>1, <3>3, Assembled
  <2>2. ASSUME NEW r \in responses', r \notin responses
        PROVE  \E c \in current, p \in Processes : r = Mine(p) /\ For(p, c.slot)
    BY <1>12, <2>1, <2>2 DEF Respond, Answer
  <2>3. AnswersFor'
    BY <1>b, <1>12, <2>2 DEF Respond, AnswersFor, AnswerOf, CurrentFor, For
  <2>4. Once'
    BY <1>b, <1>12, <2>2 DEF Respond, AnswersFor, Once, For
  <2>5. QED
    BY <1>b, <1>12, <2>3, <2>4 DEF Respond, Fresh, ArmedFor, BatchFor, CurrentFor, For
<1>13. ASSUME Kevent PROVE Fresh'
  <2>1. ASSUME NEW e \in events'
        PROVE  \E s \in Slots, p \in Processes :
                  e = Mine(p) /\ For(p, s) /\ reg[s] = "armed" /\ reg'[s] = "fired"
    <3>1. PICK s \in Slots : e = filter[s] /\ reg[s] = "armed" /\ reg'[s] = "fired"
      BY <1>0, <1>13 DEF Kevent, TypeOK
    <3>2. QED
      BY <1>0, <1>b, <3>1 DEF ArmedFor, For, Written
  <2>2. ASSUME NEW s \in Slots PROVE reg[s] = "fired" => reg'[s] = "fired"
    BY <1>0, <1>13 DEF Kevent, TypeOK
  <2>3. AnswersFor'
    <3>1. ASSUME NEW r \in events' PROVE AnswerOf(r)' /\ slot[r.source] \notin batch
                                        /\ \A c \in current : c.slot # slot[r.source]
      BY <1>b, <1>13, <2>1, <3>1 DEF Kevent, AnswerOf, BatchFor, CurrentFor, For
    <3>2. ASSUME NEW r \in responses PROVE AnswerOf(r)' /\ slot[r.source] \notin batch
                                         /\ \A c \in current : c.slot # slot[r.source]
      BY <1>0, <1>b, <1>13, <2>2, <3>2 DEF Kevent, AnswersFor, AnswerOf, TypeOK, Owned
    <3>3. QED
      BY <1>13, <3>1, <3>2 DEF Kevent, AnswersFor
  <2>4. Once'
    BY <1>b, <1>13, <2>1 DEF Kevent, AnswersFor, AnswerOf, Once, For
  <2>5. ArmedFor' /\ BatchFor' /\ CurrentFor'
    BY <1>0, <1>b, <1>13, <2>2 DEF Kevent, TypeOK, ArmedFor, BatchFor, CurrentFor, For
  <2>6. QED
    BY <2>3, <2>4, <2>5 DEF Fresh
<1>14. ASSUME NEW e \in events, RespondEvent(e) PROVE Fresh'
  BY <1>0, <1>b, <1>14 DEF Fresh, RespondEvent, TypeOK, Owned, Written, NoKill,
     ArmedFor, BatchFor, CurrentFor, AnswersFor, AnswerOf, Once, For
<1>15. ASSUME NEW p \in Processes, NEW f \in Fds, Open(p, f) PROVE Fresh'
  BY <1>0, <1>b, <1>15 DEF Fresh, Open, TypeOK, Owned, Written, NoKill,
     ArmedFor, BatchFor, CurrentFor, AnswersFor, AnswerOf, Once, For
<1>16. ASSUME NEW p \in Processes, NEW f \in Fds, Close(p, f) PROVE Fresh'
  <2>1. ArmedFor'
    BY <1>0, <1>b, <1>16 DEF Close, TypeOK, Owned, Written, NoKill,
     ArmedFor, BatchFor, CurrentFor, AnswersFor, AnswerOf, Once, For
  <2>2. BatchFor'
    BY <1>0, <1>b, <1>16 DEF Close, TypeOK, Owned, Written, NoKill,
     ArmedFor, BatchFor, CurrentFor, AnswersFor, AnswerOf, Once, For
  <2>3. CurrentFor'
    BY <1>0, <1>b, <1>16 DEF Close, TypeOK, Owned, Written, NoKill,
     ArmedFor, BatchFor, CurrentFor, AnswersFor, AnswerOf, Once, For
  <2>4. AnswersFor'
    BY <1>0, <1>b, <1>16 DEF Close, TypeOK, Owned, Written, NoKill,
     ArmedFor, BatchFor, CurrentFor, AnswersFor, AnswerOf, Once, For
  <2>5. Once'
    BY <1>0, <1>b, <1>16 DEF Close, TypeOK, Owned, Written, NoKill,
     ArmedFor, BatchFor, CurrentFor, AnswersFor, AnswerOf, Once, For
  <2>6. QED
    BY <2>1, <2>2, <2>3, <2>4, <2>5 DEF Fresh
<1>17. ASSUME NEW s \in Slots, Arrive(s) PROVE Fresh'
  BY <1>0, <1>b, <1>17 DEF Fresh, Arrive, TypeOK, Owned, Written, NoKill,
     ArmedFor, BatchFor, CurrentFor, AnswersFor, AnswerOf, Once, For
<1>18. ASSUME NEW p \in Processes, NEW s \in Slots, UseUp(p, s) PROVE Fresh'
  BY <1>0, <1>b, <1>18 DEF Fresh, UseUp, TypeOK, Owned, Written, NoKill,
     ArmedFor, BatchFor, CurrentFor, AnswersFor, AnswerOf, Once, For
<1>19. CASE UNCHANGED vars
  BY <1>b, <1>19 DEF Fresh, vars, state, ArmedFor, BatchFor, CurrentFor, AnswersFor, AnswerOf, Once,
     For
<1>20. QED
  BY <1>1, <1>2, <1>3, <1>4, <1>5, <1>6, <1>7, <1>8, <1>9, <1>10, <1>11, <1>12, <1>13, <1>14, <1>15, <1>16, <1>17, <1>18, <1>19
     DEF Next, Waiting, EpollThread, KqueueThread, Handles

-----------------------------------------------------------------------------
(* The variables keep their types: no response goes to a filter that nobody *)
(* has filled.                                                              *)
THEOREM Invariant == SafeSpec => []IInv
<1>1. QED
  BY InitIInv, NextIInv, PTL DEF SafeSpec

THEOREM TypeCorrect == Spec => []TypeOK
<1>1. IInv => TypeOK
  BY DEF IInv
<1>2. QED
  BY <1>1, Invariant, PTL DEF Spec

(* EPOLL_CTL_ADD finds the descriptor unregistered, EPOLL_CTL_DEL finds its *)
(* registration: neither call fails.                                        *)
THEOREM CtlNeverFails == Spec => []CtlSucceeds
<1>1. IInv => CtlSucceeds
  <2>1. SUFFICES ASSUME IInv, NEW p \in Processes, pc[p] = "add" PROVE reg[slot[p]] = "none"
    BY DEF IInv, CtlSucceeds, Holds, Entered
  <2>2. ~ \E q \in Processes : pc[q] \in Entered /\ slot[q] = slot[p]
    BY <2>1, Apart DEF IInv, Busy, Entered, Waits, Fields
  <2>3. QED
    BY <2>1, <2>2 DEF IInv, Registered, Holds, Owned, Busy
<1>2. QED
  BY <1>1, Invariant, PTL DEF Spec

(* No event is lost on its way to the coroutine that waits for it.          *)
THEOREM EventsAreKept == Spec => []EventKept
<1>1. IInv => EventKept
  BY DEF IInv
<1>2. QED
  BY <1>1, Invariant, PTL DEF Spec

(* While nobody is killed in wait(), each response is for a wait that goes  *)
(* on and whose event was reported.                                         *)
THEOREM ResponsesAreGenuine == Spec => []Genuine
<1>1. Fresh => Genuine
  BY DEF Fresh, NoKill, Genuine, AnswersFor, AnswerOf, Waits
<1>2. QED
  BY <1>1, InitIInv, NextIInv, InitFresh, NextFresh, PTL DEF Spec, SafeSpec

-----------------------------------------------------------------------------
(***************************************************************************)
(* Reads and writes.                                                       *)
(***************************************************************************)

(* The ends of a connection and whose they are.                             *)
LEMMA Constants ==
  /\ Size \in Nat \ {0} /\ Addresses \in Nat \ {0}
  /\ Tasks = Clients \cup Conns
  /\ \A c \in Clients : c \notin Conns /\ c \in Tasks
  /\ \A c \in Clients, i \in 1 .. Addresses : <<c, i>> \in Conns
  /\ \A k \in Conns : /\ k \notin Clients /\ k \in Tasks
                      /\ <<k, "client">> \in Ends /\ <<k, "server">> \in Ends
                      /\ Peer(<<k, "client">>) = <<k, "server">>
                      /\ Peer(<<k, "server">>) = <<k, "client">>
  /\ \A e \in Ends : /\ e # Nothing /\ e[1] \in Conns /\ Peer(e) \in Ends
                     /\ e = <<e[1], "client">> \/ e = <<e[1], "server">>
<1>1. /\ Size \in Nat \ {0} /\ Addresses \in Nat \ {0}
      /\ Tasks = Clients \cup Conns
      /\ \A c \in Clients : c \notin Conns /\ c \in Tasks
      /\ \A c \in Clients, i \in 1 .. Addresses : <<c, i>> \in Conns
  BY IoAssumption, EchoAssumption
<1>2. ASSUME NEW k \in Conns
      PROVE  /\ k \notin Clients /\ k \in Tasks
             /\ <<k, "client">> \in Ends /\ <<k, "server">> \in Ends
             /\ Peer(<<k, "client">>) = <<k, "server">>
             /\ Peer(<<k, "server">>) = <<k, "client">>
  BY EchoAssumption DEF Ends, Peer
<1>3. ASSUME NEW e \in Ends
      PROVE  /\ e # Nothing /\ e[1] \in Conns /\ Peer(e) \in Ends
             /\ e = <<e[1], "client">> \/ e = <<e[1], "server">>
  BY EchoAssumption DEF Ends, Peer
<1>4. QED
  BY <1>1, <1>2, <1>3

-----------------------------------------------------------------------------
Bytes == ((1 .. 2) \X (1 .. Size)) \cup {Nothing}

Calls == [op : {"none", "read_full", "read", "write"}, at : {"call", "wait", "done"},
          base : Nat, n : Nat, moved : Nat, left : Nat, err : BOOLEAN]

KernelTypes ==
  /\ stream \in [Ends -> Seq(Bytes)]
  /\ end \in [Ends -> {"none", "syn", "open", "queued", "closed"}]
  /\ reset \subseteq Conns

TaskTypes ==
  /\ fd \in [Tasks -> Ends \cup {Nothing}]
  /\ io \in [Tasks -> Calls]
  /\ buf \in [Tasks -> [1 .. Size -> Bytes]]
  /\ doing \in [Tasks -> {"connect", "connecting", "failed", "loop", "none", "spawned",
                          "read", "write", "ended"}]

ClientTypes ==
  /\ addr \in [Clients -> 1 .. Addresses]
  /\ lastErrno \in [Clients -> BOOLEAN]
  /\ round \in [Clients -> 0 .. 2]
  /\ reply \in [Clients -> Seq(Bytes)]

Types == KernelTypes /\ TaskTypes /\ ClientTypes

(* A call of read_full, read or write: what it has moved and what is left    *)
(* fit the buffer, and it goes on where it stopped; a call that came to its  *)
(* end without an error has moved all, except one of read.                   *)
Sound(t) ==
  /\ io[t].n <= io[t].left /\ io[t].moved + io[t].left <= Size
  /\ io[t].at # "done" => io[t].base = io[t].moved
  /\ io[t].at # "call" => io[t].n = 0
  /\ doing[t] \notin {"read", "write"} => io[t].at = "done"
  /\ doing[t] = "write" => io[t].op = "write"
  /\ doing[t] = "read" => io[t].op = IF t \in Clients THEN "read_full" ELSE "read"
  /\ doing[t] \in {"read", "write"} /\ io[t].at = "done" /\ ~io[t].err /\ io[t].op # "read" => io[t].left = 0
  /\ t \in Clients /\ doing[t] \in {"read", "write"} => io[t].moved + io[t].left = Size

CallsSound == \A t \in Tasks : Sound(t)

(* Values of a call.                                                        *)
LEMMA CallValues ==
  /\ Idle \in Calls /\ Idle.at = "done" /\ Idle.n = 0 /\ Idle.moved = 0 /\ Idle.left = 0
  /\ Empty \in [1 .. Size -> Bytes]
  /\ \A r \in 1 .. 2 : /\ Message(r) \in [1 .. Size -> Bytes]
                        /\ Message(r) \in Seq(Bytes) /\ Len(Message(r)) = Size
<1>1. Idle \in Calls /\ Idle.at = "done" /\ Idle.n = 0 /\ Idle.moved = 0 /\ Idle.left = 0
  BY DEF Idle, Calls
<1>2. Empty \in [1 .. Size -> Bytes]
  BY DEF Empty, Bytes
<1>3. \A r \in 1 .. 2 : Message(r) \in [1 .. Size -> Bytes]
  BY DEF Message, Bytes
<1>4. \A r \in 1 .. 2 : Message(r) \in Seq(Bytes) /\ Len(Message(r)) = Size
  BY <1>3, Constants, SeqDef, LenProperties DEF Message
<1>5. QED
  BY <1>1, <1>2, <1>3, <1>4

LEMMA CalledValues ==
  ASSUME NEW op \in {"read_full", "read", "write"}, NEW size \in Nat
  PROVE  /\ Called(op, size) \in Calls
         /\ Called(op, size).op = op /\ Called(op, size).at = "call"
         /\ Called(op, size).base = 0 /\ Called(op, size).n = 0
         /\ Called(op, size).moved = 0 /\ Called(op, size).left = size
         /\ ~Called(op, size).err
<1>1. Called(op, size) \in Calls
  BY CallValues DEF Called, Calls
<1>2. QED
  BY <1>1 DEF Called, Idle

-----------------------------------------------------------------------------
(* The ends of the connections and those who have them.  Whoever is in the  *)
(* middle of something has the descriptor that it needs, and a client has    *)
(* no other; what it has not tried is untouched.                             *)
ClientEnd(c) ==
  /\ doing[c] \in {"connect", "connecting", "failed", "loop", "write", "read", "ended"}
  /\ fd[c] = IF doing[c] \in {"connecting", "loop", "write", "read"}
             THEN <<Attempt(c), "client">> ELSE Nothing
  /\ doing[c] = "connecting" => end[<<Attempt(c), "client">>] \in {"syn", "open"}
  /\ doing[c] \in {"loop", "write", "read"} => /\ end[<<Attempt(c), "client">>] = "open"
                                               /\ end[<<Attempt(c), "server">>] # "none"
                                               /\ ~lastErrno[c]
  /\ doing[c] \in {"write", "read"} => round[c] # 0
  /\ doing[c] = "failed" => lastErrno[c]
  /\ \A i \in 1 .. Addresses :
       /\ end[<<<<c, i>>, "client">>] \in {"syn", "open"} => fd[c] = <<<<c, i>>, "client">>
       /\ i > addr[c] \/ (i = addr[c] /\ doing[c] = "connect") => end[<<<<c, i>>, "client">>] = "none"

ClientEnds == \A c \in Clients : ClientEnd(c)

(* The process of a connection is there as long as the server's end is open; *)
(* nothing was sent before that end came to be.                              *)
ConnEnd(k) ==
  /\ doing[k] \in {"none", "spawned", "read", "write", "ended"}
  /\ doing[k] \in {"spawned", "read", "write"} => fd[k] = <<k, "server">>
  /\ doing[k] \in {"spawned", "read", "write"} <=> end[<<k, "server">>] = "open"
  /\ end[<<k, "server">>] \in {"none", "queued"} => doing[k] = "none"
  /\ end[<<k, "client">>] \in {"none", "syn"} => end[<<k, "server">>] = "none"
  /\ end[<<k, "client">>] = "open" /\ end[<<k, "server">>] = "none" => k \in reset
  /\ end[<<k, "server">>] = "none" => stream[<<k, "client">>] = <<>> /\ stream[<<k, "server">>] = <<>>

ConnEnds == \A k \in Conns : ConnEnd(k)

Basic == Types /\ CallsSound /\ ClientEnds /\ ConnEnds

(* Who reads or writes has the descriptor for it.                           *)
LEMMA Working ==
  ASSUME Basic, NEW t \in Tasks, doing[t] \in {"read", "write"}
  PROVE  /\ fd[t] \in Ends /\ Peer(fd[t]) \in Ends /\ fd[t][1] \in Conns /\ end[fd[t]] = "open"
         /\ t \in Clients => fd[t] = <<Attempt(t), "client">> /\ Peer(fd[t]) = <<Attempt(t), "server">>
         /\ t \in Conns => fd[t] = <<t, "server">> /\ Peer(fd[t]) = <<t, "client">>
         /\ t \in Clients => Attempt(t) \in Conns
         /\ end[<<fd[t][1], "server">>] # "none"
<1>1. CASE t \in Clients
  <2>1. Attempt(t) \in Conns /\ t \notin Conns
    BY <1>1, Constants DEF Basic, Types, ClientTypes, Attempt
  <2>2. fd[t] = <<Attempt(t), "client">> /\ end[<<Attempt(t), "client">>] = "open"
        /\ end[<<Attempt(t), "server">>] # "none"
    BY <1>1 DEF Basic, ClientEnds, ClientEnd
  <2>3. fd[t][1] = Attempt(t)
    BY <2>2
  <2>4. QED BY <1>1, <2>1, <2>2, <2>3, Constants
<1>2. CASE t \in Conns
  <2>1. t \notin Clients
    BY <1>2, Constants
  <2>2. fd[t] = <<t, "server">> /\ end[<<t, "server">>] = "open"
    BY <1>2 DEF Basic, ConnEnds, ConnEnd
  <2>3. fd[t][1] = t
    BY <2>2
  <2>4. QED BY <1>2, <2>1, <2>2, <2>3, Constants
<1>3. QED
  BY <1>1, <1>2, Constants

(* What becomes of a call.                                                  *)
LEMMA CallMoves ==
  ASSUME io \in [Tasks -> Calls], NEW t \in Tasks, io' = [io EXCEPT ![t].n = @ + 1]
  PROVE  /\ io' \in [Tasks -> Calls] /\ \A u \in Tasks \ {t} : io'[u] = io[u]
         /\ io'[t].n = io[t].n + 1
         /\ io'[t].op = io[t].op /\ io'[t].at = io[t].at /\ io'[t].base = io[t].base
         /\ io'[t].moved = io[t].moved /\ io'[t].left = io[t].left /\ (io'[t].err <=> io[t].err)
<1>1. io[t] \in Calls
  OBVIOUS
<1>2. io'[t] = [io[t] EXCEPT !.n = @ + 1] /\ \A u \in Tasks \ {t} : io'[u] = io[u]
  OBVIOUS
<1>3. [io[t] EXCEPT !.n = @ + 1] \in Calls
  BY <1>1 DEF Calls
<1>4. io' \in [Tasks -> Calls]
  BY <1>2, <1>3
<1>5. QED
  BY <1>1, <1>2, <1>4 DEF Calls

LEMMA CallDone ==
  ASSUME io \in [Tasks -> Calls], NEW t \in Tasks, io[t].n <= io[t].left, NEW err \in BOOLEAN, Done(t, err)
  PROVE  /\ io' \in [Tasks -> Calls] /\ \A u \in Tasks \ {t} : io'[u] = io[u]
         /\ io'[t].at = "done" /\ io'[t].n = 0 /\ (io'[t].err <=> err)
         /\ io'[t].op = io[t].op /\ io'[t].base = io[t].base
         /\ io'[t].moved = io[t].moved + io[t].n /\ io'[t].left = io[t].left - io[t].n
<1> DEFINE r == [io[t] EXCEPT !.at = "done", !.err = err, !.n = 0,
                              !.moved = @ + io[t].n, !.left = @ - io[t].n]
<1>1. io[t] \in Calls
  OBVIOUS
<1>2. io'[t] = r /\ \A u \in Tasks \ {t} : io'[u] = io[u]
  BY DEF Done
<1>3. r \in Calls
  <2>1. /\ io[t].moved + io[t].n \in Nat /\ io[t].left - io[t].n \in Nat
        /\ io[t].base + io[t].n \in Nat
    BY <1>1 DEF Calls
  <2>2. QED BY <1>1, <2>1 DEF Calls
<1>4. io' \in [Tasks -> Calls]
  BY <1>2, <1>3 DEF Done
<1>5. QED
  BY <1>1, <1>2, <1>4 DEF Calls

LEMMA CallWaits ==
  ASSUME io \in [Tasks -> Calls], NEW t \in Tasks, io[t].n <= io[t].left,
         io' = [io EXCEPT ![t].at = "wait", ![t].n = 0, ![t].base = @ + io[t].n,
                          ![t].moved = @ + io[t].n, ![t].left = @ - io[t].n]
  PROVE  /\ io' \in [Tasks -> Calls] /\ \A u \in Tasks \ {t} : io'[u] = io[u]
         /\ io'[t].at = "wait" /\ io'[t].n = 0 /\ (io'[t].err <=> io[t].err)
         /\ io'[t].op = io[t].op /\ io'[t].base = io[t].base + io[t].n
         /\ io'[t].moved = io[t].moved + io[t].n /\ io'[t].left = io[t].left - io[t].n
<1> DEFINE r == [io[t] EXCEPT !.at = "wait", !.n = 0, !.base = @ + io[t].n,
                              !.moved = @ + io[t].n, !.left = @ - io[t].n]
<1>1. io[t] \in Calls
  OBVIOUS
<1>2. io'[t] = r /\ \A u \in Tasks \ {t} : io'[u] = io[u]
  OBVIOUS
<1>3. r \in Calls
  <2>1. /\ io[t].moved + io[t].n \in Nat /\ io[t].left - io[t].n \in Nat
        /\ io[t].base + io[t].n \in Nat
    BY <1>1 DEF Calls
  <2>2. QED BY <1>1, <2>1 DEF Calls
<1>4. io' \in [Tasks -> Calls]
  BY <1>2, <1>3
<1>5. QED
  BY <1>1, <1>2, <1>4 DEF Calls

LEMMA CallGoesOn ==
  ASSUME io \in [Tasks -> Calls], NEW t \in Tasks, io' = [io EXCEPT ![t].at = "call"]
  PROVE  /\ io' \in [Tasks -> Calls] /\ \A u \in Tasks \ {t} : io'[u] = io[u]
         /\ io'[t].at = "call" /\ io'[t].n = io[t].n /\ (io'[t].err <=> io[t].err)
         /\ io'[t].op = io[t].op /\ io'[t].base = io[t].base
         /\ io'[t].moved = io[t].moved /\ io'[t].left = io[t].left
<1>1. io[t] \in Calls
  OBVIOUS
<1>2. io'[t] = [io[t] EXCEPT !.at = "call"] /\ \A u \in Tasks \ {t} : io'[u] = io[u]
  OBVIOUS
<1>3. [io[t] EXCEPT !.at = "call"] \in Calls
  BY <1>1 DEF Calls
<1>4. io' \in [Tasks -> Calls]
  BY <1>2, <1>3
<1>5. QED
  BY <1>1, <1>2, <1>4 DEF Calls

-----------------------------------------------------------------------------
(* A step of a read or write keeps Basic.                                   *)
LEMMA MovesBasic ==
  ASSUME Basic, NEW t \in Tasks, UNCHANGED <<doing, client, end, fd>>,
         stream' \in [Ends -> Seq(Bytes)],
         \A k \in Conns : end[<<k, "server">>] = "none" =>
           stream'[<<k, "client">>] = stream[<<k, "client">>] /\ stream'[<<k, "server">>] = stream[<<k, "server">>],
         reset \subseteq reset', reset' \subseteq Conns,
         io' \in [Tasks -> Calls], \A u \in Tasks \ {t} : io'[u] = io[u], Sound(t)',
         buf' \in [Tasks -> [1 .. Size -> Bytes]]
  PROVE  Basic'
<1>1. Types'
  BY DEF Basic, Types, KernelTypes, TaskTypes, ClientTypes, client
<1>2. CallsSound'
  <2> SUFFICES ASSUME NEW u \in Tasks PROVE Sound(u)'
    BY DEF CallsSound
  <2>1. CASE u = t
    BY <2>1
  <2>2. CASE u # t
    <3>1. Sound(u) /\ io'[u] = io[u] /\ doing'[u] = doing[u]
      BY <2>2 DEF Basic, CallsSound
    <3>2. QED BY <3>1 DEF Sound
  <2>3. QED BY <2>1, <2>2
<1>3. ClientEnds'
  <2>1. UNCHANGED <<doing, end, fd, addr, lastErrno, round>> /\ \A c : Attempt(c)' = Attempt(c)
    BY DEF client, Attempt
  <2>2. QED BY <2>1 DEF Basic, ClientEnds, ClientEnd
<1>4. ConnEnds'
  BY DEF Basic, ConnEnds, ConnEnd
<1>5. QED
  BY <1>1, <1>2, <1>3, <1>4 DEF Basic

(* What is known of a call that a system call is under way for.             *)
LEMMA Calling ==
  ASSUME Basic, NEW t \in Tasks, io[t].at = "call"
  PROVE  /\ doing[t] \in {"read", "write"} /\ Sound(t) /\ io[t] \in Calls
         /\ io[t].base = io[t].moved /\ Position(t) = io[t].moved + io[t].n + 1
         /\ io[t].n < io[t].left => Position(t) \in 1 .. Size
         /\ stream[fd[t]] \in Seq(Bytes) /\ stream[Peer(fd[t])] \in Seq(Bytes)
         /\ Reads(t) <=> doing[t] = "read"
<1>1. Sound(t) /\ io[t] \in Calls /\ doing[t] \in {"read", "write"}
  BY DEF Basic, CallsSound, Sound, Types, TaskTypes
<1>2. io[t].base = io[t].moved /\ Position(t) = io[t].moved + io[t].n + 1
  BY <1>1 DEF Sound, Position
<1>3. io[t].n < io[t].left => Position(t) \in 1 .. Size
  BY <1>1, <1>2, Constants DEF Sound, Calls
<1>4. stream[fd[t]] \in Seq(Bytes) /\ stream[Peer(fd[t])] \in Seq(Bytes)
  BY <1>1, Working DEF Basic, Types, KernelTypes
<1>5. Reads(t) <=> doing[t] = "read"
  BY <1>1 DEF Sound, Reads
<1>6. QED
  BY <1>1, <1>2, <1>3, <1>4, <1>5

LEMMA ReceiveBasic ==
  ASSUME Basic, NEW t \in Tasks, Receive(t), UNCHANGED <<doing, client>>
  PROVE  /\ Basic' /\ UNCHANGED <<end, reset, fd>> /\ doing[t] = "read"
         /\ \A u \in Tasks \ {t} : io'[u] = io[u] /\ buf'[u] = buf[u]
         /\ \A e \in Ends \ {fd[t]} : stream'[e] = stream[e]
         /\ stream[fd[t]] # << >> /\ stream'[fd[t]] = Tail(stream[fd[t]])
         /\ io'[t].moved = io[t].moved /\ io'[t].n = io[t].n + 1
         /\ io[t].moved + io[t].n \in Nat /\ io[t].moved + io[t].n < Size
         /\ buf'[t] = [buf[t] EXCEPT ![io[t].moved + io[t].n + 1] = Head(stream[fd[t]])]
<1>1. io[t].at = "call" /\ io[t].n < io[t].left /\ Reads(t) /\ stream[fd[t]] # << >>
  BY DEF Receive, HasData
<1>2. /\ doing[t] = "read" /\ Sound(t) /\ io[t] \in Calls
      /\ Position(t) = io[t].moved + io[t].n + 1 /\ Position(t) \in 1 .. Size
      /\ stream[fd[t]] \in Seq(Bytes) /\ fd[t] \in Ends /\ end[<<fd[t][1], "server">>] # "none"
  BY <1>1, Calling, Working
<1>3. /\ io \in [Tasks -> Calls] /\ buf \in [Tasks -> [1 .. Size -> Bytes]]
      /\ stream \in [Ends -> Seq(Bytes)] /\ reset \subseteq Conns
  BY DEF Basic, Types, KernelTypes, TaskTypes
<1>4. /\ Tail(stream[fd[t]]) \in Seq(Bytes) /\ Head(stream[fd[t]]) \in Bytes
  BY <1>1, <1>2, HeadTailProperties
<1>5. /\ stream' \in [Ends -> Seq(Bytes)] /\ stream'[fd[t]] = Tail(stream[fd[t]])
      /\ \A e \in Ends \ {fd[t]} : stream'[e] = stream[e]
  BY <1>2, <1>3, <1>4 DEF Receive
<1>6. /\ buf' \in [Tasks -> [1 .. Size -> Bytes]]
      /\ buf'[t] = [buf[t] EXCEPT ![Position(t)] = Head(stream[fd[t]])]
      /\ \A u \in Tasks \ {t} : buf'[u] = buf[u]
  BY <1>2, <1>3, <1>4 DEF Receive
<1>7. /\ io' \in [Tasks -> Calls] /\ \A u \in Tasks \ {t} : io'[u] = io[u]
      /\ io'[t].n = io[t].n + 1
      /\ io'[t].op = io[t].op /\ io'[t].at = io[t].at /\ io'[t].base = io[t].base
      /\ io'[t].moved = io[t].moved /\ io'[t].left = io[t].left /\ (io'[t].err <=> io[t].err)
  BY <1>3, CallMoves DEF Receive
<1>8. Sound(t)'
  BY <1>1, <1>2, <1>7 DEF Sound, Calls
<1>9. \A k \in Conns : end[<<k, "server">>] = "none" =>
         stream'[<<k, "client">>] = stream[<<k, "client">>] /\ stream'[<<k, "server">>] = stream[<<k, "server">>]
  <2> SUFFICES ASSUME NEW k \in Conns, end[<<k, "server">>] = "none"
               PROVE  stream'[<<k, "client">>] = stream[<<k, "client">>] /\ stream'[<<k, "server">>] = stream[<<k, "server">>]
    OBVIOUS
  <2>1. fd[t][1] # k /\ <<k, "client">>[1] = k /\ <<k, "server">>[1] = k
    BY <1>2
  <2>2. QED BY <1>5, <2>1, Constants
<1>10. UNCHANGED <<end, reset, fd>>
  BY DEF Receive
<1>11. Basic'
  BY <1>3, <1>5, <1>6, <1>7, <1>8, <1>9, <1>10, MovesBasic
<1>12. io[t].moved + io[t].n \in Nat /\ io[t].moved + io[t].n < Size
  BY <1>2, Constants DEF Calls
<1>13. QED
  BY <1>1, <1>2, <1>5, <1>6, <1>7, <1>10, <1>11, <1>12

LEMMA TransmitBasic ==
  ASSUME Basic, NEW t \in Tasks, Transmit(t), UNCHANGED <<doing, client>>
  PROVE  /\ Basic' /\ UNCHANGED <<end, fd, buf>> /\ doing[t] = "write"
         /\ \A u \in Tasks \ {t} : io'[u] = io[u]
         /\ \A e \in Ends \ {Peer(fd[t])} : stream'[e] = stream[e]
         /\ stream'[Peer(fd[t])] = Append(stream[Peer(fd[t])], buf[t][io[t].moved + io[t].n + 1])
         /\ io'[t].moved = io[t].moved /\ io'[t].n = io[t].n + 1 /\ io'[t].left = io[t].left
         /\ io[t].moved \in Nat /\ io[t].n \in Nat /\ io[t].left \in Nat
         /\ io[t].n < io[t].left /\ io[t].moved + io[t].left <= Size
<1>1. io[t].at = "call" /\ io[t].n < io[t].left /\ ~Reads(t)
  BY DEF Transmit
<1>2. /\ doing[t] = "write" /\ Sound(t) /\ io[t] \in Calls
      /\ Position(t) = io[t].moved + io[t].n + 1 /\ Position(t) \in 1 .. Size
      /\ stream[Peer(fd[t])] \in Seq(Bytes) /\ fd[t] \in Ends /\ Peer(fd[t]) \in Ends /\ fd[t][1] \in Conns
      /\ end[<<fd[t][1], "server">>] # "none" /\ Peer(fd[t])[1] = fd[t][1]
  BY <1>1, Calling, Working DEF Peer
<1>3. /\ io \in [Tasks -> Calls] /\ buf \in [Tasks -> [1 .. Size -> Bytes]]
      /\ stream \in [Ends -> Seq(Bytes)] /\ reset \subseteq Conns
  BY DEF Basic, Types, KernelTypes, TaskTypes
<1>4. Append(stream[Peer(fd[t])], buf[t][Position(t)]) \in Seq(Bytes)
  <2>1. buf[t][Position(t)] \in Bytes
    BY <1>2, <1>3
  <2>2. QED BY <1>2, <2>1, AppendProperties
<1>5. /\ stream' \in [Ends -> Seq(Bytes)]
      /\ stream'[Peer(fd[t])] = Append(stream[Peer(fd[t])], buf[t][Position(t)])
      /\ \A e \in Ends \ {Peer(fd[t])} : stream'[e] = stream[e]
  BY <1>2, <1>3, <1>4 DEF Transmit
<1>6. reset \subseteq reset' /\ reset' \subseteq Conns /\ UNCHANGED <<end, fd, buf>>
  BY <1>2, <1>3 DEF Transmit
<1>7. /\ io' \in [Tasks -> Calls] /\ \A u \in Tasks \ {t} : io'[u] = io[u]
      /\ io'[t].n = io[t].n + 1
      /\ io'[t].op = io[t].op /\ io'[t].at = io[t].at /\ io'[t].base = io[t].base
      /\ io'[t].moved = io[t].moved /\ io'[t].left = io[t].left /\ (io'[t].err <=> io[t].err)
  BY <1>3, CallMoves DEF Transmit
<1>8. Sound(t)'
  BY <1>1, <1>2, <1>7 DEF Sound, Calls
<1>9. \A k \in Conns : end[<<k, "server">>] = "none" =>
         stream'[<<k, "client">>] = stream[<<k, "client">>] /\ stream'[<<k, "server">>] = stream[<<k, "server">>]
  <2> SUFFICES ASSUME NEW k \in Conns, end[<<k, "server">>] = "none"
               PROVE  stream'[<<k, "client">>] = stream[<<k, "client">>] /\ stream'[<<k, "server">>] = stream[<<k, "server">>]
    OBVIOUS
  <2>1. Peer(fd[t]) # <<k, "client">> /\ Peer(fd[t]) # <<k, "server">>
    BY <1>2
  <2>2. QED BY <1>5, <2>1, Constants
<1>10. Basic'
  BY <1>3, <1>5, <1>6, <1>7, <1>8, <1>9, MovesBasic
<1>11. QED
  BY <1>1, <1>2, <1>5, <1>6, <1>7, <1>10 DEF Calls, Sound

(* The other steps of a call move no byte.                                  *)
LEMMA ReturnBasic ==
  ASSUME Basic, NEW t \in Tasks, UNCHANGED <<doing, client>>,
         Complete(t) \/ Fail(t) \/ Again(t) \/ Partial(t) \/ Resume(t)
  PROVE  /\ Basic' /\ UNCHANGED <<network, fd, buf>>
         /\ \A u \in Tasks \ {t} : io'[u] = io[u]
         /\ io'[t].moved + io'[t].n = io[t].moved + io[t].n
         /\ io'[t].moved + io'[t].left = io[t].moved + io[t].left
<1>1. io \in [Tasks -> Calls] /\ UNCHANGED <<network, fd, buf>> /\ io[t] \in Calls /\ Sound(t)
  BY DEF Basic, Types, TaskTypes, CallsSound, Complete, Fail, Again, Partial, Resume
<1>2. ASSUME io' \in [Tasks -> Calls], \A u \in Tasks \ {t} : io'[u] = io[u], Sound(t)'
      PROVE  Basic'
  BY <1>1, <1>2, MovesBasic DEF Basic, Types, TaskTypes, KernelTypes, network
<1>3. CASE Complete(t) \/ Fail(t) \/ Partial(t)
  <2>1. PICK err \in BOOLEAN :
          /\ io[t].at = "call" /\ Done(t, err)
          /\ ~err => io[t].n = io[t].left \/ io[t].op = "read"
    BY <1>3 DEF Complete, Fail, Partial
  <2>2. io[t].n <= io[t].left
    BY <1>1 DEF Sound
  <2>3. /\ io' \in [Tasks -> Calls] /\ \A u \in Tasks \ {t} : io'[u] = io[u]
        /\ io'[t].at = "done" /\ io'[t].n = 0 /\ (io'[t].err <=> err)
        /\ io'[t].op = io[t].op /\ io'[t].base = io[t].base
        /\ io'[t].moved = io[t].moved + io[t].n /\ io'[t].left = io[t].left - io[t].n
    BY <1>1, <2>1, <2>2, CallDone
  <2>4. /\ io'[t].moved + io'[t].n = io[t].moved + io[t].n
        /\ io'[t].moved + io'[t].left = io[t].moved + io[t].left
    BY <1>1, <2>3 DEF Calls
  <2>5. Sound(t)'
    BY <1>1, <2>1, <2>2, <2>3, <2>4 DEF Sound, Calls
  <2>6. QED BY <1>1, <1>2, <2>3, <2>4, <2>5
<1>4. CASE Again(t)
  <2>1. io[t].at = "call" /\ io[t].n <= io[t].left
    BY <1>1, <1>4 DEF Again, Sound
  <2>2. /\ io' \in [Tasks -> Calls] /\ \A u \in Tasks \ {t} : io'[u] = io[u]
        /\ io'[t].at = "wait" /\ io'[t].n = 0 /\ (io'[t].err <=> io[t].err)
        /\ io'[t].op = io[t].op /\ io'[t].base = io[t].base + io[t].n
        /\ io'[t].moved = io[t].moved + io[t].n /\ io'[t].left = io[t].left - io[t].n
    BY <1>1, <1>4, <2>1, CallWaits DEF Again
  <2>3. /\ io'[t].moved + io'[t].n = io[t].moved + io[t].n
        /\ io'[t].moved + io'[t].left = io[t].moved + io[t].left
    BY <1>1, <2>2 DEF Calls
  <2>4. Sound(t)'
    BY <1>1, <2>1, <2>2, <2>3 DEF Sound, Calls
  <2>5. QED BY <1>1, <1>2, <2>2, <2>3, <2>4
<1>5. CASE Resume(t)
  <2>1. io[t].at = "wait"
    BY <1>5 DEF Resume
  <2>2. /\ io' \in [Tasks -> Calls] /\ \A u \in Tasks \ {t} : io'[u] = io[u]
        /\ io'[t].at = "call" /\ io'[t].n = io[t].n /\ (io'[t].err <=> io[t].err)
        /\ io'[t].op = io[t].op /\ io'[t].base = io[t].base
        /\ io'[t].moved = io[t].moved /\ io'[t].left = io[t].left
    BY <1>1, <1>5, CallGoesOn DEF Resume
  <2>3. Sound(t)'
    BY <1>1, <2>1, <2>2 DEF Sound, Calls
  <2>4. QED BY <1>1, <1>2, <2>2, <2>3
<1>6. QED
  BY <1>3, <1>4, <1>5

-----------------------------------------------------------------------------
(* What a step leaves alone stays as it was.                                *)
LEMMA CallFrame ==
  ASSUME Basic, NEW t \in Tasks, io'[t] = io[t], doing'[t] = doing[t]
  PROVE  Sound(t)'
BY DEF Basic, CallsSound, Sound

LEMMA ClientFrame ==
  ASSUME Basic, NEW c \in Clients, doing'[c] = doing[c], fd'[c] = fd[c], addr'[c] = addr[c],
         lastErrno'[c] = lastErrno[c], round'[c] = round[c],
         \A i \in 1 .. Addresses : end'[<<<<c, i>>, "client">>] = end[<<<<c, i>>, "client">>],
         \A k \in Conns : end[<<k, "server">>] # "none" => end'[<<k, "server">>] # "none"
  PROVE  ClientEnd(c)'
<1>1. addr[c] \in 1 .. Addresses /\ Attempt(c)' = Attempt(c) /\ Attempt(c) \in Conns
  BY Constants DEF Basic, Types, ClientTypes, Attempt
<1>2. end'[<<Attempt(c), "client">>] = end[<<Attempt(c), "client">>]
  BY <1>1 DEF Attempt
<1>3. end[<<Attempt(c), "server">>] # "none" => end'[<<Attempt(c), "server">>] # "none"
  BY <1>1
<1>4. ClientEnd(c)
  BY DEF Basic, ClientEnds
<1>5. QED
  BY <1>1, <1>2, <1>3, <1>4 DEF ClientEnd

LEMMA ConnFrame ==
  ASSUME Basic, NEW k \in Conns, doing'[k] = doing[k], fd'[k] = fd[k], reset \subseteq reset',
         \A side \in {"client", "server"} : /\ end'[<<k, side>>] = end[<<k, side>>]
                                            /\ stream'[<<k, side>>] = stream[<<k, side>>]
  PROVE  ConnEnd(k)'
<1>1. ConnEnd(k)
  BY DEF Basic, ConnEnds
<1>2. QED
  BY <1>1 DEF ConnEnd

(* A step of one client: of the ends, it changes one of its own.            *)
LEMMA ClientOnly ==
  ASSUME Basic, NEW c \in Clients, NEW i \in 1 .. Addresses,
         Types', UNCHANGED stream, reset \subseteq reset',
         Sound(c)', ClientEnd(c)', ConnEnd(<<c, i>>)',
         \A t \in Tasks \ {c} : doing'[t] = doing[t] /\ fd'[t] = fd[t] /\ io'[t] = io[t],
         \A d \in Clients \ {c} : addr'[d] = addr[d] /\ lastErrno'[d] = lastErrno[d] /\ round'[d] = round[d],
         \A e \in Ends \ {<<<<c, i>>, "client">>} : end'[e] = end[e]
  PROVE  Basic'
<1>1. CallsSound'
  <2> SUFFICES ASSUME NEW t \in Tasks \ {c} PROVE Sound(t)'
    BY DEF CallsSound
  <2>1. QED BY CallFrame
<1>2. ClientEnds'
  <2> SUFFICES ASSUME NEW d \in Clients \ {c} PROVE ClientEnd(d)'
    BY DEF ClientEnds
  <2>1. ASSUME NEW j \in 1 .. Addresses PROVE end'[<<<<d, j>>, "client">>] = end[<<<<d, j>>, "client">>]
    <3>1. <<d, j>> # <<c, i>> /\ <<d, j>> \in Conns
      BY Constants
    <3>2. <<<<d, j>>, "client">> \in Ends \ {<<<<c, i>>, "client">>}
      BY <3>1, Constants
    <3>3. QED BY <3>2
  <2>2. ASSUME NEW k \in Conns PROVE end'[<<k, "server">>] = end[<<k, "server">>]
    BY Constants
  <2>3. d \in Tasks
    BY Constants
  <2>4. QED BY <2>1, <2>2, <2>3, ClientFrame
<1>3. ConnEnds'
  <2> SUFFICES ASSUME NEW k \in Conns, k # <<c, i>> PROVE ConnEnd(k)'
    BY DEF ConnEnds
  <2>1. <<k, "client">> \in Ends \ {<<<<c, i>>, "client">>} /\ <<k, "server">> \in Ends \ {<<<<c, i>>, "client">>}
    BY Constants
  <2>2. k \in Tasks \ {c}
    BY Constants
  <2>3. QED BY <2>1, <2>2, ConnFrame
<1>4. QED
  BY <1>1, <1>2, <1>3 DEF Basic

(* A step of the process of one connection, with the server's end.          *)
LEMMA ConnOnly ==
  ASSUME Basic, NEW k \in Conns,
         Types', UNCHANGED <<stream, addr, lastErrno, round>>, reset \subseteq reset',
         Sound(k)', ConnEnd(k)', end'[<<k, "server">>] # "none",
         \A t \in Tasks \ {k} : doing'[t] = doing[t] /\ fd'[t] = fd[t] /\ io'[t] = io[t],
         \A e \in Ends \ {<<k, "server">>} : end'[e] = end[e]
  PROVE  Basic'
<1>1. CallsSound'
  <2> SUFFICES ASSUME NEW t \in Tasks \ {k} PROVE Sound(t)'
    BY DEF CallsSound
  <2>1. QED BY CallFrame
<1>2. ClientEnds'
  <2> SUFFICES ASSUME NEW d \in Clients PROVE ClientEnd(d)'
    BY DEF ClientEnds
  <2>1. ASSUME NEW j \in 1 .. Addresses PROVE end'[<<<<d, j>>, "client">>] = end[<<<<d, j>>, "client">>]
    BY Constants
  <2>2. ASSUME NEW l \in Conns PROVE end[<<l, "server">>] # "none" => end'[<<l, "server">>] # "none"
    BY Constants
  <2>3. d \in Tasks \ {k}
    BY Constants
  <2>4. QED BY <2>1, <2>2, <2>3, ClientFrame
<1>3. ConnEnds'
  <2> SUFFICES ASSUME NEW l \in Conns, l # k PROVE ConnEnd(l)'
    BY DEF ConnEnds
  <2>1. <<l, "client">> \in Ends \ {<<k, "server">>} /\ <<l, "server">> \in Ends \ {<<k, "server">>}
    BY Constants
  <2>2. l \in Tasks \ {k}
    BY Constants
  <2>3. QED BY <2>1, <2>2, ConnFrame
<1>4. QED
  BY <1>1, <1>2, <1>3 DEF Basic

(* A step of the network or the listener: no process moves.                 *)
LEMMA NoTask ==
  ASSUME Basic, UNCHANGED <<stream, doing, client, task>>, KernelTypes',
         \A c \in Clients : ClientEnd(c)', \A k \in Conns : ConnEnd(k)'
  PROVE  Basic'
<1>1. Types'
  BY DEF Basic, Types, TaskTypes, ClientTypes, client, task
<1>2. CallsSound'
  BY CallFrame DEF CallsSound, task
<1>3. QED
  BY <1>1, <1>2 DEF Basic, ClientEnds, ConnEnds

-----------------------------------------------------------------------------
(* The initial states, and the steps.                                       *)
LEMMA InitBasic == EchoInit => Basic
<1> SUFFICES ASSUME EchoInit PROVE Basic
  OBVIOUS
<1> USE DEF EchoInit, IoInit
<1>1. Types
  <2>1. KernelTypes
    <3>1. << >> \in Seq(Bytes)
      OBVIOUS
    <3>2. QED BY <3>1 DEF KernelTypes
  <2>2. TaskTypes
    BY CallValues DEF TaskTypes
  <2>3. ClientTypes
    <3>1. << >> \in Seq(Bytes)
      OBVIOUS
    <3>2. QED BY <3>1, Constants DEF ClientTypes
  <2>4. QED BY <2>1, <2>2, <2>3 DEF Types
<1>2. CallsSound
  <2> SUFFICES ASSUME NEW t \in Tasks PROVE Sound(t)
    BY DEF CallsSound
  <2>1. io[t] = Idle /\ doing[t] \notin {"read", "write"}
    OBVIOUS
  <2>2. QED BY <2>1, CallValues, Constants DEF Sound
<1>3. ClientEnds
  <2> SUFFICES ASSUME NEW c \in Clients PROVE ClientEnd(c)
    BY DEF ClientEnds
  <2>1. doing[c] = "connect" /\ fd[c] = Nothing /\ addr[c] = 1
    BY Constants
  <2>2. \A i \in 1 .. Addresses : end[<<<<c, i>>, "client">>] = "none"
    BY Constants
  <2>3. QED BY <2>1, <2>2 DEF ClientEnd
<1>4. ConnEnds
  <2> SUFFICES ASSUME NEW k \in Conns PROVE ConnEnd(k)
    BY DEF ConnEnds
  <2>1. doing[k] = "none"
    BY Constants
  <2>2. /\ end[<<k, "client">>] = "none" /\ end[<<k, "server">>] = "none"
        /\ stream[<<k, "client">>] = << >> /\ stream[<<k, "server">>] = << >>
    BY Constants
  <2>3. QED BY <2>1, <2>2 DEF ConnEnd
<1>5. QED
  BY <1>1, <1>2, <1>3, <1>4 DEF Basic

LEMMA UntouchedBasic ==
  ASSUME Basic, UNCHANGED <<network, task, doing, client>>
  PROVE  Basic'
<1>1. UNCHANGED <<stream, end, reset, fd, io, buf, doing, addr, lastErrno, round, reply>>
  BY DEF network, task, client
<1>2. KernelTypes'
  BY <1>1 DEF Basic, Types, KernelTypes
<1>3. ASSUME NEW c \in Clients PROVE ClientEnd(c)'
  BY <1>1, ClientFrame
<1>4. ASSUME NEW k \in Conns PROVE ConnEnd(k)'
  BY <1>1, ConnFrame
<1>5. QED
  BY <1>1, <1>2, <1>3, <1>4, NoTask

LEMMA ShutBasic ==
  ASSUME Basic, Shut, UNCHANGED <<stream, task, doing, client>>
  PROVE  /\ Basic'
         /\ \A k \in Conns : /\ end'[<<k, "client">>] = end[<<k, "client">>]
                             /\ end'[<<k, "server">>] = IF k \in Queued THEN "closed" ELSE end[<<k, "server">>]
<1>1. Queued \subseteq Conns /\ \A k \in Queued : end[<<k, "server">>] = "queued"
  BY DEF Queued
<1>2. /\ end \in [Ends -> {"none", "syn", "open", "queued", "closed"}]
      /\ end' = [e \in Ends |-> IF e[1] \in Queued /\ e[2] = "server" THEN "closed" ELSE end[e]]
      /\ reset' = reset \cup Queued
  BY DEF Basic, Types, KernelTypes, Shut
<1>3. ASSUME NEW k \in Conns
      PROVE  /\ end'[<<k, "client">>] = end[<<k, "client">>]
             /\ end'[<<k, "server">>] = IF k \in Queued THEN "closed" ELSE end[<<k, "server">>]
  BY <1>2, Constants
<1>4. KernelTypes'
  BY <1>1, <1>2 DEF Basic, Types, KernelTypes
<1>5. UNCHANGED <<fd, io, buf, addr, lastErrno, round>>
  BY DEF task, client
<1>6. ASSUME NEW c \in Clients PROVE ClientEnd(c)'
  <2>1. \A i \in 1 .. Addresses : end'[<<<<c, i>>, "client">>] = end[<<<<c, i>>, "client">>]
    BY <1>3, Constants
  <2>2. \A k \in Conns : end[<<k, "server">>] # "none" => end'[<<k, "server">>] # "none"
    BY <1>3
  <2>3. QED BY <1>5, <2>1, <2>2, ClientFrame
<1>7. ASSUME NEW k \in Conns PROVE ConnEnd(k)'
  <2>1. CASE k \in Queued
    <3>1. ConnEnd(k) /\ end[<<k, "server">>] = "queued" /\ end'[<<k, "server">>] = "closed"
          /\ end'[<<k, "client">>] = end[<<k, "client">>]
      BY <1>1, <1>3, <2>1 DEF Basic, ConnEnds
    <3>2. QED BY <1>5, <3>1 DEF ConnEnd
  <2>2. CASE k \notin Queued
    BY <1>2, <1>3, <1>5, <2>2, ConnFrame
  <2>3. QED BY <2>1, <2>2
<1>8. QED
  BY <1>3, <1>4, <1>6, <1>7, NoTask

LEMMA EstablishBasic ==
  ASSUME Basic, NEW k \in Conns, Establish(k)
  PROVE  Basic'
<1>1. /\ end \in [Ends -> {"none", "syn", "open", "queued", "closed"}]
      /\ end[<<k, "client">>] = "syn" /\ UNCHANGED <<stream, reset, fd, io, buf, doing, addr, lastErrno, round>>
  BY DEF Basic, Types, KernelTypes, Establish, task, client
<1>2. /\ end' \in [Ends -> {"none", "syn", "open", "queued", "closed"}]
      /\ end'[<<k, "client">>] = "open" /\ end'[<<k, "server">>] = "queued"
      /\ \A e \in Ends : e # <<k, "client">> /\ e # <<k, "server">> => end'[e] = end[e]
  BY <1>1, Constants DEF Establish
<1>3. KernelTypes'
  BY <1>1, <1>2 DEF Basic, Types, KernelTypes
<1>4. ASSUME NEW l \in Conns, l # k
      PROVE  end'[<<l, "client">>] = end[<<l, "client">>] /\ end'[<<l, "server">>] = end[<<l, "server">>]
  <2>1. <<l, "client">> \in Ends /\ <<l, "server">> \in Ends
    BY Constants
  <2>2. QED BY <1>2, <1>4, <2>1
<1>5. ASSUME NEW c \in Clients PROVE ClientEnd(c)'
  <2>1. ClientEnd(c) /\ Attempt(c) \in Conns /\ Attempt(c)' = Attempt(c)
    BY <1>1, Constants DEF Basic, ClientEnds, Types, ClientTypes, Attempt
  <2>2. \A i \in 1 .. Addresses :
          /\ end'[<<<<c, i>>, "client">>] \in {"syn", "open"} <=> end[<<<<c, i>>, "client">>] \in {"syn", "open"}
          /\ end[<<<<c, i>>, "client">>] \in {"open", "none"} => end'[<<<<c, i>>, "client">>] = end[<<<<c, i>>, "client">>]
    <3> SUFFICES ASSUME NEW i \in 1 .. Addresses
                 PROVE  /\ end'[<<<<c, i>>, "client">>] \in {"syn", "open"} <=> end[<<<<c, i>>, "client">>] \in {"syn", "open"}
                        /\ end[<<<<c, i>>, "client">>] \in {"open", "none"} =>
                             end'[<<<<c, i>>, "client">>] = end[<<<<c, i>>, "client">>]
      OBVIOUS
    <3>1. CASE <<c, i>> = k
      BY <1>1, <1>2, <3>1
    <3>2. CASE <<c, i>> # k
      BY <1>4, <3>2, Constants
    <3>3. QED BY <3>1, <3>2
  <2>3. end[<<Attempt(c), "server">>] # "none" => end'[<<Attempt(c), "server">>] # "none"
    BY <1>2, <1>4, <2>1
  <2>4. addr[c] \in 1 .. Addresses
    BY DEF Basic, Types, ClientTypes
  <2>5. end[<<Attempt(c), "client">>] \in {"syn", "open"} => end'[<<Attempt(c), "client">>] \in {"syn", "open"}
    BY <2>2, <2>4 DEF Attempt
  <2>6. end[<<Attempt(c), "client">>] = "open" => end'[<<Attempt(c), "client">>] = "open"
    BY <2>2, <2>4 DEF Attempt
  <2>7. QED BY <1>1, <2>1, <2>2, <2>3, <2>5, <2>6 DEF ClientEnd
<1>6. ASSUME NEW l \in Conns PROVE ConnEnd(l)'
  <2>1. CASE l = k
    <3>1. ConnEnd(k)
      BY DEF Basic, ConnEnds
    <3>2. end[<<k, "server">>] = "none" /\ doing[k] = "none"
      BY <1>1, <3>1 DEF ConnEnd
    <3>3. QED BY <1>1, <1>2, <2>1, <3>1, <3>2 DEF ConnEnd
  <2>2. CASE l # k
    BY <1>1, <1>4, <2>2, ConnFrame
  <2>3. QED BY <2>1, <2>2
<1>7. QED
  BY <1>1, <1>3, <1>5, <1>6, NoTask DEF task, client, Establish

LEMMA RefuseBasic ==
  ASSUME Basic, NEW k \in Conns, Refuse(k)
  PROVE  Basic'
<1>1. /\ end \in [Ends -> {"none", "syn", "open", "queued", "closed"}] /\ reset \subseteq Conns
      /\ end[<<k, "client">>] = "syn" /\ UNCHANGED <<stream, fd, io, buf, doing, addr, lastErrno, round>>
      /\ reset' = reset \cup {k}
  BY DEF Basic, Types, KernelTypes, Refuse, task, client
<1>2. /\ end' \in [Ends -> {"none", "syn", "open", "queued", "closed"}]
      /\ end'[<<k, "client">>] = "open"
      /\ \A e \in Ends : e # <<k, "client">> => end'[e] = end[e]
  BY <1>1, Constants DEF Refuse
<1>3. KernelTypes'
  BY <1>1, <1>2 DEF Basic, Types, KernelTypes
<1>4. ASSUME NEW l \in Conns
      PROVE  end'[<<l, "server">>] = end[<<l, "server">>] /\ (l # k => end'[<<l, "client">>] = end[<<l, "client">>])
  <2>1. <<l, "client">> \in Ends /\ <<l, "server">> \in Ends
    BY Constants
  <2>2. QED BY <1>2, <2>1
<1>5. ASSUME NEW c \in Clients PROVE ClientEnd(c)'
  <2>1. ClientEnd(c) /\ Attempt(c) \in Conns /\ Attempt(c)' = Attempt(c)
    BY <1>1, Constants DEF Basic, ClientEnds, Types, ClientTypes, Attempt
  <2>2. \A i \in 1 .. Addresses :
          /\ end'[<<<<c, i>>, "client">>] \in {"syn", "open"} <=> end[<<<<c, i>>, "client">>] \in {"syn", "open"}
          /\ end[<<<<c, i>>, "client">>] \in {"open", "none"} => end'[<<<<c, i>>, "client">>] = end[<<<<c, i>>, "client">>]
    <3> SUFFICES ASSUME NEW i \in 1 .. Addresses
                 PROVE  /\ end'[<<<<c, i>>, "client">>] \in {"syn", "open"} <=> end[<<<<c, i>>, "client">>] \in {"syn", "open"}
                        /\ end[<<<<c, i>>, "client">>] \in {"open", "none"} =>
                             end'[<<<<c, i>>, "client">>] = end[<<<<c, i>>, "client">>]
      OBVIOUS
    <3>1. CASE <<c, i>> = k
      BY <1>1, <1>2, <3>1
    <3>2. CASE <<c, i>> # k
      BY <1>4, <3>2, Constants
    <3>3. QED BY <3>1, <3>2
  <2>3. end'[<<Attempt(c), "server">>] = end[<<Attempt(c), "server">>]
    BY <1>4, <2>1
  <2>4. addr[c] \in 1 .. Addresses
    BY DEF Basic, Types, ClientTypes
  <2>5. end[<<Attempt(c), "client">>] \in {"syn", "open"} => end'[<<Attempt(c), "client">>] \in {"syn", "open"}
    BY <2>2, <2>4 DEF Attempt
  <2>6. end[<<Attempt(c), "client">>] = "open" => end'[<<Attempt(c), "client">>] = "open"
    BY <2>2, <2>4 DEF Attempt
  <2>7. QED BY <1>1, <2>1, <2>2, <2>3, <2>5, <2>6 DEF ClientEnd
<1>6. ASSUME NEW l \in Conns PROVE ConnEnd(l)'
  <2>1. CASE l = k
    <3>1. ConnEnd(k)
      BY DEF Basic, ConnEnds
    <3>2. end'[<<k, "server">>] = end[<<k, "server">>]
      BY <1>4
    <3>3. QED BY <1>1, <1>2, <2>1, <3>1, <3>2 DEF ConnEnd
  <2>2. CASE l # k
    <3>1. \A side \in {"client", "server"} : end'[<<l, side>>] = end[<<l, side>>]
      BY <1>4, <2>2
    <3>2. QED BY <1>1, <3>1, ConnFrame
  <2>3. QED BY <2>1, <2>2
<1>7. QED
  BY <1>1, <1>3, <1>5, <1>6, NoTask DEF task, client, Refuse

LEMMA BreakBasic ==
  ASSUME Basic, NEW k \in Conns, Break(k)
  PROVE  Basic'
<1>1. UNCHANGED <<stream, end, fd, io, buf, doing, addr, lastErrno, round>> /\ reset' = reset \cup {k}
      /\ UNCHANGED <<task, client>>
  BY DEF Break, Reset, task, client
<1>2. KernelTypes'
  BY <1>1 DEF Basic, Types, KernelTypes
<1>3. ASSUME NEW c \in Clients PROVE ClientEnd(c)'
  BY <1>1, ClientFrame
<1>4. ASSUME NEW l \in Conns PROVE ConnEnd(l)'
  BY <1>1, ConnFrame
<1>5. QED
  BY <1>1, <1>2, <1>3, <1>4, NoTask

LEMMA AcceptBasic ==
  ASSUME Basic, NEW k \in Conns, Accept(k)
  PROVE  Basic'
<1>1. /\ end \in [Ends -> {"none", "syn", "open", "queued", "closed"}] /\ fd \in [Tasks -> Ends \cup {Nothing}]
      /\ end[<<k, "server">>] = "queued"
      /\ UNCHANGED <<stream, reset, io, buf, addr, lastErrno, round, reply>>
      /\ k \in Tasks /\ <<k, "server">> \in Ends /\ <<k, "client">> \in Ends /\ <<k, "client">> # <<k, "server">>
  BY Constants DEF Basic, Types, KernelTypes, TaskTypes, Accept, client, Queued
<1>2. /\ end' \in [Ends -> {"none", "syn", "open", "queued", "closed"}]
      /\ end'[<<k, "server">>] = "open" /\ \A e \in Ends \ {<<k, "server">>} : end'[e] = end[e]
  BY <1>1 DEF Accept
<1>3. /\ fd' \in [Tasks -> Ends \cup {Nothing}] /\ fd'[k] = <<k, "server">>
      /\ \A t \in Tasks \ {k} : fd'[t] = fd[t]
  BY <1>1 DEF Accept
<1>4. ConnEnd(k) /\ doing[k] = "none"
  BY <1>1 DEF Basic, ConnEnds, ConnEnd
<1>5. /\ doing' = [doing EXCEPT ![k] = "spawned"] /\ doing'[k] = "spawned"
      /\ \A t \in Tasks \ {k} : doing'[t] = doing[t]
  BY <1>1 DEF Accept, Basic, Types, TaskTypes
<1>6. Types'
  BY <1>1, <1>2, <1>3, <1>5 DEF Basic, Types, KernelTypes, TaskTypes, ClientTypes
<1>7. Sound(k)'
  <2>1. Sound(k) /\ k \notin Clients
    BY <1>1, Constants DEF Basic, CallsSound
  <2>2. QED BY <1>1, <1>4, <1>5, <2>1 DEF Sound
<1>8. ConnEnd(k)'
  BY <1>1, <1>2, <1>3, <1>4, <1>5 DEF ConnEnd
<1>9. QED
  BY <1>1, <1>2, <1>3, <1>5, <1>6, <1>7, <1>8, ConnOnly

(* ReadSome and WriteBack.                                                  *)
LEMMA ServesBasic ==
  ASSUME Basic, NEW k \in Conns, doing[k] \in {"spawned", "read", "write"},
         NEW way \in {"read", "write"}, NEW size \in 0 .. Size,
         io' = [io EXCEPT ![k] = Called(way, size)], doing' = [doing EXCEPT ![k] = way],
         buf' \in [Tasks -> [1 .. Size -> Bytes]], UNCHANGED <<network, fd, client>>
  PROVE  Basic'
<1>1. /\ k \in Tasks /\ k \notin Clients /\ io \in [Tasks -> Calls]
      /\ UNCHANGED <<stream, end, reset, fd, addr, lastErrno, round, reply>>
      /\ size \in Nat /\ size <= Size
  BY Constants DEF Basic, Types, TaskTypes, network, client
<1>2. /\ io' \in [Tasks -> Calls] /\ io'[k] = Called(way, size) /\ \A t \in Tasks \ {k} : io'[t] = io[t]
  BY <1>1, CalledValues
<1>3. doing'[k] = way /\ \A t \in Tasks \ {k} : doing'[t] = doing[t]
  BY <1>1 DEF Basic, Types, TaskTypes
<1>4. Types'
  <2>1. TaskTypes'
    BY <1>1, <1>2 DEF Basic, Types, TaskTypes
  <2>2. QED BY <1>1, <2>1 DEF Basic, Types, KernelTypes, ClientTypes
<1>5. Sound(k)'
  BY <1>1, <1>2, <1>3, CalledValues DEF Sound
<1>6. ConnEnd(k) /\ end[<<k, "server">>] = "open"
  BY DEF Basic, ConnEnds, ConnEnd
<1>7. ConnEnd(k)'
  BY <1>1, <1>3, <1>6 DEF ConnEnd
<1>8. QED
  BY <1>1, <1>2, <1>3, <1>4, <1>5, <1>6, <1>7, ConnOnly

LEMMA ReadSomeBasic ==
  ASSUME Basic, NEW k \in Conns, ReadSome(k)
  PROVE  Basic'
<1>1. buf' \in [Tasks -> [1 .. Size -> Bytes]]
  BY CallValues DEF Basic, Types, TaskTypes, ReadSome
<1>2. Size \in 0 .. Size /\ doing[k] \in {"spawned", "read", "write"}
  BY Constants DEF ReadSome
<1>3. /\ io' = [io EXCEPT ![k] = Called("read", Size)] /\ doing' = [doing EXCEPT ![k] = "read"]
      /\ UNCHANGED <<network, fd, client>>
  BY DEF ReadSome
<1>4. QED
  BY <1>1, <1>2, <1>3, ServesBasic

LEMMA WriteBackBasic ==
  ASSUME Basic, NEW k \in Conns, WriteBack(k)
  PROVE  Basic'
<1>1. buf' \in [Tasks -> [1 .. Size -> Bytes]]
  BY DEF Basic, Types, TaskTypes, WriteBack
<1>2. io[k].moved \in 0 .. Size
  <2>1. Sound(k) /\ io[k] \in Calls
    BY Constants DEF Basic, Types, TaskTypes, CallsSound
  <2>2. QED BY <2>1, Constants DEF Sound, Calls
<1>3. QED
  BY <1>1, <1>2, ServesBasic DEF WriteBack

-----------------------------------------------------------------------------
(* The end of a process.                                                    *)
LEMMA EndBasic ==
  ASSUME Basic, NEW t \in Tasks, End(t), UNCHANGED client,
         doing[t] \in {"connecting", "failed", "spawned", "read", "write"}
  PROVE  /\ Basic' /\ doing'[t] = "ended"
         /\ \A u \in Tasks \ {t} : doing'[u] = doing[u] /\ io'[u] = io[u] /\ buf'[u] = buf[u]
         /\ UNCHANGED stream
         /\ \A e \in Ends : end'[e] = IF e = fd[t] THEN "closed" ELSE end[e]
<1>1. /\ end \in [Ends -> {"none", "syn", "open", "queued", "closed"}] /\ fd \in [Tasks -> Ends \cup {Nothing}]
      /\ io \in [Tasks -> Calls] /\ buf \in [Tasks -> [1 .. Size -> Bytes]] /\ reset \subseteq Conns
      /\ UNCHANGED <<stream, addr, lastErrno, round, reply>>
  BY DEF Basic, Types, KernelTypes, TaskTypes, End, client
<1>2. /\ end' \in [Ends -> {"none", "syn", "open", "queued", "closed"}]
      /\ \A e \in Ends : end'[e] = IF e = fd[t] THEN "closed" ELSE end[e]
      /\ reset \subseteq reset' /\ reset' \subseteq Conns
  <2>1. CASE fd[t] = Nothing
    <3>1. end' = end /\ reset' = reset
      BY <2>1 DEF End
    <3>2. QED BY <1>1, <2>1, <3>1, Constants
  <2>2. CASE fd[t] # Nothing
    <3>1. fd[t] \in Ends /\ fd[t][1] \in Conns /\ Closing(fd[t])
      BY <1>1, <2>2, Constants DEF End
    <3>2. QED BY <1>1, <3>1 DEF Closing
  <2>3. QED BY <2>1, <2>2
<1>3. /\ fd' \in [Tasks -> Ends \cup {Nothing}] /\ fd'[t] = Nothing /\ \A u \in Tasks \ {t} : fd'[u] = fd[u]
  BY <1>1 DEF End
<1>4. /\ io' \in [Tasks -> Calls] /\ io'[t] = Idle /\ \A u \in Tasks \ {t} : io'[u] = io[u]
  BY <1>1, CallValues DEF End
<1>5. /\ buf' \in [Tasks -> [1 .. Size -> Bytes]] /\ \A u \in Tasks \ {t} : buf'[u] = buf[u]
  BY <1>1, CallValues DEF End
<1>6. /\ doing' = [doing EXCEPT ![t] = "ended"] /\ doing'[t] = "ended"
      /\ \A u \in Tasks \ {t} : doing'[u] = doing[u]
  BY DEF End, Basic, Types, TaskTypes
<1>7. Types'
  <2>1. KernelTypes'
    BY <1>1, <1>2 DEF Basic, Types, KernelTypes
  <2>2. TaskTypes'
    BY <1>3, <1>4, <1>5, <1>6 DEF Basic, Types, TaskTypes
  <2>3. QED BY <1>1, <2>1, <2>2 DEF Basic, Types, ClientTypes
<1>8. Sound(t)'
  BY <1>4, <1>6, CallValues, Constants DEF Sound
<1>9. Basic'
  <2>1. CASE t \in Conns
    <3>1. ConnEnd(t) /\ fd[t] = <<t, "server">> /\ t \notin Clients /\ <<t, "server">> \in Ends /\ <<t, "client">> \in Ends
      <4>1. ConnEnd(t) /\ t \notin Clients /\ <<t, "server">> \in Ends /\ <<t, "client">> \in Ends
        BY <2>1, Constants DEF Basic, ConnEnds
      <4>2. QED BY <4>1 DEF ConnEnd
    <3>2. end'[<<t, "server">>] = "closed" /\ end'[<<t, "client">>] = end[<<t, "client">>]
          /\ \A e \in Ends \ {<<t, "server">>} : end'[e] = end[e]
      BY <1>2, <3>1
    <3>3. end[<<t, "server">>] = "open" \/ doing[t] \in {"connecting", "failed"}
      BY <3>1 DEF ConnEnd
    <3>4. ConnEnd(t)'
      BY <1>1, <1>2, <1>6, <3>1, <3>2, <3>3 DEF ConnEnd
    <3>5. QED BY <1>1, <1>2, <1>3, <1>4, <1>6, <1>7, <1>8, <2>1, <3>2, <3>4, ConnOnly
  <2>2. CASE t \in Clients
    <3> PICK a \in 1 .. Addresses : a = addr[t]
      BY <2>2 DEF Basic, Types, ClientTypes
    <3>1. /\ ClientEnd(t) /\ Attempt(t) = <<t, a>> /\ <<t, a>> \in Conns
          /\ addr[t] = a /\ addr'[t] = a /\ Attempt(t)' = <<t, a>>
      BY <1>1, <2>2, Constants DEF Basic, ClientEnds, Attempt
    <3>2. fd[t] = <<Attempt(t), "client">> \/ fd[t] = Nothing
      BY <3>1 DEF ClientEnd
    <3>3. \A e \in Ends \ {<<<<t, a>>, "client">>} : end'[e] = end[e]
      BY <1>2, <3>1, <3>2, Constants
    <3>4. ASSUME NEW i \in 1 .. Addresses
          PROVE  /\ end'[<<<<t, i>>, "client">>] \notin {"syn", "open"}
                 /\ end[<<<<t, i>>, "client">>] = "none" => end'[<<<<t, i>>, "client">>] \in {"none", "closed"}
                 /\ i > addr[t] => end'[<<<<t, i>>, "client">>] = end[<<<<t, i>>, "client">>]
      <4>1. <<<<t, i>>, "client">> \in Ends
        BY <2>2, Constants
      <4>2. end[<<<<t, i>>, "client">>] \in {"syn", "open"} => <<<<t, i>>, "client">> = fd[t]
        BY <3>1 DEF ClientEnd
      <4>3. i > addr[t] => <<<<t, i>>, "client">> # <<<<t, a>>, "client">>
        BY <3>1
      <4>4. QED BY <1>2, <3>3, <4>1, <4>2, <4>3
    <3>5. ClientEnd(t)'
      BY <1>1, <1>3, <1>6, <2>2, <3>1, <3>4 DEF ClientEnd
    <3>6. ConnEnd(<<t, a>>) /\ <<<<t, a>>, "client">> \in Ends /\ <<<<t, a>>, "server">> \in Ends
          /\ <<t, a>> \in Tasks \ {t}
      BY <2>2, <3>1, Constants DEF Basic, ConnEnds
    <3>7. /\ end'[<<<<t, a>>, "server">>] = end[<<<<t, a>>, "server">>]
          /\ end'[<<<<t, a>>, "client">>] \in {end[<<<<t, a>>, "client">>], "closed"}
      BY <1>2, <3>3, <3>6
    <3>8. ConnEnd(<<t, a>>)'
      BY <1>1, <1>2, <1>3, <1>6, <3>6, <3>7 DEF ConnEnd
    <3>9. QED
      BY <1>1, <1>2, <1>3, <1>4, <1>6, <1>7, <1>8, <2>2, <3>1, <3>3, <3>5, <3>8, ClientOnly
  <2>3. QED BY <2>1, <2>2, Constants
<1>10. QED
  BY <1>1, <1>2, <1>4, <1>5, <1>6, <1>9

-----------------------------------------------------------------------------
(* connect().                                                               *)
LEMMA ConnectBasic ==
  ASSUME Basic, NEW c \in Clients, Connect(c)
  PROVE  /\ Basic' /\ end[<<Attempt(c), "server">>] = "none"
         /\ doing'[c] = "connecting" /\ \A u \in Tasks \ {c} : doing'[u] = doing[u]
         /\ \A k \in Conns : end'[<<k, "server">>] = end[<<k, "server">>]
<1> PICK a \in 1 .. Addresses : a = addr[c]
  BY DEF Basic, Types, ClientTypes
<1>1. /\ ClientEnd(c) /\ Attempt(c) = <<c, a>> /\ <<c, a>> \in Conns /\ c \in Tasks /\ c \notin Conns
      /\ addr[c] = a /\ addr'[c] = a /\ Attempt(c)' = <<c, a>>
      /\ <<<<c, a>>, "client">> \in Ends /\ <<<<c, a>>, "server">> \in Ends
  BY Constants DEF Basic, ClientEnds, Attempt, Connect, client
<1>2. /\ end \in [Ends -> {"none", "syn", "open", "queued", "closed"}] /\ fd \in [Tasks -> Ends \cup {Nothing}]
      /\ doing[c] = "connect" /\ UNCHANGED <<stream, reset, io, buf, addr, lastErrno, round, reply>>
  BY DEF Basic, Types, KernelTypes, TaskTypes, Connect, client
<1>3. /\ fd' \in [Tasks -> Ends \cup {Nothing}] /\ fd'[c] = <<<<c, a>>, "client">>
      /\ \A u \in Tasks \ {c} : fd'[u] = fd[u]
  BY <1>1, <1>2 DEF Connect
<1>4. /\ end' \in [Ends -> {"none", "syn", "open", "queued", "closed"}]
      /\ end'[<<<<c, a>>, "client">>] = "syn"
      /\ \A e \in Ends \ {<<<<c, a>>, "client">>} : end'[e] = end[e]
  BY <1>1, <1>2 DEF Connect
<1>5. /\ doing' = [doing EXCEPT ![c] = "connecting"] /\ doing'[c] = "connecting"
      /\ \A u \in Tasks \ {c} : doing'[u] = doing[u]
  BY <1>1 DEF Basic, Types, TaskTypes, Connect
<1>6. Types'
  <2>1. KernelTypes' /\ TaskTypes'
    BY <1>2, <1>3, <1>4, <1>5 DEF Basic, Types, KernelTypes, TaskTypes
  <2>2. QED BY <1>2, <2>1 DEF Basic, Types, ClientTypes
<1>7. Sound(c)'
  <2>1. Sound(c)
    BY <1>1 DEF Basic, CallsSound
  <2>2. QED BY <1>2, <1>5, <2>1 DEF Sound
<1>8. \A k \in Conns : end'[<<k, "server">>] = end[<<k, "server">>]
  <2> SUFFICES ASSUME NEW k \in Conns PROVE end'[<<k, "server">>] = end[<<k, "server">>]
    OBVIOUS
  <2>1. <<k, "server">> \in Ends \ {<<<<c, a>>, "client">>}
    BY Constants
  <2>2. QED BY <1>4, <2>1
<1>9. end[<<<<c, a>>, "client">>] = "none" /\ end[<<<<c, a>>, "server">>] = "none" /\ ConnEnd(<<c, a>>)
  <2>1. end[<<<<c, a>>, "client">>] = "none"
    BY <1>1, <1>2 DEF ClientEnd
  <2>2. ConnEnd(<<c, a>>)
    BY <1>1 DEF Basic, ConnEnds
  <2>3. QED BY <2>1, <2>2 DEF ConnEnd
<1>10. ConnEnd(<<c, a>>)'
  <2>1. <<c, a>> \in Tasks \ {c}
    BY <1>1, Constants
  <2>2. end'[<<<<c, a>>, "server">>] = "none"
    BY <1>1, <1>8, <1>9
  <2>3. QED BY <1>2, <1>3, <1>4, <1>5, <1>9, <2>1, <2>2 DEF ConnEnd
<1>11. ClientEnd(c)'
  <2>1. ASSUME NEW i \in 1 .. Addresses, i # a
        PROVE  end'[<<<<c, i>>, "client">>] = end[<<<<c, i>>, "client">>] /\ end[<<<<c, i>>, "client">>] \notin {"syn", "open"}
    <3>1. <<<<c, i>>, "client">> \in Ends \ {<<<<c, a>>, "client">>}
      BY <2>1, Constants
    <3>2. fd[c] = Nothing /\ <<<<c, i>>, "client">> # Nothing
      BY <1>1, <1>2, <3>1, Constants DEF ClientEnd
    <3>3. QED BY <1>1, <1>4, <3>1, <3>2 DEF ClientEnd
  <2>2. QED BY <1>1, <1>2, <1>3, <1>4, <1>5, <2>1 DEF ClientEnd
<1>12. QED
  BY <1>1, <1>2, <1>3, <1>4, <1>5, <1>6, <1>7, <1>8, <1>9, <1>10, <1>11, ClientOnly

(* The next address is one that the client has not tried.                   *)
LEMMA NextBasic ==
  ASSUME Basic, NEW c \in Clients, NextAddress(c), doing[c] \in {"connect", "connecting"},
         doing[c] = "connect" => end[<<Attempt(c), "client">>] = "none",
         NEW a \in 1 .. Addresses, addr[c] = a,
         end' \in [Ends -> {"none", "syn", "open", "queued", "closed"}],
         end'[<<<<c, a>>, "client">>] \in {"none", "closed"},
         end[<<<<c, a>>, "client">>] # "none" => end'[<<<<c, a>>, "client">>] = "closed",
         \A e \in Ends \ {<<<<c, a>>, "client">>} : end'[e] = end[e],
         reset \subseteq reset', reset' \subseteq Conns,
         fd' = [fd EXCEPT ![c] = Nothing], UNCHANGED <<stream, io, buf, round, reply>>
  PROVE  /\ Basic'
         /\ doing'[c] \in {"failed", "connect"} /\ \A u \in Tasks \ {c} : doing'[u] = doing[u]
         /\ \A d \in Clients \ {c} : addr'[d] = addr[d]
<1>1. /\ ClientEnd(c) /\ Attempt(c) = <<c, a>> /\ <<c, a>> \in Conns /\ c \in Tasks /\ c \notin Conns
      /\ <<<<c, a>>, "client">> \in Ends /\ <<<<c, a>>, "server">> \in Ends
  BY Constants DEF Basic, ClientEnds, Attempt
<1>2. /\ lastErrno' \in [Clients -> BOOLEAN] /\ lastErrno'[c]
      /\ \A d \in Clients \ {c} : lastErrno'[d] = lastErrno[d]
  BY DEF NextAddress, Basic, Types, ClientTypes
<1>3. /\ addr' \in [Clients -> 1 .. Addresses] /\ \A d \in Clients \ {c} : addr'[d] = addr[d]
      /\ \/ doing'[c] = "failed" /\ addr'[c] = a
         \/ doing'[c] = "connect" /\ addr'[c] = a + 1
  <2>1. c \in Tasks /\ doing \in [Tasks -> {"connect", "connecting", "failed", "loop", "none", "spawned",
                          "read", "write", "ended"}] /\ addr \in [Clients -> 1 .. Addresses] /\ Addresses \in Nat
    BY <1>1, Constants DEF Basic, Types, TaskTypes, ClientTypes
  <2>2. CASE addr[c] = Addresses
    BY <2>1, <2>2 DEF NextAddress
  <2>3. CASE addr[c] # Addresses
    <3>1. addr' = [addr EXCEPT ![c] = a + 1] /\ a + 1 \in 1 .. Addresses
      BY <2>1, <2>3 DEF NextAddress
    <3>2. doing'[c] = "connect"
      BY <2>1, <2>3 DEF NextAddress
    <3>3. QED BY <2>1, <3>1, <3>2
  <2>4. QED BY <2>2, <2>3
<1>4. /\ doing' \in [Tasks -> {"connect", "connecting", "failed", "loop", "none", "spawned",
                          "read", "write", "ended"}]
      /\ \A u \in Tasks \ {c} : doing'[u] = doing[u]
  BY <1>1 DEF NextAddress, Basic, Types, TaskTypes
<1>5. /\ fd' \in [Tasks -> Ends \cup {Nothing}] /\ fd'[c] = Nothing /\ \A u \in Tasks \ {c} : fd'[u] = fd[u]
  BY <1>1 DEF Basic, Types, TaskTypes
<1>6. Types'
  <2>1. KernelTypes' /\ TaskTypes'
    BY <1>4, <1>5 DEF Basic, Types, KernelTypes, TaskTypes
  <2>2. QED BY <1>2, <1>3, <2>1 DEF Basic, Types, ClientTypes
<1>7. Sound(c)'
  <2>1. Sound(c)
    BY <1>1 DEF Basic, CallsSound
  <2>2. QED BY <1>3, <2>1 DEF Sound
<1>8. ConnEnd(<<c, a>>)'
  <2>1. ConnEnd(<<c, a>>) /\ <<c, a>> \in Tasks \ {c}
    BY <1>1, Constants DEF Basic, ConnEnds
  <2>2. end'[<<<<c, a>>, "server">>] = end[<<<<c, a>>, "server">>]
    BY <1>1
  <2>3. end[<<<<c, a>>, "client">>] = "none" => end[<<<<c, a>>, "server">>] = "none"
    BY <2>1 DEF ConnEnd
  <2>4. QED BY <1>4, <1>5, <2>1, <2>2, <2>3 DEF ConnEnd
<1>9. ClientEnd(c)'
  <2>1. ASSUME NEW i \in 1 .. Addresses
        PROVE  /\ end'[<<<<c, i>>, "client">>] \notin {"syn", "open"}
               /\ i > a => end'[<<<<c, i>>, "client">>] = "none"
    <3>1. CASE i = a
      BY <3>1
    <3>2. CASE i # a
      <4>1. <<<<c, i>>, "client">> \in Ends \ {<<<<c, a>>, "client">>}
        BY <3>2, Constants
      <4>2. fd[c] \in {<<<<c, a>>, "client">>, Nothing} /\ <<<<c, i>>, "client">> # Nothing
        BY <1>1, <4>1, Constants DEF ClientEnd
      <4>3. QED BY <1>1, <4>1, <4>2 DEF ClientEnd
    <3>3. QED BY <3>1, <3>2
  <2>2. addr'[c] \in 1 .. Addresses /\ Addresses \in Nat /\ addr'[c] >= a
    BY <1>3, Constants
  <2>3. \A i \in 1 .. Addresses :
           i > addr'[c] \/ (i = addr'[c] /\ doing'[c] = "connect") => end'[<<<<c, i>>, "client">>] = "none"
    BY <1>3, <2>1, <2>2
  <2>4. QED BY <1>2, <1>3, <1>5, <2>1, <2>3 DEF ClientEnd
<1>10. QED
  BY <1>1, <1>2, <1>3, <1>4, <1>5, <1>6, <1>7, <1>8, <1>9, ClientOnly

LEMMA ConnectFailsBasic ==
  ASSUME Basic, NEW c \in Clients, ConnectFails(c)
  PROVE  /\ Basic'
         /\ doing'[c] \in {"failed", "connect"} /\ \A u \in Tasks \ {c} : doing'[u] = doing[u]
         /\ \A d \in Clients \ {c} : addr'[d] = addr[d]
<1> PICK a \in 1 .. Addresses : a = addr[c]
  BY DEF Basic, Types, ClientTypes
<1>1. /\ ClientEnd(c) /\ Attempt(c) = <<c, a>> /\ c \in Tasks /\ doing[c] = "connect"
      /\ UNCHANGED <<stream, end, reset, fd, io, buf, round, reply>> /\ NextAddress(c)
  BY Constants DEF Basic, ClientEnds, Attempt, ConnectFails, network, task
<1>2. end[<<<<c, a>>, "client">>] = "none" /\ fd[c] = Nothing
  BY <1>1 DEF ClientEnd
<1>3. /\ end \in [Ends -> {"none", "syn", "open", "queued", "closed"}] /\ reset \subseteq Conns
      /\ fd \in [Tasks -> Ends \cup {Nothing}]
  BY DEF Basic, Types, KernelTypes, TaskTypes
<1>4. fd' = [fd EXCEPT ![c] = Nothing]
  BY <1>1, <1>2, <1>3
<1>5. QED
  BY <1>1, <1>2, <1>3, <1>4, NextBasic

(* A step of a client that has its connection, and keeps it.                *)
LEMMA ClientRuns ==
  ASSUME Basic, NEW c \in Clients, doing[c] \in {"connecting", "loop", "write", "read"},
         NEW next \in {"loop", "write", "read"}, doing' = [doing EXCEPT ![c] = next],
         UNCHANGED <<network, fd, addr>>,
         end[<<Attempt(c), "client">>] = "open", end[<<Attempt(c), "server">>] # "none",
         lastErrno' \in [Clients -> BOOLEAN], ~lastErrno'[c],
         \A d \in Clients \ {c} : lastErrno'[d] = lastErrno[d] /\ round'[d] = round[d],
         round' \in [Clients -> 0 .. 2], next # "loop" => round'[c] # 0,
         reply' \in [Clients -> Seq(Bytes)], buf' \in [Tasks -> [1 .. Size -> Bytes]],
         io' \in [Tasks -> Calls], \A u \in Tasks \ {c} : io'[u] = io[u], Sound(c)'
  PROVE  Basic' /\ doing'[c] = next /\ \A u \in Tasks \ {c} : doing'[u] = doing[u]
<1> PICK a \in 1 .. Addresses : a = addr[c]
  BY DEF Basic, Types, ClientTypes
<1>1. /\ ClientEnd(c) /\ Attempt(c) = <<c, a>> /\ <<c, a>> \in Conns /\ c \in Tasks
      /\ Attempt(c)' = Attempt(c) /\ UNCHANGED <<stream, end, reset>>
      /\ ConnEnd(<<c, a>>) /\ <<c, a>> \in Tasks \ {c}
  BY Constants DEF Basic, ClientEnds, ConnEnds, Attempt, network
<1>2. doing'[c] = next /\ \A u \in Tasks \ {c} : doing'[u] = doing[u]
  BY <1>1 DEF Basic, Types, TaskTypes
<1>3. Types'
  <2>1. KernelTypes' /\ TaskTypes'
    BY <1>1 DEF Basic, Types, KernelTypes, TaskTypes
  <2>2. QED BY <2>1 DEF Basic, Types, ClientTypes
<1>4. ClientEnd(c)'
  BY <1>1, <1>2 DEF ClientEnd
<1>5. ConnEnd(<<c, a>>)'
  BY <1>1, <1>2 DEF ConnEnd
<1>6. QED
  BY <1>1, <1>2, <1>3, <1>4, <1>5, ClientOnly

LEMMA ConnectedBasic ==
  ASSUME Basic, NEW c \in Clients, Connected(c)
  PROVE  /\ Basic' /\ \A u \in Tasks \ {c} : doing'[u] = doing[u]
         /\ \A d \in Clients \ {c} : addr'[d] = addr[d]
         /\ doing[c] = "connecting" /\ UNCHANGED <<stream, io, buf, round, reply>>
         /\ \A k \in Conns : end'[<<k, "server">>] = end[<<k, "server">>]
         /\ \/ doing'[c] \in {"failed", "connect"}
            \/ doing'[c] = "loop" /\ UNCHANGED addr
<1> PICK a \in 1 .. Addresses : a = addr[c]
  BY DEF Basic, Types, ClientTypes
<1>1. /\ ClientEnd(c) /\ Attempt(c) = <<c, a>> /\ <<c, a>> \in Conns /\ c \in Tasks /\ doing[c] = "connecting"
      /\ UNCHANGED <<stream, io, buf, round, reply>> /\ ConnEnd(<<c, a>>)
      /\ <<<<c, a>>, "client">> \in Ends
  BY Constants DEF Basic, ClientEnds, ConnEnds, Attempt, Connected
<1>2. /\ fd[c] = <<<<c, a>>, "client">> /\ end[<<<<c, a>>, "client">>] = "open"
  BY <1>1 DEF ClientEnd, Connected
<1>3. /\ end \in [Ends -> {"none", "syn", "open", "queued", "closed"}] /\ reset \subseteq Conns
      /\ fd \in [Tasks -> Ends \cup {Nothing}] /\ io \in [Tasks -> Calls] /\ buf \in [Tasks -> [1 .. Size -> Bytes]]
      /\ lastErrno \in [Clients -> BOOLEAN] /\ round \in [Clients -> 0 .. 2] /\ reply \in [Clients -> Seq(Bytes)]
  BY DEF Basic, Types, KernelTypes, TaskTypes, ClientTypes
<1>4. CASE Failed(c)
  <2>1. NextAddress(c) /\ Closing(<<<<c, a>>, "client">>) /\ fd' = [fd EXCEPT ![c] = Nothing]
    BY <1>2, <1>4 DEF Connected
  <2>2. /\ end' \in [Ends -> {"none", "syn", "open", "queued", "closed"}]
        /\ end'[<<<<c, a>>, "client">>] = "closed"
        /\ \A e \in Ends \ {<<<<c, a>>, "client">>} : end'[e] = end[e]
    BY <1>1, <1>3, <2>1 DEF Closing
  <2>3. reset \subseteq reset' /\ reset' \subseteq Conns
    BY <1>1, <1>3, <2>1 DEF Closing
  <2>4. \A k \in Conns : end'[<<k, "server">>] = end[<<k, "server">>]
    <3> SUFFICES ASSUME NEW k \in Conns PROVE end'[<<k, "server">>] = end[<<k, "server">>]
      OBVIOUS
    <3>1. <<k, "server">> \in Ends \ {<<<<c, a>>, "client">>}
      BY Constants
    <3>2. QED BY <2>2, <3>1
  <2>5. /\ Basic' /\ doing'[c] \in {"failed", "connect"} /\ \A u \in Tasks \ {c} : doing'[u] = doing[u]
        /\ \A d \in Clients \ {c} : addr'[d] = addr[d]
    BY <1>1, <2>1, <2>2, <2>3, NextBasic
  <2>6. QED BY <1>1, <2>4, <2>5
<1>5. CASE ~Failed(c)
  <2>1. <<c, a>> \notin reset
    BY <1>2, <1>5 DEF Failed
  <2>2. end[<<<<c, a>>, "server">>] # "none"
    BY <1>1, <1>2, <2>1 DEF ConnEnd
  <2>3. /\ doing' = [doing EXCEPT ![c] = "loop"] /\ lastErrno' = [lastErrno EXCEPT ![c] = FALSE]
        /\ UNCHANGED <<addr, end, reset, fd>>
    BY <1>5 DEF Connected
  <2>4. Sound(c)'
    <3>1. Sound(c) /\ doing'[c] = "loop"
      BY <1>1, <2>3 DEF Basic, CallsSound, Types, TaskTypes
    <3>2. QED BY <1>1, <3>1 DEF Sound
  <2>5. lastErrno' \in [Clients -> BOOLEAN] /\ ~lastErrno'[c] /\ \A d \in Clients \ {c} : lastErrno'[d] = lastErrno[d]
    BY <1>3, <2>3
  <2>6. UNCHANGED <<network, fd, addr>> /\ "loop" \in {"loop", "write", "read"}
    BY <1>1, <2>3 DEF network
  <2>7. Basic' /\ doing'[c] = "loop" /\ \A u \in Tasks \ {c} : doing'[u] = doing[u]
    BY <1>1, <1>2, <1>3, <2>2, <2>3, <2>4, <2>5, <2>6, ClientRuns
  <2>8. QED BY <1>1, <2>3, <2>7
<1>6. QED
  BY <1>4, <1>5

LEMMA SendBasic ==
  ASSUME Basic, NEW c \in Clients, Send(c)
  PROVE  /\ Basic' /\ doing[c] = "loop" /\ doing'[c] = "write" /\ \A u \in Tasks \ {c} : doing'[u] = doing[u]
         /\ UNCHANGED <<network, fd, addr, reply>>
         /\ \A u \in Tasks \ {c} : io'[u] = io[u] /\ buf'[u] = buf[u]
         /\ \A d \in Clients \ {c} : round'[d] = round[d]
         /\ round'[c] \in 1 .. 2 /\ buf'[c] = Message(round'[c])
         /\ io'[c].moved = 0 /\ io'[c].n = 0 /\ io'[c].left = Size
<1>1. c \in Tasks /\ doing[c] = "loop" /\ UNCHANGED <<network, fd, addr, lastErrno, reply>>
      /\ doing' = [doing EXCEPT ![c] = "write"] /\ Size \in Nat
  BY Constants DEF Send
<1>2. /\ io \in [Tasks -> Calls] /\ buf \in [Tasks -> [1 .. Size -> Bytes]]
      /\ lastErrno \in [Clients -> BOOLEAN] /\ round \in [Clients -> 0 .. 2] /\ reply \in [Clients -> Seq(Bytes)]
  BY DEF Basic, Types, TaskTypes, ClientTypes
<1>3. /\ round' \in [Clients -> 0 .. 2] /\ round'[c] \in 1 .. 2 /\ \A d \in Clients \ {c} : round'[d] = round[d]
  BY <1>2 DEF Send
<1>4. /\ buf' \in [Tasks -> [1 .. Size -> Bytes]] /\ buf'[c] = Message(round'[c])
      /\ \A u \in Tasks \ {c} : buf'[u] = buf[u]
  BY <1>1, <1>2, <1>3, CallValues DEF Send
<1>5. /\ io' \in [Tasks -> Calls] /\ io'[c] = Called("write", Size) /\ \A u \in Tasks \ {c} : io'[u] = io[u]
  BY <1>1, <1>2, CalledValues DEF Send
<1>6. doing'[c] = "write"
  BY <1>1 DEF Basic, Types, TaskTypes
<1>7. Sound(c)'
  BY <1>1, <1>5, <1>6, CalledValues DEF Sound
<1>8. /\ end[<<Attempt(c), "client">>] = "open" /\ end[<<Attempt(c), "server">>] # "none" /\ ~lastErrno[c]
  BY <1>1 DEF Basic, ClientEnds, ClientEnd
<1>9. Basic' /\ \A u \in Tasks \ {c} : doing'[u] = doing[u]
  <2>1. "write" \in {"loop", "write", "read"} /\ doing[c] \in {"connecting", "loop", "write", "read"}
        /\ round'[c] # 0 /\ lastErrno' = lastErrno /\ ~lastErrno'[c]
    BY <1>1, <1>3, <1>8
  <2>2. QED BY <1>1, <1>2, <1>3, <1>4, <1>5, <1>7, <1>8, <2>1, ClientRuns
<1>10. QED
  BY <1>1, <1>3, <1>4, <1>5, <1>6, <1>9, CalledValues

LEMMA SentBasic ==
  ASSUME Basic, NEW c \in Clients, Sent(c)
  PROVE  /\ Basic' /\ doing[c] = "write" /\ doing'[c] = "read" /\ \A u \in Tasks \ {c} : doing'[u] = doing[u]
         /\ UNCHANGED <<network, fd, addr, round, reply>>
         /\ \A u \in Tasks \ {c} : io'[u] = io[u] /\ buf'[u] = buf[u]
         /\ io[c].n = 0 /\ io[c].left = 0
         /\ io'[c].moved = 0 /\ io'[c].n = 0 /\ io'[c].left = Size
<1>1. c \in Tasks /\ doing[c] = "write" /\ UNCHANGED <<network, fd, addr, lastErrno, round, reply>>
      /\ doing' = [doing EXCEPT ![c] = "read"] /\ Size \in Nat /\ io[c].at = "done" /\ ~io[c].err
  BY Constants DEF Sent, client
<1>2. /\ io \in [Tasks -> Calls] /\ buf \in [Tasks -> [1 .. Size -> Bytes]]
      /\ lastErrno \in [Clients -> BOOLEAN] /\ round \in [Clients -> 0 .. 2] /\ reply \in [Clients -> Seq(Bytes)]
  BY DEF Basic, Types, TaskTypes, ClientTypes
<1>3. /\ buf' \in [Tasks -> [1 .. Size -> Bytes]] /\ \A u \in Tasks \ {c} : buf'[u] = buf[u]
  BY <1>1, <1>2, CallValues DEF Sent
<1>4. /\ io' \in [Tasks -> Calls] /\ io'[c] = Called("read_full", Size) /\ \A u \in Tasks \ {c} : io'[u] = io[u]
  BY <1>1, <1>2, CalledValues DEF Sent
<1>5. doing'[c] = "read"
  BY <1>1 DEF Basic, Types, TaskTypes
<1>6. Sound(c)'
  BY <1>1, <1>4, <1>5, CalledValues DEF Sound
<1>7. /\ end[<<Attempt(c), "client">>] = "open" /\ end[<<Attempt(c), "server">>] # "none" /\ ~lastErrno[c]
      /\ round[c] # 0
  BY <1>1 DEF Basic, ClientEnds, ClientEnd
<1>8. Basic' /\ \A u \in Tasks \ {c} : doing'[u] = doing[u]
  BY <1>1, <1>2, <1>3, <1>4, <1>6, <1>7, ClientRuns
<1>9. io[c].n = 0 /\ io[c].left = 0
  <2>1. Sound(c)
    BY <1>1 DEF Basic, CallsSound
  <2>2. QED BY <1>1, <2>1 DEF Sound
<1>10. QED
  BY <1>1, <1>3, <1>4, <1>5, <1>8, <1>9, CalledValues

LEMMA RepliedBasic ==
  ASSUME Basic, NEW c \in Clients, Replied(c)
  PROVE  /\ Basic' /\ doing[c] = "read" /\ doing'[c] = "loop" /\ \A u \in Tasks \ {c} : doing'[u] = doing[u]
         /\ UNCHANGED <<network, fd, addr, round>>
         /\ reply' = [reply EXCEPT ![c] = buf[c]]
         /\ \A u \in Tasks \ {c} : io'[u] = io[u] /\ buf'[u] = buf[u]
         /\ io[c].n = 0 /\ io[c].moved = Size
<1>1. c \in Tasks /\ doing[c] = "read" /\ UNCHANGED <<network, fd, addr, lastErrno, round>>
      /\ doing' = [doing EXCEPT ![c] = "loop"] /\ Size \in Nat /\ io[c].at = "done" /\ ~io[c].err
      /\ reply' = [reply EXCEPT ![c] = buf[c]] /\ c \in Clients
  BY Constants DEF Replied
<1>2. /\ io \in [Tasks -> Calls] /\ buf \in [Tasks -> [1 .. Size -> Bytes]]
      /\ lastErrno \in [Clients -> BOOLEAN] /\ round \in [Clients -> 0 .. 2] /\ reply \in [Clients -> Seq(Bytes)]
  BY DEF Basic, Types, TaskTypes, ClientTypes
<1>3. /\ buf' \in [Tasks -> [1 .. Size -> Bytes]] /\ \A u \in Tasks \ {c} : buf'[u] = buf[u]
  BY <1>1, <1>2, CallValues DEF Replied
<1>4. /\ io' \in [Tasks -> Calls] /\ io'[c] = Idle /\ \A u \in Tasks \ {c} : io'[u] = io[u]
  BY <1>1, <1>2, CallValues DEF Replied
<1>5. doing'[c] = "loop"
  BY <1>1 DEF Basic, Types, TaskTypes
<1>6. Sound(c)'
  BY <1>1, <1>4, <1>5, CallValues DEF Sound
<1>7. /\ end[<<Attempt(c), "client">>] = "open" /\ end[<<Attempt(c), "server">>] # "none" /\ ~lastErrno[c]
  BY <1>1 DEF Basic, ClientEnds, ClientEnd
<1>8. reply' \in [Clients -> Seq(Bytes)]
  <2>1. buf[c] \in Seq(Bytes)
    BY <1>1, <1>2, SeqDef
  <2>2. QED BY <1>1, <1>2, <2>1
<1>9. Basic' /\ \A u \in Tasks \ {c} : doing'[u] = doing[u]
  BY <1>1, <1>2, <1>3, <1>4, <1>6, <1>7, <1>8, ClientRuns
<1>10. io[c].n = 0 /\ io[c].moved = Size
  <2>1. Sound(c) /\ io[c].op = "read_full" /\ io[c] \in Calls
    BY <1>1, <1>2 DEF Basic, CallsSound, Sound
  <2>2. io[c].n = 0 /\ io[c].left = 0 /\ io[c].moved + io[c].left = Size
    BY <1>1, <2>1 DEF Sound
  <2>3. QED BY <1>1, <2>1, <2>2 DEF Calls
<1>11. QED
  <2>1. \A u \in Tasks \ {c} : io'[u] = io[u] /\ buf'[u] = buf[u]
    BY <1>3, <1>4
  <2>2. QED BY <1>1, <1>5, <1>9, <1>10, <2>1

-----------------------------------------------------------------------------
(* A byte goes from the front of one sequence to the back of the one before *)
(* it, and the two are together what they were.                             *)
LEMMA HeadMoves ==
  ASSUME NEW S, NEW s \in Seq(S), NEW t \in Seq(S), t # << >>
  PROVE  Append(s, Head(t)) \o Tail(t) = s \o t
<1>1. Len(t) \in Nat \ {0} /\ SubSeq(t, 1, Len(t)) = t /\ t[1] \in S
  BY EmptySeq, SubSeqFull, ElementOfSeq
<1>2. Tail(t) = SubSeq(t, 2, Len(t)) /\ Tail(t) \in Seq(S) /\ Head(t) = t[1]
  <2>1. Head(SubSeq(t, 1, Len(t))) = t[1]
    BY <1>1, HeadTailOfSubSeq
  <2>2. QED BY <1>1, <2>1, TailIsSubSeq, HeadTailProperties
<1>3. t = <<Head(t)>> \o Tail(t)
  <2>1. SubSeq(t, 1, Len(t)) = <<t[1]>> \o SubSeq(t, 1 + 1, Len(t))
    BY <1>1, SubSeqRecursiveFirst
  <2>2. QED BY <1>1, <1>2, <2>1
<1>4. Append(s, Head(t)) = s \o <<Head(t)>> /\ <<Head(t)>> \in Seq(S)
  BY <1>1, <1>2, AppendIsConcat
<1>5. (s \o <<Head(t)>>) \o Tail(t) = s \o (<<Head(t)>> \o Tail(t))
  BY <1>2, <1>4, ConcatAssociative
<1>6. QED
  BY <1>3, <1>4, <1>5

(* The same with something before the first of the two, and behind both.    *)
LEMMA Regrouped ==
  \A s, t, v, w, u \in Seq(Bytes) : s \o t = v \o w => s \o (t \o u) = v \o (w \o u)
<1> DEFINE cat(a, b) == a \o b
<1>1. \A a, b, c \in Seq(Bytes) : cat(cat(a, b), c) = cat(a, cat(b, c))
  BY ConcatAssociative
<1> HIDE DEF cat
<1>2. \A s, t, v, w, u \in Seq(Bytes) : cat(s, t) = cat(v, w) => cat(s, cat(t, u)) = cat(v, cat(w, u))
  BY <1>1
<1>3. QED
  BY <1>2 DEF cat

LEMMA AppendJoined ==
  ASSUME NEW S, NEW s \in Seq(S), NEW t \in Seq(S), NEW e \in S
  PROVE  s \o Append(t, e) = Append(s \o t, e)
<1>1. Append(t, e) = t \o <<e>> /\ <<e>> \in Seq(S)
  BY AppendIsConcat
<1>2. s \o t \in Seq(S)
  BY ConcatProperties
<1>3. Append(s \o t, e) = (s \o t) \o <<e>>
  BY <1>2, AppendIsConcat
<1>4. QED
  BY <1>1, <1>3, ConcatAssociative

Together(p, s, t, u) == (p \o s) \o (t \o u)

LEMMA HeadMovesBetween ==
  \A p, s, t, u \in Seq(Bytes) : t # << >> =>
    Together(p, Append(s, Head(t)), Tail(t), u) = Together(p, s, t, u)
<1> DEFINE cat(a, b) == a \o b
<1>1. \A s, t, v, w, u \in Seq(Bytes) : cat(s, t) = cat(v, w) => cat(s, cat(t, u)) = cat(v, cat(w, u))
  BY Regrouped
<1> SUFFICES ASSUME NEW p \in Seq(Bytes), NEW s \in Seq(Bytes), NEW t \in Seq(Bytes), NEW u \in Seq(Bytes), t # << >>
             PROVE  cat(cat(p, Append(s, Head(t))), cat(Tail(t), u)) = cat(cat(p, s), cat(t, u))
  BY DEF Together
<1> DEFINE a == cat(p, Append(s, Head(t)))
           b == Tail(t)
           d == cat(p, s)
<1>2. a \in Seq(Bytes) /\ b \in Seq(Bytes) /\ d \in Seq(Bytes) /\ cat(a, b) = cat(d, t)
  <2>1. p \o s \in Seq(Bytes) /\ Head(t) \in Bytes /\ Tail(t) \in Seq(Bytes)
    BY ConcatProperties, HeadTailProperties
  <2>2. p \o Append(s, Head(t)) = Append(p \o s, Head(t)) /\ Append(p \o s, Head(t)) \in Seq(Bytes)
    BY <2>1, AppendJoined, AppendProperties
  <2>3. Append(p \o s, Head(t)) \o Tail(t) = (p \o s) \o t
    BY <2>1, HeadMoves
  <2>4. QED BY <2>1, <2>2, <2>3
<1>3. cat(a, cat(b, u)) = cat(d, cat(t, u))
  <2> HIDE DEF cat, a, b, d
  <2>1. QED BY <1>1, <1>2
<1>4. QED
  BY <1>3

(* What a buffer holds is a sequence.                                       *)
LEMMA BufferIsSeq ==
  ASSUME NEW b \in [1 .. Size -> Bytes]
  PROVE  /\ b \in Seq(Bytes) /\ Len(b) = Size
         /\ SubSeq(b, 1, Size) = b
         /\ \A m \in Nat, n \in Nat : n <= Size => SubSeq(b, m + 1, n) \in Seq(Bytes)
<1>1. b \in Seq(Bytes) /\ Len(b) = Size /\ Size \in Nat
  BY SeqDef, LenProperties, Constants
<1>2. SubSeq(b, 1, Size) = b
  BY <1>1, SubSeqFull
<1>3. ASSUME NEW m \in Nat, NEW n \in Nat, n <= Size PROVE SubSeq(b, m + 1, n) \in Seq(Bytes)
  <2>1. \A i \in m + 1 .. n : b[i] \in Bytes
    BY <1>1, <1>3
  <2>2. QED BY <2>1, SubSeqProperties
<1>4. QED
  BY <1>1, <1>2, <1>3

(* A byte is read into the buffer behind what is there.                     *)
LEMMA BufferGrows ==
  ASSUME NEW b \in [1 .. Size -> Bytes], NEW p \in Nat, p < Size, NEW x \in Bytes
  PROVE  SubSeq([b EXCEPT ![p + 1] = x], 1, p + 1) = Append(SubSeq(b, 1, p), x)
<1> DEFINE d == [b EXCEPT ![p + 1] = x]
<1>1. Size \in Nat /\ p + 1 \in 1 .. Size
  BY Constants
<1>2. d \in [1 .. Size -> Bytes] /\ d[p + 1] = x /\ \A i \in 1 .. p : d[i] = b[i]
  BY <1>1
<1> HIDE DEF d
<1>3. d \in Seq(Bytes) /\ Len(d) = Size /\ b \in Seq(Bytes) /\ Len(b) = Size
  BY <1>2, BufferIsSeq
<1>4. SubSeq(d, 1, p + 1) = SubSeq(d, 1, p) \o <<x>>
  <2>1. 1 \in 1 .. Len(d) /\ p + 1 \in 1 .. Len(d) /\ (p + 1) - 1 = p
    BY <1>1, <1>3
  <2>2. SubSeq(d, 1, p + 1) = SubSeq(d, 1, (p + 1) - 1) \o <<d[p + 1]>>
    BY <1>3, <2>1, SubSeqRecursiveSecond
  <2>3. QED BY <1>2, <2>1, <2>2
<1>5. SubSeq(d, 1, p) = SubSeq(b, 1, p)
  <2>1. \A i \in 1 .. p : d[i] \in Bytes /\ b[i] \in Bytes
    BY <1>1, <1>2
  <2>2. /\ SubSeq(d, 1, p) \in Seq(Bytes) /\ SubSeq(b, 1, p) \in Seq(Bytes)
        /\ Len(SubSeq(d, 1, p)) = IF 1 <= p THEN p - 1 + 1 ELSE 0
        /\ Len(SubSeq(b, 1, p)) = IF 1 <= p THEN p - 1 + 1 ELSE 0
        /\ \A i \in 1 .. p - 1 + 1 : SubSeq(d, 1, p)[i] = d[1 + i - 1] /\ SubSeq(b, 1, p)[i] = b[1 + i - 1]
    BY <2>1, SubSeqProperties
  <2>3. /\ Len(SubSeq(d, 1, p)) = Len(SubSeq(b, 1, p))
        /\ \A i \in 1 .. Len(SubSeq(d, 1, p)) : SubSeq(d, 1, p)[i] = SubSeq(b, 1, p)[i]
    BY <1>2, <2>2
  <2>4. QED BY <2>2, <2>3, SeqEqual
<1>6. SubSeq(b, 1, p) \in Seq(Bytes)
  <2>1. \A i \in 1 .. p : b[i] \in Bytes
    BY <1>1
  <2>2. QED BY <2>1, SubSeqProperties
<1>7. Append(SubSeq(b, 1, p), x) = SubSeq(b, 1, p) \o <<x>>
  BY <1>6, AppendIsConcat
<1>8. QED
  BY <1>4, <1>5, <1>7 DEF d

(* A byte is written from the front of what is left.                        *)
LEMMA BufferShrinks ==
  ASSUME NEW b \in [1 .. Size -> Bytes], NEW p \in Nat, NEW q \in Nat, p < q, q <= Size
  PROVE  /\ SubSeq(b, p + 1, q) \in Seq(Bytes) /\ SubSeq(b, p + 1, q) # << >>
         /\ Head(SubSeq(b, p + 1, q)) = b[p + 1]
         /\ Tail(SubSeq(b, p + 1, q)) = SubSeq(b, p + 1 + 1, q)
<1>1. Size \in Nat /\ b \in Seq(Bytes) /\ Len(b) = Size
  BY BufferIsSeq, Constants
<1>2. p + 1 \in 1 .. Len(b) /\ q \in p + 1 .. Len(b)
  BY <1>1
<1>3. Head(SubSeq(b, p + 1, q)) = b[p + 1] /\ Tail(SubSeq(b, p + 1, q)) = SubSeq(b, p + 1 + 1, q)
  BY <1>1, <1>2, HeadTailOfSubSeq
<1>4. SubSeq(b, p + 1, q) \in Seq(Bytes) /\ Len(SubSeq(b, p + 1, q)) = q - (p + 1) + 1
  <2>1. \A i \in p + 1 .. q : b[i] \in Bytes
    BY <1>1
  <2>2. QED BY <1>2, <2>1, SubSeqProperties
<1>5. SubSeq(b, p + 1, q) # << >>
  <2>1. Len(SubSeq(b, p + 1, q)) # 0
    BY <1>4
  <2>2. QED BY <2>1, EmptySeq
<1>6. QED
  BY <1>3, <1>4, <1>5

-----------------------------------------------------------------------------
(* Where the bytes of a message are.  What the client has read and what is  *)
(* on the way back is the beginning of the message, and as long as the      *)
(* server's end is not closed the rest of it is on the way there.           *)
Target(c) == IF doing[c] \in {"write", "read"} THEN Message(round[c]) ELSE <<>>

Carried(c, k) ==
  \E rest \in Seq(Bytes) :
    /\ (Received(c) \o stream[<<k, "client">>]) \o rest = Target(c)
    /\ end[<<k, "server">>] # "closed" =>
         rest = Held(k) \o (stream[<<k, "server">>] \o Unsent(c))

Kept(c) == doing[c] \in {"connecting", "loop", "write", "read"} => Carried(c, Attempt(c))

AllKept == \A c \in Clients : Kept(c)

LEMMA BeforeAfter ==
  ASSUME Basic, NEW t \in Tasks
  PROVE  Before(t) \in Seq(Bytes) /\ After(t) \in Seq(Bytes)
<1>1. Sound(t) /\ io[t] \in Calls /\ buf[t] \in [1 .. Size -> Bytes] /\ Size \in Nat
  BY Constants DEF Basic, CallsSound, Types, TaskTypes
<1>2. /\ io[t].moved + io[t].n \in Nat /\ io[t].moved + io[t].left \in Nat
      /\ io[t].moved + io[t].n <= Size /\ io[t].moved + io[t].left <= Size
  BY <1>1 DEF Sound, Calls
<1>3. SubSeq(buf[t], 0 + 1, io[t].moved + io[t].n) \in Seq(Bytes)
  BY <1>1, <1>2, BufferIsSeq
<1>4. SubSeq(buf[t], io[t].moved + io[t].n + 1, io[t].moved + io[t].left) \in Seq(Bytes)
  BY <1>1, <1>2, BufferIsSeq
<1>5. QED
  BY <1>3, <1>4 DEF Before, After

LEMMA PlacesTyped ==
  ASSUME Basic, NEW c \in Clients
  PROVE  /\ Attempt(c) \in Conns
         /\ Received(c) \in Seq(Bytes) /\ Unsent(c) \in Seq(Bytes) /\ Held(Attempt(c)) \in Seq(Bytes)
         /\ stream[<<Attempt(c), "client">>] \in Seq(Bytes) /\ stream[<<Attempt(c), "server">>] \in Seq(Bytes)
         /\ Target(c) \in Seq(Bytes)
<1>1. Attempt(c) \in Conns /\ c \in Tasks
  BY Constants DEF Basic, Types, ClientTypes, Attempt
<1>2. Attempt(c) \in Tasks /\ <<Attempt(c), "client">> \in Ends /\ <<Attempt(c), "server">> \in Ends
  BY <1>1, Constants
<1>3. Received(c) \in Seq(Bytes) /\ Unsent(c) \in Seq(Bytes)
  <2>1. << >> \in Seq(Bytes)
    OBVIOUS
  <2>2. QED BY <1>1, <2>1, BeforeAfter DEF Received, Unsent
<1>4. Held(Attempt(c)) \in Seq(Bytes)
  <2>1. << >> \in Seq(Bytes)
    OBVIOUS
  <2>2. QED BY <1>2, <2>1, BeforeAfter DEF Held
<1>5. Target(c) \in Seq(Bytes)
  <2>1. CASE doing[c] \in {"write", "read"}
    <3>1. round[c] \in 1 .. 2
      <4>1. round[c] \in 0 .. 2
        BY DEF Basic, Types, ClientTypes
      <4>2. round[c] # 0
        BY <2>1 DEF Basic, ClientEnds, ClientEnd
      <4>3. QED BY <4>1, <4>2
    <3>2. QED BY <2>1, <3>1, CallValues DEF Target
  <2>2. CASE doing[c] \notin {"write", "read"}
    <3>1. << >> \in Seq(Bytes)
      OBVIOUS
    <3>2. QED BY <2>2, <3>1 DEF Target
  <2>3. QED BY <2>1, <2>2
<1>6. QED
  BY <1>1, <1>2, <1>3, <1>4, <1>5 DEF Basic, Types, KernelTypes

(* The same after a step that moves bytes only between places that are next *)
(* to each other, and not past the server.                                  *)
LEMMA CarriedOn ==
  ASSUME NEW c, NEW k, Carried(c, k), Target(c)' = Target(c),
         Received(c)' \o stream'[<<k, "client">>] = Received(c) \o stream[<<k, "client">>],
         end'[<<k, "server">>] # "closed" =>
           /\ end[<<k, "server">>] # "closed"
           /\ Held(k)' \o (stream'[<<k, "server">>] \o Unsent(c)')
                = Held(k) \o (stream[<<k, "server">>] \o Unsent(c))
  PROVE  Carried(c, k)'
<1>1. PICK rest \in Seq(Bytes) :
        /\ (Received(c) \o stream[<<k, "client">>]) \o rest = Target(c)
        /\ end[<<k, "server">>] # "closed" => rest = Held(k) \o (stream[<<k, "server">>] \o Unsent(c))
  BY DEF Carried
<1>2. (Received(c)' \o stream'[<<k, "client">>]) \o rest = Target(c)'
  BY <1>1
<1>3. end'[<<k, "server">>] # "closed" => rest = Held(k)' \o (stream'[<<k, "server">>] \o Unsent(c)')
  BY <1>1
<1>4. QED
  BY <1>2, <1>3 DEF Carried

(* What a step of others leaves alone.                                      *)
LEMMA PlacesFrame ==
  ASSUME NEW t, io'[t] = io[t], buf'[t] = buf[t], doing'[t] = doing[t]
  PROVE  Received(t)' = Received(t) /\ Unsent(t)' = Unsent(t) /\ Held(t)' = Held(t)
BY DEF Received, Unsent, Held, Before, After

LEMMA KeptFrame ==
  ASSUME Basic, NEW c \in Clients, Kept(c), addr'[c] = addr[c], round'[c] = round[c], doing'[c] = doing[c],
         Received(c)' = Received(c), Unsent(c)' = Unsent(c),
         \A k \in Conns : k[1] = c =>
           /\ Held(k)' = Held(k) /\ stream'[<<k, "client">>] = stream[<<k, "client">>]
           /\ stream'[<<k, "server">>] = stream[<<k, "server">>]
           /\ end[<<k, "server">>] = "closed" => end'[<<k, "server">>] = "closed"
  PROVE  Kept(c)'
<1> DEFINE k == <<c, addr[c]>>
<1>1. k \in Conns /\ k[1] = c /\ Attempt(c) = k /\ Attempt(c)' = k
  BY Constants DEF Basic, Types, ClientTypes, Attempt
<1> HIDE DEF k
<1>2. Target(c)' = Target(c)
  BY DEF Target, Message
<1>3. QED
  BY <1>1, <1>2, CarriedOn DEF Kept

-----------------------------------------------------------------------------
(* A byte that is read or written moves to the next place.                  *)
LEMMA ReceiveKept ==
  ASSUME Basic, AllKept, NEW t \in Tasks, Receive(t), UNCHANGED <<doing, client>>
  PROVE  AllKept'
<1> DEFINE p == io[t].moved + io[t].n
           s == stream[fd[t]]
<1>1. /\ Basic' /\ UNCHANGED <<end, reset, fd>> /\ doing[t] = "read"
      /\ \A u \in Tasks \ {t} : io'[u] = io[u] /\ buf'[u] = buf[u]
      /\ \A e \in Ends \ {fd[t]} : stream'[e] = stream[e]
      /\ s # << >> /\ stream'[fd[t]] = Tail(s)
      /\ io'[t].moved = io[t].moved /\ io'[t].n = io[t].n + 1
      /\ p \in Nat /\ p < Size
      /\ buf'[t] = [buf[t] EXCEPT ![p + 1] = Head(s)]
  BY ReceiveBasic
<1>2. /\ fd[t] \in Ends /\ s \in Seq(Bytes) /\ buf[t] \in [1 .. Size -> Bytes] /\ Head(s) \in Bytes
      /\ t \in Clients => fd[t] = <<Attempt(t), "client">> /\ Attempt(t) \in Conns
      /\ t \in Conns => fd[t] = <<t, "server">>
  BY <1>1, Working, HeadTailProperties DEF Basic, Types, KernelTypes, TaskTypes
<1>3. UNCHANGED <<doing, addr, round>>
  BY DEF client
<1>4. Before(t) = SubSeq(buf[t], 1, p) /\ Before(t)' = Append(Before(t), Head(s))
  <2>1. io[t].moved \in Nat /\ io[t].n \in Nat
    BY DEF Basic, Types, TaskTypes, Calls
  <2>2. io'[t].moved + io'[t].n = p + 1
    BY <1>1, <2>1
  <2>3. Before(t)' = SubSeq(buf'[t], 1, p + 1)
    BY <2>2 DEF Before
  <2> HIDE DEF p, s
  <2>4. SubSeq([buf[t] EXCEPT ![p + 1] = Head(s)], 1, p + 1) = Append(SubSeq(buf[t], 1, p), Head(s))
    BY <1>1, <1>2, BufferGrows
  <2>5. QED BY <1>1, <2>3, <2>4 DEF Before, p
<1>5. Before(t)' \o Tail(s) = Before(t) \o s
  <2>1. Before(t) \in Seq(Bytes) /\ s \in Seq(Bytes) /\ s # << >>
    BY <1>1, <1>2, BeforeAfter
  <2> HIDE DEF s
  <2>2. Append(Before(t), Head(s)) \o Tail(s) = Before(t) \o s
    BY <2>1, HeadMoves
  <2>3. QED BY <1>4, <2>2
<1> HIDE DEF p
<1>6. ASSUME NEW c \in Clients PROVE Kept(c)'
  <2>1. /\ Kept(c) /\ Attempt(c) \in Conns /\ Attempt(c)' = Attempt(c) /\ c \in Tasks
        /\ Attempt(c) \in Tasks
    BY <1>3, PlacesTyped, Constants DEF AllKept, Attempt
  <2>2. CASE t = c
    <3>1. Received(c) = Before(c) /\ Received(c)' = Before(c)' /\ Unsent(c)' = Unsent(c)
      BY <1>1, <1>3, <2>2 DEF Received, Unsent
    <3>2. Held(Attempt(c))' = Held(Attempt(c))
      <4>1. Attempt(c) \in Tasks \ {t}
        BY <2>1, <2>2, Constants
      <4>2. QED BY <1>1, <1>3, <2>1, <4>1 DEF Held, Before, After
    <3>3. /\ fd[t] = <<Attempt(c), "client">>
          /\ <<Attempt(c), "server">> \in Ends \ {fd[t]}
      BY <1>2, <2>1, <2>2, Constants
    <3>4. stream'[<<Attempt(c), "server">>] = stream[<<Attempt(c), "server">>]
      BY <1>1, <3>3
    <3>5. Received(c)' \o stream'[<<Attempt(c), "client">>] = Received(c) \o stream[<<Attempt(c), "client">>]
      BY <1>1, <1>5, <2>2, <3>1, <3>3
    <3>6. Target(c)' = Target(c)
      BY <1>3 DEF Target, Message
    <3>7. QED BY <1>1, <1>3, <2>1, <3>1, <3>2, <3>4, <3>5, <3>6, CarriedOn DEF Kept
  <2>3. CASE t = Attempt(c)
    <3>1. c \in Tasks \ {t}
      BY <2>1, <2>3, Constants
    <3>2. Received(c)' = Received(c) /\ Unsent(c)' = Unsent(c)
      BY <1>1, <1>3, <3>1, PlacesFrame
    <3>3. Held(t) = Before(t) /\ Held(t)' = Before(t)'
      BY <1>1, <1>3 DEF Held
    <3>4. fd[t] = <<t, "server">> /\ <<t, "client">> \in Ends \ {fd[t]}
      <4>1. t \in Conns /\ fd[t] = <<t, "server">>
        BY <1>2, <2>1, <2>3
      <4>2. <<t, "client">> \in Ends
        BY <4>1, Constants
      <4>3. QED BY <4>1, <4>2
    <3>5. /\ stream'[<<t, "client">>] = stream[<<t, "client">>]
          /\ Held(t)' \o stream'[<<t, "server">>] = Held(t) \o stream[<<t, "server">>]
      BY <1>1, <1>5, <3>3, <3>4
    <3>6. Target(c)' = Target(c)
      BY <1>3 DEF Target, Message
    <3>7. Held(t)' \o (stream'[<<t, "server">>] \o Unsent(c)') = Held(t) \o (stream[<<t, "server">>] \o Unsent(c))
      <4>1. Held(t) \in Seq(Bytes) /\ stream[<<t, "server">>] \in Seq(Bytes) /\ Unsent(c) \in Seq(Bytes)
        BY <2>3, PlacesTyped
      <4>2. Before(t)' \in Seq(Bytes) /\ Tail(s) \in Seq(Bytes)
        BY <1>1, <1>2, <1>4, BeforeAfter, AppendProperties, HeadTailProperties
      <4> HIDE DEF s
      <4>3. Held(t)' \in Seq(Bytes) /\ stream'[<<t, "server">>] \in Seq(Bytes)
        BY <1>1, <3>3, <3>4, <4>2
      <4> DEFINE cat(a, b) == a \o b
      <4>4. \A b, d, e, f, g \in Seq(Bytes) : cat(b, d) = cat(e, f) => cat(b, cat(d, g)) = cat(e, cat(f, g))
        BY Regrouped
      <4>5. cat(Held(t)', stream'[<<t, "server">>]) = cat(Held(t), stream[<<t, "server">>])
        BY <3>5
      <4> HIDE DEF cat
      <4>6. cat(Held(t)', cat(stream'[<<t, "server">>], Unsent(c))) = cat(Held(t), cat(stream[<<t, "server">>], Unsent(c)))
        BY <4>1, <4>3, <4>4, <4>5
      <4>7. QED BY <3>2, <4>6 DEF cat
    <3>8. Carried(c, t) => Carried(c, t)'
      BY <1>1, <3>2, <3>5, <3>6, <3>7, CarriedOn
    <3>9. QED BY <1>3, <2>1, <2>3, <3>8 DEF Kept
  <2>4. CASE t # c /\ t # Attempt(c)
    <3>1. Received(c)' = Received(c) /\ Unsent(c)' = Unsent(c) /\ Held(Attempt(c))' = Held(Attempt(c))
      BY <1>1, <1>3, <2>1, <2>4, PlacesFrame
    <3>2. fd[t] # <<Attempt(c), "client">> /\ fd[t] # <<Attempt(c), "server">>
      <4>1. t \in Clients => Attempt(t) # Attempt(c)
        BY <2>4 DEF Attempt
      <4>2. QED BY <1>2, <2>4, <4>1, Constants
    <3>3. /\ stream'[<<Attempt(c), "client">>] = stream[<<Attempt(c), "client">>]
          /\ stream'[<<Attempt(c), "server">>] = stream[<<Attempt(c), "server">>]
      BY <1>1, <2>1, <3>2, Constants
    <3>4. Target(c)' = Target(c)
      BY <1>3 DEF Target, Message
    <3>5. QED BY <1>1, <1>3, <2>1, <3>1, <3>3, <3>4, CarriedOn DEF Kept
  <2>5. QED BY <2>2, <2>3, <2>4
<1>7. QED
  BY <1>6 DEF AllKept

LEMMA TransmitKept ==
  ASSUME Basic, AllKept, NEW t \in Tasks, Transmit(t), UNCHANGED <<doing, client>>
  PROVE  AllKept'
<1> DEFINE s == stream[Peer(fd[t])]
<1>1. /\ Basic' /\ UNCHANGED <<end, fd, buf>> /\ doing[t] = "write"
      /\ \A u \in Tasks \ {t} : io'[u] = io[u]
      /\ \A e \in Ends \ {Peer(fd[t])} : stream'[e] = stream[e]
      /\ stream'[Peer(fd[t])] = Append(s, buf[t][io[t].moved + io[t].n + 1])
      /\ io'[t].moved = io[t].moved /\ io'[t].n = io[t].n + 1 /\ io'[t].left = io[t].left
      /\ io[t].moved \in Nat /\ io[t].n \in Nat /\ io[t].left \in Nat
      /\ io[t].n < io[t].left /\ io[t].moved + io[t].left <= Size
  BY TransmitBasic
<1>2. /\ Peer(fd[t]) \in Ends /\ s \in Seq(Bytes) /\ buf[t] \in [1 .. Size -> Bytes]
      /\ t \in Clients => Peer(fd[t]) = <<Attempt(t), "server">> /\ Attempt(t) \in Conns
      /\ t \in Conns => Peer(fd[t]) = <<t, "client">> /\ end[<<t, "server">>] = "open"
  <2>1. t \in Conns => end[<<t, "server">>] = "open"
    BY <1>1 DEF Basic, ConnEnds, ConnEnd
  <2>2. QED BY <1>1, <2>1, Working DEF Basic, Types, KernelTypes, TaskTypes
<1>3. UNCHANGED <<doing, addr, round, buf>>
  BY <1>1 DEF client
<1>4. /\ After(t) \in Seq(Bytes) /\ After(t) # << >>
      /\ stream'[Peer(fd[t])] = Append(s, Head(After(t))) /\ After(t)' = Tail(After(t))
  <2> DEFINE p == io[t].moved + io[t].n
             q == io[t].moved + io[t].left
  <2>1. p \in Nat /\ q \in Nat /\ p < q /\ q <= Size
    BY <1>1
  <2>2. io'[t].moved + io'[t].n = p + 1 /\ io'[t].moved + io'[t].left = q
    BY <1>1
  <2>3. After(t) = SubSeq(buf[t], p + 1, q) /\ After(t)' = SubSeq(buf[t], p + 1 + 1, q)
    BY <1>3, <2>2 DEF After
  <2>4. stream'[Peer(fd[t])] = Append(s, buf[t][p + 1])
    BY <1>1
  <2> HIDE DEF p, q, s
  <2>5. /\ SubSeq(buf[t], p + 1, q) \in Seq(Bytes) /\ SubSeq(buf[t], p + 1, q) # << >>
        /\ Head(SubSeq(buf[t], p + 1, q)) = buf[t][p + 1]
        /\ Tail(SubSeq(buf[t], p + 1, q)) = SubSeq(buf[t], p + 1 + 1, q)
    BY <1>2, <2>1, BufferShrinks
  <2>6. QED BY <2>3, <2>4, <2>5
<1>5. Append(s, Head(After(t))) \o Tail(After(t)) = s \o After(t)
  <2> HIDE DEF s
  <2>1. QED BY <1>2, <1>4, HeadMoves
<1>6. ASSUME NEW c \in Clients PROVE Kept(c)'
  <2>1. /\ Kept(c) /\ Attempt(c) \in Conns /\ Attempt(c)' = Attempt(c) /\ c \in Tasks
        /\ Attempt(c) \in Tasks
        /\ Received(c) \in Seq(Bytes) /\ Unsent(c) \in Seq(Bytes) /\ Held(Attempt(c)) \in Seq(Bytes)
        /\ stream[<<Attempt(c), "client">>] \in Seq(Bytes) /\ stream[<<Attempt(c), "server">>] \in Seq(Bytes)
    BY <1>3, PlacesTyped, Constants DEF AllKept, Attempt
  <2>2. Target(c)' = Target(c)
    BY <1>3 DEF Target, Message
  <2>3. CASE t = c
    <3>1. Received(c)' = Received(c) /\ Unsent(c) = After(c) /\ Unsent(c)' = After(c)'
      BY <1>1, <1>3, <2>3 DEF Received, Unsent
    <3>2. Held(Attempt(c))' = Held(Attempt(c))
      <4>1. Attempt(c) \in Tasks \ {t}
        BY <2>1, <2>3, Constants
      <4>2. QED BY <1>1, <1>3, <2>1, <4>1 DEF Held, Before, After
    <3>3. /\ Peer(fd[t]) = <<Attempt(c), "server">>
          /\ <<Attempt(c), "client">> \in Ends \ {Peer(fd[t])}
      <4>1. Peer(fd[t]) = <<Attempt(c), "server">> /\ <<Attempt(c), "client">> \in Ends
        BY <1>2, <2>1, <2>3, Constants
      <4>2. QED BY <4>1
    <3>4. stream'[<<Attempt(c), "client">>] = stream[<<Attempt(c), "client">>]
      BY <1>1, <3>3
    <3>5. stream'[<<Attempt(c), "server">>] \o Unsent(c)' = stream[<<Attempt(c), "server">>] \o Unsent(c)
      BY <1>4, <1>5, <2>3, <3>1, <3>3
    <3>6. QED BY <1>1, <1>3, <2>1, <2>2, <3>1, <3>2, <3>4, <3>5, CarriedOn DEF Kept
  <2>4. CASE t = Attempt(c)
    <3>1. c \in Tasks \ {t} /\ t \in Conns
      BY <2>1, <2>4, Constants
    <3>2. Received(c)' = Received(c) /\ Unsent(c)' = Unsent(c)
      BY <1>1, <1>3, <3>1, PlacesFrame
    <3>3. Held(t) = After(t) /\ Held(t)' = Tail(After(t))
      BY <1>1, <1>3, <1>4 DEF Held
    <3>4. Peer(fd[t]) = <<t, "client">> /\ <<t, "server">> \in Ends \ {Peer(fd[t])} /\ end[<<t, "server">>] = "open"
      <4>1. Peer(fd[t]) = <<t, "client">> /\ <<t, "server">> \in Ends
        BY <1>2, <3>1, Constants
      <4>2. QED BY <1>2, <3>1, <4>1
    <3>5. /\ stream'[<<t, "server">>] = stream[<<t, "server">>]
          /\ stream'[<<t, "client">>] = Append(stream[<<t, "client">>], Head(Held(t)))
          /\ Held(t)' = Tail(Held(t)) /\ Held(t) # << >>
      BY <1>1, <1>4, <3>3, <3>4
    <3> DEFINE U == stream[<<t, "server">>] \o Unsent(c)
               H == Held(t)
    <3>6. H \in Seq(Bytes) /\ U \in Seq(Bytes) /\ Tail(H) \o U \in Seq(Bytes)
      <4>1. H \in Seq(Bytes) /\ U \in Seq(Bytes)
        BY <2>1, <2>4, ConcatProperties
      <4>2. Tail(H) \in Seq(Bytes)
        BY <3>5, <4>1, HeadTailProperties
      <4> HIDE DEF H, U
      <4>3. QED BY <4>1, <4>2, ConcatProperties
    <3>7. (Received(c) \o Append(stream[<<t, "client">>], Head(H))) \o (Tail(H) \o U)
            = (Received(c) \o stream[<<t, "client">>]) \o (H \o U)
      <4>1. Received(c) \in Seq(Bytes) /\ stream[<<t, "client">>] \in Seq(Bytes) /\ H # << >>
        BY <2>1, <2>4, <3>5
      <4> HIDE DEF H, U
      <4> DEFINE P == Received(c)
                 R == stream[<<t, "client">>]
      <4>2. P \in Seq(Bytes) /\ R \in Seq(Bytes)
        BY <4>1
      <4> HIDE DEF P, R
      <4>3. Together(P, Append(R, Head(H)), Tail(H), U) = Together(P, R, H, U)
        BY <3>6, <4>1, <4>2, HeadMovesBetween
      <4>4. QED BY <4>3 DEF P, R, Together
    <3>8. Carried(c, t) => Carried(c, t)'
      <4> SUFFICES ASSUME Carried(c, t) PROVE Carried(c, t)'
        OBVIOUS
      <4>1. (Received(c) \o stream[<<t, "client">>]) \o (H \o U) = Target(c)
        BY <3>4 DEF Carried
      <4>2. (Received(c)' \o stream'[<<t, "client">>]) \o (Tail(H) \o U) = Target(c)'
        BY <2>2, <3>2, <3>5, <3>7, <4>1
      <4>3. Tail(H) \o U = Held(t)' \o (stream'[<<t, "server">>] \o Unsent(c)')
        BY <3>2, <3>5
      <4>4. QED BY <3>6, <4>2, <4>3 DEF Carried
    <3>9. QED BY <1>3, <2>1, <2>4, <3>8 DEF Kept
  <2>5. CASE t # c /\ t # Attempt(c)
    <3>1. Received(c)' = Received(c) /\ Unsent(c)' = Unsent(c) /\ Held(Attempt(c))' = Held(Attempt(c))
      BY <1>1, <1>3, <2>1, <2>5, PlacesFrame
    <3>2. Peer(fd[t]) # <<Attempt(c), "client">> /\ Peer(fd[t]) # <<Attempt(c), "server">>
      <4>1. t \in Clients => Attempt(t) # Attempt(c)
        BY <2>5 DEF Attempt
      <4>2. QED BY <1>2, <2>5, <4>1, Constants
    <3>3. /\ stream'[<<Attempt(c), "client">>] = stream[<<Attempt(c), "client">>]
          /\ stream'[<<Attempt(c), "server">>] = stream[<<Attempt(c), "server">>]
      BY <1>1, <2>1, <3>2, Constants
    <3>4. QED BY <1>1, <1>3, <2>1, <2>2, <3>1, <3>3, CarriedOn DEF Kept
  <2>6. QED BY <2>3, <2>4, <2>5
<1>7. QED
  BY <1>6 DEF AllKept

(* The other steps of a read or write.                                      *)
LEMMA ReturnKept ==
  ASSUME Basic, AllKept, NEW t \in Tasks, UNCHANGED <<doing, client>>,
         Complete(t) \/ Fail(t) \/ Again(t) \/ Partial(t) \/ Resume(t)
  PROVE  AllKept'
<1>1. /\ UNCHANGED <<network, fd, buf>> /\ \A u \in Tasks \ {t} : io'[u] = io[u]
      /\ io'[t].moved + io'[t].n = io[t].moved + io[t].n
      /\ io'[t].moved + io'[t].left = io[t].moved + io[t].left
  BY ReturnBasic
<1>2. UNCHANGED <<stream, end, doing, addr, round, buf>>
  BY <1>1 DEF network, client
<1>3. ASSUME NEW u \in Tasks
      PROVE  Received(u)' = Received(u) /\ Unsent(u)' = Unsent(u) /\ Held(u)' = Held(u)
  <2>1. CASE u = t
    <3>1. Before(t)' = Before(t) /\ After(t)' = After(t)
      BY <1>1, <1>2 DEF Before, After
    <3>2. QED BY <1>2, <2>1, <3>1 DEF Received, Unsent, Held
  <2>2. CASE u # t
    BY <1>1, <1>2, <2>2, PlacesFrame
  <2>3. QED BY <2>1, <2>2
<1>4. ASSUME NEW c \in Clients PROVE Kept(c)'
  <2>1. Kept(c) /\ c \in Tasks /\ \A k \in Conns : k \in Tasks
    BY Constants DEF AllKept
  <2>2. QED BY <1>2, <1>3, <2>1, KeptFrame
<1>5. QED
  BY <1>4 DEF AllKept

LEMMA TransferKept ==
  ASSUME Basic, AllKept, NEW t \in Tasks, Moves(t)
  PROVE  Basic' /\ AllKept'
<1>1. UNCHANGED <<doing, client>> /\ Transfer(t)
  BY DEF Moves
<1>2. CASE Receive(t)
  BY <1>1, <1>2, ReceiveBasic, ReceiveKept
<1>3. CASE Transmit(t)
  BY <1>1, <1>3, TransmitBasic, TransmitKept
<1>4. CASE Complete(t) \/ Fail(t) \/ Again(t) \/ Partial(t) \/ Resume(t)
  BY <1>1, <1>4, ReturnBasic, ReturnKept
<1>5. QED
  BY <1>1, <1>2, <1>3, <1>4 DEF Transfer

-----------------------------------------------------------------------------
(* Steps that move no byte.  An end that is closed stays so.                *)
ClosedStay == \A k \in Conns : end[<<k, "server">>] = "closed" => end'[<<k, "server">>] = "closed"

LEMMA UnmovedKept ==
  ASSUME Basic, AllKept, UNCHANGED <<stream, doing, client, task>>, ClosedStay
  PROVE  AllKept'
<1>1. UNCHANGED <<io, buf, addr, round>>
  BY DEF client, task
<1>2. ASSUME NEW c \in Clients PROVE Kept(c)'
  BY <1>1, PlacesFrame, KeptFrame DEF AllKept, ClosedStay
<1>3. QED
  BY <1>2 DEF AllKept

LEMMA ClientKept ==
  ASSUME Basic, AllKept, NEW c \in Clients, UNCHANGED stream, ClosedStay, Kept(c)',
         \A u \in Tasks \ {c} : doing'[u] = doing[u] /\ io'[u] = io[u] /\ buf'[u] = buf[u],
         \A d \in Clients \ {c} : addr'[d] = addr[d] /\ round'[d] = round[d]
  PROVE  AllKept'
<1>1. ASSUME NEW d \in Clients \ {c} PROVE Kept(d)'
  <2>1. Kept(d) /\ d \in Tasks \ {c} /\ \A k \in Conns : k \in Tasks \ {c}
    BY Constants DEF AllKept
  <2>2. Received(d)' = Received(d) /\ Unsent(d)' = Unsent(d)
    BY <2>1, PlacesFrame
  <2>3. \A k \in Conns : Held(k)' = Held(k)
    BY <2>1, PlacesFrame
  <2>4. QED BY <2>1, <2>2, <2>3, KeptFrame DEF ClosedStay
<1>2. QED
  BY <1>1 DEF AllKept

LEMMA ConnKept ==
  ASSUME Basic, AllKept, NEW k \in Conns, UNCHANGED <<stream, client>>, ClosedStay,
         \A u \in Tasks \ {k} : doing'[u] = doing[u] /\ io'[u] = io[u] /\ buf'[u] = buf[u],
         end'[<<k, "server">>] # "closed" => Held(k)' = Held(k)
  PROVE  AllKept'
<1>1. UNCHANGED <<addr, round>>
  BY DEF client
<1>2. ASSUME NEW c \in Clients PROVE Kept(c)'
  <2>1. Kept(c) /\ c \in Tasks \ {k} /\ Attempt(c) \in Conns /\ Attempt(c)' = Attempt(c)
    BY <1>1, PlacesTyped, Constants DEF AllKept, Attempt
  <2>2. Received(c)' = Received(c) /\ Unsent(c)' = Unsent(c) /\ Target(c)' = Target(c)
    BY <1>1, <2>1, PlacesFrame DEF Target, Message
  <2>3. end'[<<Attempt(c), "server">>] # "closed" =>
          /\ end[<<Attempt(c), "server">>] # "closed" /\ Held(Attempt(c))' = Held(Attempt(c))
    <3>1. CASE Attempt(c) = k
      BY <2>1, <3>1 DEF ClosedStay
    <3>2. CASE Attempt(c) # k
      <4>1. Attempt(c) \in Tasks \ {k}
        BY <2>1, <3>2, Constants
      <4>2. QED BY <2>1, <4>1, PlacesFrame DEF ClosedStay
    <3>3. QED BY <3>1, <3>2
  <2>4. Carried(c, Attempt(c)) => Carried(c, Attempt(c))'
    BY <2>1, <2>2, <2>3, CarriedOn
  <2>5. QED BY <2>1, <2>4 DEF Kept
<1>3. QED
  BY <1>2 DEF AllKept

-----------------------------------------------------------------------------
LEMMA EmptyCarried ==
  ASSUME NEW c, NEW k, Received(c)' = << >>, stream'[<<k, "client">>] = << >>, Target(c)' = << >>,
         end'[<<k, "server">>] # "closed" =>
           Held(k)' = << >> /\ stream'[<<k, "server">>] = << >> /\ Unsent(c)' = << >>
  PROVE  Carried(c, k)'
<1>1. << >> \in Seq(Bytes) /\ << >> \o << >> = << >>
  BY ConcatEmptySeq
<1>2. QED
  BY <1>1 DEF Carried

LEMMA AcceptKept ==
  ASSUME Basic, AllKept, NEW k \in Conns, Accept(k)
  PROVE  AllKept'
<1>1. /\ k \in Tasks /\ end[<<k, "server">>] = "queued" /\ UNCHANGED <<stream, client, io, buf>>
      /\ doing' = [doing EXCEPT ![k] = "spawned"] /\ end' = [end EXCEPT ![<<k, "server">>] = "open"]
      /\ <<k, "server">> \in Ends
  BY Constants DEF Accept, Queued
<1>2. doing[k] = "none" /\ doing'[k] = "spawned" /\ \A u \in Tasks \ {k} : doing'[u] = doing[u]
  BY <1>1 DEF Basic, Types, TaskTypes, ConnEnds, ConnEnd
<1>3. Held(k)' = Held(k)
  BY <1>2 DEF Held
<1>4. ClosedStay
  BY <1>1, Constants DEF ClosedStay, Basic, Types, KernelTypes
<1>5. QED
  BY <1>1, <1>2, <1>3, <1>4, ConnKept

LEMMA ConnectKept ==
  ASSUME Basic, AllKept, NEW c \in Clients, Connect(c)
  PROVE  AllKept'
<1>1. /\ end[<<Attempt(c), "server">>] = "none" /\ doing'[c] = "connecting"
      /\ \A u \in Tasks \ {c} : doing'[u] = doing[u]
      /\ \A k \in Conns : end'[<<k, "server">>] = end[<<k, "server">>]
  BY ConnectBasic
<1>2. UNCHANGED <<stream, io, buf, addr, round>> /\ Attempt(c)' = Attempt(c) /\ Attempt(c) \in Conns
      /\ Attempt(c) \in Tasks \ {c}
  BY PlacesTyped, Constants DEF Connect, client, Attempt
<1>3. Kept(c)'
  <2>1. /\ stream[<<Attempt(c), "client">>] = << >> /\ stream[<<Attempt(c), "server">>] = << >>
        /\ doing[Attempt(c)] = "none"
    BY <1>1, <1>2 DEF Basic, ConnEnds, ConnEnd
  <2>2. Received(c)' = << >> /\ Unsent(c)' = << >> /\ Target(c)' = << >>
    BY <1>1 DEF Received, Unsent, Target
  <2>3. Held(Attempt(c))' = << >>
    BY <1>1, <1>2, <2>1 DEF Held
  <2>4. Carried(c, Attempt(c))'
    BY <1>2, <2>1, <2>2, <2>3, EmptyCarried
  <2>5. QED BY <2>4 DEF Kept
<1>4. ClosedStay
  BY <1>1 DEF ClosedStay
<1>5. QED
  BY <1>1, <1>2, <1>3, <1>4, ClientKept

LEMMA ConnectFailsKept ==
  ASSUME Basic, AllKept, NEW c \in Clients, ConnectFails(c)
  PROVE  AllKept'
<1>1. /\ doing'[c] \in {"failed", "connect"} /\ \A u \in Tasks \ {c} : doing'[u] = doing[u]
      /\ \A d \in Clients \ {c} : addr'[d] = addr[d]
  BY ConnectFailsBasic
<1>2. UNCHANGED <<stream, end, io, buf, round>>
  BY DEF ConnectFails, network, task
<1>3. Kept(c)' /\ ClosedStay
  BY <1>1, <1>2 DEF Kept, ClosedStay
<1>4. QED
  BY <1>1, <1>2, <1>3, ClientKept

LEMMA ConnectedKept ==
  ASSUME Basic, AllKept, NEW c \in Clients, Connected(c)
  PROVE  AllKept'
<1>1. /\ \A u \in Tasks \ {c} : doing'[u] = doing[u]
      /\ \A d \in Clients \ {c} : addr'[d] = addr[d]
      /\ doing[c] = "connecting" /\ UNCHANGED <<stream, io, buf, round, reply>>
      /\ \A k \in Conns : end'[<<k, "server">>] = end[<<k, "server">>]
      /\ \/ doing'[c] \in {"failed", "connect"}
         \/ doing'[c] = "loop" /\ UNCHANGED addr
  BY ConnectedBasic
<1>2. ClosedStay
  BY <1>1 DEF ClosedStay
<1>3. Kept(c)'
  <2>1. CASE doing'[c] \in {"failed", "connect"}
    BY <2>1 DEF Kept
  <2>2. CASE doing'[c] = "loop" /\ UNCHANGED addr
    <3>1. Attempt(c)' = Attempt(c) /\ Attempt(c) \in Conns /\ Attempt(c) \in Tasks \ {c}
      BY <2>2, PlacesTyped, Constants DEF Attempt
    <3>2. Carried(c, Attempt(c))
      BY <1>1 DEF AllKept, Kept
    <3>3. Received(c)' = Received(c) /\ Unsent(c)' = Unsent(c) /\ Target(c)' = Target(c)
      BY <1>1, <2>2 DEF Received, Unsent, Target
    <3>4. Held(Attempt(c))' = Held(Attempt(c))
      BY <1>1, <3>1, PlacesFrame
    <3>5. Carried(c, Attempt(c))'
      BY <1>1, <3>1, <3>2, <3>3, <3>4, CarriedOn
    <3>6. QED BY <3>5 DEF Kept
  <2>3. QED BY <1>1, <2>1, <2>2
<1>4. QED
  BY <1>1, <1>2, <1>3, ClientKept

(* The end of a process that has its descriptor, or of none.                *)
LEMMA EndKept ==
  ASSUME Basic, AllKept, NEW t \in Tasks, End(t), UNCHANGED client,
         doing[t] \in {"connecting", "failed", "spawned", "read", "write"}
  PROVE  AllKept'
<1>1. /\ doing'[t] = "ended" /\ UNCHANGED <<stream, addr, round>>
      /\ \A u \in Tasks \ {t} : doing'[u] = doing[u] /\ io'[u] = io[u] /\ buf'[u] = buf[u]
      /\ \A e \in Ends : end'[e] = IF e = fd[t] THEN "closed" ELSE end[e]
  BY EndBasic DEF client
<1>2. ClosedStay
  BY <1>1, Constants DEF ClosedStay
<1>3. CASE t \in Clients
  <2>1. Kept(t)'
    BY <1>1 DEF Kept
  <2>2. QED BY <1>1, <1>2, <1>3, <2>1, ClientKept
<1>4. CASE t \in Conns
  <2>1. fd[t] = <<t, "server">>
    <3>1. doing[t] \in {"spawned", "read", "write"}
      BY <1>4 DEF Basic, ConnEnds, ConnEnd
    <3>2. QED BY <1>4, <3>1 DEF Basic, ConnEnds, ConnEnd
  <2>2. end'[<<t, "server">>] = "closed"
    BY <1>1, <1>4, <2>1, Constants
  <2>3. QED BY <1>1, <1>2, <1>4, <2>2, ConnKept
<1>5. QED
  BY <1>3, <1>4, Constants

-----------------------------------------------------------------------------
(* A call that has just begun, or that has moved all.                       *)
LEMMA NothingMoved ==
  ASSUME NEW b
  PROVE  SubSeq(b, 1, 0 + 0) = << >> /\ \A m \in Nat : SubSeq(b, m + 0 + 1, m + 0) = << >>
<1>1. SubSeq(b, 1, 0) = << >>
  BY SubSeqEmpty
<1>2. ASSUME NEW m \in Nat PROVE SubSeq(b, m + 0 + 1, m + 0) = << >>
  <2>1. m + 1 \in Int /\ m \in Int /\ m < m + 1 /\ m + 0 + 1 = m + 1 /\ m + 0 = m
    OBVIOUS
  <2>2. SubSeq(b, m + 1, m) = << >>
    BY <2>1, SubSeqEmpty
  <2>3. QED BY <2>1, <2>2
<1>3. QED
  BY <1>1, <1>2

LEMMA SendKept ==
  ASSUME Basic, AllKept, NEW c \in Clients, Send(c)
  PROVE  AllKept'
<1>1. /\ doing[c] = "loop" /\ doing'[c] = "write" /\ \A u \in Tasks \ {c} : doing'[u] = doing[u]
      /\ UNCHANGED <<stream, end, addr>>
      /\ \A u \in Tasks \ {c} : io'[u] = io[u] /\ buf'[u] = buf[u]
      /\ \A d \in Clients \ {c} : round'[d] = round[d]
      /\ round'[c] \in 1 .. 2 /\ buf'[c] = Message(round'[c])
      /\ io'[c].moved = 0 /\ io'[c].n = 0 /\ io'[c].left = Size
  BY SendBasic DEF network
<1>2. Attempt(c)' = Attempt(c) /\ Attempt(c) \in Conns /\ Attempt(c) \in Tasks \ {c}
  BY <1>1, PlacesTyped, Constants DEF Attempt
<1> DEFINE k == Attempt(c)
           M == Message(round'[c])
<1>3. M \in Seq(Bytes) /\ M \in [1 .. Size -> Bytes] /\ << >> \in Seq(Bytes) /\ Size \in Nat
  BY <1>1, CallValues, Constants
<1>4. PICK rest \in Seq(Bytes) :
        /\ (Received(c) \o stream[<<k, "client">>]) \o rest = << >>
        /\ end[<<k, "server">>] # "closed" => rest = Held(k) \o (stream[<<k, "server">>] \o Unsent(c))
  BY <1>1 DEF AllKept, Kept, Carried, Target
<1>5. /\ Received(c) \in Seq(Bytes) /\ Unsent(c) \in Seq(Bytes) /\ Held(k) \in Seq(Bytes)
      /\ stream[<<k, "client">>] \in Seq(Bytes) /\ stream[<<k, "server">>] \in Seq(Bytes)
  BY PlacesTyped
<1>6. /\ stream[<<k, "client">>] = << >>
      /\ end[<<k, "server">>] # "closed" => Held(k) = << >> /\ stream[<<k, "server">>] = << >>
  <2> DEFINE R == stream[<<k, "client">>]
             T == stream[<<k, "server">>]
             U == Unsent(c)
             H == Held(k)
             P == Received(c)
  <2>1. /\ P \in Seq(Bytes) /\ R \in Seq(Bytes) /\ H \in Seq(Bytes) /\ T \in Seq(Bytes) /\ U \in Seq(Bytes)
        /\ (P \o R) \o rest = << >> /\ (end[<<k, "server">>] # "closed" => rest = H \o (T \o U))
    BY <1>4, <1>5
  <2> HIDE DEF R, T, U, H, P, k
  <2>2. P \o R \in Seq(Bytes) /\ T \o U \in Seq(Bytes)
    BY <2>1, ConcatProperties
  <2>3. P \o R = << >> /\ rest = << >>
    BY <2>1, <2>2, ConcatEqualIffEmpty
  <2>4. R = << >>
    BY <2>1, <2>3, ConcatEqualIffEmpty
  <2>5. ASSUME H \o (T \o U) = << >> PROVE H = << >> /\ T = << >>
    <3>1. H = << >> /\ T \o U = << >>
      BY <2>1, <2>2, <2>5, ConcatEqualIffEmpty
    <3>2. QED BY <2>1, <3>1, ConcatEqualIffEmpty
  <2>6. QED BY <2>1, <2>3, <2>4, <2>5 DEF R, T, U, H, P
<1>7. /\ Received(c)' = << >> /\ Unsent(c)' = M /\ Target(c)' = M /\ Held(k)' = Held(k)
  <2>1. Received(c)' = << >> /\ Target(c)' = M
    BY <1>1 DEF Received, Target, Message
  <2>2. Held(k)' = Held(k)
    BY <1>1, <1>2, PlacesFrame
  <2>3. Unsent(c)' = M
    <3>1. io'[c].moved + io'[c].n + 1 = 1 /\ io'[c].moved + io'[c].left = Size
      BY <1>1, <1>3
    <3>2. Unsent(c)' = SubSeq(M, 1, Size)
      BY <1>1, <3>1 DEF Unsent, After
    <3>3. QED BY <1>3, <3>2, BufferIsSeq
  <2>4. QED BY <2>1, <2>2, <2>3
<1>8. Carried(c, k)'
  <2> HIDE DEF M
  <2>1. << >> \o << >> = << >> /\ << >> \o M = M
    BY <1>3, ConcatEmptySeq
  <2>2. (Received(c)' \o stream'[<<k, "client">>]) \o M = Target(c)'
    BY <1>1, <1>6, <1>7, <2>1
  <2>3. end'[<<k, "server">>] # "closed" => M = Held(k)' \o (stream'[<<k, "server">>] \o Unsent(c)')
    BY <1>1, <1>6, <1>7, <2>1
  <2>4. QED BY <1>2, <1>3, <2>2, <2>3 DEF Carried
<1>9. Kept(c)' /\ ClosedStay
  BY <1>1, <1>2, <1>8 DEF Kept, ClosedStay
<1>10. QED
  BY <1>1, <1>9, ClientKept

LEMMA SentKept ==
  ASSUME Basic, AllKept, NEW c \in Clients, Sent(c)
  PROVE  AllKept'
<1>1. /\ doing[c] = "write" /\ doing'[c] = "read" /\ \A u \in Tasks \ {c} : doing'[u] = doing[u]
      /\ UNCHANGED <<stream, end, addr, round>>
      /\ \A u \in Tasks \ {c} : io'[u] = io[u] /\ buf'[u] = buf[u]
      /\ io[c].n = 0 /\ io[c].left = 0
      /\ io'[c].moved = 0 /\ io'[c].n = 0
  BY SentBasic DEF network
<1>2. Attempt(c)' = Attempt(c) /\ Attempt(c) \in Conns /\ Attempt(c) \in Tasks \ {c}
  BY <1>1, PlacesTyped, Constants DEF Attempt
<1>3. Received(c) = << >> /\ Received(c)' = << >>
  BY <1>1, NothingMoved DEF Received, Before
<1>4. Unsent(c) = << >> /\ Unsent(c)' = << >>
  <2>1. io[c].moved \in Nat
    BY Constants DEF Basic, Types, TaskTypes, Calls
  <2>2. QED BY <1>1, <2>1, NothingMoved DEF Unsent, After
<1>5. Held(Attempt(c))' = Held(Attempt(c))
  BY <1>1, <1>2, PlacesFrame
<1>6. Target(c)' = Target(c)
  BY <1>1 DEF Target, Message
<1>7. Carried(c, Attempt(c))
  BY <1>1 DEF AllKept, Kept
<1>8. Carried(c, Attempt(c))'
  BY <1>1, <1>2, <1>3, <1>4, <1>5, <1>6, <1>7, CarriedOn
<1>9. Kept(c)' /\ ClosedStay
  BY <1>1, <1>8 DEF Kept, ClosedStay
<1>10. QED
  BY <1>1, <1>9, ClientKept

(* What the client has read when read_full returns is the whole message.    *)
LEMMA RepliedWhole ==
  ASSUME Basic, AllKept, NEW c \in Clients, Replied(c)
  PROVE  /\ buf[c] = Message(round[c]) /\ Received(c) = buf[c]
         /\ stream[<<Attempt(c), "client">>] = << >>
         /\ end[<<Attempt(c), "server">>] # "closed" =>
              Held(Attempt(c)) = << >> /\ stream[<<Attempt(c), "server">>] = << >>
<1>1. doing[c] = "read" /\ io[c].n = 0 /\ io[c].moved = Size /\ Size \in Nat /\ c \in Tasks
  BY RepliedBasic, Constants
<1> DEFINE k == Attempt(c)
           M == Message(round[c])
<1>2. PICK rest \in Seq(Bytes) :
        /\ (Received(c) \o stream[<<k, "client">>]) \o rest = M
        /\ end[<<k, "server">>] # "closed" => rest = Held(k) \o (stream[<<k, "server">>] \o Unsent(c))
  BY <1>1 DEF AllKept, Kept, Carried, Target
<1>3. /\ Unsent(c) \in Seq(Bytes) /\ Held(k) \in Seq(Bytes)
      /\ stream[<<k, "client">>] \in Seq(Bytes) /\ stream[<<k, "server">>] \in Seq(Bytes)
  BY PlacesTyped
<1>4. Received(c) = buf[c] /\ buf[c] \in Seq(Bytes) /\ Len(buf[c]) = Size
  <2>1. buf[c] \in [1 .. Size -> Bytes] /\ io[c].moved + io[c].n = Size
    BY <1>1 DEF Basic, Types, TaskTypes
  <2>2. Received(c) = SubSeq(buf[c], 1, Size)
    BY <1>1, <2>1 DEF Received, Before
  <2>3. QED BY <2>1, <2>2, BufferIsSeq
<1>5. M \in Seq(Bytes) /\ Len(M) = Size
  <2>1. round[c] \in 0 .. 2 /\ round[c] # 0
    BY <1>1 DEF Basic, Types, ClientTypes, ClientEnds, ClientEnd
  <2>2. round[c] \in 1 .. 2
    BY <2>1
  <2>3. QED BY <2>2, CallValues
<1> DEFINE P == buf[c]
           R == stream[<<k, "client">>]
           H == Held(k)
           T == stream[<<k, "server">>]
           U == Unsent(c)
<1>6. /\ P \in Seq(Bytes) /\ R \in Seq(Bytes) /\ Len(P) = Size
      /\ H \in Seq(Bytes) /\ T \in Seq(Bytes) /\ U \in Seq(Bytes)
      /\ (P \o R) \o rest = M /\ (end[<<k, "server">>] # "closed" => rest = H \o (T \o U))
  BY <1>2, <1>3, <1>4
<1> HIDE DEF P, R, H, T, U, M, k
<1>7. R = << >> /\ rest = << >>
  <2>1. P \o R \in Seq(Bytes) /\ Len(P \o R) = Size + Len(R) /\ Len(R) \in Nat /\ Len(rest) \in Nat
    BY <1>6, ConcatProperties, LenProperties
  <2>2. Len((P \o R) \o rest) = Len(P \o R) + Len(rest)
    BY <2>1, ConcatProperties
  <2>3. Len(R) = 0 /\ Len(rest) = 0
    BY <1>1, <1>5, <1>6, <2>1, <2>2
  <2>4. QED BY <1>6, <2>3, EmptySeq
<1>8. P = M
  BY <1>6, <1>7, ConcatEmptySeq
<1>9. ASSUME H \o (T \o U) = << >> PROVE H = << >> /\ T = << >>
  <2>1. T \o U \in Seq(Bytes)
    BY <1>6, ConcatProperties
  <2>2. H = << >> /\ T \o U = << >>
    BY <1>6, <1>9, <2>1, ConcatEqualIffEmpty
  <2>3. QED BY <1>6, <2>2, ConcatEqualIffEmpty
<1>10. QED
  BY <1>4, <1>6, <1>7, <1>8, <1>9 DEF P, R, H, T, M, k

LEMMA RepliedKept ==
  ASSUME Basic, AllKept, NEW c \in Clients, Replied(c)
  PROVE  AllKept'
<1>1. /\ doing[c] = "read" /\ doing'[c] = "loop" /\ \A u \in Tasks \ {c} : doing'[u] = doing[u]
      /\ UNCHANGED <<stream, end, addr, round>>
      /\ \A u \in Tasks \ {c} : io'[u] = io[u] /\ buf'[u] = buf[u]
  BY RepliedBasic DEF network
<1>2. Attempt(c)' = Attempt(c) /\ Attempt(c) \in Conns /\ Attempt(c) \in Tasks \ {c}
  BY <1>1, PlacesTyped, Constants DEF Attempt
<1>3. Received(c)' = << >> /\ Unsent(c)' = << >> /\ Target(c)' = << >>
  BY <1>1 DEF Received, Unsent, Target
<1>4. Held(Attempt(c))' = Held(Attempt(c))
  BY <1>1, <1>2, PlacesFrame
<1>5. Carried(c, Attempt(c))'
  BY <1>1, <1>2, <1>3, <1>4, RepliedWhole, EmptyCarried
<1>6. Kept(c)' /\ ClosedStay
  BY <1>1, <1>5 DEF Kept, ClosedStay
<1>7. QED
  BY <1>1, <1>6, ClientKept

LEMMA ReadSomeKept ==
  ASSUME Basic, AllKept, NEW k \in Conns, ReadSome(k)
  PROVE  AllKept'
<1>1. /\ k \in Tasks /\ UNCHANGED <<network, stream, end, client>>
      /\ io' = [io EXCEPT ![k] = Called("read", Size)] /\ buf' = [buf EXCEPT ![k] = Empty]
      /\ doing' = [doing EXCEPT ![k] = "read"]
      /\ io \in [Tasks -> Calls] /\ Sound(k) /\ Size \in Nat
  BY Constants DEF ReadSome, network, Basic, Types, TaskTypes, CallsSound
<1>2. /\ io'[k] = Called("read", Size) /\ doing'[k] = "read"
      /\ \A u \in Tasks \ {k} : io'[u] = io[u] /\ buf'[u] = buf[u] /\ doing'[u] = doing[u]
  BY <1>1 DEF Basic, Types, TaskTypes
<1>3. Held(k) = << >>
  <2>1. CASE doing[k] = "spawned"
    BY <2>1 DEF Held
  <2>2. CASE doing[k] = "write" /\ io[k].at = "done" /\ ~io[k].err
    <3>1. io[k].n = 0 /\ io[k].left = 0 /\ io[k].moved \in Nat
      BY <1>1, <2>2 DEF Sound, Calls
    <3>2. QED BY <2>2, <3>1, NothingMoved DEF Held, After
  <2>3. QED BY <2>1, <2>2 DEF ReadSome
<1>4. Held(k)' = << >>
  <2>1. io'[k].moved = 0 /\ io'[k].n = 0
    BY <1>1, <1>2, CalledValues
  <2>2. QED BY <1>2, <2>1, NothingMoved DEF Held, Before
<1>5. ClosedStay
  BY <1>1 DEF ClosedStay
<1>6. QED
  BY <1>1, <1>2, <1>3, <1>4, <1>5, ConnKept

LEMMA WriteBackKept ==
  ASSUME Basic, AllKept, NEW k \in Conns, WriteBack(k)
  PROVE  AllKept'
<1>1. /\ k \in Tasks /\ UNCHANGED <<network, stream, end, client, buf>>
      /\ io' = [io EXCEPT ![k] = Called("write", io[k].moved)]
      /\ doing[k] = "read" /\ doing' = [doing EXCEPT ![k] = "write"]
      /\ io \in [Tasks -> Calls] /\ Sound(k)
  BY Constants DEF WriteBack, network, Basic, Types, TaskTypes, CallsSound
<1>2. /\ io'[k] = Called("write", io[k].moved) /\ doing'[k] = "write"
      /\ \A u \in Tasks \ {k} : io'[u] = io[u] /\ buf'[u] = buf[u] /\ doing'[u] = doing[u]
  BY <1>1 DEF Basic, Types, TaskTypes
<1>3. io[k].n = 0 /\ io[k].moved \in Nat
  BY <1>1 DEF Sound, Calls, WriteBack
<1>4. Held(k) = SubSeq(buf[k], 1, io[k].moved)
  <2>1. io[k].moved + io[k].n = io[k].moved
    BY <1>3
  <2>2. QED BY <1>1, <2>1 DEF Held, Before
<1>5. Held(k)' = SubSeq(buf[k], 1, io[k].moved)
  <2>1. io'[k].moved = 0 /\ io'[k].n = 0 /\ io'[k].left = io[k].moved
    BY <1>2, <1>3, CalledValues
  <2>2. io'[k].moved + io'[k].n + 1 = 1 /\ io'[k].moved + io'[k].left = io[k].moved
    BY <1>3, <2>1
  <2>3. QED BY <1>1, <1>2, <2>2 DEF Held, After
<1>6. ClosedStay
  BY <1>1 DEF ClosedStay
<1>7. QED
  BY <1>1, <1>2, <1>4, <1>5, <1>6, ConnKept

-----------------------------------------------------------------------------
(* Everything together.                                                     *)
EchoInv == Basic /\ AllKept

LEMMA InitEcho == EchoInit => EchoInv
<1> SUFFICES ASSUME EchoInit PROVE AllKept
  BY InitBasic DEF EchoInv
<1>1. \A c \in Clients : doing[c] = "connect"
  BY Constants DEF EchoInit
<1>2. QED
  BY <1>1 DEF AllKept, Kept

LEMMA ClientEcho ==
  ASSUME EchoInv, NEW c \in Clients, Client(c)
  PROVE  EchoInv'
<1> USE DEF EchoInv
<1>1. c \in Tasks
  BY Constants
<1>2. CASE GiveUp(c)
  BY <1>1, <1>2, EndBasic, EndKept DEF GiveUp
<1>3. CASE Connect(c)
  BY <1>3, ConnectBasic, ConnectKept
<1>4. CASE ConnectFails(c)
  BY <1>4, ConnectFailsBasic, ConnectFailsKept
<1>5. CASE Connected(c)
  BY <1>5, ConnectedBasic, ConnectedKept
<1>6. CASE Send(c)
  BY <1>6, SendBasic, SendKept
<1>7. CASE Sent(c)
  BY <1>7, SentBasic, SentKept
<1>8. CASE Replied(c)
  BY <1>8, RepliedBasic, RepliedKept
<1>9. QED
  BY <1>2, <1>3, <1>4, <1>5, <1>6, <1>7, <1>8 DEF Client

LEMMA StepEcho ==
  ASSUME EchoInv, NEW t \in Tasks, Step(t) \/ Kill(t)
  PROVE  EchoInv'
<1> USE DEF EchoInv
<1>1. CASE Moves(t)
  BY <1>1, TransferKept
<1>2. CASE Broken(t)
  BY <1>2, EndBasic, EndKept DEF Broken
<1>3. CASE Kill(t)
  <2>1. Sound(t)
    BY DEF Basic, CallsSound
  <2>2. doing[t] \in {"connecting", "failed", "spawned", "read", "write"}
    BY <1>3, <2>1 DEF Kill, Sound
  <2>3. QED BY <1>3, <2>2, EndBasic, EndKept DEF Kill
<1>4. CASE t \in Clients /\ Client(t)
  BY <1>4, ClientEcho
<1>5. CASE t \in Conns /\ ReadSome(t)
  BY <1>5, ReadSomeBasic, ReadSomeKept
<1>6. CASE t \in Conns /\ WriteBack(t)
  BY <1>6, WriteBackBasic, WriteBackKept
<1>7. QED
  BY <1>1, <1>2, <1>3, <1>4, <1>5, <1>6 DEF Step

LEMMA ShutEcho ==
  ASSUME EchoInv, Shut, UNCHANGED <<stream, task, doing, client>>
  PROVE  EchoInv'
<1>1. Basic' /\ ClosedStay
  BY ShutBasic DEF ClosedStay, EchoInv
<1>2. QED
  BY <1>1, UnmovedKept DEF EchoInv

LEMMA UntouchedEcho ==
  ASSUME EchoInv, UNCHANGED <<network, task, doing, client>>
  PROVE  EchoInv'
<1>1. Basic'
  BY UntouchedBasic DEF EchoInv
<1>2. UNCHANGED <<stream, doing, client, task>> /\ ClosedStay
  BY DEF network, ClosedStay
<1>3. QED
  BY <1>1, <1>2, UnmovedKept DEF EchoInv

LEMMA NetworkEcho ==
  ASSUME EchoInv, NEW k \in Conns, Settles(k) \/ Break(k)
  PROVE  EchoInv'
<1>1. UNCHANGED <<stream, doing, client, task>>
  BY DEF Settles, Establish, Refuse, Break, Reset
<1>2. Basic'
  BY EstablishBasic, RefuseBasic, BreakBasic DEF EchoInv, Settles
<1>3. ClosedStay
  <2>1. CASE Establish(k)
    <3>1. end[<<k, "server">>] = "none"
      BY <2>1 DEF Establish, EchoInv, Basic, ConnEnds, ConnEnd
    <3>2. QED BY <2>1, <3>1, Constants DEF Establish, ClosedStay, EchoInv, Basic, Types, KernelTypes
  <2>2. CASE Refuse(k)
    BY <2>2, Constants DEF Refuse, ClosedStay, EchoInv, Basic, Types, KernelTypes
  <2>3. CASE Break(k)
    BY <2>3 DEF Break, Reset, ClosedStay
  <2>4. QED BY <2>1, <2>2, <2>3 DEF Settles
<1>4. QED
  BY <1>1, <1>2, <1>3, UnmovedKept DEF EchoInv

LEMMA NextEcho == EchoInv /\ [EchoNext]_echoVars => EchoInv'
<1> SUFFICES ASSUME EchoInv, [EchoNext]_echoVars PROVE EchoInv'
  OBVIOUS
<1>1. CASE Bind \/ AcceptWait \/ UNCHANGED echoVars
  BY <1>1, UntouchedEcho DEF Bind, AcceptWait, echoVars
<1>2. CASE Listen
  <2>1. CASE sockets = 1
    BY <1>2, <2>1, UntouchedEcho DEF Listen
  <2>2. CASE sockets # 1
    BY <1>2, <2>2, ShutEcho DEF Listen
  <2>3. QED BY <2>1, <2>2
<1>3. CASE ServerEnds
  BY <1>3, ShutEcho DEF ServerEnds
<1>4. ASSUME NEW k \in Conns, Accept(k) PROVE EchoInv'
  BY <1>4, AcceptBasic, AcceptKept DEF EchoInv
<1>5. ASSUME NEW t \in Tasks, Step(t) \/ Kill(t) PROVE EchoInv'
  BY <1>5, StepEcho
<1>6. ASSUME NEW k \in Conns, Settles(k) \/ Break(k) PROVE EchoInv'
  BY <1>6, NetworkEcho
<1>7. ASSUME NEW k \in Conns, Halt(k) PROVE EchoInv'
  <2>1. k \in Tasks
    BY Constants
  <2>2. QED BY <1>7, <2>1, EndBasic, EndKept DEF Halt, EchoInv
<1>8. QED
  BY <1>1, <1>2, <1>3, <1>4, <1>5, <1>6, <1>7 DEF EchoNext, Server

LEMMA EchoInvariance == EchoSpec => []EchoInv
BY InitEcho, NextEcho, PTL DEF EchoSpec

-----------------------------------------------------------------------------
Row(p, s, h, t, u)   == p \o s \o h \o t \o u
Parts(p, s, h, t, u) == (p \o s) \o (h \o (t \o u))

LEMMA RowOfParts == \A p, s, h, t, u \in Seq(Bytes) : Row(p, s, h, t, u) = Parts(p, s, h, t, u)
<1> DEFINE cat(a, b) == a \o b
<1>1. \A a, b, c \in Seq(Bytes) : cat(cat(a, b), c) = cat(a, cat(b, c))
  BY ConcatAssociative
<1>2. \A a, b \in Seq(Bytes) : cat(a, b) \in Seq(Bytes)
  BY ConcatProperties
<1> SUFFICES ASSUME NEW p \in Seq(Bytes), NEW s \in Seq(Bytes),
                    NEW h \in Seq(Bytes), NEW t \in Seq(Bytes), NEW u \in Seq(Bytes)
             PROVE  cat(cat(cat(cat(p, s), h), t), u) = cat(cat(p, s), cat(h, cat(t, u)))
  BY DEF Row, Parts
<1> HIDE DEF cat
<1>3. PICK a \in Seq(Bytes) : a = cat(p, s)
  BY <1>2
<1>4. cat(a, h) \in Seq(Bytes) /\ cat(t, u) \in Seq(Bytes)
  BY <1>2
<1>5. cat(cat(cat(a, h), t), u) = cat(cat(a, h), cat(t, u))
  BY <1>1, <1>4
<1>6. cat(cat(a, h), cat(t, u)) = cat(a, cat(h, cat(t, u)))
  BY <1>1, <1>4
<1>7. QED
  BY <1>3, <1>5, <1>6

(* No byte is lost, repeated or out of place between a client, the streams  *)
(* of its connection and the process that serves it.                        *)
THEOREM BytesAlwaysKept == EchoSpec => []BytesKept
<1>1. EchoInv => BytesKept
  <2> SUFFICES ASSUME EchoInv, NEW c \in Clients, doing[c] \in {"loop", "write", "read"},
                      end[<<Attempt(c), "server">>] \in {"queued", "open"}
               PROVE  Received(c) \o stream[<<Attempt(c), "client">>] \o Held(Attempt(c))
                        \o stream[<<Attempt(c), "server">>] \o Unsent(c)
                        = IF doing[c] = "loop" THEN <<>> ELSE Message(round[c])
    BY DEF BytesKept
  <2> DEFINE P == Received(c)
             R == stream[<<Attempt(c), "client">>]
             H == Held(Attempt(c))
             T == stream[<<Attempt(c), "server">>]
             U == Unsent(c)
  <2>1. (P \o R) \o (H \o (T \o U)) = Target(c)
    BY DEF EchoInv, AllKept, Kept, Carried
  <2>2. P \in Seq(Bytes) /\ R \in Seq(Bytes) /\ H \in Seq(Bytes) /\ T \in Seq(Bytes) /\ U \in Seq(Bytes)
    BY PlacesTyped DEF EchoInv
  <2>3. P \o R \o H \o T \o U = (P \o R) \o (H \o (T \o U))
    <3> HIDE DEF P, R, H, T, U
    <3>1. Row(P, R, H, T, U) = Parts(P, R, H, T, U)
      BY <2>2, RowOfParts
    <3>2. QED BY <3>1 DEF Row, Parts
  <2>4. QED BY <2>1, <2>3 DEF Target
<1>2. QED
  BY <1>1, EchoInvariance, PTL

(* connect() never gives a descriptor of a connection that was not made, or *)
(* an error that is not set, and leaves no descriptor of an attempt open.   *)
THEOREM ConnectAlwaysHonest == EchoSpec => []ConnectHonest
<1>1. EchoInv => ConnectHonest
  BY DEF EchoInv, Basic, ClientEnds, ClientEnd, ConnectHonest
<1>2. QED
  BY <1>1, EchoInvariance, PTL

-----------------------------------------------------------------------------
(* The client as one that asks and is answered.                             *)
LEMMA ProgressValues ==
  ASSUME NEW c \in Clients
  PROVE  /\ doing[c] \in {"connect", "connecting", "failed"} => progress[c] = "start"
         /\ doing[c] = "loop" => progress[c] = "idle"
         /\ doing[c] \in {"write", "read"} => progress[c] = "asked"
         /\ doing'[c] \in {"connect", "connecting", "failed"} => progress'[c] = "start"
         /\ doing'[c] = "loop" => progress'[c] = "idle"
         /\ doing'[c] \in {"write", "read"} => progress'[c] = "asked"
         /\ doing'[c] = "ended" => progress'[c] = "lost"
BY DEF progress

LEMMA ProgressSteps ==
  ASSUME NEW c \in Clients, \A d \in Clients \ {c} : doing'[d] = doing[d]
  PROVE  progress' = [progress EXCEPT ![c] = progress'[c]]
BY DEF progress

LEMMA ProgressStays ==
  ASSUME \A c \in Clients : doing'[c] = doing[c]
  PROVE  progress' = progress
BY DEF progress

LEMMA ClientTrips ==
  ASSUME EchoInv, NEW c \in Clients, Client(c)
  PROVE  [Trips!Next]_(Trips!vars)
<1> USE DEF EchoInv, Trips!Next, Trips!vars
<1>1. \A d \in Clients \ {c} : d \in Tasks \ {c}
  BY Constants
<1>2. progress \in [Clients -> {"start", "idle", "asked", "lost"}]
  BY DEF progress
<1>3. ASSUME UNCHANGED <<round, reply>>, progress'[c] = progress[c], \A d \in Clients \ {c} : doing'[d] = doing[d]
      PROVE  UNCHANGED <<progress, asked, reply>>
  <2>1. progress' = progress
    BY <1>2, <1>3, ProgressSteps
  <2>2. QED BY <1>3, <2>1 DEF asked, Message
<1>4. CASE Connect(c)
  BY <1>1, <1>3, <1>4, ConnectBasic, ProgressValues DEF Connect, client
<1>5. CASE ConnectFails(c)
  BY <1>1, <1>3, <1>5, ConnectFailsBasic, ProgressValues DEF ConnectFails
<1>6. CASE Connected(c)
  <2>1. /\ \A d \in Clients \ {c} : doing'[d] = doing[d]
        /\ doing[c] = "connecting" /\ UNCHANGED <<round, reply>>
        /\ doing'[c] \in {"failed", "connect"} \/ doing'[c] = "loop"
    BY <1>1, <1>6, ConnectedBasic
  <2>2. CASE doing'[c] = "loop"
    <3>1. progress[c] = "start" /\ progress' = [progress EXCEPT ![c] = "idle"]
      BY <2>1, <2>2, ProgressValues, ProgressSteps
    <3>2. UNCHANGED <<asked, reply>>
      BY <2>1 DEF asked, Message
    <3>3. QED BY <3>1, <3>2 DEF Trips!Connect
  <2>3. CASE doing'[c] \in {"failed", "connect"}
    BY <1>3, <2>1, <2>3, ProgressValues
  <2>4. QED BY <2>1, <2>2, <2>3
<1>7. CASE GiveUp(c)
  <2>1. /\ \A d \in Clients \ {c} : doing'[d] = doing[d]
        /\ doing[c] = "failed" /\ doing'[c] = "ended" /\ UNCHANGED <<round, reply>>
    BY <1>1, <1>7, EndBasic, Constants DEF GiveUp, client
  <2>2. progress[c] = "start" /\ progress' = [progress EXCEPT ![c] = "lost"]
    BY <2>1, ProgressValues, ProgressSteps
  <2>3. UNCHANGED <<asked, reply>>
    BY <2>1 DEF asked, Message
  <2>4. QED BY <2>2, <2>3 DEF Trips!Lose
<1>8. CASE Send(c)
  <2>1. /\ \A d \in Clients \ {c} : doing'[d] = doing[d] /\ round'[d] = round[d]
        /\ doing[c] = "loop" /\ doing'[c] = "write" /\ UNCHANGED reply
        /\ round'[c] \in 1 .. 2
    BY <1>1, <1>8, SendBasic
  <2>2. progress[c] = "idle" /\ progress' = [progress EXCEPT ![c] = "asked"]
    BY <2>1, ProgressValues, ProgressSteps
  <2>3. asked' = [asked EXCEPT ![c] = Message(round'[c])]
    <3>1. asked'[c] = Message(round'[c]) /\ \A d \in Clients \ {c} : asked'[d] = asked[d]
      <4>1. round'[c] # 0
        BY <2>1
      <4>2. \A r : Message(r)' = Message(r)
        BY DEF Message
      <4>3. asked'[c] = Message(round'[c])
        BY <4>1, <4>2 DEF asked
      <4>4. \A d \in Clients \ {c} : asked'[d] = asked[d]
        BY <2>1, <4>2 DEF asked
      <4>5. QED BY <4>3, <4>4
    <3>2. asked' = [d \in Clients |-> asked'[d]] /\ asked = [d \in Clients |-> asked[d]]
      BY DEF asked
    <3>3. QED BY <3>1, <3>2
  <2>4. Message(round'[c]) \in {Message(1), Message(2)}
    BY <2>1
  <2>5. Trips!Ask(c)
    BY <2>1, <2>2, <2>3, <2>4 DEF Trips!Ask
  <2>6. QED BY <2>5
<1>9. CASE Sent(c)
  BY <1>1, <1>3, <1>9, SentBasic, ProgressValues
<1>10. CASE Replied(c)
  <2>1. /\ \A d \in Clients \ {c} : doing'[d] = doing[d]
        /\ doing[c] = "read" /\ doing'[c] = "loop" /\ UNCHANGED round
        /\ reply' = [reply EXCEPT ![c] = buf[c]] /\ buf[c] = Message(round[c])
    BY <1>1, <1>10, RepliedBasic, RepliedWhole
  <2>2. progress[c] = "asked" /\ progress' = [progress EXCEPT ![c] = "idle"]
    BY <2>1, ProgressValues, ProgressSteps
  <2>3. UNCHANGED asked
    BY <2>1 DEF asked, Message
  <2>4. asked[c] = Message(round[c])
    <3>1. round[c] # 0
      BY <2>1 DEF Basic, ClientEnds, ClientEnd
    <3>2. QED BY <3>1 DEF asked
  <2>5. Trips!Answer(c)
    BY <2>1, <2>2, <2>3, <2>4 DEF Trips!Answer
  <2>6. QED BY <2>5
<1>11. QED
  BY <1>4, <1>5, <1>6, <1>7, <1>8, <1>9, <1>10 DEF Client

LEMMA EndTrips ==
  ASSUME EchoInv, NEW t \in Tasks, End(t), UNCHANGED client,
         doing[t] \in {"connecting", "failed", "spawned", "read", "write"}
  PROVE  [Trips!Next]_(Trips!vars)
<1> USE DEF EchoInv, Trips!Next, Trips!vars
<1>1. /\ doing'[t] = "ended" /\ \A u \in Tasks \ {t} : doing'[u] = doing[u]
      /\ UNCHANGED <<round, reply>>
  BY EndBasic DEF client
<1>2. UNCHANGED <<asked, reply>>
  BY <1>1 DEF asked, Message
<1>3. CASE t \in Clients
  <2>1. \A d \in Clients \ {t} : doing'[d] = doing[d]
    BY <1>1, Constants
  <2>2. doing[t] \in {"connecting", "failed", "read", "write"}
    BY <1>3 DEF Basic, ClientEnds, ClientEnd
  <2>3. progress[t] # "lost" /\ progress' = [progress EXCEPT ![t] = "lost"]
    BY <1>1, <1>3, <2>1, <2>2, ProgressValues, ProgressSteps
  <2>4. QED BY <1>2, <1>3, <2>3 DEF Trips!Lose
<1>4. CASE t \in Conns
  <2>1. \A c \in Clients : doing'[c] = doing[c]
    BY <1>1, <1>4, Constants
  <2>2. QED BY <1>2, <2>1, ProgressStays
<1>5. QED
  BY <1>3, <1>4, Constants

LEMMA TripsStep == EchoInv /\ [EchoNext]_echoVars => [Trips!Next]_(Trips!vars)
<1> SUFFICES ASSUME EchoInv, [EchoNext]_echoVars PROVE [Trips!Next]_(Trips!vars)
  OBVIOUS
<1>1. ASSUME \A c \in Clients : doing'[c] = doing[c], UNCHANGED client
      PROVE  [Trips!Next]_(Trips!vars)
  <2>1. progress' = progress /\ UNCHANGED <<asked, reply>>
    BY <1>1, ProgressStays DEF asked, Message, client
  <2>2. QED BY <2>1 DEF Trips!vars
<1>2. CASE Bind \/ AcceptWait \/ Listen \/ ServerEnds \/ UNCHANGED echoVars
  BY <1>1, <1>2 DEF Bind, AcceptWait, Listen, ServerEnds, echoVars
<1>3. ASSUME NEW k \in Conns, doing' = [doing EXCEPT ![k] = doing'[k]], UNCHANGED client
      PROVE  [Trips!Next]_(Trips!vars)
  <2>1. \A c \in Clients : doing'[c] = doing[c]
    BY <1>3, Constants DEF EchoInv, Basic, Types, TaskTypes
  <2>2. QED BY <1>1, <1>3, <2>1
<1>4. ASSUME NEW k \in Conns, Accept(k) \/ ReadSome(k) \/ WriteBack(k)
      PROVE  [Trips!Next]_(Trips!vars)
  <2>1. UNCHANGED client /\ doing' = [doing EXCEPT ![k] = doing'[k]]
    BY <1>4, Constants DEF Accept, ReadSome, WriteBack, EchoInv, Basic, Types, TaskTypes
  <2>2. QED BY <1>3, <2>1
<1>5. ASSUME NEW t \in Tasks, Step(t) \/ Kill(t) PROVE [Trips!Next]_(Trips!vars)
  <2>1. CASE Moves(t)
    BY <1>1, <2>1 DEF Moves
  <2>2. CASE Broken(t)
    BY <2>2, EndTrips DEF Broken
  <2>3. CASE Kill(t)
    <3>1. Sound(t)
      BY DEF EchoInv, Basic, CallsSound
    <3>2. doing[t] \in {"connecting", "failed", "spawned", "read", "write"}
      BY <2>3, <3>1 DEF Kill, Sound
    <3>3. QED BY <2>3, <3>2, EndTrips DEF Kill
  <2>4. CASE t \in Clients /\ Client(t)
    BY <2>4, ClientTrips
  <2>5. CASE t \in Conns /\ (ReadSome(t) \/ WriteBack(t))
    BY <1>4, <2>5
  <2>6. QED BY <1>5, <2>1, <2>2, <2>3, <2>4, <2>5 DEF Step
<1>6. ASSUME NEW k \in Conns, Settles(k) \/ Break(k) PROVE [Trips!Next]_(Trips!vars)
  BY <1>1, <1>6 DEF Settles, Establish, Refuse, Break
<1>7. ASSUME NEW k \in Conns, Halt(k) PROVE [Trips!Next]_(Trips!vars)
  <2>1. k \in Tasks
    BY Constants
  <2>2. QED BY <1>7, <2>1, EndTrips DEF Halt
<1>8. QED
  BY <1>2, <1>4, <1>5, <1>6, <1>7 DEF EchoNext, Server

(* What a client reads back is what it wrote last, or the connection ends;  *)
(* this is the part of RoundTrips that is not about time.                   *)
THEOREM ReplyIsRequest == EchoSpec => RoundTripsSafe
<1>1. EchoInit => Trips!Init
  BY Constants DEF EchoInit, Trips!Init, progress, asked
<1>2. QED
  BY <1>1, TripsStep, EchoInvariance, PTL DEF EchoSpec, RoundTripsSafe, Trips!SafeSpec
=============================================================================
