---------------------------- MODULE TimerService ----------------------------
(***************************************************************************)
(* Sleeping (src/time.cpp): the timer service is a process with the timer  *)
(* wheel (TimerWheel.tla) and a FIFO mailbox (MessageQueue.tla,            *)
(* implemented by Mailbox.tla).  The tick thread publishes the clock in    *)
(* TIME and then sends it to the service; a sleeper requests a timeout and *)
(* blocks until the service responds.                                      *)
(***************************************************************************)
EXTENDS TimerWheel, Sequences

CONSTANT MaxMailbox   \* bound on the service's mailbox

ASSUME TimerServiceAssumption == MaxMailbox \in Nat

VARIABLES clock,     \* TIME
          sent,      \* the clock as last sent to the service
          mailbox,   \* the service's mailbox; the head is what it handles
          sleep      \* each sleeper's sleep

vars  == <<clock, sent, mailbox, wheel, sleep>>

Update(t) == [type |-> "update", timestamp |-> t]
Request(id, timeout) == [type |-> "request", id |-> id, timeout |-> timeout]

(* asked: the clock value sent last when the sleep began. *)
Awake == [state |-> "awake", asked |-> 0, timeout |-> 0]

Init == /\ clock = 0
        /\ sent = 0
        /\ mailbox = << >>
        /\ WheelInit
        /\ sleep = [id \in Ids |-> Awake]

(* tick(): the steady clock has moved by any amount. *)
Store ==
  /\ sent = clock
  /\ clock' \in clock + 1 .. MaxTime
  /\ UNCHANGED <<sent, mailbox, wheel, sleep>>

Send ==
  /\ sent < clock /\ Len(mailbox) < MaxMailbox
  /\ sent' = clock
  /\ mailbox' = Append(mailbox, Update(clock))
  /\ UNCHANGED <<clock, wheel, sleep>>

(* time::sleep: request() and block.  The bound leaves time for the answer. *)
Sleep(id, timeout) ==
  /\ sleep[id].state = "awake"
  /\ clock + timeout < MaxTime /\ Len(mailbox) < MaxMailbox
  /\ mailbox' = Append(mailbox, Request(id, timeout))
  /\ sleep' = [sleep EXCEPT ![id] = [state |-> "asleep", asked |-> sent,
                                     timeout |-> timeout]]
  /\ UNCHANGED <<clock, sent, wheel>>

Handles(type) == mailbox # << >> /\ Head(mailbox).type = type

(* The handler of UpdateMessage: _update ticks until the clock is reached.  *)
(* A tick at a time, since others go on meanwhile.                          *)
BehindOrAt == time <= Head(mailbox).timestamp   \* one tick too far

Behind == time < Head(mailbox).timestamp

(* What the next tick sends. *)
SentNext == least[(time + 1) % LeastValue]   \* the index of the time after the tick

Sent == least[time % LeastValue]

UpdateTick ==
  /\ Handles("update") /\ Behind
  /\ Tick
  /\ sleep' = [id \in Ids |->
                 IF \E n \in Sent : n.id = id THEN Awake ELSE sleep[id]]
  /\ UNCHANGED <<clock, sent, mailbox>>

Updated ==
  /\ Handles("update") /\ ~Behind
  /\ mailbox' = Tail(mailbox)
  /\ UNCHANGED <<clock, sent, wheel, sleep>>

(* The handler of TimeoutRequest. *)
HandleRequest ==
  /\ Handles("request")
  /\ Timeout(Head(mailbox).id, Head(mailbox).timeout)
  /\ mailbox' = Tail(mailbox)
  /\ UNCHANGED <<clock, sent, sleep>>

Serve == UpdateTick \/ Updated \/ HandleRequest

Next == Store \/ Send \/ Serve \/ \E id \in Ids, t \in Timeouts : Sleep(id, t)

(* The tick thread runs and the service is scheduled. *)
Fairness == WF_vars(Store) /\ WF_vars(Send) /\ WF_vars(Serve)

Spec == Init /\ [][Next]_vars /\ Fairness
-----------------------------------------------------------------------------
(* A sleep is measured from the last clock value sent before it began, for  *)
(* the mailbox delivers that update first: a sleeper is not woken before    *)
(* the clock has passed that value by more than the timeout, so a sleep is  *)
(* short by at most the one update stored in TIME and not yet sent.         *)
DeadlineExact ==
  [][\A id \in Ids : sleep[id].state = "asleep" /\ sleep'[id].state = "awake"
       => Head(mailbox).timestamp > sleep[id].asked + sleep[id].timeout]_vars

(* No timeout is overdue: what is pending lies ahead of every update the    *)
(* service has handled, and each sleeper is in one place only, a request in *)
(* the mailbox or a node in the wheel.                                      *)
NoneOverdue ==
  /\ \A n \in pending : n.expire >= time
  /\ \A id \in Ids :
       LET requests == {i \in 1 .. Len(mailbox) :
                          mailbox[i].type = "request" /\ mailbox[i].id = id}
           nodes == {n \in pending : n.id = id}
       IN  IF sleep[id].state = "asleep"
           THEN \/ nodes = {} /\ \E i \in requests : requests = {i}
                \/ requests = {} /\ \E n \in nodes : nodes = {n}
           ELSE requests = {} /\ nodes = {}

(* Every sleep ends.                                                        *)
EverySleepEnds == \A id \in Ids : sleep[id].state = "asleep" ~> sleep[id].state = "awake"
=============================================================================
