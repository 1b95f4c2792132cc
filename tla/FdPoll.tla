------------------------------- MODULE FdPoll -------------------------------
(***************************************************************************)
(* Waiting for a file descriptor.  With epoll (src/fd_epoll.cpp), wait()   *)
(* writes its process and session into the filter of the descriptor and    *)
(* event, registers the filter (one shot) and blocks.  The epoll thread    *)
(* gets the filters of what is ready and sends each a response.  The       *)
(* filters are shared with no lock: their two fields are written and read  *)
(* one by one, in whichever order the compiler gives them.                 *)
(*                                                                         *)
(* With kqueue (src/fd_kqueue.cpp), which the build takes instead, the     *)
(* kernel keeps process and session with the registration and hands them   *)
(* out with the event; nothing is removed when block() throws.             *)
(*                                                                         *)
(* The table of filters never moves or frees one, so it is a function.     *)
(* One coroutine at a time waits for an event of a descriptor, as the      *)
(* filter requires; the number of a closed descriptor is used again by     *)
(* whichever process opens the next one.                                   *)
(***************************************************************************)
EXTENDS Naturals, FiniteSets

CONSTANTS Processes,   \* each with one coroutine that waits
          Fds,
          Events,      \* fd::Event
          None,
          MaxSession   \* bound on the waits of a process

ASSUME FdPollAssumption == /\ None \notin Processes \cup Fds \cup Events
                           /\ MaxSession \in Nat

VARIABLES backend,   \* which file is built
          filter,    \* FDSET, or udata, per descriptor and event
          reg,       \* the kernel's registrations
          ready,     \* what could be read or written
          owner,     \* who has the descriptor open
          pc,        \* where the coroutine is in wait()
          slot,      \* what it waits for
          session,   \* its Session; the next new_session() is one more
          eps,       \* event sets still to look at, of the outer epoll_wait()
          batch,     \* filters still to handle, of the inner epoll_wait()
          events,    \* events still to handle, of kevent()
          current,   \* the filter that the epoll thread reads, if any
          responses  \* responses in mailboxes

kernel == <<reg, ready, owner>>
waits  == <<pc, slot, session>>
thread == <<eps, batch, events, current>>
state  == <<filter, kernel, waits, thread, responses>>
vars   == <<backend, state>>

Slots  == Fds \X Events
Fields == {"source", "session"}

Init == /\ backend \in {"epoll", "kqueue"}
        /\ filter = [s \in Slots |-> [source |-> None, session |-> 0]]
        /\ reg = [s \in Slots |-> "none"]
        /\ ready = {}
        /\ owner = [f \in Fds |-> None]
        /\ pc = [p \in Processes |-> "out"]
        /\ slot = [p \in Processes |-> None]
        /\ session = [p \in Processes |-> 0]
        /\ eps = {} /\ batch = {} /\ events = {} /\ current = {}
        /\ responses = {}
-----------------------------------------------------------------------------
(* wait(): the filter, one field and then the other. *)
Filled(p, s, n, f) == IF f = "source" THEN [filter EXCEPT ![s].source = p]
                                    ELSE [filter EXCEPT ![s].session = n]

Fill(p, s, f) ==
  /\ backend = "epoll" /\ pc[p] = "out" /\ owner[s[1]] = p /\ session[p] < MaxSession
  /\ session' = [session EXCEPT ![p] = @ + 1]
  /\ slot' = [slot EXCEPT ![p] = s]
  /\ filter' = Filled(p, s, session[p] + 1, f)
  /\ pc' = [pc EXCEPT ![p] = f]
  /\ UNCHANGED <<kernel, thread, responses>>

FillRest(p) ==
  /\ pc[p] \in Fields
  /\ \E f \in Fields \ {pc[p]} : filter' = Filled(p, slot[p], session[p], f)
  /\ pc' = [pc EXCEPT ![p] = "add"]
  /\ UNCHANGED <<kernel, slot, session, thread, responses>>

(* EPOLL_CTL_ADD, which looks at once whether the descriptor is ready. *)
Add(p) ==
  /\ pc[p] = "add"
  /\ reg' = [reg EXCEPT ![slot[p]] = "armed"]
  /\ pc' = [pc EXCEPT ![p] = "added"]
  /\ UNCHANGED <<filter, ready, owner, slot, session, thread, responses>>

(* EV_ADD: the kernel takes process and session, or replaces them. *)
AddEvent(p, s) ==
  /\ backend = "kqueue" /\ pc[p] = "out" /\ owner[s[1]] = p /\ session[p] < MaxSession
  /\ session' = [session EXCEPT ![p] = @ + 1]
  /\ slot' = [slot EXCEPT ![p] = s]
  /\ filter' = [filter EXCEPT ![s] = [source |-> p, session |-> session[p] + 1]]
  /\ reg' = [reg EXCEPT ![s] = "armed"]
  /\ pc' = [pc EXCEPT ![p] = "added"]
  /\ UNCHANGED <<ready, owner, thread, responses>>

Block(p) ==
  /\ pc[p] = "added"
  /\ pc' = [pc EXCEPT ![p] = "blocked"]
  /\ UNCHANGED <<filter, kernel, slot, session, thread, responses>>

(* The process takes the response when its coroutine has left the thread:   *)
(* one for another session than the one that is blocked is dropped.         *)
DeliverEarly(r) ==   \* also while the coroutine is still in wait()
  /\ r \in responses
  /\ responses' = responses \ {r}
  /\ pc' = IF pc[r.source] = "blocked" /\ session[r.source] = r.session
           THEN [pc EXCEPT ![r.source] = "resumed"] ELSE pc
  /\ UNCHANGED <<filter, kernel, slot, session, thread>>

Deliver(r) ==
  /\ r \in responses
  /\ pc[r.source] \in {"out", "blocked", "dead"}
  /\ responses' = responses \ {r}
  /\ pc' = IF pc[r.source] = "blocked" /\ session[r.source] = r.session
           THEN [pc EXCEPT ![r.source] = "resumed"] ELSE pc
  /\ UNCHANGED <<filter, kernel, slot, session, thread>>

(* The process is killed: block() throws. *)
Interrupt(p) ==
  /\ pc[p] = "blocked"
  /\ pc' = [pc EXCEPT ![p] = "interrupted"]
  /\ UNCHANGED <<filter, kernel, slot, session, thread, responses>>

(* EPOLL_CTL_DEL, however block() ends; nothing with kqueue. *)
Returned(p) == [pc EXCEPT ![p] = IF @ = "resumed" THEN "out" ELSE "dead"]

DelSkipped(p) ==   \* as if the one shot removed the registration
  /\ pc[p] \in {"resumed", "interrupted"}
  /\ pc' = Returned(p)
  /\ UNCHANGED <<filter, kernel, slot, session, thread, responses>>

Del(p) ==
  /\ pc[p] \in {"resumed", "interrupted"}
  /\ reg' = IF backend = "epoll" THEN [reg EXCEPT ![slot[p]] = "none"] ELSE reg
  /\ pc' = Returned(p)
  /\ UNCHANGED <<filter, ready, owner, slot, session, thread, responses>>
-----------------------------------------------------------------------------
(* The epoll thread.  The outer epoll_wait() says which of the two event    *)
(* sets has something, the inner one takes what is ready in one of them.    *)
Reportable(e) == {s \in ready : s[2] = e /\ reg[s] = "armed"}

Poll ==
  /\ backend = "epoll" /\ eps = {} /\ batch = {} /\ current = {}
  /\ eps' = {e \in Events : Reportable(e) # {}}
  /\ eps' # {}
  /\ UNCHANGED <<filter, kernel, waits, batch, events, current, responses>>

PollRepeated(e) ==   \* without EPOLLONESHOT
  /\ e \in eps /\ batch = {} /\ current = {}
  /\ eps' = eps \ {e}
  /\ batch' = Reportable(e)
  /\ UNCHANGED <<filter, kernel, waits, events, current, responses>>

PollEvents(e) ==
  /\ e \in eps /\ batch = {} /\ current = {}
  /\ eps' = eps \ {e}
  /\ batch' = Reportable(e)
  /\ reg' = [s \in Slots |-> IF s \in Reportable(e) THEN "fired" ELSE reg[s]]
  /\ UNCHANGED <<filter, ready, owner, waits, events, current, responses>>

(* The arguments of process::response(), one read and then the other. *)
Read(s, f) ==
  /\ s \in batch /\ current = {}
  /\ batch' = batch \ {s}
  /\ current' = {[slot |-> s, field |-> f,
                  value |-> IF f = "source" THEN filter[s].source ELSE filter[s].session]}
  /\ UNCHANGED <<filter, kernel, waits, eps, events, responses>>

Respond ==
  /\ current # {}
  /\ responses' = responses \cup
       {IF c.field = "source" THEN [filter[c.slot] EXCEPT !.source = c.value]
                              ELSE [filter[c.slot] EXCEPT !.session = c.value] : c \in current}
  /\ current' = {}
  /\ UNCHANGED <<filter, kernel, waits, eps, batch, events>>
-----------------------------------------------------------------------------
(* The kqueue thread: kevent() gives process and session of what is ready.  *)
Kevent ==
  /\ backend = "kqueue" /\ events = {}
  /\ LET S == {s \in ready : reg[s] = "armed"} IN
     /\ S # {}
     /\ events' = {filter[s] : s \in S}
     /\ reg' = [s \in Slots |-> IF s \in S THEN "fired" ELSE reg[s]]
  /\ UNCHANGED <<filter, ready, owner, waits, eps, batch, current, responses>>

RespondEvent(e) ==
  /\ e \in events
  /\ events' = events \ {e}
  /\ responses' = responses \cup {e}
  /\ UNCHANGED <<filter, kernel, waits, eps, batch, current>>
-----------------------------------------------------------------------------
(* Descriptors: opened, closed (also by a dead process), made ready by the  *)
(* other side, used up by reads and writes.                                 *)
Open(p, f) ==
  /\ pc[p] = "out" /\ owner[f] = None
  /\ owner' = [owner EXCEPT ![f] = p]
  /\ UNCHANGED <<filter, reg, ready, waits, thread, responses>>

Close(p, f) ==
  /\ pc[p] \in {"out", "dead"} /\ owner[f] = p
  /\ owner' = [owner EXCEPT ![f] = None]
  /\ reg' = [s \in Slots |-> IF s[1] = f THEN "none" ELSE reg[s]]
  /\ ready' = {s \in ready : s[1] # f}
  /\ UNCHANGED <<filter, waits, thread, responses>>

Arrive(s) ==
  /\ owner[s[1]] # None /\ s \notin ready
  /\ ready' = ready \cup {s}
  /\ UNCHANGED <<filter, reg, owner, waits, thread, responses>>

UseUp(p, s) ==
  /\ pc[p] = "out" /\ owner[s[1]] = p /\ s \in ready
  /\ ready' = ready \ {s}
  /\ UNCHANGED <<filter, reg, owner, waits, thread, responses>>
-----------------------------------------------------------------------------
Waiting(p) == FillRest(p) \/ Add(p) \/ Block(p) \/ Del(p)

EpollThread == \/ Poll \/ Respond
               \/ \E e \in Events : PollEvents(e)
               \/ \E s \in Slots, f \in Fields : Read(s, f)

KqueueThread == Kevent \/ \E e \in events : RespondEvent(e)

Handles(p) == \E r \in responses : r.source = p /\ Deliver(r)

Next == /\ \/ EpollThread \/ KqueueThread
           \/ \E s \in Slots : Arrive(s)
           \/ \E p \in Processes : \/ Waiting(p) \/ Handles(p) \/ Interrupt(p)
                                   \/ \E f \in Fds : Open(p, f) \/ Close(p, f)
                                   \/ \E s \in Slots : UseUp(p, s) \/ AddEvent(p, s)
                                   \/ \E s \in Slots, f \in Fields : Fill(p, s, f)
        /\ UNCHANGED backend

(* The polling thread runs; a process gets on with wait() and takes what is *)
(* in its mailbox (modules Mailbox, Scheduler and Process).                 *)
Fairness == /\ WF_state(EpollThread) /\ WF_state(KqueueThread)
            /\ \A p \in Processes : WF_state(Waiting(p)) /\ WF_state(Handles(p))

SafeSpec == Init /\ [][Next]_vars
Spec == SafeSpec /\ Fairness
-----------------------------------------------------------------------------
(* Types of the variables; no response goes to a filter nobody has filled.  *)
TypeOK == /\ filter \in [Slots -> [source : Processes \cup {None}, session : 0 .. MaxSession]]
          /\ reg \in [Slots -> {"none", "armed", "fired"}]
          /\ ready \subseteq Slots
          /\ owner \in [Fds -> Processes \cup {None}]
          /\ pc \in [Processes -> Fields \cup {"out", "add", "added", "blocked",
                                               "resumed", "interrupted", "dead"}]
          /\ slot \in [Processes -> Slots \cup {None}]
          /\ session \in [Processes -> 0 .. MaxSession]
          /\ events \subseteq [source : Processes, session : 1 .. MaxSession]
          /\ eps \subseteq Events /\ batch \subseteq Slots
          /\ current \subseteq [slot : Slots, field : Fields, value : Processes \cup (1 .. MaxSession)]
          /\ responses \subseteq [source : Processes, session : 1 .. MaxSession]

(* epoll_ctl() succeeds: EPOLL_CTL_ADD finds no registration left by an     *)
(* earlier wait or user of the number, and EPOLL_CTL_DEL, which must not    *)
(* throw while the stack unwinds, finds the one that wait() made.           *)
CtlSucceeds ==
  \A p \in Processes : /\ pc[p] = "add" => reg[slot[p]] = "none"
                       /\ pc[p] \in {"resumed", "interrupted"} => reg[slot[p]] # "none"

(* The polling thread has p's filter, or has read p's part of it, or has    *)
(* p's event, or the response is in the mailbox.                            *)
OnItsWay(p) ==
  \/ slot[p] \in batch
  \/ [source |-> p, session |-> session[p]] \in events
  \/ \E c \in current : /\ c.slot = slot[p]
                         /\ c.value = IF c.field = "source" THEN p ELSE session[p]
  \/ [source |-> p, session |-> session[p]] \in responses

(* No event is lost, although the filters are shared without a lock: the    *)
(* filter of whoever waits is its own, and once it has been reported, and  *)
(* the one shot is spent, the response is on its way.                       *)
EventKept ==
  \A p \in Processes :
    pc[p] \in {"added", "blocked"} =>
      /\ filter[slot[p]] = [source |-> p, session |-> session[p]]
      /\ reg[slot[p]] = "armed" \/ (reg[slot[p]] = "fired" /\ OnItsWay(p))

(* As long as nobody is killed in wait(), each response is for a coroutine  *)
(* that waits and whose event was reported: wait() does not return early,   *)
(* and no response reaches a later wait or another process.                 *)
Genuine ==
  (\A p \in Processes : pc[p] \notin {"interrupted", "dead"}) =>
    \A r \in responses : /\ pc[r.source] \in {"added", "blocked"}
                         /\ session[r.source] = r.session
                         /\ reg[slot[r.source]] = "fired"

(* Whoever waits for a descriptor that is ready is resumed or interrupted.  *)
WaitEnds == \A p \in Processes : pc[p] = "blocked" /\ slot[p] \in ready ~> pc[p] # "blocked"
=============================================================================
