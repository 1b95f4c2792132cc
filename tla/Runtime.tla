------------------------------ MODULE Runtime ------------------------------
(***************************************************************************)
(* The life of processes (src/process.cpp): the registry gProcsMap, the    *)
(* reference count, retire() and ~Process.  A process is referenced by     *)
(*   - the registry, until retire();                                       *)
(*   - the run queue, and then the worker that runs it, until unref() in   *)
(*     process::resume();                                                  *)
(*   - whoever found it by its pid, until the ProcessUniquePtr goes: after *)
(*     the push, but for a request only when block() returns.              *)
(* Who drops the last reference runs the destructor, on whatever thread    *)
(* and inside whatever it was doing.                                       *)
(*                                                                         *)
(* What a process does in its coroutines is module Process, how it is put  *)
(* on the run queue and parked module Mailbox: here a push to a parked     *)
(* process queues it, and one resume takes all that was pushed before.     *)
(* A process has one request under way at a time, as source of requests    *)
(* its pid stands for pid and session.                                     *)
(***************************************************************************)
EXTENDS Naturals, FiniteSets

CONSTANTS Processes, Workers,
          Others,      \* threads that find and push: timer, epoll, main
          None

ASSUME RuntimeAssumption == /\ IsFiniteSet(Processes)
                            /\ IsFiniteSet(Workers) /\ IsFiniteSet(Others)
                            /\ Workers \cap Others = {}
                            /\ None \notin Processes

Threads == Workers \cup Others
Kinds   == {"notify", "kill", "request", "response", "abort"}   \* why a thread finds a process

VARIABLES reg,       \* gProcsMap
          count,     \* Process::_refcnt
          status,    \* how far each process has got
          place,     \* who is to run it
          more,      \* processes with messages in their mailbox
          killed,    \* processes with a KillProcess among them
          asked,     \* the sources of the requests in _requestsMap, _inbox and _mailbox
          waits,     \* the process each process's request() waits for, and references
          answered,  \* processes whose request was answered
          pc, cur,   \* process::resume() of each worker, and its process
          found,     \* the process a thread has found and references
          want,      \* what it found it for
          dying,     \* the processes whose destructor a thread runs
          fresh      \* the process a thread is in spawn() of

life   == <<reg, count, status>>
mail   == <<more, killed, asked>>
calls  == <<waits, answered>>
thread == <<pc, cur, found, want, dying, fresh>>
vars   == <<life, place, mail, calls, thread>>

Init == /\ reg = {} /\ count = [p \in Processes |-> 0]
        /\ status = [p \in Processes |-> "none"]
        /\ place = [p \in Processes |-> "none"]
        /\ more = {} /\ killed = {} /\ asked = [p \in Processes |-> {}]
        /\ waits = [p \in Processes |-> None] /\ answered = {}
        /\ pc = [t \in Threads |-> IF t \in Workers THEN "idle" ELSE "out"]
        /\ cur = [t \in Threads |-> None]
        /\ found = [t \in Threads |-> None] /\ want = [t \in Threads |-> "none"]
        /\ dying = [t \in Threads |-> {}]
        /\ fresh = [t \in Threads |-> None]

(* Thread t is between two of its calls. *)
Free(t) == found[t] = None /\ dying[t] = {} /\ fresh[t] = None

(* unref(p) by t: the last reference takes t into the destructor. *)
Unref(t, p) == /\ count' = [count EXCEPT ![p] = @ - 1]
               /\ dying' = IF count[p] = 1 THEN [dying EXCEPT ![t] = @ \cup {p}] ELSE dying

(* sched::resume(p). *)
Resume(p) == /\ count' = [count EXCEPT ![p] = @ + 1]
             /\ place' = [place EXCEPT ![p] = "queued"]
-----------------------------------------------------------------------------
(* Process::create registers the process, spawn() then queues it. *)
Create(t, p) ==
  /\ pc[t] \in {"run", "out"} /\ Free(t)
  /\ status[p] = "none"
  /\ status' = [status EXCEPT ![p] = "up"]
  /\ count' = [count EXCEPT ![p] = 1]
  /\ reg' = reg \cup {p}
  /\ fresh' = [fresh EXCEPT ![t] = p]
  /\ UNCHANGED <<place, mail, calls, pc, cur, found, want, dying>>

Start(t) ==
  /\ fresh[t] # None
  /\ Resume(fresh[t])
  /\ fresh' = [fresh EXCEPT ![t] = None]
  /\ UNCHANGED <<reg, status, mail, calls, pc, cur, found, want, dying>>

(* find(): looks up and references under gProcsLocker. *)
FoundUnreferenced(t, p, k) ==   \* without ref()
  /\ p \in reg
  /\ found' = [found EXCEPT ![t] = p]
  /\ want' = [want EXCEPT ![t] = k]
  /\ UNCHANGED count

Found(t, p, k) ==
  /\ p \in reg
  /\ count' = [count EXCEPT ![p] = @ + 1]
  /\ found' = [found EXCEPT ![t] = p]
  /\ want' = [want EXCEPT ![t] = k]

Find(t, p, k) ==
  /\ pc[t] \in {"run", "exit", "out"} /\ Free(t)
  /\ \/ k \in {"notify", "kill"}
     \/ k = "request" /\ pc[t] = "run" /\ waits[cur[t]] = None
     \/ k = "response" /\ cur[t] # None /\ p \in asked[cur[t]]
  /\ Found(t, p, k)
  /\ UNCHANGED <<reg, status, place, mail, calls, pc, cur, dying, fresh>>

(* response() to a process that is gone only closes the request. *)
ResponseForgotten(t, p) ==   \* although the requester is there
  /\ pc[t] \in {"run", "exit"} /\ Free(t)
  /\ p \in asked[cur[t]]
  /\ asked' = [asked EXCEPT ![cur[t]] = @ \ {p}]
  /\ UNCHANGED <<life, place, more, killed, calls, thread>>

ResponseLost(t, p) ==
  /\ pc[t] \in {"run", "exit"} /\ Free(t)
  /\ p \in asked[cur[t]] /\ p \notin reg
  /\ asked' = [asked EXCEPT ![cur[t]] = @ \ {p}]
  /\ UNCHANGED <<life, place, more, killed, calls, thread>>

(* push_message() to what was found.  For a request the reference is then   *)
(* held by the coroutine in block().                                        *)
Push(t) ==
  LET p == found[t] IN
  /\ want[t] \in Kinds
  /\ IF place[p] = "parked" THEN Resume(p) ELSE UNCHANGED <<count, place>>
  /\ more' = more \cup {p}
  /\ killed' = IF want[t] = "kill" THEN killed \cup {p} ELSE killed
  /\ \/ /\ want[t] \in {"notify", "kill", "abort"}
        /\ UNCHANGED <<asked, calls, found>>
        /\ want' = [want EXCEPT ![t] = "pushed"]
     \/ /\ want[t] = "request"
        /\ asked' = [asked EXCEPT ![p] = @ \cup {cur[t]}]
        /\ waits' = [waits EXCEPT ![cur[t]] = p]
        /\ answered' = answered \ {cur[t]}
        /\ found' = [found EXCEPT ![t] = None]
        /\ want' = [want EXCEPT ![t] = "none"]
     \/ /\ want[t] = "response"
        /\ asked' = [asked EXCEPT ![cur[t]] = @ \ {p}]
        /\ answered' = IF waits[p] = cur[t] THEN answered \cup {p} ELSE answered
        /\ want' = [want EXCEPT ![t] = "pushed"]
        /\ UNCHANGED <<waits, found>>
  /\ UNCHANGED <<reg, status, pc, cur, dying, fresh>>

(* The ProcessUniquePtr goes. *)
Drop(t) ==
  /\ want[t] = "pushed"
  /\ Unref(t, found[t])
  /\ found' = [found EXCEPT ![t] = None]
  /\ want' = [want EXCEPT ![t] = "none"]
  /\ UNCHANGED <<reg, status, place, mail, calls, pc, cur, fresh>>

(* block() returns in request(), with the answer. *)
Answer(w) ==
  LET p == cur[w] IN
  /\ pc[w] = "run" /\ Free(w)
  /\ waits[p] # None /\ p \in answered
  /\ Unref(w, waits[p])
  /\ waits' = [waits EXCEPT ![p] = None]
  /\ answered' = answered \ {p}
  /\ UNCHANGED <<reg, status, place, mail, pc, cur, found, want, fresh>>
-----------------------------------------------------------------------------
(* ~Process aborts the requests left in it, one by one. *)
Abort(t, q, p) ==
  /\ q \in dying[t] /\ found[t] = None
  /\ p \in asked[q]
  /\ asked' = [asked EXCEPT ![q] = @ \ {p}]
  /\ IF p \in reg THEN Found(t, p, "abort") ELSE UNCHANGED <<count, found, want>>
  /\ UNCHANGED <<reg, status, place, more, killed, calls, pc, cur, dying, fresh>>

Destroyed(t, q) ==
  /\ q \in dying[t] /\ found[t] = None
  /\ asked[q] = {}
  /\ status' = [status EXCEPT ![q] = "destroyed"]
  /\ dying' = [dying EXCEPT ![t] = @ \ {q}]
  /\ UNCHANGED <<reg, count, place, mail, calls, pc, cur, found, want, fresh>>
-----------------------------------------------------------------------------
(* The worker's loop: the queue's reference becomes the worker's. *)
Pick(w, p) ==
  /\ pc[w] = "idle" /\ Free(w)
  /\ place[p] = "queued"
  /\ place' = [place EXCEPT ![p] = "running"]
  /\ pc' = [pc EXCEPT ![w] = "run"]
  /\ cur' = [cur EXCEPT ![w] = p]
  /\ UNCHANGED <<life, mail, calls, found, want, dying, fresh>>

(* kResume: the process goes back to the queue. *)
RequeueKilled(w) ==   \* the KillProcess is taken like any message
  LET p == cur[w] IN
  /\ pc[w] = "run" /\ Free(w)
  /\ p \in more
  /\ Resume(p)
  /\ more' = more \ {p}
  /\ pc' = [pc EXCEPT ![w] = "unref"]
  /\ UNCHANGED <<reg, status, killed, asked, calls, cur, found, want, dying, fresh>>

Requeue(w) ==
  LET p == cur[w] IN
  /\ pc[w] = "run" /\ Free(w)
  /\ p \in more \ killed
  /\ Resume(p)
  /\ more' = more \ {p}
  /\ pc' = [pc EXCEPT ![w] = "unref"]
  /\ UNCHANGED <<reg, status, killed, asked, calls, cur, found, want, dying, fresh>>

(* kBreak: no message, the process is parked. *)
Park(w) ==
  /\ pc[w] = "run" /\ Free(w)
  /\ cur[w] \notin more
  /\ place' = [place EXCEPT ![cur[w]] = "parked"]
  /\ pc' = [pc EXCEPT ![w] = "unref"]
  /\ UNCHANGED <<life, mail, calls, cur, found, want, dying, fresh>>

(* kDown: killed, process::exit(), or no coroutine left.  exit() interrupts *)
(* the coroutine in block(), whose request() drops its reference.           *)
GoDown(w) ==
  /\ pc[w] = "run" /\ Free(w)
  /\ status' = [status EXCEPT ![cur[w]] = "down"]
  /\ place' = [place EXCEPT ![cur[w]] = "none"]
  /\ pc' = [pc EXCEPT ![w] = "exit"]
  /\ UNCHANGED <<reg, count, mail, calls, cur, found, want, dying, fresh>>

Interrupted(w) ==
  LET p == cur[w] IN
  /\ pc[w] = "exit" /\ Free(w)
  /\ waits[p] # None
  /\ Unref(w, waits[p])
  /\ waits' = [waits EXCEPT ![p] = None]
  /\ UNCHANGED <<reg, status, place, mail, answered, pc, cur, found, want, fresh>>

(* retire(): out of the registry, then its reference goes. *)
Unreg(w) ==
  /\ pc[w] = "exit" /\ Free(w)
  /\ waits[cur[w]] = None
  /\ reg' = reg \ {cur[w]}
  /\ pc' = [pc EXCEPT ![w] = "retire"]
  /\ UNCHANGED <<count, status, place, mail, calls, cur, found, want, dying, fresh>>

RetireLeaks(w) ==   \* without unref()
  /\ pc[w] = "retire" /\ Free(w)
  /\ pc' = [pc EXCEPT ![w] = "unref"]
  /\ UNCHANGED <<reg, count, status, place, mail, calls, cur, found, want, dying, fresh>>

Retire(w) ==
  /\ pc[w] = "retire" /\ Free(w)
  /\ Unref(w, cur[w])
  /\ pc' = [pc EXCEPT ![w] = "unref"]
  /\ UNCHANGED <<reg, status, place, mail, calls, cur, found, want, fresh>>

(* The reference of the run queue goes at the end of process::resume(). *)
Release(w) ==
  /\ pc[w] = "unref" /\ Free(w)
  /\ Unref(w, cur[w])
  /\ pc' = [pc EXCEPT ![w] = "idle"]
  /\ cur' = [cur EXCEPT ![w] = None]
  /\ UNCHANGED <<reg, status, place, mail, calls, found, want, fresh>>
-----------------------------------------------------------------------------
Inner(t) == \/ Start(t) \/ Push(t) \/ Drop(t)
            \/ \E q, p \in Processes : Abort(t, q, p)
            \/ \E q \in Processes : Destroyed(t, q)

Outer(w) == Interrupted(w) \/ Unreg(w) \/ Retire(w) \/ Release(w)

Ends(w) == Requeue(w) \/ Park(w) \/ GoDown(w)

Next == \/ \E t \in Threads : \/ Inner(t)
                              \/ \E p \in Processes : Create(t, p)
                              \/ \E p \in Processes, k \in Kinds : Find(t, p, k)
        \/ \E w \in Workers : \/ Outer(w) \/ Ends(w) \/ Answer(w)
                              \/ \E p \in Processes : Pick(w, p) \/ ResponseLost(w, p)

SafeSpec == Init /\ [][Next]_vars

(* Threads get on with what they are in; the code of a process yields, also *)
(* when it unwinds (module Process); the run queue is fair (Scheduler).     *)
Fairness == /\ \A t \in Threads : WF_vars(Inner(t))
            /\ \A w \in Workers : SF_vars(Outer(w)) /\ SF_vars(Ends(w))
            /\ \A p \in Processes : SF_vars(\E w \in Workers : Pick(w, p))

Spec == SafeSpec /\ Fairness
-----------------------------------------------------------------------------
(* Types of the variables.                                                  *)
TypeOK == /\ reg \subseteq Processes
          /\ count \in [Processes -> Nat]
          /\ status \in [Processes -> {"none", "up", "down", "destroyed"}]
          /\ place \in [Processes -> {"none", "queued", "running", "parked"}]
          /\ more \subseteq Processes /\ killed \subseteq Processes
          /\ asked \in [Processes -> SUBSET Processes]
          /\ waits \in [Processes -> Processes \cup {None}] /\ answered \subseteq Processes
          /\ pc \in [Threads -> {"out", "idle", "run", "exit", "retire", "unref"}]
          /\ cur \in [Threads -> Processes \cup {None}]
          /\ found \in [Threads -> Processes \cup {None}]
          /\ want \in [Threads -> Kinds \cup {"none", "pushed"}]
          /\ dying \in [Threads -> SUBSET Processes]
          /\ fresh \in [Threads -> Processes \cup {None}]

(* Who refers to p, and how. *)
RefKinds == {"registry", "retire", "queue", "worker", "found", "waits"}

Refers(k, x, p) == \/ k = "registry" /\ x = p /\ p \in reg
                   \/ k = "retire"   /\ x \in Threads /\ pc[x] = "retire" /\ cur[x] = p
                   \/ k = "queue"    /\ x = p /\ place[p] = "queued"
                   \/ k = "worker"   /\ x \in Threads /\ cur[x] = p
                   \/ k = "found"    /\ x \in Threads /\ found[x] = p
                   \/ k = "waits"    /\ x \in Processes /\ waits[x] = p

Refs(p) == {r \in RefKinds \X (Threads \cup Processes) : Refers(r[1], r[2], p)}

(* _refcnt counts the references, one for one.                              *)
RefBalance == \A p \in Processes : count[p] = Cardinality(Refs(p))

(* Nothing that refers to a process refers to one whose destructor has run  *)
(* or runs, spawn() included, which references it only through the registry.*)
NoDangling == \A p \in Processes :
                 (status[p] = "destroyed" \/ \E t \in Threads : p \in dying[t])
                   => Refs(p) = {} /\ \A t \in Threads : fresh[t] # p

(* The destructor of a process runs once, on one thread, when it is down.   *)
DestroyedOnce == \A p \in Processes, t \in Threads :
                    p \in dying[t] => /\ status[p] = "down"
                                      /\ \A u \in Threads : p \in dying[u] => u = t

(* A requester that waits has its request in a process, or its answer.      *)
RequestKept == \A p, q \in Processes :
                  waits[p] = q => p \in asked[q] \/ p \in answered

(* A process that is down is destroyed, or a requester waits for it forever.*)
Freed == \A p \in Processes :
            <>[](status[p] = "down") => <>[](\E q \in Processes : waits[q] = p)

(* A kill that was pushed ends the process.                                 *)
KillEnds == \A p \in Processes : p \in killed ~> status[p] \in {"down", "destroyed"}
=============================================================================
