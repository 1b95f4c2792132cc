----------------------------- MODULE Scheduler -----------------------------
(***************************************************************************)
(* The scheduler (src/process.cpp: class Scheduler): worker threads that   *)
(* pop processes from two queues and run them, sleep on a signaler when    *)
(* both queues are empty, and leave when the system stops.                 *)
(*                                                                         *)
(* resume() appends to _resumeq under its lock, claims an idle worker if   *)
(* there is one, and sends the signal after the lock.  A worker takes the  *)
(* head of _runq, refilling it with all of _resumeq; on two empty queues   *)
(* it counts itself idle, under both locks, and waits.  Each critical      *)
(* section is one step.  Which processes may be linked is the business of  *)
(* Mailbox.tla: here a process is resumed only while it is not queued, and *)
(* by nobody but its runner while it runs (Mailbox's OneToken).            *)
(***************************************************************************)
EXTENDS Integers, Sequences, FiniteSets

CONSTANTS Workers,     \* threads of Scheduler::_threads
          Others,      \* threads outside the pool: the timer's, the poller's
          Processes,   \* what is scheduled
          Codes,       \* exit codes
          None         \* no process, no code

ASSUME SchedulerAssumption == /\ IsFiniteSet(Workers)
                              /\ Workers # {}
                              /\ IsFiniteSet(Others)
                              /\ Workers \cap Others = {}
                              /\ None \notin Processes \cup Codes

Threads == Workers \cup Others

VARIABLES runq,      \* Scheduler::_runq
          resumeq,   \* Scheduler::_resumeq
          idle,      \* Scheduler::_idle_workers
          signals,   \* sends on _signaler that no wait has consumed
          pc,        \* where each thread is
          running,   \* the process each worker runs
          size,      \* _threads.size()
          fired,     \* Scheduler::_stopFired
          stop,      \* Scheduler::_stop
          exitcode,  \* Scheduler::_exitcode
          tosend,    \* sends left in the loop of stop()
          served     \* what serve() has returned

queues == <<runq, resumeq>>
stopvars == <<fired, stop, exitcode, tosend, served>>
vars == <<queues, idle, signals, pc, running, size, stopvars>>

Init == /\ runq = << >>
        /\ resumeq = << >>
        /\ idle = 0
        /\ signals = 0
        /\ pc = [t \in Threads |-> IF t \in Workers THEN "new" ELSE "user"]
        /\ running = [k \in Workers |-> None]
        /\ size = 0
        /\ fired = FALSE
        /\ stop = FALSE
        /\ exitcode = None
        /\ tosend = 0
        /\ served = None

Started == {k \in Workers : pc[k] # "new"}
Waiting == {k \in Workers : pc[k] = "wait"}       \* inside _signaler.wait
Seeking == {k \in Workers : pc[k] \in {"loop", "pick"}}
Signalling == {t \in Threads : pc[t] = "signal"}  \* has claimed an idle worker

InSequence(p, q) == \E i \in 1 .. Len(q) : q[i] = p

(* t may resume p: p is in no queue and runs on no other thread. *)
MayResume(t, p) == /\ ~InSequence(p, runq)
                   /\ ~InSequence(p, resumeq)
                   /\ \A k \in Workers \ {t} : running[k] # p

-----------------------------------------------------------------------------
(* serve() creates the threads.  A new thread runs before emplace_back has  *)
(* made it part of size(), which stop() reads without a lock: it sees the   *)
(* old size or the new one.                                                 *)
Start(k) ==
  /\ pc[k] = "new"
  /\ size = Cardinality(Started)
  /\ pc' = [pc EXCEPT ![k] = "loop"]
  /\ UNCHANGED <<queues, idle, signals, running, size, stopvars>>

Emplaced ==
  /\ size < Cardinality(Started)
  /\ size' = size + 1
  /\ UNCHANGED <<queues, idle, signals, pc, running, stopvars>>

(* All threads joined. *)
Served ==
  /\ size = Cardinality(Workers)
  /\ \A k \in Workers : pc[k] = "exited"
  /\ served = None
  /\ served' = exitcode
  /\ UNCHANGED <<queues, idle, signals, pc, running, size,
                 fired, stop, exitcode, tosend>>

-----------------------------------------------------------------------------
(* resume(), by a process that runs on a worker or by another thread *)

(* A mistake: the claimed worker stays counted idle. *)
ResumeUnclaimed(t, p) ==
  /\ pc[t] = "user"
  /\ MayResume(t, p)
  /\ resumeq' = Append(resumeq, p)
  /\ running' = [k \in Workers |-> IF k = t /\ running[k] = p THEN None ELSE running[k]]
  /\ pc' = [pc EXCEPT ![t] = IF idle # 0 THEN "signal" ELSE "user"]
  /\ UNCHANGED <<runq, idle, signals, size, stopvars>>

(* A process requeued by its own runner no longer runs. *)
Resume(t, p) ==
  /\ pc[t] = "user"
  /\ MayResume(t, p)
  /\ resumeq' = Append(resumeq, p)
  /\ running' = [k \in Workers |-> IF k = t /\ running[k] = p THEN None ELSE running[k]]
  /\ IF idle # 0
     THEN idle' = idle - 1 /\ pc' = [pc EXCEPT ![t] = "signal"]
     ELSE UNCHANGED <<idle, pc>>
  /\ UNCHANGED <<runq, signals, size, stopvars>>

Signal(t) ==
  /\ pc[t] = "signal"
  /\ signals' = signals + 1
  /\ pc' = [pc EXCEPT ![t] = "user"]
  /\ UNCHANGED <<queues, idle, running, size, stopvars>>

-----------------------------------------------------------------------------
(* run(), one loop iteration of a worker *)

CheckStop(k) ==
  /\ pc[k] = "loop"
  /\ pc' = [pc EXCEPT ![k] = IF stop THEN "exited" ELSE "pick"]
  /\ UNCHANGED <<queues, idle, signals, running, size, stopvars>>

(* A mistake: what was resumed last goes first. *)
PickResumed(k) ==
  LET q == IF resumeq # << >> THEN resumeq ELSE runq IN
  /\ pc[k] = "pick"
  /\ q # << >>
  /\ runq' = IF resumeq # << >> THEN Tail(q) \o runq ELSE Tail(q)
  /\ resumeq' = << >>
  /\ running' = [running EXCEPT ![k] = Head(q)]
  /\ pc' = [pc EXCEPT ![k] = "user"]
  /\ UNCHANGED <<idle, signals, size, stopvars>>

(* runq non-empty: take its head; else take all of resumeq first. *)
Pick(k) ==
  LET q == IF runq # << >> THEN runq ELSE resumeq IN
  /\ pc[k] = "pick"
  /\ q # << >>
  /\ runq' = Tail(q)
  /\ resumeq' = IF runq # << >> THEN resumeq ELSE << >>
  /\ running' = [running EXCEPT ![k] = Head(q)]
  /\ pc' = [pc EXCEPT ![k] = "user"]
  /\ UNCHANGED <<idle, signals, size, stopvars>>

(* A mistake: the worker goes to sleep without another look at _resumeq. *)
SleepUnchecked(k) ==
  /\ pc[k] = "pick"
  /\ runq = << >>
  /\ idle' = idle + 1
  /\ pc' = [pc EXCEPT ![k] = "wait"]
  /\ UNCHANGED <<queues, signals, running, size, stopvars>>

Sleep(k) ==
  /\ pc[k] = "pick"
  /\ runq = << >>
  /\ resumeq = << >>
  /\ idle' = idle + 1
  /\ pc' = [pc EXCEPT ![k] = "wait"]
  /\ UNCHANGED <<queues, signals, running, size, stopvars>>

Wake(k) ==
  /\ pc[k] = "wait"
  /\ signals > 0
  /\ signals' = signals - 1
  /\ pc' = [pc EXCEPT ![k] = "loop"]
  /\ UNCHANGED <<queues, idle, running, size, stopvars>>

(* process::resume returns; the process was requeued before, or is parked   *)
(* or down.                                                                 *)
Return(k) ==
  /\ pc[k] = "user"
  /\ running' = [running EXCEPT ![k] = None]
  /\ pc' = [pc EXCEPT ![k] = "loop"]
  /\ UNCHANGED <<queues, idle, signals, size, stopvars>>

-----------------------------------------------------------------------------
(* stop(), called by a process on worker k.  A later caller returns at once. *)

StopFire(k) ==
  /\ pc[k] = "user"
  /\ running[k] # None
  /\ ~fired
  /\ fired' = TRUE
  /\ pc' = [pc EXCEPT ![k] = "stop"]
  /\ UNCHANGED <<queues, idle, signals, running, size, stop, exitcode, tosend, served>>

(* fd::stop and time::stop cancel the threads outside the pool, which takes *)
(* effect outside resume(), and join them.                                  *)
StopOthers(k) ==
  /\ pc[k] = "stop"
  /\ \A t \in Others : pc[t] # "signal"
  /\ pc' = [t \in Threads |-> IF t \in Others THEN "exited"
                              ELSE IF t = k THEN "stopped" ELSE pc[t]]
  /\ UNCHANGED <<queues, idle, signals, running, size, stopvars>>

StopSet(k, code) ==
  /\ pc[k] = "stopped"
  /\ exitcode' = code
  /\ stop' = TRUE
  /\ pc' = [pc EXCEPT ![k] = "size"]
  /\ UNCHANGED <<queues, idle, signals, running, size, fired, tosend, served>>

(* A mistake: only the workers counted idle get a signal. *)
StopIdle(k) ==
  /\ pc[k] = "size"
  /\ tosend' = idle
  /\ pc' = [pc EXCEPT ![k] = "send"]
  /\ UNCHANGED <<queues, idle, signals, running, size, fired, stop, exitcode, served>>

StopSize(k) ==
  /\ pc[k] = "size"
  /\ tosend' = size
  /\ pc' = [pc EXCEPT ![k] = "send"]
  /\ UNCHANGED <<queues, idle, signals, running, size, fired, stop, exitcode, served>>

StopSend(k) ==
  /\ pc[k] = "send"
  /\ IF tosend > 0
     THEN /\ tosend' = tosend - 1
          /\ signals' = signals + 1
          /\ UNCHANGED pc
     ELSE /\ pc' = [pc EXCEPT ![k] = "user"]
          /\ UNCHANGED <<tosend, signals>>
  /\ UNCHANGED <<queues, idle, running, size, fired, stop, exitcode, served>>

-----------------------------------------------------------------------------
(* Steps a worker takes by itself once it can. *)
Loop(k) == CheckStop(k) \/ Pick(k) \/ Sleep(k) \/ Wake(k)

Stop(k) == StopSize(k) \/ StopSend(k) \/ \E code \in Codes : StopSet(k, code)

Serve == Emplaced \/ Served \/ \E k \in Workers : Start(k)

Next == \/ Serve
        \/ \E t \in Threads : Signal(t) \/ \E p \in Processes : Resume(t, p)
        \/ \E k \in Workers : Loop(k) \/ Return(k) \/ StopFire(k) \/ StopOthers(k) \/ Stop(k)

(* Threads are scheduled.  A process gives its worker back after finitely   *)
(* many resumes, a cancelled thread gets to a cancellation point: these two *)
(* are strong, for both are disabled while a resume signals.                *)
Fairness == /\ WF_vars(Serve)
            /\ \A t \in Threads : WF_vars(Signal(t))
            /\ \A k \in Workers : /\ WF_vars(Loop(k))
                                  /\ WF_vars(Stop(k))
                                  /\ SF_vars(Return(k))
                                  /\ SF_vars(StopOthers(k))

SafeSpec == Init /\ [][Next]_vars
Spec == SafeSpec /\ Fairness

-----------------------------------------------------------------------------
Places == {"new", "loop", "pick", "wait", "user", "signal", "exited",
           "stop", "stopped", "size", "send"}

(* Types of the variables.                                                  *)
TypeOK == /\ runq \in Seq(Processes)
          /\ resumeq \in Seq(Processes)
          /\ idle \in Nat
          /\ signals \in Nat
          /\ pc \in [Threads -> Places]
          /\ running \in [Workers -> Processes \cup {None}]
          /\ size \in Nat
          /\ fired \in BOOLEAN
          /\ stop \in BOOLEAN
          /\ exitcode \in Codes \cup {None}
          /\ tosend \in Nat
          /\ served \in Codes \cup {None}

(* Every sleeping worker is either still counted idle or has one signal     *)
(* sent, or about to be sent, for it: no worker is claimed twice, none is   *)
(* signalled that does not sleep.                                           *)
SignalBalance ==
  ~stop => Cardinality(Waiting) = idle + signals + Cardinality(Signalling)

(* No worker sleeps while a process has nobody coming for it: if a worker   *)
(* is counted idle, the queued processes are outnumbered by the signals on  *)
(* their way and the workers looking for work.                              *)
WorkConserving ==
  ~stop /\ idle > 0 =>
    Len(runq) + Len(resumeq) <= signals + Cardinality(Signalling) + Cardinality(Seeking)

(* The signals that stop() has yet to send. *)
Sends == IF \E k \in Workers : pc[k] = "size" THEN size ELSE tosend

(* stop() reaches every worker, also when it reads a size() that does not   *)
(* yet count a thread already running: the signals sent and to be sent      *)
(* cover all workers that sleep or have passed their last check of _stop.   *)
StopReachesAll ==
  stop => Cardinality({k \in Workers : pc[k] \in {"pick", "wait"}}) <= signals + Sends

(* The code of the first stop() is the one serve() returns: later calls do  *)
(* not replace it.                                                          *)
FirstCodeWins == [][exitcode # None => exitcode' = exitcode]_vars

(* Once a process has called stop(), all workers exit and serve() returns.  *)
ServeReturns == fired ~> served # None

Queue == INSTANCE MessageQueue
           WITH Messages <- Processes,
                queue <- runq \o resumeq,
                closed <- \A k \in Workers : pc[k] = "exited"

(* _runq and _resumeq make one FIFO queue of processes to run, from which   *)
(* processes are taken until the last worker has left.                      *)
QueueSafe == Queue!SafeSpec

(* A process resumed is run in the end, unless all workers leave.           *)
QueueLive == Queue!Live
=============================================================================
