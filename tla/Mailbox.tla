------------------------------ MODULE Mailbox ------------------------------
(***************************************************************************)
(* One process's mailbox and the handshake that gets the process run       *)
(* (src/process.cpp: class Mailbox, Process::push_message, the mailbox     *)
(* half of Process::resume and process::resume).                           *)
(*                                                                         *)
(* Any thread pushes: it links the message under _mutex and then, outside  *)
(* the lock, tries to turn _wait from true to false.  The thread that      *)
(* succeeds puts the process on the scheduler's queue.  A scheduler worker *)
(* that pops the process dispatches it and takes one message; on an empty  *)
(* mailbox it sets _wait, under the lock, and leaves.                      *)
(*                                                                         *)
(* A critical section is one step, and so is an atomic access.  The        *)
(* scheduler's queue is the number of links to this process in it          *)
(* (Scheduler.tla models the queue itself).  Memory is sequentially        *)
(* consistent here.                                                        *)
(***************************************************************************)
EXTENDS Naturals, Sequences

CONSTANTS Writers,       \* threads that push messages
          Workers,       \* the scheduler's worker threads
          Messages,      \* message contents
          KillProcess,   \* the content that takes the process down
          MaxPending     \* bound on the messages in the mailbox

ASSUME MailboxAssumption == /\ KillProcess \in Messages
                            /\ MaxPending \in Nat \ {0}

VARIABLES write,    \* Mailbox::_write
          read,     \* Mailbox::_read
          wait,     \* Mailbox::_wait
          links,    \* links to the process in the scheduler's queues
          down,     \* the process has returned kDown
          wpc,      \* where each writer is inside push_message
          rpc,      \* where each worker is inside process::resume
          taken     \* the message each worker has taken

vars == <<write, read, wait, links, down, wpc, rpc, taken>>

Init == /\ write = << >>
        /\ read = << >>
        /\ wait = FALSE
        /\ links = 1          \* process::spawn resumes the new process
        /\ down = FALSE
        /\ wpc = [w \in Writers |-> "idle"]
        /\ rpc = [k \in Workers |-> "idle"]
        /\ taken = [k \in Workers |-> KillProcess]

-----------------------------------------------------------------------------
(* Writers *)

(* Mailbox::push, inside the lock. *)
Push(w, m) ==
  /\ wpc[w] = "idle"
  /\ Len(read) + Len(write) < MaxPending
  /\ write' = Append(write, m)
  /\ wpc' = [wpc EXCEPT ![w] = "notify"]
  /\ UNCHANGED <<read, wait, links, down, rpc, taken>>

(* A mistake: push() reports a waiting reader whether there is one or not. *)
NotifyAlways(w) ==
  /\ wpc[w] = "notify"
  /\ wait' = FALSE
  /\ wpc' = [wpc EXCEPT ![w] = "resume"]
  /\ UNCHANGED <<write, read, links, down, rpc, taken>>

(* The compare-exchange after the lock: only a writer that finds the reader *)
(* waiting goes on to resume the process.                                   *)
Notify(w) ==
  /\ wpc[w] = "notify"
  /\ wait' = FALSE
  /\ wpc' = [wpc EXCEPT ![w] = IF wait THEN "resume" ELSE "idle"]
  /\ UNCHANGED <<write, read, links, down, rpc, taken>>

(* sched::resume links the process unconditionally. *)
Resume(w) ==
  /\ wpc[w] = "resume"
  /\ links' = links + 1
  /\ wpc' = [wpc EXCEPT ![w] = "idle"]
  /\ UNCHANGED <<write, read, wait, down, rpc, taken>>

-----------------------------------------------------------------------------
(* Workers *)

(* A worker pops the process from the run queue. *)
Pop(k) ==
  /\ rpc[k] = "idle"
  /\ links > 0
  /\ links' = links - 1
  /\ rpc' = [rpc EXCEPT ![k] = "dispatch"]
  /\ UNCHANGED <<write, read, wait, down, wpc, taken>>

(* dispatch() returned false: no coroutine is left, or one called exit(). *)
DispatchDown(k) ==
  /\ rpc[k] = "dispatch"
  /\ down' = TRUE
  /\ rpc' = [rpc EXCEPT ![k] = "idle"]
  /\ UNCHANGED <<write, read, wait, links, wpc, taken>>

(* Mailbox::take with messages left from the last swap. *)
TakeRead(k) ==
  /\ rpc[k] = "dispatch"
  /\ read # << >>
  /\ read' = Tail(read)
  /\ taken' = [taken EXCEPT ![k] = Head(read)]
  /\ rpc' = [rpc EXCEPT ![k] = "handle"]
  /\ UNCHANGED <<write, wait, links, down, wpc>>

(* A mistake: the messages behind the first swapped one are forgotten. *)
TakeWriteOne(k) ==
  /\ rpc[k] = "dispatch"
  /\ read = << >>
  /\ write # << >>
  /\ write' = << >>
  /\ taken' = [taken EXCEPT ![k] = Head(write)]
  /\ rpc' = [rpc EXCEPT ![k] = "handle"]
  /\ UNCHANGED <<read, wait, links, down, wpc>>

(* Mailbox::take that swaps the written list in and takes its first message. *)
TakeWrite(k) ==
  /\ rpc[k] = "dispatch"
  /\ read = << >>
  /\ write # << >>
  /\ read' = Tail(write)
  /\ write' = << >>
  /\ taken' = [taken EXCEPT ![k] = Head(write)]
  /\ rpc' = [rpc EXCEPT ![k] = "handle"]
  /\ UNCHANGED <<wait, links, down, wpc>>

(* A mistake: the written list is not looked at again under the lock. *)
ParkUnchecked(k) ==
  /\ rpc[k] = "dispatch"
  /\ read = << >>
  /\ wait' = TRUE
  /\ rpc' = [rpc EXCEPT ![k] = "idle"]
  /\ UNCHANGED <<write, read, links, down, wpc, taken>>

(* Mailbox::take on an empty mailbox: the process parks (kBreak). *)
Park(k) ==
  /\ rpc[k] = "dispatch"
  /\ read = << >>
  /\ write = << >>
  /\ wait' = TRUE
  /\ rpc' = [rpc EXCEPT ![k] = "idle"]
  /\ UNCHANGED <<write, read, links, down, wpc, taken>>

(* A mistake: the result kResume is treated like kBreak. *)
RequeueForgotten(k) ==
  /\ rpc[k] = "handle"
  /\ taken[k] # KillProcess
  /\ rpc' = [rpc EXCEPT ![k] = "idle"]
  /\ UNCHANGED <<write, read, wait, links, down, wpc, taken>>

(* kResume: process::resume puts the process back on the queue. *)
Requeue(k) ==
  /\ rpc[k] = "handle"
  /\ taken[k] # KillProcess
  /\ links' = links + 1
  /\ rpc' = [rpc EXCEPT ![k] = "idle"]
  /\ UNCHANGED <<write, read, wait, down, wpc, taken>>

(* A KillProcess message: exit() and kDown. *)
Kill(k) ==
  /\ rpc[k] = "handle"
  /\ taken[k] = KillProcess
  /\ down' = TRUE
  /\ rpc' = [rpc EXCEPT ![k] = "idle"]
  /\ UNCHANGED <<write, read, wait, links, wpc, taken>>

-----------------------------------------------------------------------------
Worker(k) == \/ Pop(k) \/ DispatchDown(k)
             \/ TakeRead(k) \/ TakeWrite(k) \/ Park(k)
             \/ Requeue(k) \/ Kill(k)

Writer(w) == Notify(w) \/ Resume(w) \/ \E m \in Messages : Push(w, m)

Next == (\E w \in Writers : Writer(w)) \/ (\E k \in Workers : Worker(k))

(* Threads keep running: a writer inside push_message finishes it and a     *)
(* worker with something to do does it.  Nobody has to push.                *)
Fairness == /\ \A w \in Writers : WF_vars(Notify(w) \/ Resume(w))
            /\ \A k \in Workers : WF_vars(Worker(k))

SafeSpec == Init /\ [][Next]_vars
Spec == SafeSpec /\ Fairness

-----------------------------------------------------------------------------
(* The types of the variables of the mailbox. *)
TypeOK == /\ write \in Seq(Messages)
          /\ read \in Seq(Messages)
          /\ wait \in BOOLEAN
          /\ links \in Nat
          /\ down \in BOOLEAN
          /\ wpc \in [Writers -> {"idle", "notify", "resume"}]
          /\ rpc \in [Workers -> {"idle", "dispatch", "handle"}]
          /\ taken \in [Workers -> Messages]

(* The right to run the process is a token that is in one place at a time:  *)
(* in the _wait flag, with the writer that won the compare-exchange, in the *)
(* run queue, or with the worker that runs the process.                     *)
Resuming(w) == wpc[w] = "resume"
Running(k) == rpc[k] # "idle"

AtMostOnePlace ==
  /\ links <= 1
  /\ \A k, l \in Workers : Running(k) /\ Running(l) => k = l
  /\ \A w, v \in Writers : Resuming(w) /\ Resuming(v) => w = v
  /\ links = 1 => ~wait /\ (\A k \in Workers : ~Running(k)) /\ (\A w \in Writers : ~Resuming(w))
  /\ wait => (\A k \in Workers : ~Running(k)) /\ (\A w \in Writers : ~Resuming(w))
  /\ \A k \in Workers, w \in Writers : ~(Running(k) /\ Resuming(w))

NoPlaceIffDown ==
  down <=> /\ links = 0
           /\ ~wait
           /\ \A k \in Workers : ~Running(k)
           /\ \A w \in Writers : ~Resuming(w)

(* The token is neither doubled nor dropped.  No two workers run the        *)
(* process at once, and it is never linked into the intrusive run queue     *)
(* twice, nor linked while it runs (a second link would overwrite           *)
(* Process::next; two readers would race on Mailbox::_read).  A process     *)
(* that is not down waits, is about to be resumed, is queued or runs.       *)
OneToken == AtMostOnePlace /\ NoPlaceIffDown

(* No lost wake-up: when messages lie in the mailbox of a parked process, a *)
(* writer that has yet to do its compare-exchange will resume it.           *)
NoLostWakeup ==
  wait /\ (read # << >> \/ write # << >>) => \E w \in Writers : wpc[w] = "notify"

Queue == INSTANCE MessageQueue WITH queue <- read \o write, closed <- down

(* push() and take() make one FIFO queue: what take() has swapped in, then  *)
(* what it has not.  It implements MessageQueue.                            *)
QueueSafe == Queue!SafeSpec

(* A message pushed is taken in the end, unless the process goes down.      *)
QueueLive == Queue!Live
=============================================================================
