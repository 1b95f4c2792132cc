------------------------------- MODULE Mutex -------------------------------
(***************************************************************************)
(* The coroutine mutex (src/process.cpp: coroutine::detail::Mutex).  Its   *)
(* state is one queue of coroutines: the front holds the lock, the others  *)
(* wait for it in coroutine::suspend().  unlock() hands the lock to the    *)
(* next in the queue and wakes it.  The coroutines of a process run one at *)
(* a time, and a step here runs one of them up to the next suspension.     *)
(*                                                                         *)
(* A process that exits interrupts its suspended coroutines, over and over *)
(* until none is left: a waiting coroutine then leaves the queue with an   *)
(* exception, a holding one unlocks as its stack unwinds.  The exception   *)
(* stays in the coroutine (Result::_exception): from then on each return   *)
(* from suspend() throws it.                                               *)
(***************************************************************************)
EXTENDS Naturals, SequencesExt

CONSTANTS Coroutines   \* of one process

VARIABLES queue,     \* Mutex::_coroutines
          state,     \* where each coroutine is
          thrown,    \* the coroutines whose Result holds an exception
          exiting,   \* the process is in exit()
          failed,    \* an assertion failed
          meddled    \* user code woke a coroutine that waited in lock()

vars == <<queue, state, thrown, exiting, failed, meddled>>

Init == /\ queue = << >>
        /\ state = [c \in Coroutines |-> "out"]
        /\ thrown = {}
        /\ exiting = FALSE
        /\ failed = FALSE
        /\ meddled = FALSE

Suspended == {c \in Coroutines : state[c] = "suspended"}
Resumable == {c \in Coroutines : state[c] = "woken"}

(* lock() or try_lock() on a free mutex; try_lock() on a held one returns   *)
(* without a change.                                                        *)
LockTaken(c) ==   \* does not see that the mutex is held
  /\ ~failed
  /\ state[c] = "out"
  /\ queue' = <<c>> \o queue
  /\ state' = [state EXCEPT ![c] = "holding"]
  /\ UNCHANGED <<thrown, exiting, failed, meddled>>

Lock(c) ==
  /\ ~failed
  /\ state[c] = "out"
  /\ queue = << >>
  /\ queue' = <<c>>
  /\ state' = [state EXCEPT ![c] = "holding"]
  /\ UNCHANGED <<thrown, exiting, failed, meddled>>

(* lock() on a held mutex.  The holder itself does not call lock(). *)
Wait(c) ==
  /\ ~failed
  /\ state[c] = "out"
  /\ queue # << >>
  /\ queue' = Append(queue, c)
  /\ state' = [state EXCEPT ![c] = "suspended"]
  /\ UNCHANGED <<thrown, exiting, failed, meddled>>

(* suspend() returns in lock(), which asserts that the front is running. *)
Resume(c) ==
  /\ ~failed
  /\ state[c] = "woken"
  /\ c \notin thrown
  /\ IF queue # << >> /\ Head(queue) = c
     THEN state' = [state EXCEPT ![c] = "holding"] /\ UNCHANGED failed
     ELSE failed' = TRUE /\ UNCHANGED state
  /\ UNCHANGED <<queue, thrown, exiting, meddled>>

(* suspend() throws in lock(): the coroutine takes itself out of the queue. *)
Abandon(c) ==
  /\ ~failed
  /\ state[c] = "woken"
  /\ c \in thrown
  /\ \E i \in 1 .. Len(queue) : queue[i] = c /\ queue' = RemoveAt(queue, i)
  /\ state' = [state EXCEPT ![c] = "out"]
  /\ UNCHANGED <<thrown, exiting, failed, meddled>>

(* coroutine::wakeup has an effect only on a suspended coroutine. *)
Woken(S) == [c \in Coroutines |-> IF c \in S /\ state[c] = "suspended" THEN "woken" ELSE state[c]]

UnlockSilent(c) ==   \* wakes nobody
  /\ ~failed
  /\ state[c] = "holding"
  /\ queue' = Tail(queue)
  /\ state' = [state EXCEPT ![c] = "out"]
  /\ UNCHANGED <<thrown, exiting, failed, meddled>>

UnlockAll(c) ==   \* wakes every coroutine that waits
  /\ ~failed
  /\ state[c] = "holding"
  /\ queue' = Tail(queue)
  /\ state' = [Woken(Range(queue)) EXCEPT ![c] = "out"]
  /\ UNCHANGED <<thrown, exiting, failed, meddled>>

Unlock(c) ==
  /\ ~failed
  /\ state[c] = "holding"
  /\ queue' = Tail(queue)
  /\ state' = [Woken(IF Len(queue) > 1 THEN {queue[2]} ELSE {}) EXCEPT ![c] = "out"]
  /\ UNCHANGED <<thrown, exiting, failed, meddled>>

(* Process::exit() and its loop: once no coroutine is left to resume, those *)
(* suspended are interrupted.                                               *)
Exit ==
  /\ ~failed
  /\ exiting => Resumable = {} /\ Suspended # {}
  /\ exiting' = TRUE
  /\ state' = Woken(Suspended)
  /\ thrown' = thrown \cup Suspended
  /\ UNCHANGED <<queue, failed, meddled>>

(* coroutine::wakeup by user code. *)
Wakeup(c) ==
  /\ ~failed
  /\ c \in Suspended
  /\ state' = Woken({c})
  /\ meddled' = TRUE
  /\ UNCHANGED <<queue, thrown, exiting, failed>>

Next == \/ \E c \in Coroutines : \/ Lock(c) \/ Wait(c) \/ Resume(c) \/ Abandon(c)
                                 \/ Unlock(c) \/ Wakeup(c)
        \/ Exit

SafeSpec == Init /\ [][Next]_vars

(* Woken coroutines are resumed, a holder unlocks, and exit() goes on once  *)
(* it has begun.                                                            *)
Fairness == /\ \A c \in Coroutines : WF_vars(Resume(c) \/ Abandon(c)) /\ WF_vars(Unlock(c))
            /\ WF_vars(exiting /\ Exit)

Spec == SafeSpec /\ Fairness
-----------------------------------------------------------------------------
(* Types of the variables; no coroutine is in the queue twice, so the one   *)
(* that erase() removes is the only one.                                    *)
TypeOK == /\ queue \in Seq(Coroutines)
          /\ \A i, j \in 1 .. Len(queue) : queue[i] = queue[j] => i = j
          /\ state \in [Coroutines -> {"out", "suspended", "woken", "holding"}]
          /\ thrown \subseteq Coroutines
          /\ exiting \in BOOLEAN
          /\ failed \in BOOLEAN
          /\ meddled \in BOOLEAN

(* At most one coroutine is between lock() and unlock(), although exit()    *)
(* interrupts the waiting ones; and although user code may wake them, for   *)
(* then the assertion in lock() ends the program before it returns.         *)
MutualExclusion ==
  \A c, d \in Coroutines : state[c] = "holding" /\ state[d] = "holding" => c = d

(* unlock() hands the lock to a coroutine it wakes: unless the process      *)
(* exits, or user code wakes coroutines that wait in lock(), the front of   *)
(* the queue holds the lock or has been woken for it.                       *)
HandoffKept ==
  ~meddled /\ ~exiting /\ queue # << >> => state[Head(queue)] \in {"holding", "woken"}

(* The assertions of lock() hold, as long as user code wakes nobody who     *)
(* waits in it: whoever returns from suspend() there is at the front, also  *)
(* while exit() interrupts the waiting coroutines one after the other.      *)
AssertsHold == ~meddled => ~failed

(* The assertion after suspend() in lock() holds, as the code has it.       *)
LockAssert == ~failed

(* A coroutine that waits in lock() gets the lock or is interrupted.        *)
LockServed ==
  \A c \in Coroutines : state[c] = "suspended" ~> state[c] # "suspended" \/ meddled
=============================================================================
