---------------------------- MODULE MessageQueue ----------------------------
(***************************************************************************)
(* What a process's mailbox promises to its users, free of locks, flags    *)
(* and run queues: a FIFO queue that loses, duplicates and reorders        *)
(* nothing, and whose owner takes every message in it unless the process   *)
(* goes down first.  Mailbox.tla is shown to implement it.                 *)
(***************************************************************************)
EXTENDS Sequences

CONSTANT Messages

VARIABLES queue,    \* messages pushed and not yet taken, oldest first
          closed    \* the owner went down: nothing is taken any more

vars == <<queue, closed>>

Init == queue = << >> /\ closed = FALSE

Put(m) == queue' = Append(queue, m) /\ UNCHANGED closed

Get == /\ ~closed
       /\ queue # << >>
       /\ queue' = Tail(queue)
       /\ UNCHANGED closed

Close == ~closed /\ closed' = TRUE /\ UNCHANGED queue

Next == (\E m \in Messages : Put(m)) \/ Get \/ Close

SafeSpec == Init /\ [][Next]_vars

(* Messages get taken. *)
Live == WF_vars(Get)
=============================================================================
