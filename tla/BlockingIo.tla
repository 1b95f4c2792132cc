----------------------------- MODULE BlockingIo -----------------------------
(***************************************************************************)
(* Reads and writes that block the coroutine (src/io.cpp) over the two     *)
(* byte streams of a connection.  wild::io::Read and Write repeat the      *)
(* system call until all is moved or the call fails, and give the count    *)
(* and the error; read_full, read and write repeat those after fd::wait.   *)
(* The module steps from one byte to the next: a system call that moves    *)
(* several is several steps.                                               *)
(*                                                                         *)
(* fd::wait is what FdPoll shows of it: it returns when the descriptor is  *)
(* ready, or throws when the process is killed.                            *)
(***************************************************************************)
EXTENDS Naturals, Sequences

CONSTANTS Tasks,   \* processes that read and write, each on one coroutine
          Conns,   \* connections
          Cap,     \* what the kernel buffers of a stream
          Size,    \* of a task's buffer
          Nothing

ASSUME IoAssumption == Cap \in Nat \ {0} /\ Size \in Nat \ {0}

VARIABLES stream,   \* bytes on their way to an end of a connection
          end,      \* the descriptors of the two ends
          reset,    \* connections with an error
          fd,       \* the end a task has open
          io,       \* the operation under way
          buf       \* the buffer it reads into, or writes from

network == <<stream, end, reset>>
task    == <<fd, io, buf>>

Ends == Conns \X {"client", "server"}
Peer(e) == <<e[1], IF e[2] = "client" THEN "server" ELSE "client">>

Idle  == [op |-> "none", at |-> "done", base |-> 0, n |-> 0, moved |-> 0, left |-> 0, err |-> FALSE]
Empty == [i \in 1 .. Size |-> Nothing]

IoInit == /\ stream = [e \in Ends |-> <<>>]
          /\ end = [e \in Ends |-> "none"]
          /\ reset = {}
          /\ fd = [t \in Tasks |-> Nothing]
          /\ io = [t \in Tasks |-> Idle]
          /\ buf = [t \in Tasks |-> Empty]

(* A call of read_full, read or write. *)
Called(op, size) == [Idle EXCEPT !.op = op, !.at = "call", !.left = size]

Reads(t)    == io[t].op \in {"read_full", "read"}
Failed(t)   == fd[t][1] \in reset
HasData(t)  == stream[fd[t]] # <<>>
HasRoom(t)  == Len(stream[Peer(fd[t])]) < Cap
AtEnd(t)    == end[Peer(fd[t])] = "closed" /\ ~HasData(t)
Blocked(t)  == ~Failed(t) /\ IF Reads(t) THEN ~HasData(t) /\ ~AtEnd(t) ELSE ~HasRoom(t)
-----------------------------------------------------------------------------
(* One byte of a system call. *)
Position(t) == io[t].base + io[t].n + 1

Receive(t) ==
  /\ io[t].at = "call" /\ io[t].n < io[t].left
  /\ Reads(t) /\ HasData(t)
  /\ buf' = [buf EXCEPT ![t][Position(t)] = Head(stream[fd[t]])]
  /\ stream' = [stream EXCEPT ![fd[t]] = Tail(@)]
  /\ io' = [io EXCEPT ![t].n = @ + 1]
  /\ UNCHANGED <<end, reset, fd>>

(* What is sent to an end that is closed is answered with a reset. *)
Transmit(t) ==
  /\ io[t].at = "call" /\ io[t].n < io[t].left
  /\ ~Reads(t) /\ HasRoom(t) /\ ~Failed(t)
  /\ stream' = [stream EXCEPT ![Peer(fd[t])] = Append(@, buf[t][Position(t)])]
  /\ reset' = IF end[Peer(fd[t])] = "closed" THEN reset \cup {fd[t][1]} ELSE reset
  /\ io' = [io EXCEPT ![t].n = @ + 1]
  /\ UNCHANGED <<end, fd, buf>>

(* Read or Write has returned: all is moved, or there is an error, or       *)
(* EAGAIN.  `moved` counts, `base` is where the next call goes on.          *)
Done(t, err) ==
  io' = [io EXCEPT ![t].at = "done", ![t].err = err, ![t].n = 0,
                   ![t].moved = @ + io[t].n, ![t].left = @ - io[t].n]

Complete(t) ==
  /\ io[t].at = "call" /\ io[t].n = io[t].left
  /\ Done(t, FALSE)
  /\ UNCHANGED <<network, fd, buf>>

Fail(t) ==
  /\ io[t].at = "call" /\ io[t].n < io[t].left
  /\ Failed(t) \/ (Reads(t) /\ AtEnd(t))
  /\ Done(t, TRUE)
  /\ UNCHANGED <<network, fd, buf>>

AgainInPlace(t) ==   \* without buf += n
  /\ io[t].at = "call" /\ io[t].n < io[t].left /\ Blocked(t)
  /\ io[t].op = "read" => io[t].moved + io[t].n = 0
  /\ io' = [io EXCEPT ![t].at = "wait", ![t].n = 0,
                      ![t].moved = @ + io[t].n, ![t].left = @ - io[t].n]
  /\ UNCHANGED <<network, fd, buf>>

Again(t) ==
  /\ io[t].at = "call" /\ io[t].n < io[t].left /\ Blocked(t)
  /\ io[t].op = "read" => io[t].moved + io[t].n = 0
  /\ io' = [io EXCEPT ![t].at = "wait", ![t].n = 0, ![t].base = @ + io[t].n,
                      ![t].moved = @ + io[t].n, ![t].left = @ - io[t].n]
  /\ UNCHANGED <<network, fd, buf>>

(* read() gives what there is. *)
Partial(t) ==
  /\ io[t].at = "call" /\ io[t].n < io[t].left /\ Blocked(t)
  /\ io[t].op = "read" /\ io[t].moved + io[t].n > 0
  /\ Done(t, FALSE)
  /\ UNCHANGED <<network, fd, buf>>

(* fd::wait returns. *)
Resume(t) ==
  /\ io[t].at = "wait" /\ ~Blocked(t)
  /\ io' = [io EXCEPT ![t].at = "call"]
  /\ UNCHANGED <<network, fd, buf>>

Transfer(t) == \/ Receive(t) \/ Transmit(t) \/ Complete(t) \/ Fail(t)
               \/ Again(t) \/ Partial(t) \/ Resume(t)
-----------------------------------------------------------------------------
(* The connection. *)
Reset(k) ==
  /\ k \notin reset /\ \A e \in {<<k, "client">>, <<k, "server">>} : end[e] \in {"open", "queued"}
  /\ reset' = reset \cup {k}
  /\ UNCHANGED <<stream, end, task>>

(* Closing an end with bytes that were not read resets the connection. *)
Closing(e) ==
  /\ end' = [end EXCEPT ![e] = "closed"]
  /\ reset' = IF stream[e] = <<>> THEN reset ELSE reset \cup {e[1]}
=============================================================================
