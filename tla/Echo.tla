-------------------------------- MODULE Echo --------------------------------
(***************************************************************************)
(* The echo client and server (src/examples/echo) with the TCP functions   *)
(* they call (src/src/tcp.cpp) on top of the reads and writes of           *)
(* BlockingIo.  Each client process connects, then sends a message and     *)
(* reads it back, again and again.  The server listens and spawns a        *)
(* process for each connection, which writes back what it reads.           *)
(* Connections break, descriptors run out and processes are killed.        *)
(***************************************************************************)
EXTENDS BlockingIo, FiniteSets

CONSTANTS Clients,
          Addresses   \* that getaddrinfo finds for a name

(* A connection is one attempt of a client.  The last assumption is what    *)
(* the example needs: the client writes a whole message before it reads, so *)
(* the streams and what the server holds must have room for it.             *)
ASSUME EchoAssumption == /\ Addresses \in Nat \ {0}
                         /\ Conns = Clients \X (1 .. Addresses)
                         /\ Tasks = Clients \cup Conns
                         /\ Clients \cap Conns = {}
                         /\ Nothing \notin Ends
                         /\ Size <= 2 * Cap + 1

VARIABLES doing,      \* where each process is
          addr,       \* the address a client tries
          lastErrno,  \* in connect(), whether it is set
          round,      \* which message, for the data to differ
          reply,      \* what a client got back
          server,     \* where the server's first process is
          sockets,    \* listening
          tried       \* addresses that listen() has tried

client   == <<addr, lastErrno, round, reply>>
listener == <<server, sockets, tried>>
echoVars == <<network, task, doing, client, listener>>

Attempt(c) == <<c, addr[c]>>
Message(r) == [i \in 1 .. Size |-> <<r, i>>]

EchoInit ==
  /\ IoInit
  /\ doing = [t \in Tasks |-> IF t \in Clients THEN "connect" ELSE "none"]
  /\ addr = [c \in Clients |-> 1]
  /\ lastErrno = [c \in Clients |-> FALSE]
  /\ round = [c \in Clients |-> 0]
  /\ reply = [c \in Clients |-> <<>>]
  /\ server = "listen" /\ sockets = 0 /\ tried = 0
-----------------------------------------------------------------------------
(* listen(): a socket for each address, but only one in the end. *)
Bind ==
  /\ server = "listen" /\ tried < Addresses /\ sockets < 2
  /\ tried' = tried + 1
  /\ sockets' \in {sockets, sockets + 1}
  /\ UNCHANGED <<network, task, doing, client, server>>

(* Closing the listening sockets resets what they have not accepted. *)
Queued == {k \in Conns : end[<<k, "server">>] = "queued"}

Shut ==
  /\ sockets' = 0
  /\ server' = "ended"
  /\ reset' = reset \cup Queued
  /\ end' = [e \in Ends |-> IF e[1] \in Queued /\ e[2] = "server" THEN "closed" ELSE end[e]]

Listen ==
  /\ server = "listen" /\ (tried = Addresses \/ sockets = 2)
  /\ IF sockets = 1
     THEN server' = "accept" /\ UNCHANGED <<network, sockets>>
     ELSE Shut /\ UNCHANGED stream
  /\ UNCHANGED <<task, doing, client, tried>>

(* accept() and the process for the connection; an error, such as no        *)
(* descriptor left, ends the server.                                        *)
Accept(k) ==
  /\ server = "accept" /\ k \in Queued
  /\ end' = [end EXCEPT ![<<k, "server">>] = "open"]
  /\ fd' = [fd EXCEPT ![k] = <<k, "server">>]
  /\ doing' = [doing EXCEPT ![k] = "spawned"]
  /\ UNCHANGED <<stream, reset, io, buf, client, listener>>

AcceptWait ==
  /\ \/ server = "accept" /\ Queued = {} /\ server' = "wait"
     \/ server = "wait" /\ Queued # {} /\ server' = "accept"
  /\ UNCHANGED <<network, task, doing, client, sockets, tried>>

ServerEnds ==   \* accept() fails, or the process is killed in fd::wait
  /\ server \in {"accept", "wait"}
  /\ Shut
  /\ UNCHANGED <<stream, task, doing, client, tried>>
-----------------------------------------------------------------------------
(* A process ends, and its descriptor with it. *)
EndLeaking(t) ==   \* the descriptor is left open
  /\ doing' = [doing EXCEPT ![t] = "ended"]
  /\ fd' = [fd EXCEPT ![t] = Nothing]
  /\ io' = [io EXCEPT ![t] = Idle]
  /\ buf' = [buf EXCEPT ![t] = Empty]
  /\ UNCHANGED <<stream, end, reset>>

End(t) ==
  /\ doing' = [doing EXCEPT ![t] = "ended"]
  /\ fd' = [fd EXCEPT ![t] = Nothing]
  /\ IF fd[t] = Nothing THEN UNCHANGED <<end, reset>> ELSE Closing(fd[t])
  /\ io' = [io EXCEPT ![t] = Idle]
  /\ buf' = [buf EXCEPT ![t] = Empty]
  /\ UNCHANGED stream

(* connect(): the next address, or the error of the last one. *)
NextAddress(c) ==
  /\ lastErrno' = [lastErrno EXCEPT ![c] = TRUE]
  /\ IF addr[c] = Addresses
     THEN doing' = [doing EXCEPT ![c] = "failed"] /\ UNCHANGED addr
     ELSE /\ doing' = [doing EXCEPT ![c] = "connect"]
          /\ addr' = [addr EXCEPT ![c] = @ + 1]

Connect(c) ==
  /\ doing[c] = "connect"
  /\ fd' = [fd EXCEPT ![c] = <<Attempt(c), "client">>]
  /\ end' = [end EXCEPT ![<<Attempt(c), "client">>] = "syn"]
  /\ doing' = [doing EXCEPT ![c] = "connecting"]
  /\ UNCHANGED <<stream, reset, io, buf, client, listener>>

ConnectFails(c) ==   \* no socket, or an error other than EINPROGRESS
  /\ doing[c] = "connect"
  /\ NextAddress(c)
  /\ UNCHANGED <<network, task, round, reply, listener>>

Unchecked(c) ==   \* without _getsockerr()
  /\ doing[c] = "connecting" /\ end[fd[c]] = "open"
  /\ doing' = [doing EXCEPT ![c] = "loop"]
  /\ lastErrno' = [lastErrno EXCEPT ![c] = FALSE]
  /\ UNCHANGED <<network, task, addr, round, reply, listener>>

Connected(c) ==
  /\ doing[c] = "connecting" /\ end[fd[c]] = "open"
  /\ IF Failed(c)
     THEN /\ NextAddress(c)
          /\ Closing(fd[c])
          /\ fd' = [fd EXCEPT ![c] = Nothing]
     ELSE /\ doing' = [doing EXCEPT ![c] = "loop"]
          /\ lastErrno' = [lastErrno EXCEPT ![c] = FALSE]
          /\ UNCHANGED <<addr, end, reset, fd>>
  /\ UNCHANGED <<stream, io, buf, round, reply, listener>>

GiveUp(c) ==   \* the error of connect(): process::exit()
  /\ doing[c] = "failed"
  /\ End(c)
  /\ UNCHANGED <<client, listener>>
-----------------------------------------------------------------------------
(* The client's loop; the number it asks of seqService does not matter here.*)
Send(c) ==
  /\ doing[c] = "loop"
  /\ round' = [round EXCEPT ![c] = IF @ = 1 THEN 2 ELSE 1]
  /\ buf' = [buf EXCEPT ![c] = Message(round'[c])]
  /\ io' = [io EXCEPT ![c] = Called("write", Size)]
  /\ doing' = [doing EXCEPT ![c] = "write"]
  /\ UNCHANGED <<network, fd, addr, lastErrno, reply, listener>>

Sent(c) ==
  /\ doing[c] = "write" /\ io[c].at = "done" /\ ~io[c].err
  /\ buf' = [buf EXCEPT ![c] = Empty]
  /\ io' = [io EXCEPT ![c] = Called("read_full", Size)]
  /\ doing' = [doing EXCEPT ![c] = "read"]
  /\ UNCHANGED <<network, fd, client, listener>>

Replied(c) ==
  /\ doing[c] = "read" /\ io[c].at = "done" /\ ~io[c].err
  /\ reply' = [reply EXCEPT ![c] = buf[c]]
  /\ buf' = [buf EXCEPT ![c] = Empty]
  /\ io' = [io EXCEPT ![c] = Idle]
  /\ doing' = [doing EXCEPT ![c] = "loop"]
  /\ UNCHANGED <<network, fd, addr, lastErrno, round, listener>>

(* The process of a connection. *)
ReadSome(k) ==
  /\ doing[k] = "spawned" \/ (doing[k] = "write" /\ io[k].at = "done" /\ ~io[k].err)
  /\ io' = [io EXCEPT ![k] = Called("read", Size)]
  /\ buf' = [buf EXCEPT ![k] = Empty]   \* what it held has been written
  /\ doing' = [doing EXCEPT ![k] = "read"]
  /\ UNCHANGED <<network, fd, client, listener>>

WriteAllBack(k) ==   \* writes back the whole buffer instead of n bytes
  /\ doing[k] = "read" /\ io[k].at = "done" /\ ~io[k].err
  /\ io' = [io EXCEPT ![k] = Called("write", Size)]
  /\ doing' = [doing EXCEPT ![k] = "write"]
  /\ UNCHANGED <<network, fd, buf, client, listener>>

WriteBack(k) ==
  /\ doing[k] = "read" /\ io[k].at = "done" /\ ~io[k].err
  /\ io' = [io EXCEPT ![k] = Called("write", io[k].moved)]
  /\ doing' = [doing EXCEPT ![k] = "write"]
  /\ UNCHANGED <<network, fd, buf, client, listener>>

(* An operation fails, or the process is killed where it waits. *)
Broken(t) ==
  /\ doing[t] \in {"read", "write"} /\ io[t].at = "done" /\ io[t].err
  /\ End(t)
  /\ UNCHANGED <<client, listener>>

Kill(t) ==
  /\ io[t].at = "wait" \/ doing[t] \in {"connecting", "spawned"}
  /\ End(t)
  /\ UNCHANGED <<client, listener>>

(* When entry() has returned, main() stops the scheduler and the server's   *)
(* program exits: its connections end wherever they are.                    *)
Halt(k) ==
  /\ server = "ended" /\ doing[k] \in {"spawned", "read", "write"}
  /\ End(k)
  /\ UNCHANGED <<client, listener>>
-----------------------------------------------------------------------------
(* The network: a connection is made or refused, or breaks. *)
Establish(k) ==
  /\ end[<<k, "client">>] = "syn" /\ sockets > 0
  /\ end' = [end EXCEPT ![<<k, "client">>] = "open", ![<<k, "server">>] = "queued"]
  /\ UNCHANGED <<stream, reset, task, doing, client, listener>>

Refuse(k) ==
  /\ end[<<k, "client">>] = "syn"
  /\ end' = [end EXCEPT ![<<k, "client">>] = "open"]
  /\ reset' = reset \cup {k}
  /\ UNCHANGED <<stream, task, doing, client, listener>>

Break(k) == Reset(k) /\ UNCHANGED <<doing, client, listener>>
-----------------------------------------------------------------------------
Moves(t) == Transfer(t) /\ UNCHANGED <<doing, client, listener>>

Client(c) == \/ Connect(c) \/ ConnectFails(c) \/ Connected(c) \/ GiveUp(c)
             \/ Send(c) \/ Sent(c) \/ Replied(c)

Step(t) == \/ Moves(t) \/ Broken(t)
           \/ t \in Clients /\ Client(t)
           \/ t \in Conns /\ (ReadSome(t) \/ WriteBack(t))

Server == Bind \/ Listen \/ AcceptWait \/ \E k \in Conns : Accept(k)

Settles(k) == Establish(k) \/ Refuse(k)

EchoNext == \/ Server \/ ServerEnds
            \/ \E t \in Tasks : Step(t) \/ Kill(t)
            \/ \E k \in Conns : Settles(k) \/ Break(k) \/ Halt(k)

(* Processes run (modules Scheduler, Mailbox, Process); a connection is     *)
(* made or refused in the end.                                              *)
EchoFairness == /\ WF_echoVars(Server)
                /\ \A t \in Tasks : WF_echoVars(Step(t))
                /\ \A k \in Conns : WF_echoVars(Settles(k))

EchoSpec == EchoInit /\ [][EchoNext]_echoVars /\ EchoFairness
-----------------------------------------------------------------------------
(* Where the bytes of c's message are. *)
Before(t) == SubSeq(buf[t], 1, io[t].moved + io[t].n)
After(t)  == SubSeq(buf[t], io[t].moved + io[t].n + 1, io[t].moved + io[t].left)

Received(c) == IF doing[c] = "read" THEN Before(c) ELSE <<>>
Unsent(c)   == IF doing[c] = "write" THEN After(c) ELSE <<>>
Held(k)     == CASE doing[k] = "read" -> Before(k) [] doing[k] = "write" -> After(k) [] OTHER -> <<>>

(* No byte is lost, repeated or out of place: while a connection lasts,     *)
(* what the client has read, what is on the way back, what the server       *)
(* holds, what is on the way there and what is still to be written are, one *)
(* after the other, the message; and nothing between two messages.          *)
BytesKept ==
  \A c \in Clients :
    LET k == Attempt(c) IN
    doing[c] \in {"loop", "write", "read"} /\ k \notin reset
      /\ end[<<k, "server">>] \in {"queued", "open"} =>
        Received(c) \o stream[<<k, "client">>] \o Held(k) \o stream[<<k, "server">>] \o Unsent(c)
          = IF doing[c] = "loop" THEN <<>> ELSE Message(round[c])

(* connect() gives a descriptor of a connection that was made, and an error *)
(* that is set; no attempt before leaves its descriptor open.               *)
ConnectHonest ==
  \A c \in Clients :
    /\ doing[c] \in {"loop", "write", "read"} =>
         end[<<Attempt(c), "server">>] # "none" /\ ~lastErrno[c]
    /\ doing[c] = "failed" => lastErrno[c]
    /\ \A i \in 1 .. Addresses : end[<<<<c, i>>, "client">>] \in {"syn", "open"} =>
         fd[c] = <<<<c, i>>, "client">>

(* The process of a connection ends when the client's has.                  *)
BothEnd == \A k \in Conns : end[<<k, "client">>] = "closed" ~>
                              end[<<k, "server">>] \in {"none", "closed"}

(* What a client reads back is what it wrote, or the connection ends, and   *)
(* neither takes for ever.                                                  *)
progress ==
  [c \in Clients |-> CASE doing[c] \in {"connect", "connecting", "failed"} -> "start"
                       [] doing[c] = "loop" -> "idle"
                       [] doing[c] \in {"write", "read"} -> "asked"
                       [] OTHER -> "lost"]

asked == [c \in Clients |-> IF round[c] = 0 THEN <<>> ELSE Message(round[c])]

Trips == INSTANCE RoundTrip WITH Messages <- {Message(1), Message(2)},
                                 state <- progress, sent <- asked, got <- reply
RoundTrips     == Trips!Spec
RoundTripsSafe == Trips!SafeSpec
=============================================================================
