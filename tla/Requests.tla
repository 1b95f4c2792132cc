------------------------------ MODULE Requests ------------------------------
(***************************************************************************)
(* Requests and their sessions (src/process.cpp).  Coroutines of one       *)
(* process, the client, ask servers and block under a session number until *)
(* a response with it comes; the number is given back then, and used       *)
(* again.  A server notes each request in _requestsMap until it responds;  *)
(* ~Process aborts the requests that are left.                             *)
(*                                                                         *)
(* A request is made by request(), which keeps a reference to the server   *)
(* while it blocks and throws ProcessNotExist, with nothing done, when it  *)
(* does not find it; or by new_session(), send() and block(), which keeps  *)
(* none and blocks even if send() did not find the server.  A number of    *)
(* their own, which the code does not have, tells requests apart.  Finding *)
(* a process and pushing to it is one step here and two in module Runtime. *)
(* Of the coroutines of a server in serve() (module Process) only whether  *)
(* there is one is kept.  A handler responds at most once.                 *)
(***************************************************************************)
EXTENDS Naturals, Sequences, FiniteSets

CONSTANTS Callers,    \* coroutines of the client
          Servers,
          Sessions,   \* what the allocator of the client gives out
          None,
          MaxAsked    \* bound on the requests

ASSUME RequestsAssumption == None \notin Servers /\ 0 \notin Sessions /\ MaxAsked \in Nat

VARIABLES asked,      \* requests so far
          lost,       \* (ghost) those that send() dropped
          state,      \* of each caller
          session,    \* its Session, 0 if it has none
          request,    \* the request it waits for
          to,         \* the server whose reference it holds in request()
          by,         \* the request whose response woke it
          responses,  \* the mailbox of the client
          alive,      \* the client is registered
          life,       \* of each server
          mailbox,    \* requests not taken yet
          inbox,      \* _inbox
          open,       \* _requestsMap, by session
          handled,    \* requests in the hands of handlers
          serving,    \* a coroutine of the server is in serve()
          misled      \* a second abort has woken somebody

caller == <<session, request, to, by>>
server == <<life, mailbox, inbox, open, handled, serving>>
vars   == <<asked, lost, state, caller, responses, alive, server, misled>>

Modes == {"callback", "coroutine"}   \* HandlerMode

Init == /\ asked = 0 /\ lost = {}
        /\ state = [c \in Callers |-> "runs"]
        /\ session = [c \in Callers |-> 0]
        /\ request = [c \in Callers |-> 0]
        /\ to = [c \in Callers |-> None]
        /\ by = [c \in Callers |-> 0]
        /\ responses = <<>> /\ alive = TRUE
        /\ life = [s \in Servers |-> "up"]
        /\ mailbox = [s \in Servers |-> <<>>]
        /\ inbox = [s \in Servers |-> <<>>]
        /\ open = [s \in Servers |-> [n \in Sessions |-> 0]]
        /\ handled = [s \in Servers |-> {}]
        /\ serving = [s \in Servers |-> FALSE]
        /\ misled = FALSE
-----------------------------------------------------------------------------
(* The client.  new_session() and block(). *)
Blocks(c, n) ==
  /\ alive /\ state[c] = "runs" /\ asked < MaxAsked
  /\ \A d \in Callers : session[d] # n
  /\ asked' = asked + 1
  /\ session' = [session EXCEPT ![c] = n]
  /\ request' = [request EXCEPT ![c] = asked + 1]
  /\ state' = [state EXCEPT ![c] = "blocks"]

Message(n, i) == [session |-> n, id |-> i]
Answer(n, i) == [session |-> n, id |-> i, second |-> FALSE]

Ask(c, n, s, keeps) ==
  /\ life[s] \in {"up", "down"}   \* find()
  /\ Blocks(c, n)
  /\ mailbox' = [mailbox EXCEPT ![s] = Append(@, Message(n, asked + 1))]
  /\ to' = [to EXCEPT ![c] = IF keeps THEN s ELSE None]
  /\ UNCHANGED <<lost, by, responses, alive, life, inbox, open, handled, serving, misled>>

AskLost(c, n) ==   \* send() does not find the server, block() blocks
  /\ \E s \in Servers : life[s] = "retired"
  /\ Blocks(c, n)
  /\ lost' = lost \cup {asked + 1}
  /\ UNCHANGED <<to, by, responses, alive, server, misled>>

Yield(c, n) ==   \* answers itself
  /\ Blocks(c, n)
  /\ responses' = Append(responses, Answer(n, asked + 1))
  /\ UNCHANGED <<lost, to, by, alive, server, misled>>

(* A response: unblock() whoever blocks under its session, if anybody does. *)
Blocked(n) == {c \in Callers : state[c] = "blocks" /\ session[c] = n}

Deliver ==
  /\ alive /\ responses # <<>>
  /\ LET r == Head(responses) IN
     /\ state' = [c \in Callers |-> IF c \in Blocked(r.session) THEN "woken" ELSE state[c]]
     /\ by' = [c \in Callers |-> IF c \in Blocked(r.session) THEN r.id ELSE by[c]]
     /\ misled' = (misled \/ (r.second /\ Blocked(r.session) # {}))
  /\ responses' = Tail(responses)
  /\ UNCHANGED <<asked, lost, session, request, to, alive, server>>

(* block() returns: the session is released, the reference dropped. *)
Runs(c) ==
  /\ state[c] = "woken"
  /\ state' = [state EXCEPT ![c] = "runs"]
  /\ session' = [session EXCEPT ![c] = 0]
  /\ request' = [request EXCEPT ![c] = 0]
  /\ to' = [to EXCEPT ![c] = None]
  /\ by' = [by EXCEPT ![c] = 0]
  /\ UNCHANGED <<asked, lost, responses, alive, server, misled>>

(* The client goes down: every block() throws, nobody finds it any more. *)
ClientDown ==
  /\ alive
  /\ alive' = FALSE
  /\ state' = [c \in Callers |-> "ended"]
  /\ session' = [c \in Callers |-> 0]
  /\ request' = [c \in Callers |-> 0]
  /\ to' = [c \in Callers |-> None]
  /\ by' = [c \in Callers |-> 0]
  /\ responses' = <<>>
  /\ UNCHANGED <<asked, lost, server, misled>>
-----------------------------------------------------------------------------
(* A server. *)
Respond(n, i, second) ==
  responses' = IF alive THEN Append(responses, [session |-> n, id |-> i, second |-> second])
                        ELSE responses

Take(s) ==   \* serve_request() and _inbox
  /\ life[s] = "up" /\ mailbox[s] # <<>>
  /\ LET m == Head(mailbox[s]) IN
     /\ open' = [open EXCEPT ![s][m.session] = m.id]
     /\ inbox' = [inbox EXCEPT ![s] = Append(@, m)]
  /\ mailbox' = [mailbox EXCEPT ![s] = Tail(@)]
  /\ UNCHANGED <<asked, lost, state, caller, responses, alive, life, handled, serving, misled>>

(* A coroutine calls serve(). *)
ServeStarts(s) ==
  /\ life[s] = "up" /\ ~serving[s]
  /\ serving' = [serving EXCEPT ![s] = TRUE]
  /\ UNCHANGED <<asked, lost, state, caller, responses, alive, life, mailbox, inbox, open, handled, misled>>

(* serve(): the handler runs in place or in a coroutine of its own; a       *)
(* request nobody handles is dropped.                                       *)
Free(s) == serving[s] /\ \A h \in handled[s] : h.mode = "coroutine"

Serve(s, mode) ==
  /\ life[s] = "up" /\ inbox[s] # <<>> /\ Free(s)
  /\ handled' = [handled EXCEPT ![s] = @ \cup
                   {[session |-> Head(inbox[s]).session, id |-> Head(inbox[s]).id, mode |-> mode]}]
  /\ inbox' = [inbox EXCEPT ![s] = Tail(@)]
  /\ UNCHANGED <<asked, lost, state, caller, responses, alive, life, mailbox, open, serving, misled>>

Unhandled(s) ==
  /\ life[s] = "up" /\ inbox[s] # <<>> /\ Free(s)
  /\ inbox' = [inbox EXCEPT ![s] = Tail(@)]
  /\ UNCHANGED <<asked, lost, state, caller, responses, alive, life, mailbox, open, handled, serving, misled>>

(* A handler returns or throws; what a callback throws leaves serve() and   *)
(* ends its coroutine, while others may keep the process up.                *)
Ends(s, h) ==
  /\ handled' = [handled EXCEPT ![s] = @ \ {h}]
  /\ \/ UNCHANGED serving
     \/ h.mode = "callback" /\ serving' = [serving EXCEPT ![s] = FALSE]

RespondOpen(s, h) ==   \* without close_request()
  /\ h \in handled[s]
  /\ Respond(h.session, h.id, FALSE)
  /\ Ends(s, h)
  /\ UNCHANGED <<asked, lost, state, caller, alive, life, mailbox, inbox, open, misled>>

HandlerResponds(s, h) ==   \* response() and close_request()
  /\ h \in handled[s]
  /\ Respond(h.session, h.id, FALSE)
  /\ open' = [open EXCEPT ![s][h.session] = 0]
  /\ Ends(s, h)
  /\ UNCHANGED <<asked, lost, state, caller, alive, life, mailbox, inbox, misled>>

HandlerForgets(s, h) ==   \* ends without a response
  /\ h \in handled[s]
  /\ Ends(s, h)
  /\ UNCHANGED <<asked, lost, state, caller, responses, alive, life, mailbox, inbox, open, misled>>
-----------------------------------------------------------------------------
(* A server goes down: its handlers are interrupted, it is taken off the    *)
(* registry, and destroyed when nobody holds a reference.                   *)
Down(s) ==
  /\ life[s] = "up"
  /\ life' = [life EXCEPT ![s] = "down"]
  /\ handled' = [handled EXCEPT ![s] = {}]
  /\ serving' = [serving EXCEPT ![s] = FALSE]
  /\ UNCHANGED <<asked, lost, state, caller, responses, alive, mailbox, inbox, open, misled>>

Retire(s) ==
  /\ life[s] = "down"
  /\ life' = [life EXCEPT ![s] = "retired"]
  /\ UNCHANGED <<asked, lost, state, caller, responses, alive, mailbox, inbox, open, handled, serving, misled>>

(* ~Process: what is in _requestsMap, then in _inbox, then in the mailbox.  *)
Destroyed(s) == life[s] = "retired" /\ \A c \in Callers : to[c] # s
Closed(s)    == \A n \in Sessions : open[s][n] = 0

AbortOpen(s, n) ==
  /\ Destroyed(s) /\ open[s][n] # 0
  /\ Respond(n, open[s][n], FALSE)
  /\ open' = [open EXCEPT ![s][n] = 0]
  /\ UNCHANGED <<asked, lost, state, caller, alive, life, mailbox, inbox, handled, serving, misled>>

AbortInbox(s) ==   \* again: it was in _requestsMap
  /\ Destroyed(s) /\ Closed(s) /\ inbox[s] # <<>>
  /\ Respond(Head(inbox[s]).session, Head(inbox[s]).id, TRUE)
  /\ inbox' = [inbox EXCEPT ![s] = Tail(@)]
  /\ UNCHANGED <<asked, lost, state, caller, alive, life, mailbox, open, handled, serving, misled>>

AbortNothing(s) ==   \* what was not taken is destroyed without an abort
  /\ Destroyed(s) /\ Closed(s) /\ inbox[s] = <<>> /\ mailbox[s] # <<>>
  /\ mailbox' = [mailbox EXCEPT ![s] = Tail(@)]
  /\ UNCHANGED <<asked, lost, state, caller, responses, alive, life, inbox, open, handled, serving, misled>>

AbortMailbox(s) ==
  /\ Destroyed(s) /\ Closed(s) /\ inbox[s] = <<>> /\ mailbox[s] # <<>>
  /\ Respond(Head(mailbox[s]).session, Head(mailbox[s]).id, FALSE)
  /\ mailbox' = [mailbox EXCEPT ![s] = Tail(@)]
  /\ UNCHANGED <<asked, lost, state, caller, alive, life, inbox, open, handled, serving, misled>>
-----------------------------------------------------------------------------
Aborts(s) == (\E n \in Sessions : AbortOpen(s, n)) \/ AbortInbox(s) \/ AbortMailbox(s)

Works(s) == \/ Take(s) \/ Retire(s) \/ Aborts(s)
            \/ Unhandled(s) \/ \E m \in Modes : Serve(s, m)

Handles(s) == \E h \in handled[s] : HandlerResponds(s, h) \/ HandlerForgets(s, h)

Next == \/ Deliver \/ ClientDown
        \/ \E c \in Callers : \/ Runs(c)
                              \/ \E n \in Sessions : \/ Yield(c, n) \/ AskLost(c, n)
                                                     \/ \E s \in Servers, k \in BOOLEAN : Ask(c, n, s, k)
        \/ \E s \in Servers : Works(s) \/ Handles(s) \/ ServeStarts(s) \/ Down(s)

(* Processes run, and a handler comes to its end. *)
Fairness == /\ WF_vars(Deliver)
            /\ \A c \in Callers : WF_vars(Runs(c))
            /\ \A s \in Servers : WF_vars(Works(s)) /\ WF_vars(Handles(s))

SafeSpec == Init /\ [][Next]_vars
Spec == SafeSpec /\ Fairness
-----------------------------------------------------------------------------
(* A request a server still has, and one that is answered.                  *)
InSeq(q) == {q[j].id : j \in 1 .. Len(q)}
Has(s)   == (InSeq(mailbox[s]) \cup {open[s][n] : n \in Sessions}) \ {0}
Pending  == UNION {Has(s) : s \in Servers}
Answers  == {responses[j].id : j \in {k \in 1 .. Len(responses) : ~responses[k].second}}

(* Each request that send() did not drop is answered once: while its caller *)
(* blocks, a server has it, or there is one response, not both; afterwards  *)
(* neither.  A server that dies aborts a request of its inbox a second time;*)
(* this holds until such an abort wakes somebody, that is, until its        *)
(* session is used again.                                                   *)
AnsweredOnce ==
  alive /\ ~misled =>
    /\ Pending \cap Answers = {}
    /\ Pending \cup Answers = {request[c] : c \in {d \in Callers : state[d] = "blocks"}} \ lost
    /\ \A j, k \in 1 .. Len(responses) :
         responses[j].id = responses[k].id /\ ~responses[j].second /\ ~responses[k].second => j = k

(* A caller is woken by the response to its own request.                    *)
AnswersOwn == ~misled => \A c \in Callers : state[c] = "woken" => by[c] = request[c]

(* A request is answered, unless send() dropped it, its handler ends        *)
(* without a response, it has none, it waits in the inbox of a server       *)
(* where nobody serves (any more), or the server went down and a request()  *)
(* keeps it from being destroyed.                                           *)
Given(c) == \E s \in Servers : /\ session[c] # 0 /\ open[s][session[c]] = request[c]
                               /\ life[s] = "up" /\ request[c] \notin InSeq(inbox[s])
                               /\ \A h \in handled[s] : h.id # request[c]
Kept(c) == \E s \in Servers : /\ request[c] \in Has(s) /\ life[s] = "retired"
                              /\ \E d \in Callers : to[d] = s

Unserved(c) == \E s \in Servers : /\ request[c] \in InSeq(inbox[s])
                                  /\ life[s] = "up" /\ ~serving[s]

RequestEnds == \A c \in Callers :
                 state[c] = "blocks" ~> \/ state[c] # "blocks" \/ request[c] \in lost
                                          \/ Given(c) \/ Unserved(c) \/ Kept(c)
=============================================================================
