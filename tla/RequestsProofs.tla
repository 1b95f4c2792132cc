--------------------------- MODULE RequestsProofs ---------------------------
(***************************************************************************)
(* For any number of callers, servers and sessions: each request is        *)
(* answered once and its caller is woken by that answer, until a second    *)
(* abort reaches a session that was used again.                            *)
(***************************************************************************)
EXTENDS Requests, SequenceTheorems, TLAPS

(* Appending something new keeps a queue free of repetition.                *)
LEMMA AppendNew ==
  ASSUME NEW S, NEW s \in Seq(S), IsInjective(s), NEW e \in S, e \notin Range(s)
  PROVE  /\ Append(s, e) \in Seq(S)
         /\ IsInjective(Append(s, e))
         /\ Range(Append(s, e)) = Range(s) \cup {e}
<1>1. IsInjective(Append(s, e))
  BY DEF IsInjective, Range
<1>2. Range(Append(s, e)) = Range(s) \cup {e}
  BY DEF Range
<1>3. QED
  BY <1>1, <1>2

(* Taking the first element removes it.                                     *)
LEMMA TailRemoves ==
  ASSUME NEW S, NEW s \in Seq(S), IsInjective(s), s # << >>
  PROVE  /\ Tail(s) \in Seq(S) /\ Head(s) \in S
         /\ IsInjective(Tail(s))
         /\ Head(s) \in Range(s)
         /\ Range(Tail(s)) = Range(s) \ {Head(s)}
<1>1. /\ Len(s) \in Nat \ {0} /\ Head(s) = s[1]
      /\ Tail(s) \in Seq(S) /\ Len(Tail(s)) = Len(s) - 1
      /\ \A i \in 1 .. Len(Tail(s)) : Tail(s)[i] = s[i + 1]
  BY HeadTailProperties, EmptySeq
<1>2. IsInjective(Tail(s))
  BY <1>1 DEF IsInjective
<1>3. ASSUME NEW x \in Range(s), x # Head(s) PROVE x \in Range(Tail(s))
  <2>1. PICK i \in 1 .. Len(s) : x = s[i]
    BY DEF Range
  <2>2. i - 1 \in 1 .. Len(Tail(s)) /\ Tail(s)[i - 1] = x
    BY <1>1, <1>3, <2>1
  <2>3. DOMAIN Tail(s) = 1 .. Len(Tail(s))
    BY <1>1, LenProperties
  <2>4. QED
    BY <2>2, <2>3, Zenon DEF Range
<1>4. ASSUME NEW x \in Range(Tail(s)) PROVE x \in Range(s) \ {Head(s)}
  <2>1. PICK i \in 1 .. Len(Tail(s)) : x = Tail(s)[i]
    BY <1>1 DEF Range
  <2>2. x = s[i + 1] /\ i + 1 \in 1 .. Len(s) /\ s[i + 1] # s[1]
    BY <1>1, <2>1 DEF IsInjective
  <2>3. x \in Range(s)
    BY <1>1, <2>2 DEF Range
  <2>4. QED
    BY <1>1, <2>2, <2>3
<1>5. Head(s) \in Range(s)
  BY <1>1 DEF Range
<1>6. QED
  BY <1>1, <1>2, <1>3, <1>4, <1>5

-----------------------------------------------------------------------------
MessageSet  == [session : Sessions, id : Nat]
ResponseSet == [session : Sessions, id : Nat, second : BOOLEAN]
HandlerSet  == [session : Sessions, id : Nat, mode : Modes]

Types ==
  /\ asked \in Nat /\ lost \subseteq 1 .. asked
  /\ state \in [Callers -> {"runs", "blocks", "woken", "ended"}]
  /\ session \in [Callers -> Sessions \cup {0}]
  /\ request \in [Callers -> Nat] /\ by \in [Callers -> Nat]
  /\ to \in [Callers -> Servers \cup {None}]
  /\ responses \in Seq(ResponseSet)
  /\ alive \in BOOLEAN /\ misled \in BOOLEAN
  /\ life \in [Servers -> {"up", "down", "retired"}]
  /\ mailbox \in [Servers -> Seq(MessageSet)]
  /\ inbox \in [Servers -> Seq(MessageSet)]
  /\ open \in [Servers -> [Sessions -> Nat]]
  /\ handled \in [Servers -> SUBSET HandlerSet] /\ serving \in [Servers -> BOOLEAN]
  /\ ~alive => \A c \in Callers : state[c] = "ended"

(* The queues as sets; a response that is no second abort is a first one.   *)
Mail(s)   == Range(mailbox[s])
In(s)     == Range(inbox[s])
Firsts(q) == {r \in Range(q) : ~r.second}
Once(q)   == \A j, k \in 1 .. Len(q) : q[j] = q[k] /\ ~q[j].second => j = k

Queues == /\ \A s \in Servers : IsInjective(mailbox[s]) /\ IsInjective(inbox[s])
          /\ Once(responses)

(* Callers block under sessions and for requests of their own.              *)
Waiting == {c \in Callers : state[c] = "blocks"}

Numbers == /\ \A c \in Waiting : session[c] \in Sessions /\ request[c] \in 1 .. asked
           /\ \A c, d \in Waiting : session[c] = session[d] \/ request[c] = request[d] => c = d

Of(n, i) == i \notin lost /\ \E c \in Waiting : session[c] = n /\ request[c] = i

(* Request i with session n is in a mailbox, in a _requestsMap, or answered. *)
Holds(k, s, n, i) ==
  \/ k = "mailbox" /\ s \in Servers /\ Message(n, i) \in Mail(s)
  \/ k = "open" /\ s \in Servers /\ n \in Sessions /\ i # 0 /\ open[s][n] = i
  \/ k = "answered" /\ s = None /\ Answer(n, i) \in Firsts(responses)

(* What is held is of somebody who waits, is held once, and nobody waits    *)
(* for what is not, unless send() dropped it.                               *)
Belongs   == \A k, s, n, i : Holds(k, s, n, i) => Of(n, i)
Single    == \A k, s, n, l, t, m, i : Holds(k, s, n, i) /\ Holds(l, t, m, i) => k = l /\ s = t
Somewhere == \A n, i : Of(n, i) => \E k, s : Holds(k, s, n, i)
Pool      == Numbers /\ Belongs /\ Single /\ Somewhere

(* What is in the inbox or with a handler of a server that is up is open    *)
(* there, and in one of the two.                                            *)
Served == \A s \in Servers :
  /\ life[s] # "up" => handled[s] = {}
  /\ life[s] = "up" =>
       /\ \A m \in In(s) : open[s][m.session] = m.id /\ m.id # 0
       /\ \A m, l \in In(s) : m.session = l.session => m = l
       /\ \A h \in handled[s] : open[s][h.session] = h.id /\ h.id # 0
       /\ \A g, h \in handled[s] : g.session = h.session => g = h
       /\ \A m \in In(s), h \in handled[s] : m.session # h.session

Core == Queues /\ Pool /\ Served
IInv == Types /\ (alive /\ ~misled => Core) /\ AnswersOwn

-----------------------------------------------------------------------------
(* A response more, a response less.                                        *)
LEMMA AppendResponse ==
  ASSUME NEW q \in Seq(ResponseSet), Once(q), NEW r \in ResponseSet, r.second \/ r \notin Firsts(q)
  PROVE  /\ Append(q, r) \in Seq(ResponseSet) /\ Once(Append(q, r))
         /\ Firsts(Append(q, r)) = IF r.second THEN Firsts(q) ELSE Firsts(q) \cup {r}
<1>1. /\ Len(q) \in Nat /\ Append(q, r) \in Seq(ResponseSet) /\ Len(Append(q, r)) = Len(q) + 1
      /\ \A i \in 1 .. Len(q) : Append(q, r)[i] = q[i]
      /\ Append(q, r)[Len(q) + 1] = r
  BY AppendProperties, LenProperties
<1>2. Range(q) = {q[i] : i \in 1 .. Len(q)}
  BY LenProperties DEF Range
<1>3. Range(Append(q, r)) = Range(q) \cup {r}
  <2>1. Range(Append(q, r)) = {Append(q, r)[i] : i \in 1 .. Len(q) + 1}
    BY <1>1, LenProperties DEF Range
  <2>2. 1 .. Len(q) + 1 = (1 .. Len(q)) \cup {Len(q) + 1}
    BY <1>1
  <2>3. QED
    BY <1>1, <1>2, <2>1, <2>2
<1>4. Once(Append(q, r))
  BY <1>1, <1>2 DEF Once, Firsts
<1>5. QED
  BY <1>1, <1>3, <1>4 DEF Firsts

LEMMA TailResponse ==
  ASSUME NEW q \in Seq(ResponseSet), Once(q), q # << >>
  PROVE  /\ Tail(q) \in Seq(ResponseSet) /\ Once(Tail(q)) /\ Head(q) \in ResponseSet
         /\ Head(q) \in Range(q)
         /\ Firsts(Tail(q)) = Firsts(q) \ {Head(q)}
<1>1. /\ Len(q) \in Nat \ {0} /\ Head(q) = q[1] /\ Head(q) \in ResponseSet
      /\ Tail(q) \in Seq(ResponseSet) /\ Len(Tail(q)) = Len(q) - 1
      /\ \A i \in 1 .. Len(Tail(q)) : Tail(q)[i] = q[i + 1]
  BY HeadTailProperties, EmptySeq
<1>2. /\ Range(q) = {q[i] : i \in 1 .. Len(q)}
      /\ Range(Tail(q)) = {Tail(q)[i] : i \in 1 .. Len(q) - 1}
  BY <1>1, LenProperties DEF Range
<1>3. Once(Tail(q))
  BY <1>1 DEF Once
<1>4. ASSUME NEW x \in Firsts(q), x # Head(q) PROVE x \in Firsts(Tail(q))
  <2>1. PICK i \in 1 .. Len(q) : x = q[i]
    BY <1>2 DEF Firsts
  <2>2. i - 1 \in 1 .. Len(q) - 1 /\ Tail(q)[i - 1] = x
    BY <1>1, <1>4, <2>1
  <2>3. QED
    BY <1>2, <2>2 DEF Firsts
<1>5. ASSUME NEW x \in Firsts(Tail(q)) PROVE x \in Firsts(q) /\ x # Head(q)
  <2>1. PICK i \in 1 .. Len(q) - 1 : x = Tail(q)[i]
    BY <1>2 DEF Firsts
  <2>2. i + 1 \in 1 .. Len(q) /\ x = q[i + 1]
    BY <1>1, <2>1
  <2>3. x # q[1]
    BY <1>1, <1>5, <2>2 DEF Once, Firsts
  <2>4. QED
    BY <1>1, <1>2, <1>5, <2>2, <2>3 DEF Firsts
<1>6. Head(q) \in Range(q)
  BY <1>1, <1>2
<1>7. QED
  BY <1>1, <1>3, <1>4, <1>5, <1>6

(* A request with its session moves from one place to another.              *)
LEMMA Moves ==
  ASSUME Pool, UNCHANGED <<asked, lost, state, session, request>>,
         NEW k, NEW s, NEW l, NEW t, NEW n, NEW i, Holds(k, s, n, i), Holds(l, t, n, i)',
         \A x, y, m, j : Holds(x, y, m, j)' <=>
            \/ Holds(x, y, m, j) /\ ~(x = k /\ y = s /\ m = n /\ j = i)
            \/ x = l /\ y = t /\ m = n /\ j = i
  PROVE  Pool'
<1>1. Waiting' = Waiting /\ \A m, j : Of(m, j)' <=> Of(m, j)
  BY DEF Waiting, Of
<1>2. Numbers'
  BY <1>1 DEF Pool, Numbers
<1>3. \A x, y, m, z, w, o, j : Holds(x, y, m, j) /\ Holds(z, w, o, j) => x = z /\ y = w /\ m = o
  BY DEF Pool, Belongs, Single, Numbers, Of
<1>4. Belongs'
  BY <1>1 DEF Pool, Belongs
<1>5. Single'
  BY <1>3 DEF Single
<1>6. Somewhere'
  BY <1>1 DEF Pool, Somewhere
<1>7. QED
  BY <1>2, <1>4, <1>5, <1>6 DEF Pool

(* Nothing moves.                                                           *)
LEMMA Stays ==
  ASSUME Pool, UNCHANGED <<asked, lost, state, session, request>>,
         \A x, y, m, j : Holds(x, y, m, j)' <=> Holds(x, y, m, j)
  PROVE  Pool'
<1>1. Waiting' = Waiting /\ \A m, j : Of(m, j)' <=> Of(m, j)
  BY DEF Waiting, Of
<1>2. QED
  BY <1>1 DEF Pool, Numbers, Belongs, Single, Somewhere

(* A request is made: it is new, and held in one place.                     *)
LEMMA Starts ==
  ASSUME Types, Pool, NEW c \in Callers, NEW n \in Sessions, Blocks(c, n), lost' = lost,
         NEW k, NEW s,
         \A x, y, m, j : Holds(x, y, m, j)' <=>
            Holds(x, y, m, j) \/ (x = k /\ y = s /\ m = n /\ j = asked + 1)
  PROVE  Pool'
<1>1. /\ Waiting' = Waiting \cup {c} /\ c \notin Waiting
      /\ asked' = asked + 1 /\ asked \in Nat /\ asked + 1 \notin lost
      /\ session'[c] = n /\ request'[c] = asked + 1
      /\ \A d \in Waiting : session'[d] = session[d] /\ request'[d] = request[d] /\ session[d] # n
  BY DEF Blocks, Waiting, Types
<1>2. \A m, j : Of(m, j)' <=> Of(m, j) \/ (m = n /\ j = asked + 1)
  BY <1>1 DEF Of
<1>3. \A m, j : Of(m, j) => j \in 1 .. asked
  BY DEF Of, Pool, Numbers
<1>4. Numbers'
  BY <1>1 DEF Pool, Numbers
<1>5. Belongs'
  BY <1>2 DEF Pool, Belongs
<1>6. \A x, y, m, j : Holds(x, y, m, j) => j # asked + 1
  BY <1>1, <1>3 DEF Pool, Belongs
<1>7. Single'
  BY <1>6 DEF Pool, Single
<1>8. Somewhere'
  BY <1>2 DEF Pool, Somewhere
<1>9. QED
  BY <1>4, <1>5, <1>7, <1>8 DEF Pool

(* What is held is not held elsewhere, nor under another session.           *)
LEMMA HeldOnce ==
  ASSUME Pool
  PROVE  /\ \A k, s, n, l, t, m, i : Holds(k, s, n, i) /\ Holds(l, t, m, i) => k = l /\ s = t /\ n = m
         /\ \A k, s, n, l, t, i, j : Holds(k, s, n, i) /\ Holds(l, t, n, j) => k = l /\ s = t /\ i = j
         /\ \A k, s, n, i : Holds(k, s, n, i) => n \in Sessions /\ i \in 1 .. asked
<1>1. \A n, i : Of(n, i) => n \in Sessions /\ i \in 1 .. asked
  BY DEF Pool, Numbers, Of
<1>2. \A n, i, m, j : Of(n, i) /\ Of(m, j) /\ (n = m \/ i = j) => n = m /\ i = j
  BY DEF Pool, Numbers, Of
<1>3. QED
  BY <1>1, <1>2 DEF Pool, Belongs, Single

-----------------------------------------------------------------------------
(* The types are kept.                                                      *)
LEMMA RespondTyped ==
  ASSUME Types, NEW n \in Sessions, NEW i \in Nat, NEW b \in BOOLEAN, Respond(n, i, b)
  PROVE  responses' \in Seq(ResponseSet)
<1>1. [session |-> n, id |-> i, second |-> b] \in ResponseSet
  BY DEF ResponseSet
<1>2. QED
  BY <1>1, AppendProperties DEF Types, Respond

LEMMA TypesKept == Types /\ [Next]_vars => Types'
<1>. SUFFICES ASSUME Types, [Next]_vars PROVE Types'
  OBVIOUS
<1>. USE RequestsAssumption DEF caller, server
<1>1. CASE Deliver
  <2>0. Tail(responses) \in Seq(ResponseSet) /\ Head(responses) \in ResponseSet
    BY <1>1, HeadTailProperties DEF Deliver, Types
  <2>1. responses' \in Seq(ResponseSet) /\ Head(responses).id \in Nat /\ Head(responses).second \in BOOLEAN
    BY <1>1, <2>0 DEF Deliver, ResponseSet
  <2>2. /\ state' \in [Callers -> {"runs", "blocks", "woken", "ended"}]
        /\ by' \in [Callers -> Nat] /\ misled' \in BOOLEAN
    BY <1>1, <2>1 DEF Deliver, Types
  <2>3. QED
    BY <1>1, <2>1, <2>2 DEF Deliver, Types
<1>2. CASE ClientDown
  <2>1. << >> \in Seq(ResponseSet)
    BY EmptySeq
  <2>2. QED
    BY <1>2, <2>1 DEF ClientDown, Types
<1>3. ASSUME NEW c \in Callers, Runs(c) PROVE Types'
  BY <1>3 DEF Runs, Types
<1>4. ASSUME NEW c \in Callers, NEW n \in Sessions, Yield(c, n) PROVE Types'
  <2>1. responses' \in Seq(ResponseSet)
    BY <1>4, AppendProperties DEF Yield, Answer, ResponseSet, Types
  <2>2. QED
    BY <1>4, <2>1 DEF Yield, Blocks, Types
<1>5. ASSUME NEW c \in Callers, NEW n \in Sessions, NEW s \in Servers, NEW k \in BOOLEAN, Ask(c, n, s, k)
      PROVE  Types'
  <2>0. Message(n, asked + 1) \in MessageSet
    BY DEF Message, MessageSet, Types
  <2>1. Append(mailbox[s], Message(n, asked + 1)) \in Seq(MessageSet)
    BY <2>0, AppendProperties DEF Types
  <2>2. mailbox' \in [Servers -> Seq(MessageSet)]
    BY <1>5, <2>1 DEF Ask, Types
  <2>3. QED
    BY <1>5, <2>2 DEF Ask, Blocks, Types
<1>6. ASSUME NEW s \in Servers, Take(s) PROVE Types'
  <2>1. /\ Head(mailbox[s]) \in MessageSet /\ Tail(mailbox[s]) \in Seq(MessageSet)
        /\ Append(inbox[s], Head(mailbox[s])) \in Seq(MessageSet)
    BY <1>6, HeadTailProperties, AppendProperties DEF Take, Types
  <2>2. Head(mailbox[s]).session \in Sessions /\ Head(mailbox[s]).id \in Nat
    BY <2>1 DEF MessageSet
  <2>3. /\ mailbox' \in [Servers -> Seq(MessageSet)] /\ inbox' \in [Servers -> Seq(MessageSet)]
        /\ open' \in [Servers -> [Sessions -> Nat]]
    BY <1>6, <2>1, <2>2 DEF Take, Types
  <2>4. QED
    BY <1>6, <2>3 DEF Take, Types
<1>7. ASSUME NEW s \in Servers, Retire(s) PROVE Types'
  BY <1>7 DEF Retire, Types
<1>8. ASSUME NEW s \in Servers, NEW n \in Sessions, AbortOpen(s, n) PROVE Types'
  <2>0. open[s][n] \in Nat
    BY DEF Types
  <2>1. responses' \in Seq(ResponseSet)
    BY <1>8, <2>0, RespondTyped DEF AbortOpen
  <2>2. QED
    BY <1>8, <2>1 DEF AbortOpen, Types
<1>9. ASSUME NEW s \in Servers, AbortInbox(s) PROVE Types'
  <2>1. Head(inbox[s]) \in MessageSet /\ Tail(inbox[s]) \in Seq(MessageSet)
    BY <1>9, HeadTailProperties DEF AbortInbox, Types
  <2>2. Head(inbox[s]).session \in Sessions /\ Head(inbox[s]).id \in Nat
    BY <2>1 DEF MessageSet
  <2>3. responses' \in Seq(ResponseSet) /\ inbox' \in [Servers -> Seq(MessageSet)]
    BY <1>9, <2>1, <2>2, RespondTyped DEF AbortInbox, Types
  <2>4. QED
    BY <1>9, <2>3 DEF AbortInbox, Types
<1>10. ASSUME NEW s \in Servers, AbortMailbox(s) PROVE Types'
  <2>1. Head(mailbox[s]) \in MessageSet /\ Tail(mailbox[s]) \in Seq(MessageSet)
    BY <1>10, HeadTailProperties DEF AbortMailbox, Types
  <2>2. Head(mailbox[s]).session \in Sessions /\ Head(mailbox[s]).id \in Nat
    BY <2>1 DEF MessageSet
  <2>3. responses' \in Seq(ResponseSet) /\ mailbox' \in [Servers -> Seq(MessageSet)]
    BY <1>10, <2>1, <2>2, RespondTyped DEF AbortMailbox, Types
  <2>4. QED
    BY <1>10, <2>3 DEF AbortMailbox, Types
<1>11. ASSUME NEW s \in Servers, Unhandled(s) PROVE Types'
  <2>1. Tail(inbox[s]) \in Seq(MessageSet)
    BY <1>11, HeadTailProperties DEF Unhandled, Types
  <2>2. QED
    BY <1>11, <2>1 DEF Unhandled, Types
<1>12. ASSUME NEW s \in Servers, NEW m \in Modes, Serve(s, m) PROVE Types'
  <2>1. Head(inbox[s]) \in MessageSet /\ Tail(inbox[s]) \in Seq(MessageSet)
    BY <1>12, HeadTailProperties DEF Serve, Types
  <2>2. [session |-> Head(inbox[s]).session, id |-> Head(inbox[s]).id, mode |-> m] \in HandlerSet
    BY <2>1 DEF MessageSet, HandlerSet
  <2>3. inbox' \in [Servers -> Seq(MessageSet)] /\ handled' \in [Servers -> SUBSET HandlerSet]
    BY <1>12, <2>1, <2>2 DEF Serve, Types
  <2>4. QED
    BY <1>12, <2>3 DEF Serve, Types
<1>13. ASSUME NEW s \in Servers, NEW h \in handled[s], HandlerResponds(s, h) PROVE Types'
  <2>1. h.session \in Sessions /\ h.id \in Nat
    BY DEF Types, HandlerSet
  <2>2. responses' \in Seq(ResponseSet)
    BY <1>13, <2>1, RespondTyped DEF HandlerResponds
  <2>3. QED
    BY <1>13, <2>1, <2>2 DEF HandlerResponds, Ends, Types
<1>14. ASSUME NEW s \in Servers, NEW h \in handled[s], HandlerForgets(s, h) PROVE Types'
  BY <1>14 DEF HandlerForgets, Ends, Types
<1>14a. ASSUME NEW s \in Servers, ServeStarts(s) PROVE Types'
  BY <1>14a DEF ServeStarts, Types
<1>14b. ASSUME NEW c \in Callers, NEW n \in Sessions, AskLost(c, n) PROVE Types'
  BY <1>14b DEF AskLost, Blocks, Types
<1>15. ASSUME NEW s \in Servers, Down(s) PROVE Types'
  BY <1>15 DEF Down, Types
<1>16. CASE UNCHANGED vars
  BY <1>16 DEF vars, Types
<1>17. QED
  BY <1>1, <1>2, <1>3, <1>4, <1>5, <1>6, <1>7, <1>8, <1>9, <1>10, <1>11, <1>12, <1>13, <1>14, <1>14a, <1>14b, <1>15,
     <1>16 DEF Next, Works, Handles, Aborts

-----------------------------------------------------------------------------
(* What a step does to a queue, for Holds.                                  *)
LEMMA MailTaken ==
  ASSUME Types, Queues, NEW s \in Servers, mailbox[s] # << >>,
         mailbox' = [mailbox EXCEPT ![s] = Tail(@)]
  PROVE  /\ Head(mailbox[s]) \in MessageSet
         /\ Message(Head(mailbox[s]).session, Head(mailbox[s]).id) = Head(mailbox[s])
         /\ Head(mailbox[s]) \in Mail(s)
         /\ \A t \in Servers : IsInjective(mailbox'[t])
         /\ \A t \in Servers : Mail(t)' = IF t = s THEN Mail(s) \ {Head(mailbox[s])} ELSE Mail(t)
<1>1. /\ Head(mailbox[s]) \in MessageSet /\ IsInjective(Tail(mailbox[s]))
      /\ Head(mailbox[s]) \in Range(mailbox[s])
      /\ Range(Tail(mailbox[s])) = Range(mailbox[s]) \ {Head(mailbox[s])}
  BY TailRemoves DEF Types, Queues
<1>2. Message(Head(mailbox[s]).session, Head(mailbox[s]).id) = Head(mailbox[s])
  BY <1>1 DEF Message, MessageSet
<1>3. \A t \in Servers : mailbox'[t] = IF t = s THEN Tail(mailbox[s]) ELSE mailbox[t]
  BY DEF Types
<1>4. mailbox'[s] = Tail(mailbox[s]) /\ \A t \in Servers \ {s} : mailbox'[t] = mailbox[t]
  BY <1>3
<1>5. \A t \in Servers : IsInjective(mailbox'[t])
  BY <1>1, <1>4 DEF Queues
<1>6. Mail(s)' = Mail(s) \ {Head(mailbox[s])} /\ \A t \in Servers \ {s} : Mail(t)' = Mail(t)
  BY <1>1, <1>4 DEF Mail
<1>7. QED
  BY <1>1, <1>2, <1>5, <1>6 DEF Mail

LEMMA InboxTaken ==
  ASSUME Types, Queues, NEW s \in Servers, inbox[s] # << >>,
         inbox' = [inbox EXCEPT ![s] = Tail(@)]
  PROVE  /\ Head(inbox[s]) \in MessageSet /\ Head(inbox[s]) \in In(s)
         /\ \A t \in Servers : IsInjective(inbox'[t])
         /\ \A t \in Servers : In(t)' = IF t = s THEN In(s) \ {Head(inbox[s])} ELSE In(t)
<1>1. /\ Head(inbox[s]) \in MessageSet /\ IsInjective(Tail(inbox[s]))
      /\ Head(inbox[s]) \in Range(inbox[s])
      /\ Range(Tail(inbox[s])) = Range(inbox[s]) \ {Head(inbox[s])}
  BY TailRemoves DEF Types, Queues
<1>2. \A t \in Servers : inbox'[t] = IF t = s THEN Tail(inbox[s]) ELSE inbox[t]
  BY DEF Types
<1>3. inbox'[s] = Tail(inbox[s]) /\ \A t \in Servers \ {s} : inbox'[t] = inbox[t]
  BY <1>2
<1>4. \A t \in Servers : IsInjective(inbox'[t])
  BY <1>1, <1>3 DEF Queues
<1>5. In(s)' = In(s) \ {Head(inbox[s])} /\ \A t \in Servers \ {s} : In(t)' = In(t)
  BY <1>1, <1>3 DEF In
<1>6. QED
  BY <1>1, <1>4, <1>5 DEF In

LEMMA Answered ==
  ASSUME Types, Queues, alive, NEW n \in Sessions, NEW i \in Nat, Respond(n, i, FALSE),
         Answer(n, i) \notin Firsts(responses)
  PROVE  Once(responses)' /\ Firsts(responses)' = Firsts(responses) \cup {Answer(n, i)}
<1>1. Answer(n, i) \in ResponseSet /\ ~Answer(n, i).second
  BY DEF Answer, ResponseSet
<1>2. responses' = Append(responses, Answer(n, i))
  BY DEF Respond, Answer
<1>3. QED
  BY <1>1, <1>2, AppendResponse DEF Types, Queues

LEMMA SameMessage == \A n, i, m, j : Message(n, i) = Message(m, j) <=> n = m /\ i = j
  BY DEF Message

LEMMA SameAnswer == \A n, i, m, j : Answer(n, i) = Answer(m, j) <=> n = m /\ i = j
  BY DEF Answer


-----------------------------------------------------------------------------
(* Each action keeps the core.                                              *)
LEMMA AskCore ==
  ASSUME Types, Core, NEW c \in Callers, NEW n \in Sessions, NEW s \in Servers, NEW k \in BOOLEAN,
         Ask(c, n, s, k)
  PROVE  Core'
<1>1. Queues /\ Pool /\ Served
  BY DEF Core
<1>2. Message(n, asked + 1) \in MessageSet /\ Message(n, asked + 1) \notin Mail(s)
  <2>1. Message(n, asked + 1) \in MessageSet
    BY DEF Message, MessageSet, Types
  <2>2. ~Holds("mailbox", s, n, asked + 1)
    BY <1>1, HeldOnce DEF Types
  <2>3. QED
    BY <2>1, <2>2 DEF Holds
<1>3. /\ mailbox'[s] = Append(mailbox[s], Message(n, asked + 1))
      /\ \A t \in Servers \ {s} : mailbox'[t] = mailbox[t]
      /\ UNCHANGED <<lost, responses, inbox, open, life, handled>>
      /\ Blocks(c, n)
  BY DEF Ask, Types
<1>4. IsInjective(mailbox'[s]) /\ Mail(s)' = Mail(s) \cup {Message(n, asked + 1)}
  BY <1>1, <1>2, <1>3, AppendNew DEF Types, Queues, Mail
<1>5. \A t \in Servers \ {s} : Mail(t)' = Mail(t)
  BY <1>3 DEF Mail
<1>6. Queues'
  BY <1>1, <1>3, <1>4 DEF Queues, Once
<1>7. \A x, y, m, j : Holds(x, y, m, j)' <=>
         Holds(x, y, m, j) \/ (x = "mailbox" /\ y = s /\ m = n /\ j = asked + 1)
  BY <1>3, <1>4, <1>5, SameMessage DEF Holds, Firsts
<1>8. Pool'
  BY <1>1, <1>3, <1>7, Starts
<1>9. Served'
  BY <1>1, <1>3 DEF Served, In
<1>10. QED
  BY <1>6, <1>8, <1>9 DEF Core

LEMMA YieldCore ==
  ASSUME Types, Core, alive, NEW c \in Callers, NEW n \in Sessions, Yield(c, n)
  PROVE  Core'
<1>1. Queues /\ Pool /\ Served
  BY DEF Core
<1>2. /\ Respond(n, asked + 1, FALSE) /\ Blocks(c, n)
      /\ UNCHANGED <<lost, mailbox, inbox, open, life, handled>>
  BY DEF Yield, Respond, Answer, server
<1>3. Answer(n, asked + 1) \notin Firsts(responses)
  <2>1. ~Holds("answered", None, n, asked + 1)
    BY <1>1, HeldOnce DEF Types
  <2>2. QED
    BY <2>1 DEF Holds
<1>4. Once(responses)' /\ Firsts(responses)' = Firsts(responses) \cup {Answer(n, asked + 1)}
  <2>1. asked + 1 \in Nat
    BY DEF Types
  <2>2. QED
    BY <1>1, <1>2, <1>3, <2>1, Answered
<1>5. Queues'
  BY <1>1, <1>2, <1>4 DEF Queues
<1>6. \A x, y, m, j : Holds(x, y, m, j)' <=>
         Holds(x, y, m, j) \/ (x = "answered" /\ y = None /\ m = n /\ j = asked + 1)
  BY <1>2, <1>4, SameAnswer DEF Holds, Mail
<1>7. Pool'
  BY <1>1, <1>2, <1>6, Starts
<1>8. Served'
  BY <1>1, <1>2 DEF Served, In
<1>9. QED
  BY <1>5, <1>7, <1>8 DEF Core

LEMMA AskLostCore ==
  ASSUME Types, Core, NEW c \in Callers, NEW n \in Sessions, AskLost(c, n)
  PROVE  Core'
<1>1. Queues /\ Pool /\ Served
  BY DEF Core
<1>2. /\ Blocks(c, n) /\ lost' = lost \cup {asked + 1}
      /\ UNCHANGED <<responses, mailbox, inbox, open, life, handled>>
  BY DEF AskLost, server
<1>3. /\ Waiting' = Waiting \cup {c} /\ c \notin Waiting
      /\ asked' = asked + 1 /\ asked \in Nat
      /\ session'[c] = n /\ request'[c] = asked + 1
      /\ \A d \in Waiting : session'[d] = session[d] /\ request'[d] = request[d] /\ session[d] # n
  BY <1>2 DEF Blocks, Waiting, Types
<1>4. Numbers'
  BY <1>1, <1>3 DEF Pool, Numbers
<1>5. \A m, j : Of(m, j)' <=> Of(m, j)
  <2>1. \A m, j : Of(m, j) => j # asked + 1
    BY <1>1, <1>3 DEF Of, Pool, Numbers
  <2>2. QED
    BY <1>2, <1>3, <2>1 DEF Of
<1>6. \A x, y, m, j : Holds(x, y, m, j)' <=> Holds(x, y, m, j)
  BY <1>2 DEF Holds, Mail, Firsts
<1>7. Pool'
  BY <1>1, <1>4, <1>5, <1>6 DEF Pool, Belongs, Single, Somewhere
<1>8. Queues' /\ Served'
  BY <1>1, <1>2 DEF Queues, Once, Served, In
<1>9. QED
  BY <1>7, <1>8 DEF Core

LEMMA RunsCore ==
  ASSUME Types, Core, NEW c \in Callers, Runs(c)
  PROVE  Core'
<1>1. /\ Waiting' = Waiting /\ asked' = asked /\ lost' = lost
      /\ \A d \in Waiting : session'[d] = session[d] /\ request'[d] = request[d]
  BY DEF Runs, Waiting, Types
<1>2. UNCHANGED <<responses, mailbox, inbox, open, life, handled>>
  BY DEF Runs, server
<1>3. /\ \A m, j : Of(m, j)' <=> Of(m, j)
      /\ \A x, y, m, j : Holds(x, y, m, j)' <=> Holds(x, y, m, j)
  BY <1>1, <1>2 DEF Of, Holds, Mail, Firsts
<1>4. Pool'
  BY <1>1, <1>3 DEF Core, Pool, Numbers, Belongs, Single, Somewhere
<1>5. Queues' /\ Served'
  BY <1>2 DEF Core, Queues, Once, Served, In
<1>6. QED
  BY <1>4, <1>5 DEF Core

LEMMA TakeCore ==
  ASSUME Types, Core, NEW s \in Servers, Take(s)
  PROVE  Core'
<1>. DEFINE h == Head(mailbox[s])
<1>1. Queues /\ Pool /\ Served
  BY DEF Core
<1>2. /\ h \in MessageSet /\ Message(h.session, h.id) = h /\ h \in Mail(s)
      /\ \A t \in Servers : IsInjective(mailbox'[t])
      /\ \A t \in Servers : Mail(t)' = IF t = s THEN Mail(s) \ {h} ELSE Mail(t)
  BY <1>1, MailTaken DEF Take
<1>3. Holds("mailbox", s, h.session, h.id) /\ h.session \in Sessions /\ h.id \in 1 .. asked
  <2>1. Holds("mailbox", s, h.session, h.id)
    BY <1>2 DEF Holds
  <2>2. QED
    BY <1>1, <2>1, HeldOnce
<1>4. \A t \in Servers, l \in Sessions :
         open'[t][l] = IF t = s /\ l = h.session THEN h.id ELSE open[t][l]
  BY <1>3 DEF Take, Types
<1>5. \A t \in Servers : \A i : ~Holds("open", t, h.session, i)
  BY <1>1, <1>3, HeldOnce
<1>6. open[s][h.session] = 0
  BY <1>3, <1>5 DEF Holds, Types
<1>7. /\ UNCHANGED <<asked, lost, state, session, request, responses, life, handled>> /\ life[s] = "up"
      /\ inbox'[s] = Append(inbox[s], h) /\ \A t \in Servers \ {s} : inbox'[t] = inbox[t]
  BY DEF Take, Types, caller
<1>8. /\ \A m \in In(s) : m.session # h.session
      /\ \A g \in handled[s] : g.session # h.session
  BY <1>1, <1>6, <1>7 DEF Served
<1>9. IsInjective(inbox'[s]) /\ In(s)' = In(s) \cup {h}
  BY <1>1, <1>2, <1>7, <1>8, AppendNew DEF Types, Queues, In
<1>10. \A t \in Servers \ {s} : In(t)' = In(t)
  BY <1>7 DEF In
<1>11. Queues'
  BY <1>1, <1>2, <1>7, <1>9 DEF Queues, Once
<1>12. \A x, y, m, j : Holds(x, y, m, j)' <=>
          \/ Holds(x, y, m, j) /\ ~(x = "mailbox" /\ y = s /\ m = h.session /\ j = h.id)
          \/ x = "open" /\ y = s /\ m = h.session /\ j = h.id
  BY <1>2, <1>3, <1>4, <1>6, <1>7, SameMessage DEF Holds, Firsts
<1>13. Pool'
  <2>1. PICK n, i : n = h.session /\ i = h.id
    OBVIOUS
  <2>2. \A x, y, m, j : Holds(x, y, m, j)' <=>
           \/ Holds(x, y, m, j) /\ ~(x = "mailbox" /\ y = s /\ m = n /\ j = i)
           \/ x = "open" /\ y = s /\ m = n /\ j = i
    BY <1>12, <2>1
  <2>3. Holds("mailbox", s, n, i) /\ Holds("open", s, n, i)'
    BY <1>3, <2>1, <2>2
  <2>4. QED
    BY <1>1, <1>7, <2>2, <2>3, Moves
<1>14. Served'
  <2>1. \A t \in Servers : \A m \in In(t) : m.session \in Sessions
    <3>1. \A t \in Servers : In(t) \subseteq MessageSet
      BY DEF Types, In, Range
    <3>2. QED
      BY <3>1 DEF MessageSet
  <2>2. \A t \in Servers : \A g \in handled[t] : g.session \in Sessions
    BY DEF Types, HandlerSet
  <2>3. \A l \in Sessions : open'[s][l] = IF l = h.session THEN h.id ELSE open[s][l]
    BY <1>4
  <2>4. \A t \in Servers \ {s}, l \in Sessions : open'[t][l] = open[t][l]
    BY <1>4
  <2>5. h.id # 0
    BY <1>3 DEF Types
  <2>. HIDE DEF h
  <2>6. /\ \A m \in In(s)' : open'[s][m.session] = m.id /\ m.id # 0
        /\ \A m, l \in In(s)' : m.session = l.session => m = l
        /\ \A g \in handled'[s] : open'[s][g.session] = g.id /\ g.id # 0
        /\ \A g, o \in handled'[s] : g.session = o.session => g = o
        /\ \A m \in In(s)', g \in handled'[s] : m.session # g.session
    BY <1>1, <1>3, <1>7, <1>8, <1>9, <2>1, <2>2, <2>3, <2>5 DEF Served
  <2>7. QED
    BY <1>1, <1>7, <1>10, <2>1, <2>2, <2>4, <2>6 DEF Served
<1>15. QED
  BY <1>11, <1>13, <1>14 DEF Core

(* An open request is answered and closed.                                  *)
LEMMA OpenAnswered ==
  ASSUME Types, Core, alive, NEW s \in Servers, NEW n \in Sessions, NEW i, i # 0, open[s][n] = i,
         Respond(n, i, FALSE), open' = [open EXCEPT ![s][n] = 0],
         UNCHANGED <<asked, lost, state, session, request, mailbox, inbox>>
  PROVE  /\ Queues' /\ Pool'
         /\ \A t \in Servers, l \in Sessions : open'[t][l] = IF t = s /\ l = n THEN 0 ELSE open[t][l]
<1>1. Queues /\ Pool
  BY DEF Core
<1>2. Holds("open", s, n, i) /\ i \in Nat
  BY DEF Holds, Types
<1>3. Answer(n, i) \notin Firsts(responses)
  <2>1. ~Holds("answered", None, n, i)
    BY <1>1, <1>2, HeldOnce
  <2>2. QED
    BY <2>1 DEF Holds
<1>4. Once(responses)' /\ Firsts(responses)' = Firsts(responses) \cup {Answer(n, i)}
  BY <1>1, <1>2, <1>3, Answered
<1>5. \A t \in Servers, l \in Sessions : open'[t][l] = IF t = s /\ l = n THEN 0 ELSE open[t][l]
  BY DEF Types
<1>6. Queues'
  BY <1>1, <1>4 DEF Queues
<1>7. \A x, y, m, j : Holds(x, y, m, j)' <=>
         \/ Holds(x, y, m, j) /\ ~(x = "open" /\ y = s /\ m = n /\ j = i)
         \/ x = "answered" /\ y = None /\ m = n /\ j = i
  BY <1>4, <1>5, SameAnswer DEF Holds, Mail
<1>8. Pool'
  <2>1. Holds("answered", None, n, i)'
    BY <1>7
  <2>2. QED
    BY <1>1, <1>2, <1>7, <2>1, Moves
<1>9. QED
  BY <1>5, <1>6, <1>8

LEMMA AbortOpenCore ==
  ASSUME Types, Core, alive, NEW s \in Servers, NEW n \in Sessions, AbortOpen(s, n)
  PROVE  Core'
<1>1. PICK i : i = open[s][n]
  OBVIOUS
<1>2. /\ i # 0 /\ Respond(n, i, FALSE) /\ open' = [open EXCEPT ![s][n] = 0]
      /\ UNCHANGED <<asked, lost, state, session, request, mailbox, inbox, life, handled>>
      /\ life[s] # "up"
  BY <1>1 DEF AbortOpen, Destroyed, caller
<1>3. /\ Queues' /\ Pool'
      /\ \A t \in Servers, l \in Sessions : open'[t][l] = IF t = s /\ l = n THEN 0 ELSE open[t][l]
  BY <1>1, <1>2, OpenAnswered
<1>4. Served'
  <2>1. Served /\ \A t \in Servers : In(t)' = In(t)
    BY <1>2 DEF Core, In
  <2>2. \A t \in Servers \ {s} : open'[t] = open[t]
    BY <1>2 DEF Types
  <2>3. QED
    BY <1>2, <2>1, <2>2 DEF Served
<1>5. QED
  BY <1>3, <1>4 DEF Core

LEMMA HandlerRespondsCore ==
  ASSUME Types, Core, alive, NEW s \in Servers, NEW h \in handled[s], HandlerResponds(s, h)
  PROVE  Core'
<1>1. PICK n, i : n = h.session /\ i = h.id
  OBVIOUS
<1>2. Served
  BY DEF Core
<1>3. n \in Sessions /\ life[s] = "up" /\ open[s][n] = i /\ i # 0
  <2>1. n \in Sessions
    BY <1>1 DEF Types, HandlerSet
  <2>2. QED
    BY <1>1, <1>2, <2>1 DEF Served, Types
<1>4. /\ Respond(n, i, FALSE) /\ open' = [open EXCEPT ![s][n] = 0]
      /\ UNCHANGED <<asked, lost, state, session, request, mailbox, inbox, life>>
      /\ handled'[s] = handled[s] \ {h}
      /\ \A t \in Servers \ {s} : handled'[t] = handled[t]
  BY <1>1 DEF HandlerResponds, Ends, caller, Types
<1>5. /\ Queues' /\ Pool'
      /\ \A t \in Servers, l \in Sessions : open'[t][l] = IF t = s /\ l = n THEN 0 ELSE open[t][l]
  BY <1>1, <1>3, <1>4, OpenAnswered
<1>6. Served'
  <2>1. \A t \in Servers : In(t)' = In(t)
    BY <1>4 DEF In
  <2>2. \A m \in In(s) : m.session \in Sessions /\ m.session # n
    <3>1. In(s) \subseteq MessageSet
      BY DEF Types, In, Range
    <3>2. QED
      BY <1>1, <1>2, <1>3, <3>1 DEF Served, MessageSet
  <2>3. \A g \in handled[s] \ {h} : g.session \in Sessions /\ g.session # n
    BY <1>1, <1>2, <1>3 DEF Served, Types, HandlerSet
  <2>4. \A t \in Servers \ {s} : open'[t] = open[t]
    BY <1>4 DEF Types
  <2>5. QED
    BY <1>2, <1>3, <1>4, <1>5, <2>1, <2>2, <2>3, <2>4 DEF Served
<1>7. QED
  BY <1>5, <1>6 DEF Core

LEMMA AbortInboxCore ==
  ASSUME Types, Core, alive, NEW s \in Servers, AbortInbox(s)
  PROVE  Core'
<1>1. Queues /\ Pool /\ Served
  BY DEF Core
<1>2. /\ Head(inbox[s]) \in MessageSet
      /\ \A t \in Servers : IsInjective(inbox'[t])
      /\ \A t \in Servers \ {s} : In(t)' = In(t)
  BY <1>1, InboxTaken DEF AbortInbox
<1>3. Once(responses)' /\ Firsts(responses)' = Firsts(responses)
  <2>1. PICK r : r = [session |-> Head(inbox[s]).session, id |-> Head(inbox[s]).id, second |-> TRUE]
    OBVIOUS
  <2>2. r \in ResponseSet /\ r.second
    BY <1>2, <2>1 DEF ResponseSet, MessageSet
  <2>3. responses' = Append(responses, r)
    BY <2>1 DEF AbortInbox, Respond
  <2>4. QED
    BY <1>1, <2>2, <2>3, AppendResponse DEF Types, Queues
<1>4. /\ UNCHANGED <<asked, lost, state, session, request, mailbox, open, life, handled>>
      /\ life[s] # "up"
  BY DEF AbortInbox, Destroyed, caller
<1>5. Queues'
  BY <1>1, <1>2, <1>3, <1>4 DEF Queues
<1>6. Pool'
  <2>1. \A x, y, m, j : Holds(x, y, m, j)' <=> Holds(x, y, m, j)
    BY <1>3, <1>4 DEF Holds, Mail
  <2>2. QED
    BY <1>1, <1>4, <2>1, Stays
<1>7. Served'
  BY <1>1, <1>2, <1>4 DEF Served
<1>8. QED
  BY <1>5, <1>6, <1>7 DEF Core

LEMMA AbortMailboxCore ==
  ASSUME Types, Core, alive, NEW s \in Servers, AbortMailbox(s)
  PROVE  Core'
<1>1. Queues /\ Pool /\ Served
  BY DEF Core
<1>2. PICK n, i : n = Head(mailbox[s]).session /\ i = Head(mailbox[s]).id
  OBVIOUS
<1>3. /\ n \in Sessions /\ i \in Nat /\ Message(n, i) \in Mail(s)
      /\ \A t \in Servers : IsInjective(mailbox'[t])
      /\ \A t \in Servers : Mail(t)' = IF t = s THEN Mail(s) \ {Message(n, i)} ELSE Mail(t)
  BY <1>1, <1>2, MailTaken DEF AbortMailbox, MessageSet
<1>4. /\ UNCHANGED <<asked, lost, state, session, request, inbox, open, life, handled>>
      /\ Respond(n, i, FALSE)
  BY <1>2 DEF AbortMailbox, caller
<1>5. Holds("mailbox", s, n, i)
  BY <1>3 DEF Holds
<1>6. Answer(n, i) \notin Firsts(responses)
  <2>1. ~Holds("answered", None, n, i)
    BY <1>1, <1>5, HeldOnce
  <2>2. QED
    BY <2>1 DEF Holds
<1>7. Once(responses)' /\ Firsts(responses)' = Firsts(responses) \cup {Answer(n, i)}
  BY <1>1, <1>3, <1>4, <1>6, Answered
<1>8. Queues'
  BY <1>1, <1>3, <1>4, <1>7 DEF Queues
<1>9. \A x, y, m, j : Holds(x, y, m, j)' <=>
         \/ Holds(x, y, m, j) /\ ~(x = "mailbox" /\ y = s /\ m = n /\ j = i)
         \/ x = "answered" /\ y = None /\ m = n /\ j = i
  BY <1>3, <1>4, <1>7, SameMessage, SameAnswer DEF Holds
<1>10. Pool'
  <2>1. Holds("answered", None, n, i)'
    BY <1>9
  <2>2. QED
    BY <1>1, <1>4, <1>5, <1>9, <2>1, Moves
<1>11. Served'
  BY <1>1, <1>4 DEF Served, In
<1>12. QED
  BY <1>8, <1>10, <1>11 DEF Core

LEMMA QuietCore ==
  ASSUME Types, Core, Served',
         UNCHANGED <<asked, lost, state, session, request, responses, mailbox, open>>,
         \A t \in Servers : IsInjective(inbox'[t])
  PROVE  Core'
<1>1. \A x, y, m, j : Holds(x, y, m, j)' <=> Holds(x, y, m, j)
  BY DEF Holds, Mail, Firsts
<1>2. Pool'
  BY <1>1, Stays DEF Core
<1>3. QED
  BY <1>2 DEF Core, Queues, Once

LEMMA ServeStartsCore ==
  ASSUME Types, Core, NEW s \in Servers, ServeStarts(s)
  PROVE  Core'
<1>1. Queues /\ Served
  BY DEF Core
<1>2. UNCHANGED <<asked, lost, state, session, request, responses, mailbox, inbox, open, life, handled>>
  BY DEF ServeStarts, caller
<1>3. Served'
  BY <1>1, <1>2 DEF Served, In
<1>4. QED
  BY <1>1, <1>2, <1>3, QuietCore DEF Queues

LEMMA UnhandledCore ==
  ASSUME Types, Core, NEW s \in Servers, Unhandled(s)
  PROVE  Core'
<1>1. Queues /\ Served
  BY DEF Core
<1>2. /\ \A t \in Servers : IsInjective(inbox'[t])
      /\ \A t \in Servers : In(t)' \subseteq In(t)
  BY <1>1, InboxTaken DEF Unhandled
<1>3. UNCHANGED <<asked, lost, state, session, request, responses, mailbox, open, life, handled>>
  BY DEF Unhandled, caller
<1>4. Served'
  BY <1>1, <1>2, <1>3 DEF Served
<1>5. QED
  BY <1>2, <1>3, <1>4, QuietCore

LEMMA ServeCore ==
  ASSUME Types, Core, NEW s \in Servers, NEW mode \in Modes, Serve(s, mode)
  PROVE  Core'
<1>1. Queues /\ Served
  BY DEF Core
<1>2. PICK m : m = Head(inbox[s])
  OBVIOUS
<1>3. PICK h : h = [session |-> m.session, id |-> m.id, mode |-> mode]
  OBVIOUS
<1>4. /\ m \in In(s) /\ m.session = h.session /\ m.id = h.id
      /\ \A t \in Servers : IsInjective(inbox'[t])
      /\ In(s)' = In(s) \ {m} /\ \A t \in Servers \ {s} : In(t)' = In(t)
  BY <1>1, <1>2, <1>3, InboxTaken DEF Serve
<1>5. /\ UNCHANGED <<asked, lost, state, session, request, responses, mailbox, open, life>>
      /\ life[s] = "up"
      /\ handled'[s] = handled[s] \cup {h}
      /\ \A t \in Servers \ {s} : handled'[t] = handled[t]
  BY <1>2, <1>3 DEF Serve, caller, Types
<1>6. Served'
  <2>1. /\ \A l \in In(s)' : open[s][l.session] = l.id /\ l.id # 0
        /\ \A l, k \in In(s)' : l.session = k.session => l = k
    BY <1>1, <1>4, <1>5 DEF Served
  <2>2. /\ \A g \in handled'[s] : open[s][g.session] = g.id /\ g.id # 0
        /\ \A g, k \in handled'[s] : g.session = k.session => g = k
    BY <1>1, <1>4, <1>5 DEF Served
  <2>3. \A l \in In(s)', g \in handled'[s] : l.session # g.session
    BY <1>1, <1>4, <1>5 DEF Served
  <2>4. QED
    BY <1>1, <1>4, <1>5, <2>1, <2>2, <2>3 DEF Served
<1>7. QED
  BY <1>4, <1>5, <1>6, QuietCore

LEMMA HandlerForgetsCore ==
  ASSUME Types, Core, NEW s \in Servers, NEW h \in handled[s], HandlerForgets(s, h)
  PROVE  Core'
<1>1. Queues /\ Served
  BY DEF Core
<1>2. /\ UNCHANGED <<asked, lost, state, session, request, responses, mailbox, inbox, open, life>>
      /\ \A t \in Servers : handled'[t] \subseteq handled[t]
  BY DEF HandlerForgets, Ends, caller, Types
<1>3. Served'
  BY <1>1, <1>2 DEF Served, In
<1>4. QED
  BY <1>1, <1>2, <1>3, QuietCore DEF Queues

LEMMA DownCore ==
  ASSUME Types, Core, NEW s \in Servers, Down(s) \/ Retire(s)
  PROVE  Core'
<1>1. Queues /\ Served
  BY DEF Core
<1>2. /\ UNCHANGED <<asked, lost, state, session, request, responses, mailbox, inbox, open>>
      /\ life'[s] # "up" /\ handled'[s] = {}
      /\ \A t \in Servers \ {s} : life'[t] = life[t] /\ handled'[t] = handled[t]
  BY <1>1 DEF Down, Retire, caller, Types, Served
<1>3. Served'
  BY <1>1, <1>2 DEF Served, In
<1>4. QED
  BY <1>1, <1>2, <1>3, QuietCore DEF Queues

(* A response wakes the caller of its request, and nobody else.             *)
LEMMA DeliverCore ==
  ASSUME Types, Core, ~misled', Deliver
  PROVE  /\ Core'
         /\ \A c \in Callers : c \in Blocked(Head(responses).session) => request[c] = Head(responses).id
<1>1. Queues /\ Pool /\ Served
  BY DEF Core
<1>2. PICK r : r = Head(responses)
  OBVIOUS
<1>3. /\ r \in ResponseSet /\ r \in Range(responses) /\ Once(Tail(responses))
      /\ Firsts(Tail(responses)) = Firsts(responses) \ {r}
  BY <1>1, <1>2, TailResponse DEF Deliver, Types, Queues
<1>4. /\ UNCHANGED <<asked, lost, session, request, mailbox, inbox, open, life, handled>>
      /\ responses' = Tail(responses)
      /\ r.second => Blocked(r.session) = {}
      /\ \A c \in Callers : state'[c] = IF c \in Blocked(r.session) THEN "woken" ELSE state[c]
  BY <1>2 DEF Deliver, server
<1>5. Queues' /\ Served'
  BY <1>1, <1>3, <1>4 DEF Queues, Served, In
<1>6. CASE r.second
  <2>1. state' = state
    BY <1>4, <1>6 DEF Types, Deliver
  <2>2. Firsts(responses)' = Firsts(responses)
    BY <1>3, <1>4, <1>6 DEF Firsts
  <2>3. \A x, y, m, j : Holds(x, y, m, j)' <=> Holds(x, y, m, j)
    BY <1>4, <2>2 DEF Holds, Mail
  <2>4. Pool'
    BY <1>1, <1>4, <2>1, <2>3, Stays
  <2>5. QED
    BY <1>2, <1>4, <1>5, <1>6, <2>4 DEF Core
<1>7. CASE ~r.second
  <2>1. PICK n, i : n = r.session /\ i = r.id
    OBVIOUS
  <2>2. r = Answer(n, i) /\ r \in Firsts(responses)
    BY <1>3, <1>7, <2>1 DEF Answer, ResponseSet, Firsts
  <2>3. Holds("answered", None, n, i)
    BY <2>2 DEF Holds
  <2>4. PICK c \in Waiting : session[c] = n /\ request[c] = i
    BY <1>1, <2>3 DEF Pool, Belongs, Of
  <2>5. Blocked(r.session) = {c}
    BY <1>1, <2>1, <2>4 DEF Blocked, Waiting, Pool, Numbers
  <2>6. Waiting' = Waiting \ {c}
    BY <1>4, <2>5 DEF Waiting
  <2>7. \A x, y, m, j : Holds(x, y, m, j)' <=>
           Holds(x, y, m, j) /\ ~(x = "answered" /\ y = None /\ m = n /\ j = i)
    BY <1>3, <1>4, <2>2, SameAnswer DEF Holds, Mail
  <2>8. \A m, j : Of(m, j)' <=> Of(m, j) /\ ~(m = n /\ j = i)
    BY <1>1, <1>4, <2>4, <2>6 DEF Of, Pool, Numbers
  <2>9. Numbers'
    BY <1>1, <1>4, <2>6 DEF Pool, Numbers
  <2>10. Belongs'
    BY <1>1, <2>3, <2>7, <2>8, HeldOnce DEF Pool, Belongs
  <2>11. Single'
    BY <1>1, <2>7 DEF Pool, Single
  <2>12. Somewhere'
    BY <1>1, <2>7, <2>8 DEF Pool, Somewhere
  <2>13. QED
    BY <1>2, <1>5, <2>1, <2>4, <2>5, <2>9, <2>10, <2>11, <2>12 DEF Core, Pool
<1>8. QED
  BY <1>6, <1>7

-----------------------------------------------------------------------------
(* The invariant holds at the start, and each step keeps it.                *)
LEMMA InitIInv == Init => IInv
<1>. SUFFICES ASSUME Init PROVE IInv
  OBVIOUS
<1>1. << >> \in Seq(MessageSet) /\ << >> \in Seq(ResponseSet)
  BY EmptySeq
<1>2. Range(<< >>) = {} /\ IsInjective(<< >>) /\ Once(<< >>)
  BY DEF Range, IsInjective, Once
<1>3. Types
  BY <1>1, RequestsAssumption DEF Init, Types
<1>4. Queues /\ Served
  BY <1>2 DEF Init, Queues, Served, In
<1>5. Waiting = {} /\ \A k, s, n, i : ~Holds(k, s, n, i)
  BY <1>2 DEF Init, Waiting, Holds, Mail, Firsts
<1>6. Pool
  BY <1>5 DEF Pool, Numbers, Belongs, Single, Somewhere, Of
<1>7. AnswersOwn
  BY DEF Init, AnswersOwn
<1>8. QED
  BY <1>3, <1>4, <1>6, <1>7 DEF Core, IInv

LEMMA NextIInv == IInv /\ [Next]_vars => IInv'
<1>. SUFFICES ASSUME IInv, [Next]_vars PROVE IInv'
  OBVIOUS
<1>1. Types /\ Types' /\ AnswersOwn /\ (alive /\ ~misled => Core)
  BY TypesKept DEF IInv
<1>2. CASE Deliver
  <2>1. CASE ~misled'
    <3>1. alive /\ Core
      BY <1>1, <1>2, <2>1 DEF Deliver
    <3>2. /\ Core'
          /\ \A c \in Callers : c \in Blocked(Head(responses).session) => request[c] = Head(responses).id
      BY <1>1, <1>2, <2>1, <3>1, DeliverCore
    <3>3. AnswersOwn'
      BY <1>1, <1>2, <2>1, <3>2 DEF Deliver, AnswersOwn
    <3>4. QED
      BY <1>1, <3>2, <3>3 DEF IInv
  <2>2. CASE misled'
    BY <1>1, <2>2 DEF IInv, AnswersOwn
  <2>3. QED
    BY <2>1, <2>2
<1>3. CASE ClientDown
  BY <1>1, <1>3 DEF ClientDown, IInv, AnswersOwn
<1>4. ASSUME NEW c \in Callers, Runs(c) PROVE IInv'
  <2>1. alive' = alive /\ misled' = misled
    BY <1>4 DEF Runs
  <2>2. alive' /\ ~misled' => Core'
    BY <1>1, <1>4, <2>1, RunsCore
  <2>3. AnswersOwn'
    BY <1>1, <1>4, <2>1 DEF Runs, AnswersOwn, Types
  <2>4. QED
    BY <1>1, <2>2, <2>3 DEF IInv
<1>5. ASSUME NEW c \in Callers, NEW n \in Sessions, Yield(c, n) PROVE IInv'
  <2>1. alive' = alive /\ misled' = misled
    BY <1>5 DEF Yield
  <2>2. alive' /\ ~misled' => Core'
    BY <1>1, <1>5, <2>1, YieldCore
  <2>3. AnswersOwn'
    BY <1>1, <1>5, <2>1 DEF Yield, Blocks, AnswersOwn, Types
  <2>4. QED
    BY <1>1, <2>2, <2>3 DEF IInv
<1>6. ASSUME NEW c \in Callers, NEW n \in Sessions, NEW s \in Servers, NEW k \in BOOLEAN, Ask(c, n, s, k)
      PROVE  IInv'
  <2>1. alive' = alive /\ misled' = misled
    BY <1>6 DEF Ask
  <2>2. alive' /\ ~misled' => Core'
    BY <1>1, <1>6, <2>1, AskCore
  <2>3. AnswersOwn'
    BY <1>1, <1>6, <2>1 DEF Ask, Blocks, AnswersOwn, Types
  <2>4. QED
    BY <1>1, <2>2, <2>3 DEF IInv
<1>6a. ASSUME NEW c \in Callers, NEW n \in Sessions, AskLost(c, n) PROVE IInv'
  <2>1. alive' = alive /\ misled' = misled
    BY <1>6a DEF AskLost
  <2>2. alive' /\ ~misled' => Core'
    BY <1>1, <1>6a, <2>1, AskLostCore
  <2>3. AnswersOwn'
    BY <1>1, <1>6a, <2>1 DEF AskLost, Blocks, AnswersOwn, Types
  <2>4. QED
    BY <1>1, <2>2, <2>3 DEF IInv
<1>7. ASSUME NEW s \in Servers, Works(s) \/ Handles(s) \/ ServeStarts(s) \/ Down(s) PROVE IInv'
  <2>1. UNCHANGED <<state, request, by, alive, misled>>
    BY <1>7 DEF Works, Handles, ServeStarts, Down, Take, Retire, Aborts, AbortOpen, AbortInbox, AbortMailbox,
       Unhandled, Serve, HandlerResponds, HandlerForgets, caller
  <2>2. ASSUME alive, Core PROVE Core'
    BY <1>1, <1>7, <2>2, TakeCore, DownCore, AbortOpenCore, AbortInboxCore, AbortMailboxCore, UnhandledCore,
       ServeCore, HandlerRespondsCore, HandlerForgetsCore, ServeStartsCore DEF Works, Handles, Aborts
  <2>3. AnswersOwn'
    BY <1>1, <2>1 DEF AnswersOwn
  <2>4. QED
    BY <1>1, <2>1, <2>2, <2>3 DEF IInv
<1>8. CASE UNCHANGED vars
  <2>1. UNCHANGED <<asked, lost, state, session, request, by, responses, alive, life, mailbox, inbox, open,
                    handled, misled>>
    BY <1>8 DEF vars, caller, server
  <2>2. Core => Core'
    BY <2>1, <1>1, QuietCore DEF Core, Queues, Served, In
  <2>3. QED
    BY <1>1, <2>1, <2>2 DEF IInv, AnswersOwn
<1>9. QED
  BY <1>2, <1>3, <1>4, <1>5, <1>6, <1>6a, <1>7, <1>8 DEF Next

(* At every moment of every run.                                            *)
THEOREM Invariant == SafeSpec => []IInv
<1>1. Init => IInv
  BY InitIInv
<1>2. IInv /\ [Next]_vars => IInv'
  BY NextIInv
<1>3. QED
  BY <1>1, <1>2, PTL DEF SafeSpec

(* process.cpp, unblock(): a caller is woken by the response to the request  *)
(* it made, as long as no second abort has reached a session used again.    *)
THEOREM AnswersAreOwn == SafeSpec => []AnswersOwn
<1>1. IInv => AnswersOwn
  BY DEF IInv
<1>2. QED
  BY <1>1, Invariant, PTL

-----------------------------------------------------------------------------
(* What the two sets of AnsweredOnce are, in terms of the invariant.        *)
LEMMA PendingHeld ==
  ASSUME Types, Pool, NEW i
  PROVE  i \in Pending <=> \E k, s, n : k # "answered" /\ Holds(k, s, n, i)
<1>1. \A s \in Servers : \A j : j \in InSeq(mailbox[s]) <=> \E n : Message(n, j) \in Mail(s)
  <2>1. ASSUME NEW s \in Servers PROVE Mail(s) = {mailbox[s][j] : j \in 1 .. Len(mailbox[s])}
    BY LenProperties DEF Types, Mail, Range
  <2>2. \A s \in Servers : \A m \in Mail(s) : m = Message(m.session, m.id)
    <3>1. \A s \in Servers : Mail(s) \subseteq MessageSet
      BY DEF Types, Mail, Range
    <3>2. QED
      BY <3>1 DEF Message, MessageSet
  <2>3. \A n, j : Message(n, j).id = j
    BY DEF Message
  <2>4. QED
    BY <2>1, <2>2, <2>3 DEF InSeq
<1>2. \A k, s, n : ~Holds(k, s, n, 0)
  BY HeldOnce DEF Types
<1>3. i \in Pending <=> \E s \in Servers : i # 0 /\ (i \in InSeq(mailbox[s]) \/ \E n \in Sessions : open[s][n] = i)
  BY DEF Pending, Has
<1>4. QED
  BY <1>1, <1>2, <1>3 DEF Holds

LEMMA AnswersHeld ==
  ASSUME Types, NEW i
  PROVE  i \in Answers <=> \E n : Holds("answered", None, n, i)
<1>1. Range(responses) = {responses[j] : j \in 1 .. Len(responses)}
  BY LenProperties DEF Types, Range
<1>2. \A r \in Firsts(responses) : r = Answer(r.session, r.id)
  <2>1. Firsts(responses) \subseteq {r \in ResponseSet : ~r.second}
    BY DEF Types, Firsts, Range
  <2>2. QED
    BY <2>1 DEF Answer, ResponseSet
<1>3. \A n : Answer(n, i).id = i
  BY DEF Answer
<1>4. i \in Answers <=> \E r \in Firsts(responses) : r.id = i
  BY <1>1 DEF Answers, Firsts
<1>5. QED
  BY <1>2, <1>3, <1>4 DEF Holds

LEMMA IInvAnsweredOnce == IInv => AnsweredOnce
<1>. SUFFICES ASSUME IInv, alive, ~misled PROVE AnsweredOnce
  BY DEF AnsweredOnce
<1>1. Types /\ Queues /\ Pool
  BY DEF IInv, Core
<1>2. Pending \cap Answers = {}
  BY <1>1, PendingHeld, AnswersHeld, HeldOnce
<1>3. Pending \cup Answers = {request[c] : c \in {d \in Callers : state[d] = "blocks"}} \ lost
  <2>1. \A i : i \in Pending \cup Answers <=> \E k, s, n : Holds(k, s, n, i)
    BY <1>1, PendingHeld, AnswersHeld DEF Holds
  <2>2. \A i : (\E k, s, n : Holds(k, s, n, i)) <=> \E n : Of(n, i)
    BY <1>1 DEF Pool, Belongs, Somewhere
  <2>3. QED
    BY <2>1, <2>2 DEF Of, Waiting
<1>4. ASSUME NEW j \in 1 .. Len(responses), NEW k \in 1 .. Len(responses),
             responses[j].id = responses[k].id, ~responses[j].second, ~responses[k].second
      PROVE  j = k
  <2>1. responses[j] \in Firsts(responses) /\ responses[k] \in Firsts(responses)
    BY <1>1, <1>4, LenProperties DEF Types, Firsts, Range
  <2>2. \A r \in Firsts(responses) : r = Answer(r.session, r.id)
    <3>1. Firsts(responses) \subseteq {r \in ResponseSet : ~r.second}
      BY <1>1 DEF Types, Firsts, Range
    <3>2. QED
      BY <3>1 DEF Answer, ResponseSet
  <2>3. /\ Holds("answered", None, responses[j].session, responses[j].id)
        /\ Holds("answered", None, responses[k].session, responses[k].id)
    BY <2>1, <2>2 DEF Holds
  <2>4. responses[j] = responses[k]
    BY <1>1, <1>4, <2>1, <2>2, <2>3, HeldOnce
  <2>5. QED
    BY <1>1, <1>4, <2>4 DEF Queues, Once
<1>5. QED
  BY <1>2, <1>3, <1>4 DEF AnsweredOnce

(* process.cpp, serve_request(), response(), close_request() and ~Process:   *)
(* each request that send() did not drop is answered once.                  *)
THEOREM RequestsAnsweredOnce == SafeSpec => []AnsweredOnce
BY Invariant, IInvAnsweredOnce, PTL
=============================================================================
