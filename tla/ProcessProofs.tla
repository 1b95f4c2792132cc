---------------------------- MODULE ProcessProofs ----------------------------
(***************************************************************************)
(* For any number of coroutines, none of which catches what block() and    *)
(* suspend() throw: a coroutine is in one place, none that may be resumed  *)
(* is destroyed, and serve() finds the message it was woken for unless user*)
(* code came in between.  (With coroutines that catch and wait again the   *)
(* first two do not hold: module MCProcess.)                               *)
(***************************************************************************)
EXTENDS Process, FiniteSetTheorems, SequenceTheorems, TLAPS

(* Appending something new keeps a queue free of repetition.                *)
LEMMA AppendNew ==
  ASSUME NEW S, NEW s \in Seq(S), IsInjective(s), NEW e \in S, e \notin Range(s)
  PROVE  /\ Append(s, e) \in Seq(S)
         /\ IsInjective(Append(s, e))
         /\ Range(Append(s, e)) = Range(s) \cup {e}
<1>1. IsInjective(Append(s, e))
  BY DEF IsInjective, Range
<1>2. Range(Append(s, e)) = Range(s) \cup {e}
  BY DEF Range
<1>3. QED
  BY <1>1, <1>2

(* Taking the first element removes it.                                     *)
LEMMA TailRemoves ==
  ASSUME NEW S, NEW s \in Seq(S), IsInjective(s), s # << >>
  PROVE  /\ Tail(s) \in Seq(S) /\ Head(s) \in S
         /\ IsInjective(Tail(s))
         /\ Head(s) \in Range(s)
         /\ Range(Tail(s)) = Range(s) \ {Head(s)}
<1>1. /\ Len(s) \in Nat \ {0} /\ Head(s) = s[1]
      /\ Tail(s) \in Seq(S) /\ Len(Tail(s)) = Len(s) - 1
      /\ \A i \in 1 .. Len(Tail(s)) : Tail(s)[i] = s[i + 1]
  BY HeadTailProperties, EmptySeq
<1>2. IsInjective(Tail(s))
  BY <1>1 DEF IsInjective
<1>3. ASSUME NEW x \in Range(s), x # Head(s) PROVE x \in Range(Tail(s))
  <2>1. PICK i \in 1 .. Len(s) : x = s[i]
    BY DEF Range
  <2>2. i - 1 \in 1 .. Len(Tail(s)) /\ Tail(s)[i - 1] = x
    BY <1>1, <1>3, <2>1
  <2>3. DOMAIN Tail(s) = 1 .. Len(Tail(s))
    BY <1>1, LenProperties
  <2>4. QED
    BY <2>2, <2>3, Zenon DEF Range
<1>4. ASSUME NEW x \in Range(Tail(s)) PROVE x \in Range(s) \ {Head(s)}
  <2>1. PICK i \in 1 .. Len(Tail(s)) : x = Tail(s)[i]
    BY <1>1 DEF Range
  <2>2. x = s[i + 1] /\ i + 1 \in 1 .. Len(s) /\ s[i + 1] # s[1]
    BY <1>1, <2>1 DEF IsInjective
  <2>3. x \in Range(s)
    BY <1>1, <2>2 DEF Range
  <2>4. QED
    BY <1>1, <2>2, <2>3
<1>5. Head(s) \in Range(s)
  BY <1>1 DEF Range
<1>6. QED
  BY <1>1, <1>2, <1>3, <1>4, <1>5

(* Two queues with nothing in common, one after the other.                  *)
LEMMA ConcatApart ==
  ASSUME NEW S, NEW s \in Seq(S), NEW t \in Seq(S), IsInjective(s), IsInjective(t),
         Range(s) \cap Range(t) = {}
  PROVE  /\ s \o t \in Seq(S)
         /\ IsInjective(s \o t)
         /\ Range(s \o t) = Range(s) \cup Range(t)
<1>1. /\ s \o t \in Seq(S) /\ Len(s \o t) = Len(s) + Len(t)
      /\ \A i \in 1 .. Len(s) + Len(t) : (s \o t)[i] = IF i <= Len(s) THEN s[i] ELSE t[i - Len(s)]
  BY ConcatProperties
<1>2. ASSUME NEW i \in 1 .. Len(s) + Len(t), NEW j \in 1 .. Len(s) + Len(t),
             (s \o t)[i] = (s \o t)[j]
      PROVE  i = j
  <2>1. CASE i <= Len(s) /\ j <= Len(s)
    BY <1>1, <1>2, <2>1 DEF IsInjective
  <2>2. CASE i > Len(s) /\ j > Len(s)
    <3>1. i - Len(s) \in 1 .. Len(t) /\ j - Len(s) \in 1 .. Len(t)
      BY <2>2
    <3>2. t[i - Len(s)] = t[j - Len(s)]
      BY <1>1, <1>2, <2>2
    <3>3. i - Len(s) = j - Len(s)
      BY <3>1, <3>2 DEF IsInjective
    <3>4. QED
      BY <3>3
  <2>3. ASSUME NEW k \in 1 .. Len(s), NEW l \in 1 .. Len(s) + Len(t), l > Len(s)
        PROVE  (s \o t)[k] # (s \o t)[l]
    <3>1. (s \o t)[k] = s[k] /\ (s \o t)[l] = t[l - Len(s)] /\ l - Len(s) \in 1 .. Len(t)
      BY <1>1, <2>3
    <3>2. (s \o t)[k] \in Range(s) /\ (s \o t)[l] \in Range(t)
      BY <3>1 DEF Range
    <3>3. QED
      BY <3>2
  <2>4. CASE i <= Len(s) /\ j > Len(s)
    <3>1. i \in 1 .. Len(s)
      BY <2>4
    <3>2. QED
      BY <1>2, <2>3, <2>4, <3>1
  <2>5. CASE i > Len(s) /\ j <= Len(s)
    <3>1. j \in 1 .. Len(s)
      BY <2>5
    <3>2. QED
      BY <1>2, <2>3, <2>5, <3>1
  <2>6. (i <= Len(s) \/ i > Len(s)) /\ (j <= Len(s) \/ j > Len(s))
    OBVIOUS
  <2>7. QED
    BY <2>1, <2>2, <2>4, <2>5, <2>6
<1>3. Range(s \o t) \subseteq Range(s) \cup Range(t)
  BY <1>1 DEF Range
<1>4. ASSUME NEW x \in Range(s) PROVE x \in Range(s \o t)
  BY <1>1 DEF Range
<1>5. ASSUME NEW x \in Range(t) PROVE x \in Range(s \o t)
  <2>1. PICK i \in 1 .. Len(t) : x = t[i]
    BY DEF Range
  <2>2. i + Len(s) \in 1 .. Len(s) + Len(t) /\ (s \o t)[i + Len(s)] = x
    BY <1>1, <2>1
  <2>3. QED
    BY <1>1, <2>2 DEF Range
<1>6. QED
  BY <1>1, <1>2, <1>3, <1>4, <1>5 DEF IsInjective

(* The empty queue, and a queue of one.                                     *)
LEMMA ShortQueues ==
  ASSUME NEW S, NEW e \in S
  PROVE  /\ << >> \in Seq(S) /\ IsInjective(<< >>) /\ Range(<< >>) = {}
         /\ <<e>> \in Seq(S) /\ IsInjective(<<e>>) /\ Range(<<e>>) = {e}
BY DEF IsInjective, Range

-----------------------------------------------------------------------------
(* Seven sets with nothing in common.                                       *)
Apart(r, a, b, z, s, k, f) ==
  /\ r \cap (a \cup b \cup z \cup s \cup k \cup f) = {}
  /\ a \cap (b \cup z \cup s \cup k \cup f) = {}
  /\ b \cap (z \cup s \cup k \cup f) = {}
  /\ z \cap (s \cup k \cup f) = {}
  /\ s \cap (k \cup f) = {}
  /\ k \cap f = {}

Current == {running} \ {None}

Places == Apart(Current, Range(spawnq), Range(wakeupq), Range(zombies), suspended, blocked, freed)

NoTwice == IsInjective(spawnq) /\ IsInjective(wakeupq) /\ IsInjective(zombies)

(* No coroutine runs while the process takes a message or is down; when it  *)
(* is down there is none left.                                              *)
Still == /\ phase \in {"take", "down"} => running = None
         /\ phase = "down" => /\ spawnq = << >> /\ wakeupq = << >> /\ zombies = << >>
                              /\ suspended = {} /\ blocked = {}

(* Before the process looks at its mailbox nobody is left to resume.        *)
Quiet == phase = "take" => spawnq = << >> /\ wakeupq = << >>

(* A coroutine in serve() waits, is about to be resumed or runs.  Unless    *)
(* user code came in between, one of them at a time has been resumed, and   *)
(* what it was resumed for is in the inbox.                                 *)
Served == /\ serving \subseteq suspended \cup Range(wakeupq) \cup Current
          /\ ~meddled => /\ Called # {} => inbox # 0
                         /\ \A c, d \in Called : c = d

IInv == /\ TypeOK /\ Places /\ NoTwice /\ Still /\ Quiet /\ Served
        /\ ServeTakesMessage

-----------------------------------------------------------------------------
(* A set in any order: what exit() resumes.                                 *)
LEMMA AnyOrder ==
  ASSUME NEW S, IsFiniteSet(S), NEW q \in SetToSeqs(S)
  PROVE  q \in Seq(S) /\ IsInjective(q) /\ Range(q) = S
<1>1. Cardinality(S) \in Nat
  BY FS_CardinalityType
<1>2. q \in [1 .. Cardinality(S) -> S] /\ IsInjective(q)
  BY DEF SetToSeqs, IsInjective
<1>3. IsFiniteSet(1 .. Cardinality(S)) /\ Cardinality(1 .. Cardinality(S)) = Cardinality(S)
  BY <1>1, FS_Interval
<1>4. q \in Injection(1 .. Cardinality(S), S)
  BY <1>2 DEF Injection
<1>5. q \in Surjection(1 .. Cardinality(S), S)
  BY <1>3, <1>4, FS_Injection
<1>6. Range(q) = S
  BY <1>2, <1>5 DEF Surjection, Range
<1>7. QED
  BY <1>1, <1>2, <1>6

(* A round of exit() puts who waits among the woken, or destroys everybody. *)
LEMMA Round ==
  ASSUME TypeOK, NoTwice, NEW z \in Seq(Coroutines), IsInjective(z),
         Apart({}, Range(spawnq), Range(wakeupq), Range(z), suspended, blocked, freed),
         ExitRound(z), running' = None
  PROVE  /\ phase' \in {"exit", "down"}
         /\ spawnq' \in Seq(Coroutines) /\ wakeupq' \in Seq(Coroutines) /\ zombies' \in Seq(Coroutines)
         /\ suspended' \cup blocked' \cup freed' \cup exc' \subseteq Coroutines
         /\ suspended' = {} /\ blocked' = {} /\ exc \cup suspended \subseteq exc'
         /\ suspended \cup Range(wakeupq) \subseteq Range(wakeupq')
         /\ phase' = "down" => spawnq' = << >> /\ wakeupq' = << >> /\ zombies' = << >>
         /\ NoTwice' /\ Places'
<1>. DEFINE sp == Range(spawnq)
            wk == Range(wakeupq)
<1>1. CASE wakeupq = << >> /\ blocked = {} /\ suspended = {}
  <2>1. Down(z)
    BY <1>1 DEF ExitRound
  <2>2. Range(z) \subseteq Coroutines /\ Range(spawnq) \subseteq Coroutines
    BY DEF TypeOK, Range
  <2>3. IsInjective(<< >>) /\ Range(<< >>) = {} /\ << >> \in Seq(Coroutines)
    BY ProcessAssumption, ShortQueues
  <2>4. Places'
    BY <1>1, <2>1, <2>3 DEF Down, Places, Apart, Current
  <2>5. QED
    BY <1>1, <2>1, <2>2, <2>3, <2>4 DEF Down, TypeOK, NoTwice
<1>2. CASE ~(wakeupq = << >> /\ blocked = {} /\ suspended = {})
  <2>1. Interrupt /\ zombies' = z
    BY <1>2 DEF ExitRound
  <2>2. IsFiniteSet(blocked) /\ IsFiniteSet(suspended)
        /\ blocked \subseteq Coroutines /\ suspended \subseteq Coroutines
    BY ProcessAssumption, FS_Subset DEF TypeOK
  <2>3. PICK b \in SetToSeqs(blocked), s \in SetToSeqs(suspended) : wakeupq' = wakeupq \o b \o s
    BY <2>1 DEF Interrupt
  <2>4. /\ b \in Seq(blocked) /\ IsInjective(b) /\ Range(b) = blocked
        /\ s \in Seq(suspended) /\ IsInjective(s) /\ Range(s) = suspended
    BY <2>2, AnyOrder
  <2>5. b \in Seq(Coroutines) /\ s \in Seq(Coroutines)
    BY <2>2, <2>4, SeqMonotonic
  <2>6. /\ wakeupq \o b \in Seq(Coroutines) /\ IsInjective(wakeupq \o b)
        /\ Range(wakeupq \o b) = wk \cup blocked
    <3>1. wk \cap Range(b) = {}
      BY <2>4 DEF Apart
    <3>2. QED
      BY <2>4, <2>5, <3>1, ConcatApart DEF TypeOK, NoTwice
  <2>7. /\ wakeupq' \in Seq(Coroutines) /\ IsInjective(wakeupq')
        /\ Range(wakeupq') = wk \cup blocked \cup suspended
    <3>1. Range(wakeupq \o b) \cap Range(s) = {}
      BY <2>4, <2>6 DEF Apart
    <3>. DEFINE w == wakeupq \o b
    <3>2. w \in Seq(Coroutines) /\ IsInjective(w)
      BY <2>6
    <3>3. wakeupq' = w \o s /\ Range(w) \cap Range(s) = {}
      BY <2>3, <3>1
    <3>. HIDE DEF w
    <3>4. /\ w \o s \in Seq(Coroutines) /\ IsInjective(w \o s)
          /\ Range(w \o s) = Range(w) \cup Range(s)
      BY <2>4, <2>5, <3>2, <3>3, ConcatApart
    <3>5. QED
      BY <2>4, <2>6, <3>3, <3>4 DEF w
  <2>8. Places'
    <3>1. Apart({}, sp, wk \cup blocked \cup suspended, Range(z), {}, {}, freed)
      BY DEF Apart
    <3>2. QED
      BY <2>1, <2>7, <3>1 DEF Interrupt, Places, Current
  <2>9. QED
    BY <2>1, <2>2, <2>7, <2>8 DEF Interrupt, TypeOK, NoTwice
<1>3. QED
  BY <1>1, <1>2

-----------------------------------------------------------------------------
(* The invariant holds at the start, and each step keeps it.                *)
Flow == Still /\ Quiet /\ Served /\ ServeTakesMessage

LEMMA InitIInv == Init => IInv
<1>. SUFFICES ASSUME Init PROVE IInv
  OBVIOUS
<1>1. /\ << >> \in Seq(Coroutines) /\ IsInjective(<< >>) /\ Range(<< >>) = {}
      /\ <<Main>> \in Seq(Coroutines) /\ IsInjective(<<Main>>) /\ Range(<<Main>>) = {Main}
  BY ProcessAssumption, ShortQueues
<1>2. TypeOK
  <2>1. << >> \in Seq(Messages)
    BY EmptySeq
  <2>2. QED
    BY <1>1, <2>1, ProcessAssumption DEF Init, TypeOK
<1>3. Places /\ NoTwice
  BY <1>1 DEF Init, Places, Apart, Current, NoTwice
<1>4. QED
  BY <1>2, <1>3 DEF Init, IInv, Still, Quiet, Served, Called, ServeTakesMessage

LEMMA NextIInv ==
  ASSUME ~Catching, IInv, [Next]_vars
  PROVE  IInv'
<1>. USE ProcessAssumption DEF queues, waiting, ended, mail
<1>0. TypeOK /\ Places /\ NoTwice /\ Flow
  BY DEF IInv, Flow
<1>a. /\ spawnq \in Seq(Coroutines) /\ IsInjective(spawnq)
      /\ wakeupq \in Seq(Coroutines) /\ IsInjective(wakeupq)
      /\ zombies \in Seq(Coroutines) /\ IsInjective(zombies)
      /\ Apart(Current, Range(spawnq), Range(wakeupq), Range(zombies), suspended, blocked, freed)
      /\ Range(zombies) \subseteq Coroutines
      /\ << >> \in Seq(Coroutines) /\ IsInjective(<< >>) /\ Range(<< >>) = {}
  <2>1. Range(zombies) \subseteq Coroutines
    BY <1>0 DEF TypeOK, Range
  <2>2. << >> \in Seq(Coroutines) /\ IsInjective(<< >>) /\ Range(<< >>) = {}
    BY ShortQueues
  <2>3. QED
    BY <1>0, <2>1, <2>2 DEF TypeOK, NoTwice, Places
<1>. DEFINE Kept == TypeOK' /\ Places' /\ NoTwice' /\ Flow'
<1>b. Kept => IInv'
  BY DEF IInv, Flow
<1>1. ASSUME ResumeSpawned PROVE IInv'
  <2>1. /\ spawnq' \in Seq(Coroutines) /\ IsInjective(spawnq') /\ running' \in Range(spawnq)
        /\ Range(spawnq') = Range(spawnq) \ {running'} /\ running' \in Coroutines
    BY <1>1, <1>a, TailRemoves DEF ResumeSpawned
  <2>2. TypeOK'
    BY <1>0, <1>1, <2>1, <1>a DEF ResumeSpawned, TypeOK
  <2>3. Places' /\ NoTwice'
    BY <1>0, <1>1, <2>1, <1>a DEF ResumeSpawned, Places, Apart, Current, NoTwice, TypeOK
  <2>4. Flow'
    BY <1>0, <1>1, <2>1, <1>a DEF ResumeSpawned, Flow, Still, Quiet, Served, Called, ServeTakesMessage, Places, Apart, Current, TypeOK
  <2>5. QED
    BY <1>b, <2>2, <2>3, <2>4
<1>2. ASSUME Spawned PROVE IInv'
  <2>1. TypeOK'
    BY <1>0, <1>2, <1>a DEF Spawned, TypeOK
  <2>2. Places' /\ NoTwice'
    BY <1>0, <1>2, <1>a DEF Spawned, Places, Apart, Current, NoTwice, TypeOK
  <2>3. Flow'
    BY <1>0, <1>2, <1>a DEF Spawned, Flow, Still, Quiet, Served, Called, ServeTakesMessage, Places, Apart, Current, TypeOK
  <2>4. QED
    BY <1>b, <2>1, <2>2, <2>3
<1>3. ASSUME ResumeWoken PROVE IInv'
  <2>1. /\ wakeupq' \in Seq(Coroutines) /\ IsInjective(wakeupq') /\ running' \in Range(wakeupq)
        /\ Range(wakeupq') = Range(wakeupq) \ {running'} /\ running' \in Coroutines
    BY <1>3, <1>a, TailRemoves DEF ResumeWoken
  <2>2. TypeOK'
    BY <1>0, <1>3, <2>1, <1>a DEF ResumeWoken, TypeOK
  <2>3. Places' /\ NoTwice'
    BY <1>0, <1>3, <2>1, <1>a DEF ResumeWoken, Places, Apart, Current, NoTwice, TypeOK
  <2>4. Flow'
    BY <1>0, <1>3, <2>1, <1>a DEF ResumeWoken, Flow, Still, Quiet, Served, Called, ServeTakesMessage, Places, Apart, Current, TypeOK
  <2>5. QED
    BY <1>b, <2>2, <2>3, <2>4
<1>4. ASSUME WakeServer PROVE IInv'
  <2>1. /\ wakeupq' \in Seq(Coroutines) /\ IsInjective(wakeupq')
        /\ Range(wakeupq') = suspended \cap {server}
    BY <1>0, <1>4, <1>a, ShortQueues DEF WakeServer, TypeOK
  <2>2. TypeOK'
    BY <1>0, <1>4, <2>1, <1>a DEF WakeServer, TypeOK
  <2>3. Places' /\ NoTwice'
    BY <1>0, <1>4, <2>1, <1>a DEF WakeServer, Places, Apart, Current, NoTwice, TypeOK
  <2>4. Flow'
    BY <1>0, <1>4, <2>1, <1>a DEF WakeServer, Flow, Still, Quiet, Served, Called, ServeTakesMessage, Places, Apart, Current, TypeOK
  <2>5. QED
    BY <1>b, <2>2, <2>3, <2>4
<1>5. ASSUME Dispatched PROVE IInv'
  <2>1. TypeOK'
    BY <1>0, <1>5, <1>a DEF Dispatched, TypeOK
  <2>2. Places' /\ NoTwice'
    BY <1>0, <1>5, <1>a DEF Dispatched, Places, Apart, Current, NoTwice, TypeOK
  <2>3. Flow'
    BY <1>0, <1>5, <1>a DEF Dispatched, Flow, Still, Quiet, Served, Called, ServeTakesMessage, Places, Apart, Current, TypeOK
  <2>4. QED
    BY <1>b, <2>1, <2>2, <2>3
<1>6. ASSUME Interrupts PROVE IInv'
  <2>1. running = None /\ running' = None /\ ExitRound(zombies)
    BY <1>6 DEF Interrupts
  <2>2. Apart({}, Range(spawnq), Range(wakeupq), Range(zombies), suspended, blocked, freed)
    BY <1>a, <2>1 DEF Apart
  <2>3. /\ phase' \in {"exit", "down"}
        /\ spawnq' \in Seq(Coroutines) /\ wakeupq' \in Seq(Coroutines) /\ zombies' \in Seq(Coroutines)
        /\ suspended' \cup blocked' \cup freed' \cup exc' \subseteq Coroutines
        /\ suspended' = {} /\ blocked' = {} /\ exc \cup suspended \subseteq exc'
        /\ suspended \cup Range(wakeupq) \subseteq Range(wakeupq')
        /\ phase' = "down" => spawnq' = << >> /\ wakeupq' = << >> /\ zombies' = << >>
        /\ NoTwice' /\ Places'
    BY <1>0, <1>a, <2>1, <2>2, Round
  <2>4. TypeOK'
    BY <1>0, <1>6, <2>3 DEF Interrupts, TypeOK
  <2>5. Flow'
    BY <1>0, <1>6, <2>1, <2>3 DEF Interrupts, Flow, Still, Quiet, Served, Called, ServeTakesMessage, Current
  <2>6. QED
    BY <1>b, <2>3, <2>4, <2>5
<1>7. ASSUME Take PROVE IInv'
  <2>. DEFINE m == Head(mailbox)
  <2>1. /\ running = None /\ running' = None /\ m \in Messages /\ mailbox' \in Seq(Messages)
        /\ phase = "take" /\ spawnq = << >> /\ wakeupq = << >>
    BY <1>0, <1>7, HeadTailProperties DEF Take, TypeOK, Flow, Still, Quiet, Served, Called, ServeTakesMessage
  <2>2. CASE m.kind = "kill"
    <3>1. ExitRound(zombies) /\ UNCHANGED inbox
      BY <1>7, <2>2 DEF Take
    <3>2. Apart({}, Range(spawnq), Range(wakeupq), Range(zombies), suspended, blocked, freed)
      BY <1>a, <2>1 DEF Apart
    <3>3. /\ phase' \in {"exit", "down"}
          /\ spawnq' \in Seq(Coroutines) /\ wakeupq' \in Seq(Coroutines) /\ zombies' \in Seq(Coroutines)
          /\ suspended' \cup blocked' \cup freed' \cup exc' \subseteq Coroutines
          /\ suspended' = {} /\ blocked' = {} /\ exc \cup suspended \subseteq exc'
          /\ suspended \cup Range(wakeupq) \subseteq Range(wakeupq')
          /\ phase' = "down" => spawnq' = << >> /\ wakeupq' = << >> /\ zombies' = << >>
          /\ NoTwice' /\ Places'
      BY <1>0, <1>a, <2>1, <3>1, <3>2, Round
    <3>4. TypeOK'
      BY <1>0, <1>7, <2>1, <3>1, <3>3 DEF Take, TypeOK
    <3>5. Flow'
      BY <1>0, <1>7, <2>1, <3>1, <3>3 DEF Take, Flow, Still, Quiet, Served, Called, ServeTakesMessage, Current
    <3>6. QED
      BY <1>b, <3>3, <3>4, <3>5
  <2>3. CASE m.kind # "kill"
    <3>1. /\ phase' = "run"
          /\ inbox' = IF m.kind = "post" THEN inbox + 1 ELSE inbox
          /\ blocked' = blocked \ {m.co}
          /\ wakeupq' = IF m.co \in blocked THEN Append(wakeupq, m.co) ELSE wakeupq
          /\ exc' = IF m.kind = "failure" THEN exc \cup ({m.co} \cap blocked) ELSE exc
          /\ UNCHANGED <<spawnq, suspended, ended, loop, running, server, serving, meddled>>
      BY <1>7, <2>3 DEF Take
    <3>2. /\ wakeupq' \in Seq(Coroutines) /\ IsInjective(wakeupq')
          /\ Range(wakeupq') = {m.co} \cap blocked
      BY <1>0, <1>a, <2>1, <3>1, ShortQueues DEF TypeOK
    <3>3. TypeOK'
      BY <1>0, <2>1, <3>1, <3>2 DEF TypeOK, ended
    <3>4. Places' /\ NoTwice'
      BY <1>a, <2>1, <3>1, <3>2 DEF Places, Apart, Current, NoTwice, ended
    <3>5. Flow'
      <4>1. serving \subseteq suspended /\ Called = {} /\ Called' = {} /\ serving' \subseteq suspended'
        BY <1>0, <1>a, <2>1, <3>1 DEF Flow, Served, Called, Current
      <4>2. Served'
        BY <4>1 DEF Served
      <4>3. QED
        BY <1>0, <2>1, <3>1, <4>2 DEF Flow, Still, Quiet, ServeTakesMessage
    <3>6. QED
      BY <1>b, <3>3, <3>4, <3>5
  <2>4. QED
    BY <2>2, <2>3
<1>8. ASSUME NEW c \in Coroutines, NEW d \in Coroutines, Spawn(c, d) PROVE IInv'
  <2>1. d \notin Range(spawnq)
    BY <1>0, <1>8, <1>a DEF Spawn, Runs, Unborn, Created, Apart, Current
  <2>2. /\ spawnq' \in Seq(Coroutines) /\ IsInjective(spawnq')
        /\ Range(spawnq') = Range(spawnq) \cup {d}
    BY <1>8, <1>a, <2>1, AppendNew DEF Spawn, Runs, Unborn, Created
  <2>3. TypeOK'
    BY <1>0, <1>8, <2>2, <1>a DEF Spawn, Runs, Unborn, Created, TypeOK
  <2>4. Places' /\ NoTwice'
    BY <1>0, <1>8, <2>2, <1>a DEF Spawn, Runs, Unborn, Created, Places, Apart, Current, NoTwice, TypeOK
  <2>5. Flow'
    BY <1>0, <1>8, <2>2, <1>a DEF Spawn, Runs, Unborn, Created, Flow, Still, Quiet, Served, Called, ServeTakesMessage, Places, Apart, Current, TypeOK
  <2>6. QED
    BY <1>b, <2>3, <2>4, <2>5
<1>9. ASSUME NEW c \in Coroutines, NEW d \in Coroutines, Wakeup(c, d) PROVE IInv'
  <2>1. d \notin Range(wakeupq)
    BY <1>0, <1>9, <1>a DEF Wakeup, Runs, Apart, Current
  <2>2. /\ wakeupq' \in Seq(Coroutines) /\ IsInjective(wakeupq')
        /\ Range(wakeupq') = Range(wakeupq) \cup {d}
    BY <1>9, <1>a, <2>1, AppendNew DEF Wakeup, Runs
  <2>3. TypeOK'
    BY <1>0, <1>9, <2>2, <1>a DEF Wakeup, Runs, TypeOK
  <2>4. Places' /\ NoTwice'
    BY <1>0, <1>9, <2>2, <1>a DEF Wakeup, Runs, Places, Apart, Current, NoTwice, TypeOK
  <2>5. Flow'
    <3>1. serving' \subseteq suspended' \cup Range(wakeupq)' \cup Current'
      BY <1>0, <1>9, <2>2 DEF Wakeup, Runs, Flow, Served, Current
    <3>2. CASE d \in serving
      <4>1. meddled'
        BY <1>9, <3>2 DEF Wakeup
      <4>2. QED
        BY <1>0, <1>9, <3>1, <4>1 DEF Wakeup, Runs, Flow, Still, Quiet, Served, ServeTakesMessage
    <3>3. CASE d \notin serving
      <4>1. Called' = Called /\ meddled' = meddled /\ inbox' = inbox
        BY <1>0, <1>9, <3>3 DEF Wakeup, Called, TypeOK
      <4>2. QED
        BY <1>0, <1>9, <3>1, <4>1 DEF Wakeup, Runs, Flow, Still, Quiet, Served, ServeTakesMessage
    <3>4. QED
      BY <3>2, <3>3
  <2>6. QED
    BY <1>b, <2>3, <2>4, <2>5
<1>10. ASSUME NEW c \in Coroutines, Suspend(c) PROVE IInv'
  <2>1. TypeOK'
    BY <1>0, <1>10, <1>a DEF Suspend, Waits, Runs, Yields, TypeOK
  <2>2. Places' /\ NoTwice'
    BY <1>0, <1>10, <1>a DEF Suspend, Waits, Runs, Yields, Places, Apart, Current, NoTwice, TypeOK
  <2>3. Flow'
    BY <1>0, <1>10, <1>a DEF Suspend, Waits, Runs, Yields, Flow, Still, Quiet, Served, Called, ServeTakesMessage, Places, Apart, Current, TypeOK
  <2>4. QED
    BY <1>b, <2>1, <2>2, <2>3
<1>11. ASSUME NEW c \in Coroutines, Block(c) PROVE IInv'
  <2>1. TypeOK'
    BY <1>0, <1>11, <1>a DEF Block, Waits, Runs, Yields, TypeOK
  <2>2. Places' /\ NoTwice'
    BY <1>0, <1>11, <1>a DEF Block, Waits, Runs, Yields, Places, Apart, Current, NoTwice, TypeOK
  <2>3. Flow'
    BY <1>0, <1>11, <1>a DEF Block, Waits, Runs, Yields, Flow, Still, Quiet, Served, Called, ServeTakesMessage, Places, Apart, Current, TypeOK
  <2>4. QED
    BY <1>b, <2>1, <2>2, <2>3
<1>12. ASSUME NEW c \in Coroutines, YieldCpu(c) PROVE IInv'
  <2>1. TypeOK'
    BY <1>0, <1>12, <1>a DEF YieldCpu, Waits, Runs, Yields, Messages, TypeOK
  <2>2. Places' /\ NoTwice'
    BY <1>0, <1>12, <1>a DEF YieldCpu, Waits, Runs, Yields, Messages, Places, Apart, Current, NoTwice, TypeOK
  <2>3. Flow'
    BY <1>0, <1>12, <1>a DEF YieldCpu, Waits, Runs, Yields, Messages, Flow, Still, Quiet, Served, Called, ServeTakesMessage, Places, Apart, Current, TypeOK
  <2>4. QED
    BY <1>b, <2>1, <2>2, <2>3
<1>13. ASSUME NEW c \in Coroutines, ServeWait(c) PROVE IInv'
  <2>1. TypeOK'
    BY <1>0, <1>13, <1>a DEF ServeWait, Waits, Runs, Yields, TypeOK
  <2>2. Places' /\ NoTwice'
    BY <1>0, <1>13, <1>a DEF ServeWait, Waits, Runs, Yields, Places, Apart, Current, NoTwice, TypeOK
  <2>3. Flow'
    BY <1>0, <1>13, <1>a DEF ServeWait, Waits, Runs, Yields, Flow, Still, Quiet, Served, Called, ServeTakesMessage, Places, Apart, Current, TypeOK
  <2>4. QED
    BY <1>b, <2>1, <2>2, <2>3
<1>14. ASSUME NEW c \in Coroutines, ServeTake(c) PROVE IInv'
  <2>1. /\ spawnq' \in Seq(Coroutines) /\ IsInjective(spawnq')
        /\ \/ Range(spawnq') = Range(spawnq)
           \/ \E d \in Unborn : Range(spawnq') = Range(spawnq) \cup {d}
    <3>1. CASE UNCHANGED spawnq
      BY <1>a, <3>1
    <3>2. ASSUME NEW d \in Unborn, spawnq' = Append(spawnq, d) PROVE <2>1!:
      <4>1. d \in Coroutines /\ d \notin Range(spawnq)
        BY DEF Unborn, Created
      <4>2. QED
        BY <1>a, <3>2, <4>1, AppendNew
    <3>3. QED
      BY <1>14, <3>1, <3>2 DEF ServeTake
  <2>2. UNCHANGED <<phase, loop, running, wakeupq, suspended, blocked, server, zombies, freed, exc, mailbox>>
    BY <1>14 DEF ServeTake, ended
  <2>3. TypeOK'
    BY <1>0, <1>14, <2>1, <2>2 DEF ServeTake, TypeOK
  <2>4. Places' /\ NoTwice'
    BY <1>a, <1>0, <2>1, <2>2 DEF Places, Apart, Current, NoTwice, Unborn, Created
  <2>5. Flow'
    BY <1>0, <1>14, <1>a, <2>2 DEF ServeTake, Flow, Still, Quiet, Served, Called, ServeTakesMessage, Apart, Current, TypeOK
  <2>6. QED
    BY <1>b, <2>3, <2>4, <2>5
<1>14a. ASSUME NEW c \in Coroutines, ServeEmpty(c) PROVE IInv'
  <2>1. TypeOK'
    BY <1>0, <1>14a, <1>a DEF ServeEmpty, TypeOK
  <2>2. Places' /\ NoTwice'
    BY <1>0, <1>14a, <1>a DEF ServeEmpty, Places, Apart, Current, NoTwice, TypeOK
  <2>3. Flow'
    BY <1>0, <1>14a, <1>a DEF ServeEmpty, Flow, Still, Quiet, Served, Called, ServeTakesMessage, Places, Apart, Current, TypeOK
  <2>4. QED
    BY <1>b, <2>1, <2>2, <2>3
<1>15. ASSUME NEW c \in Coroutines, ServeThrow(c) PROVE IInv'
  <2>1. TypeOK'
    BY <1>0, <1>15, <1>a DEF ServeThrow, TypeOK
  <2>2. Places' /\ NoTwice'
    BY <1>0, <1>15, <1>a DEF ServeThrow, Places, Apart, Current, NoTwice, TypeOK
  <2>3. Flow'
    BY <1>0, <1>15, <1>a DEF ServeThrow, Flow, Still, Quiet, Served, Called, ServeTakesMessage, Places, Apart, Current, TypeOK
  <2>4. QED
    BY <1>b, <2>1, <2>2, <2>3
<1>16. ASSUME NEW c \in Coroutines, Finish(c) PROVE IInv'
  <2>1. c \notin Range(zombies)
    BY <1>0, <1>16, <1>a DEF Finish, Runs, Apart, Current
  <2>2. /\ zombies' \in Seq(Coroutines) /\ IsInjective(zombies')
        /\ Range(zombies') = Range(zombies) \cup {c}
    BY <1>16, <1>a, <2>1, AppendNew DEF Finish, Runs
  <2>3. TypeOK'
    BY <1>0, <1>16, <2>2, <1>a DEF Finish, Runs, TypeOK
  <2>4. Places' /\ NoTwice'
    BY <1>0, <1>16, <2>2, <1>a DEF Finish, Runs, Places, Apart, Current, NoTwice, TypeOK
  <2>5. Flow'
    BY <1>0, <1>16, <2>2, <1>a DEF Finish, Runs, Flow, Still, Quiet, Served, Called, ServeTakesMessage, Places, Apart, Current, TypeOK
  <2>6. QED
    BY <1>b, <2>3, <2>4, <2>5
<1>17. ASSUME NEW c \in Coroutines, ExitProcess(c) PROVE IInv'
  <2>. DEFINE z == Append(zombies, c)
  <2>1. /\ running = c /\ c # None /\ running' = None /\ c \notin serving
        /\ UNCHANGED <<loop, server, serving, inbox, mailbox, meddled>>
        /\ phase # "take" /\ phase # "down"
    BY <1>0, <1>17 DEF ExitProcess, Runs, mail, Flow, Still
  <2>2. c \notin Range(zombies)
    BY <1>a, <2>1 DEF Apart, Current
  <2>3. z \in Seq(Coroutines) /\ IsInjective(z) /\ Range(z) = Range(zombies) \cup {c}
    BY <1>a, <2>2, AppendNew
  <2>4. Apart({}, Range(spawnq), Range(wakeupq), Range(z), suspended, blocked, freed)
    BY <1>a, <2>1, <2>3 DEF Apart, Current
  <2>5. CASE phase = "run"
    <3>1. ExitRound(z)
      BY <1>17, <2>5 DEF ExitProcess
    <3>2. /\ phase' \in {"exit", "down"}
          /\ spawnq' \in Seq(Coroutines) /\ wakeupq' \in Seq(Coroutines) /\ zombies' \in Seq(Coroutines)
          /\ suspended' \cup blocked' \cup freed' \cup exc' \subseteq Coroutines
          /\ suspended' = {} /\ blocked' = {} /\ exc \cup suspended \subseteq exc'
          /\ suspended \cup Range(wakeupq) \subseteq Range(wakeupq')
          /\ phase' = "down" => spawnq' = << >> /\ wakeupq' = << >> /\ zombies' = << >>
          /\ NoTwice' /\ Places'
      BY <1>0, <2>1, <2>3, <2>4, <3>1, Round
    <3>3. TypeOK'
      BY <1>0, <2>1, <3>2 DEF TypeOK
    <3>4. Flow'
      BY <1>0, <2>1, <3>2 DEF Flow, Still, Quiet, Served, Called, ServeTakesMessage, Current
    <3>5. QED
      BY <1>b, <3>2, <3>3, <3>4
  <2>6. CASE phase # "run"
    <3>1. zombies' = z /\ UNCHANGED <<phase, spawnq, wakeupq, suspended, blocked, freed, exc>>
      BY <1>17, <2>6 DEF ExitProcess, queues
    <3>2. TypeOK'
      BY <1>0, <2>1, <2>3, <3>1 DEF TypeOK
    <3>3. Places' /\ NoTwice'
      BY <1>0, <2>1, <2>3, <2>4, <3>1 DEF Places, Apart, Current, NoTwice
    <3>4. Flow'
      BY <1>0, <2>1, <3>1 DEF Flow, Still, Quiet, Served, Called, ServeTakesMessage, Current
    <3>5. QED
      BY <1>b, <3>2, <3>3, <3>4
  <2>7. QED
    BY <2>5, <2>6
<1>18. ASSUME Send PROVE IInv'
  <2>1. TypeOK'
    BY <1>0, <1>18, <1>a DEF Send, Messages, TypeOK
  <2>2. Places' /\ NoTwice'
    BY <1>0, <1>18, <1>a DEF Send, Messages, Places, Apart, Current, NoTwice, TypeOK
  <2>3. Flow'
    BY <1>0, <1>18, <1>a DEF Send, Messages, Flow, Still, Quiet, Served, Called, ServeTakesMessage, Places, Apart, Current, TypeOK
  <2>4. QED
    BY <1>b, <2>1, <2>2, <2>3
<1>19. CASE UNCHANGED vars
  BY <1>0, <1>19, <1>b DEF vars, queues, waiting, ended, mail, TypeOK, Places, Apart, Current, NoTwice,
     Flow, Still, Quiet, Served, Called, ServeTakesMessage
<1>20. QED
  BY <1>1, <1>2, <1>3, <1>4, <1>5, <1>6, <1>7, <1>8, <1>9, <1>10, <1>11, <1>12, <1>13, <1>14, <1>14a, <1>15, <1>16, <1>17, <1>18, <1>19 DEF Next, Steps, Code

-----------------------------------------------------------------------------
(* Counting: sets with nothing in common, and queues without repetition.    *)
LEMMA CountApart ==
  ASSUME NEW S, NEW T, IsFiniteSet(S), IsFiniteSet(T), S \cap T = {}
  PROVE  IsFiniteSet(S \cup T) /\ Cardinality(S \cup T) = Cardinality(S) + Cardinality(T)
<1>1. Cardinality(S) \in Nat /\ Cardinality(T) \in Nat
  BY FS_CardinalityType
<1>2. QED
  BY <1>1, FS_Union, FS_EmptySet

LEMMA CountQueue ==
  ASSUME NEW S, NEW s \in Seq(S), IsInjective(s)
  PROVE  IsFiniteSet(Range(s)) /\ Cardinality(Range(s)) = Len(s)
<1>1. Len(s) \in Nat /\ s \in [1 .. Len(s) -> Range(s)] /\ DOMAIN s = 1 .. Len(s)
  BY LenProperties DEF Range
<1>2. s \in Bijection(1 .. Len(s), Range(s))
  BY <1>1 DEF Bijection, Injection, Surjection, IsInjective, Range
<1>3. IsFiniteSet(1 .. Len(s)) /\ Cardinality(1 .. Len(s)) = Len(s)
  BY <1>1, FS_Interval
<1>4. QED
  BY <1>2, <1>3, FS_Bijection DEF ExistsBijection

LEMMA CountCreated == IInv => OnePlace
<1>. SUFFICES ASSUME IInv PROVE OnePlace
  OBVIOUS
<1>. DEFINE a == Range(spawnq)
            b == Range(wakeupq)
            z == Range(zombies)
            r == IF running = None THEN 0 ELSE 1
<1>1. /\ Apart(Current, a, b, z, suspended, blocked, freed)
      /\ IsFiniteSet(a) /\ Cardinality(a) = Len(spawnq) /\ Len(spawnq) \in Nat
      /\ IsFiniteSet(b) /\ Cardinality(b) = Len(wakeupq) /\ Len(wakeupq) \in Nat
      /\ IsFiniteSet(z) /\ Cardinality(z) = Len(zombies) /\ Len(zombies) \in Nat
  BY CountQueue, LenProperties DEF IInv, TypeOK, Places, NoTwice
<1>2. /\ IsFiniteSet(suspended) /\ Cardinality(suspended) \in Nat
      /\ IsFiniteSet(blocked) /\ Cardinality(blocked) \in Nat
      /\ IsFiniteSet(freed) /\ Cardinality(freed) \in Nat
  <2>1. suspended \subseteq Coroutines /\ blocked \subseteq Coroutines /\ freed \subseteq Coroutines
    BY DEF IInv, TypeOK
  <2>2. QED
    BY <2>1, ProcessAssumption, FS_Subset, FS_CardinalityType
<1>3. IsFiniteSet(Current) /\ Cardinality(Current) = r
  <2>1. CASE running = None
    BY <2>1, FS_EmptySet DEF Current
  <2>2. CASE running # None
    <3>1. Current = {running}
      BY <2>2 DEF Current
    <3>2. QED
      BY <2>2, <3>1, FS_Singleton
  <2>3. QED
    BY <2>1, <2>2
<1>. HIDE DEF a, b, z, r
<1>4. IsFiniteSet(Current \cup a) /\ Cardinality(Current \cup a) = r + Len(spawnq)
  BY <1>1, <1>3, CountApart DEF Apart
<1>5. /\ IsFiniteSet(Current \cup a \cup b)
      /\ Cardinality(Current \cup a \cup b) = r + Len(spawnq) + Len(wakeupq)
  <2>1. (Current \cup a) \cap b = {}
    BY <1>1 DEF Apart
  <2>2. /\ IsFiniteSet((Current \cup a) \cup b)
        /\ Cardinality((Current \cup a) \cup b) = Cardinality(Current \cup a) + Cardinality(b)
    <3>1. IsFiniteSet(Current \cup a) /\ IsFiniteSet(b)
      BY <1>1, <1>4
    <3>2. QED
      BY <2>1, <3>1, CountApart, Zenon
  <2>3. QED
    BY <1>1, <1>4, <2>2
<1>6. /\ IsFiniteSet(suspended \cup blocked)
      /\ Cardinality(suspended \cup blocked) = Cardinality(suspended) + Cardinality(blocked)
  BY <1>1, <1>2, CountApart DEF Apart
<1>7. /\ IsFiniteSet(z \cup freed)
      /\ Cardinality(z \cup freed) = Len(zombies) + Cardinality(freed)
  BY <1>1, <1>2, CountApart DEF Apart
<1>8. /\ IsFiniteSet((suspended \cup blocked) \cup (z \cup freed))
      /\ Cardinality((suspended \cup blocked) \cup (z \cup freed)) =
           Len(zombies) + Cardinality(suspended) + Cardinality(blocked) + Cardinality(freed)
  <2>1. (suspended \cup blocked) \cap (z \cup freed) = {}
    BY <1>1 DEF Apart
  <2>. DEFINE u == suspended \cup blocked
              v == z \cup freed
  <2>2. IsFiniteSet(u) /\ IsFiniteSet(v) /\ u \cap v = {}
    BY <1>6, <1>7, <2>1
  <2>3. IsFiniteSet(u \cup v) /\ Cardinality(u \cup v) = Cardinality(u) + Cardinality(v)
    BY <2>2, CountApart, Zenon
  <2>4. QED
    BY <1>1, <1>2, <1>6, <1>7, <2>3
<1>9. Created = (Current \cup a \cup b) \cup ((suspended \cup blocked) \cup (z \cup freed))
  BY DEF Created, Current, a, b, z
<1>10. Cardinality(Created) = r + Len(spawnq) + Len(wakeupq) + Len(zombies)
         + Cardinality(suspended) + Cardinality(blocked) + Cardinality(freed)
  <2>1. (Current \cup a \cup b) \cap ((suspended \cup blocked) \cup (z \cup freed)) = {}
    BY <1>1 DEF Apart
  <2>2. Cardinality(Created) = Cardinality(Current \cup a \cup b)
                                 + Cardinality((suspended \cup blocked) \cup (z \cup freed))
    BY <1>5, <1>8, <1>9, <2>1, CountApart
  <2>3. r \in Nat
    BY DEF r
  <2>4. QED
    BY <1>1, <1>2, <1>5, <1>8, <2>2, <2>3
<1>11. phase = "down" => Created = freed
  BY ProcessAssumption, ShortQueues DEF IInv, Still, Created
<1>12. QED
  BY <1>10, <1>11 DEF OnePlace, r

-----------------------------------------------------------------------------
(* The variables keep their types.                                          *)
THEOREM Invariant ==
  ASSUME ~Catching
  PROVE  SafeSpec => []IInv
<1>1. IInv /\ [Next]_vars => IInv'
  BY NextIInv
<1>2. QED
  BY <1>1, InitIInv, PTL DEF SafeSpec

THEOREM TypeCorrect ==
  ASSUME ~Catching
  PROVE  Spec => []TypeOK
<1>1. IInv => TypeOK
  BY DEF IInv
<1>2. QED
  BY <1>1, Invariant, PTL DEF Spec

(* A coroutine is in one queue or container at a time, so it is resumed     *)
(* once for a wakeup and destroyed once, and all are destroyed when the     *)
(* process is down.                                                         *)
THEOREM CoroutinesInOnePlace ==
  ASSUME ~Catching
  PROVE  Spec => []OnePlace
<1>1. QED
  BY CountCreated, Invariant, PTL DEF Spec

(* The containers point to no destroyed coroutine.                          *)
THEOREM CoroutinesNotDestroyed ==
  ASSUME ~Catching
  PROVE  Spec => []NotDestroyed
<1>1. IInv => NotDestroyed
  <2>1. IInv => None \notin freed
    BY ProcessAssumption DEF IInv, TypeOK
  <2>2. QED
    BY <2>1 DEF IInv, Places, Apart, Current, NotDestroyed
<1>2. QED
  BY <1>1, Invariant, PTL DEF Spec

(* serve() takes from an empty inbox only after user code woke it, or took  *)
(* the message it was woken for.                                            *)
THEOREM ServeFindsMessage ==
  ASSUME ~Catching
  PROVE  Spec => []ServeTakesMessage
<1>1. IInv => ServeTakesMessage
  BY DEF IInv
<1>2. QED
  BY <1>1, Invariant, PTL DEF Spec
=============================================================================
