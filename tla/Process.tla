------------------------------ MODULE Process ------------------------------
(***************************************************************************)
(* One process and its coroutines (src/process.cpp: process::Process).  A  *)
(* worker calls Process::resume(): dispatch() resumes coroutines until none *)
(* can run, then one message is taken from the mailbox and the process is  *)
(* resumed again.  One thread at a time does this (module Mailbox), so a   *)
(* step is what happens between two points at which the process changes    *)
(* hands: the loop resumes a coroutine, or the coroutine that runs calls   *)
(* into the process.                                                       *)
(*                                                                         *)
(* A coroutine's request has one session, and it waits for one request at  *)
(* a time: _block_sessions is the set of the coroutines in it, and a       *)
(* response names its coroutine.                                           *)
(***************************************************************************)
EXTENDS Naturals, FiniteSets, SequencesExt

CONSTANTS Coroutines,
          Main,         \* the coroutine of process::spawn, which also serves
          None,
          Catching,     \* coroutines catch what block() and suspend() throw and block again
          MaxMailbox,   \* bound on the messages sent and not yet taken
          MaxInbox      \* bound on the requests and notifications not yet served

ASSUME ProcessAssumption == /\ Main \in Coroutines
                            /\ IsFiniteSet(Coroutines)
                            /\ None \notin Coroutines
                            /\ Catching \in BOOLEAN
                            /\ MaxMailbox \in Nat
                            /\ MaxInbox \in Nat

VARIABLES phase,      \* what Process::resume() does
          loop,       \* the inner loop of run()
          running,    \* coroutine::current()
          spawnq,     \* _spawn_coroutines
          wakeupq,    \* _wakeup_coroutines
          suspended,  \* _suspend_coroutines
          blocked,    \* _block_sessions
          zombies,    \* _zombie_coroutines
          freed,      \* destroyed coroutines
          exc,        \* the coroutines whose Result holds an exception
          server,     \* _inbox_coroutine
          serving,    \* the coroutines in the suspend() of serve()
          inbox,      \* the length of _inbox
          mailbox,    \* _mailbox
          meddled     \* (ghost) user code came between serve() and the message it was woken for

queues  == <<spawnq, wakeupq>>
waiting == <<suspended, blocked, server, serving>>
ended   == <<zombies, freed>>
mail    == <<inbox, mailbox>>
vars    == <<phase, loop, running, queues, waiting, ended, exc, mail, meddled>>

(* Requests and notifications, a kill, a response to a session that is not  *)
(* in _block_sessions, responses with a value and with an exception.        *)
Messages == [kind : {"post", "kill", "unknown"}, co : {None}]
              \cup [kind : {"response", "failure"}, co : Coroutines]

Created == ({running} \ {None}) \cup Range(spawnq) \cup Range(wakeupq) \cup suspended
             \cup blocked \cup Range(zombies) \cup freed
Unborn  == Coroutines \ Created

Init == /\ phase = "run" /\ loop = "spawn"
        /\ running = None
        /\ spawnq = <<Main>> /\ wakeupq = << >>
        /\ suspended = {} /\ blocked = {} /\ server = None /\ serving = {}
        /\ zombies = << >> /\ freed = {}
        /\ exc = {}
        /\ inbox = 0 /\ mailbox = << >>
        /\ meddled = FALSE
-----------------------------------------------------------------------------
(* exit(): interrupts whoever waits, in any order (the containers are       *)
(* hashed), or, when nobody is left to resume, destroys the coroutines.     *)
InterruptSilent ==   \* resumes them without an exception
  /\ \E b \in SetToSeqs(blocked), s \in SetToSeqs(suspended) : wakeupq' = wakeupq \o b \o s
  /\ blocked' = {} /\ suspended' = {}
  /\ phase' = "exit"
  /\ UNCHANGED <<spawnq, freed, exc>>

Interrupt ==
  /\ \E b \in SetToSeqs(blocked), s \in SetToSeqs(suspended) : wakeupq' = wakeupq \o b \o s
  /\ exc' = exc \cup blocked \cup suspended
  /\ blocked' = {} /\ suspended' = {}
  /\ phase' = "exit"
  /\ UNCHANGED <<spawnq, freed>>

DownSpawned(z) ==   \* without abandon(_spawn_coroutines)
  /\ freed' = freed \cup Range(z)
  /\ zombies' = << >>
  /\ phase' = "down"
  /\ UNCHANGED <<spawnq, wakeupq, exc, blocked, suspended>>

Down(z) ==
  /\ freed' = freed \cup Range(z) \cup Range(spawnq)
  /\ zombies' = << >> /\ spawnq' = << >>
  /\ phase' = "down"
  /\ UNCHANGED <<wakeupq, exc, blocked, suspended>>

ExitRound(z) ==
  IF wakeupq = << >> /\ blocked = {} /\ suspended = {}
  THEN Down(z)
  ELSE Interrupt /\ zombies' = z

Interrupts == /\ phase = "exit" /\ running = None /\ wakeupq = << >>
              /\ ExitRound(zombies)
              /\ UNCHANGED <<loop, running, server, serving, mail, meddled>>
-----------------------------------------------------------------------------
(* The loops of run(). *)
ResumeSpawned ==
  /\ phase = "run" /\ loop = "spawn" /\ running = None /\ spawnq # << >>
  /\ running' = Head(spawnq)
  /\ spawnq' = Tail(spawnq)
  /\ UNCHANGED <<phase, loop, wakeupq, waiting, ended, exc, mail, meddled>>

Spawned ==
  /\ phase = "run" /\ loop = "spawn" /\ running = None /\ spawnq = << >>
  /\ loop' = "wakeup"
  /\ UNCHANGED <<phase, running, queues, waiting, ended, exc, mail, meddled>>

(* Also the inner loop of exit(). *)
ResumeLast ==   \* the coroutine woken last
  /\ phase = "exit" \/ (phase = "run" /\ loop = "wakeup")
  /\ running = None /\ wakeupq # << >>
  /\ running' = Last(wakeupq)
  /\ wakeupq' = Front(wakeupq)
  /\ UNCHANGED <<phase, loop, spawnq, waiting, ended, exc, mail, meddled>>

ResumeWoken ==
  /\ phase = "exit" \/ (phase = "run" /\ loop = "wakeup")
  /\ running = None /\ wakeupq # << >>
  /\ running' = Head(wakeupq)
  /\ wakeupq' = Tail(wakeupq)
  /\ UNCHANGED <<phase, loop, spawnq, waiting, ended, exc, mail, meddled>>

(* The end of one round of run(): the coroutine in serve() is woken for a   *)
(* message; with nothing left to resume the zombies are destroyed, and      *)
(* without a coroutine that waits the process is down.                      *)
WakeServerEarly ==   \* does not look at the inbox
  /\ phase = "run" /\ loop = "wakeup" /\ running = None /\ wakeupq = << >>
  /\ server # None
  /\ wakeupq' = IF server \in suspended THEN <<server>> ELSE wakeupq
  /\ suspended' = suspended \ {server}
  /\ server' = None
  /\ loop' = "spawn"
  /\ UNCHANGED <<phase, running, spawnq, blocked, serving, ended, exc, mail, meddled>>

WakeServer ==
  /\ phase = "run" /\ loop = "wakeup" /\ running = None /\ wakeupq = << >>
  /\ inbox # 0 /\ server # None
  /\ wakeupq' = IF server \in suspended THEN <<server>> ELSE wakeupq
  /\ suspended' = suspended \ {server}
  /\ server' = None
  /\ loop' = "spawn"
  /\ UNCHANGED <<phase, running, spawnq, blocked, serving, ended, exc, mail, meddled>>

DispatchedEarly ==   \* leaves the loop although coroutines were spawned
  /\ phase = "run" /\ loop = "wakeup" /\ running = None /\ wakeupq = << >>
  /\ ~(inbox # 0 /\ server # None)
  /\ loop' = "spawn"
  /\ freed' = freed \cup Range(zombies)
  /\ zombies' = << >>
  /\ phase' = IF blocked = {} /\ suspended = {} THEN "down" ELSE "take"
  /\ UNCHANGED <<running, queues, waiting, exc, mail, meddled>>

Dispatched ==
  /\ phase = "run" /\ loop = "wakeup" /\ running = None /\ wakeupq = << >>
  /\ ~(inbox # 0 /\ server # None)
  /\ loop' = "spawn"
  /\ IF spawnq # << >>
     THEN UNCHANGED <<phase, ended>>
     ELSE /\ freed' = freed \cup Range(zombies)
          /\ zombies' = << >>
          /\ phase' = IF blocked = {} /\ suspended = {} THEN "down" ELSE "take"
  /\ UNCHANGED <<running, queues, waiting, exc, mail, meddled>>

(* One message; with none the process is parked until one comes. *)
Take ==
  /\ phase = "take" /\ mailbox # << >>
  /\ mailbox' = Tail(mailbox)
  /\ LET m == Head(mailbox) IN
     \/ /\ m.kind = "kill"
        /\ ExitRound(zombies)
        /\ UNCHANGED inbox
     \/ /\ m.kind # "kill"
        /\ phase' = "run"
        /\ inbox' = IF m.kind = "post" THEN inbox + 1 ELSE inbox
        /\ blocked' = blocked \ {m.co}
        /\ wakeupq' = IF m.co \in blocked THEN Append(wakeupq, m.co) ELSE wakeupq
        /\ exc' = IF m.kind = "failure" THEN exc \cup ({m.co} \cap blocked) ELSE exc
        /\ UNCHANGED <<spawnq, suspended, ended>>
  /\ UNCHANGED <<loop, running, server, serving, meddled>>
-----------------------------------------------------------------------------
(* What the coroutine that runs may do.  After block() or suspend() has     *)
(* thrown in it, its stack unwinds: it neither waits nor serves again,      *)
(* unless the exception is caught.                                          *)
Runs(c) == running = c /\ c \notin serving
Waits(c) == Runs(c) /\ (c \in exc => Catching)

(* Back in resume(co): get_result() throws what is in the Result.           *)
Yields(c) == /\ running' = None
             /\ zombies' = IF c \in exc THEN Append(zombies, c) ELSE zombies

Spawn(c, d) ==
  /\ Runs(c) /\ d \in Unborn
  /\ spawnq' = Append(spawnq, d)
  /\ UNCHANGED <<phase, loop, running, wakeupq, waiting, ended, exc, mail, meddled>>

(* coroutine::wakeup, of any coroutine in _suspend_coroutines: also of one  *)
(* that waits in serve(), although there is no message for it.              *)
WakeupAgain(c, d) ==   \* does not erase d from _suspend_coroutines
  /\ Runs(c) /\ d \in suspended
  /\ wakeupq' = Append(wakeupq, d)
  /\ meddled' = (meddled \/ d \in serving)
  /\ UNCHANGED <<phase, loop, running, spawnq, waiting, ended, exc, mail>>

Wakeup(c, d) ==
  /\ Runs(c) /\ d \in suspended
  /\ suspended' = suspended \ {d}
  /\ wakeupq' = Append(wakeupq, d)
  /\ meddled' = (meddled \/ d \in serving)
  /\ UNCHANGED <<phase, loop, running, spawnq, blocked, server, serving, ended, exc, mail>>

Suspend(c) ==
  /\ Waits(c)
  /\ suspended' = suspended \cup {c}
  /\ Yields(c)
  /\ UNCHANGED <<phase, loop, queues, blocked, server, serving, freed, exc, mail, meddled>>

(* request(), sleep(), wait() *)
Block(c) ==
  /\ Waits(c)
  /\ blocked' = blocked \cup {c}
  /\ Yields(c)
  /\ UNCHANGED <<phase, loop, queues, suspended, server, serving, freed, exc, mail, meddled>>

(* coroutine::yield(): a response to oneself, then block(). *)
YieldCpu(c) ==
  /\ Waits(c) /\ Len(mailbox) < MaxMailbox
  /\ mailbox' = Append(mailbox, [kind |-> "response", co |-> c])
  /\ blocked' = blocked \cup {c}
  /\ Yields(c)
  /\ UNCHANGED <<phase, loop, queues, suspended, server, serving, freed, exc, inbox, meddled>>

(* Any coroutine may serve, several may.  Without a message it waits, and   *)
(* the pointer in server is of the one that came last.                      *)
ServeWait(c) ==
  /\ Waits(c) /\ inbox = 0
  /\ server' = c
  /\ serving' = serving \cup {c}
  /\ suspended' = suspended \cup {c}
  /\ Yields(c)
  /\ UNCHANGED <<phase, loop, queues, blocked, freed, exc, mail, meddled>>

(* Resumed in serve(), and not back from suspend() yet.                     *)
Called == serving \ (suspended \cup exc)

(* serve() takes a message: at once or after suspend() returned.  It is     *)
(* dropped (no handler), handled by c itself or by a new coroutine.         *)
ServeTake(c) ==
  /\ running = c /\ inbox # 0
  /\ c \in exc => c \notin serving /\ Catching
  /\ inbox' = inbox - 1
  /\ meddled' = (meddled \/ (c \notin serving /\ Called # {}))
  /\ serving' = serving \ {c}
  /\ \/ UNCHANGED spawnq
     \/ \E d \in Unborn : spawnq' = Append(spawnq, d)
  /\ UNCHANGED <<phase, loop, running, wakeupq, suspended, blocked, server, ended, exc, mailbox>>

(* After suspend() serve() does not look at the inbox again: take_front of  *)
(* an empty deque is undefined behaviour.  Nothing is said of what follows. *)
ServeEmpty(c) ==
  /\ running = c /\ c \in Called /\ inbox = 0
  /\ phase' = "undefined"
  /\ UNCHANGED <<loop, running, queues, waiting, ended, exc, mail, meddled>>

(* The exception of suspend() leaves serve(). *)
ServeThrow(c) ==
  /\ running = c /\ c \in serving /\ c \in exc
  /\ serving' = serving \ {c}
  /\ UNCHANGED <<phase, loop, running, queues, suspended, blocked, server, ended, exc, mail, meddled>>

(* The function returns or an exception leaves it.  (Its Result then holds  *)
(* an exception that nothing looks at but get_result() in resume(co).)      *)
Finish(c) ==
  /\ Runs(c)
  /\ running' = None
  /\ zombies' = Append(zombies, c)
  /\ UNCHANGED <<phase, loop, queues, waiting, freed, exc, mail, meddled>>

(* process::exit(). *)
ExitProcess(c) ==
  /\ Runs(c)
  /\ running' = None
  /\ LET z == Append(zombies, c) IN
     IF phase = "run"
     THEN ExitRound(z)
     ELSE /\ zombies' = z
          /\ UNCHANGED <<phase, queues, suspended, blocked, freed, exc>>
  /\ UNCHANGED <<loop, server, serving, mail, meddled>>
-----------------------------------------------------------------------------
(* Other processes: posts and kills, and answers to what was asked.         *)
Posts == inbox + Len(SelectSeq(mailbox, LAMBDA m : m.kind = "post"))
Answered(c) == \E i \in 1 .. Len(mailbox) : mailbox[i].co = c

Send == /\ phase \notin {"down", "undefined"} /\ Len(mailbox) < MaxMailbox
        /\ \E m \in Messages :
             /\ m.co # None => m.co \in blocked /\ ~Answered(m.co)
             /\ m.kind = "post" => Posts < MaxInbox
             /\ mailbox' = Append(mailbox, m)
        /\ UNCHANGED <<phase, loop, running, queues, waiting, ended, exc, inbox, meddled>>

Steps == \/ Interrupts \/ ResumeSpawned \/ Spawned \/ ResumeWoken
         \/ WakeServer \/ Dispatched \/ Take

Code(c) == \/ \E d \in Coroutines : Spawn(c, d) \/ Wakeup(c, d)
           \/ Suspend(c) \/ Block(c) \/ YieldCpu(c)
           \/ ServeWait(c) \/ ServeTake(c) \/ ServeEmpty(c) \/ ServeThrow(c)
           \/ Finish(c) \/ ExitProcess(c)

Next == Steps \/ (\E c \in Coroutines : Code(c)) \/ Send

(* A worker runs the process, and a coroutine gets on with its code.        *)
Fairness == WF_vars(Steps \/ \E c \in Coroutines : Code(c))

SafeSpec == Init /\ [][Next]_vars
Spec == SafeSpec /\ Fairness
-----------------------------------------------------------------------------
(* Types of the variables.                                                  *)
TypeOK == /\ phase \in {"run", "take", "exit", "down", "undefined"} /\ loop \in {"spawn", "wakeup"}
          /\ running \in Coroutines \cup {None} /\ server \in Coroutines \cup {None}
          /\ spawnq \in Seq(Coroutines) /\ wakeupq \in Seq(Coroutines) /\ zombies \in Seq(Coroutines)
          /\ suspended \cup blocked \cup serving \cup freed \cup exc \subseteq Coroutines
          /\ inbox \in Nat /\ mailbox \in Seq(Messages)
          /\ meddled \in BOOLEAN

(* A coroutine is in one place: it runs, is in one of the queues once, in   *)
(* one of the containers of waiting coroutines, among the zombies once, or  *)
(* destroyed.  So none is resumed twice for one wakeup, and none is         *)
(* destroyed twice.  When the process goes down by any of its three ways    *)
(* (nobody waits any more, process::exit(), a kill) all are destroyed.      *)
OnePlace ==
  /\ Cardinality(Created) =
       (IF running = None THEN 0 ELSE 1) + Len(spawnq) + Len(wakeupq) + Len(zombies)
         + Cardinality(suspended) + Cardinality(blocked) + Cardinality(freed)
  /\ phase = "down" => Created = freed

(* A coroutine that may still be resumed is not destroyed.                  *)
NotDestroyed == (suspended \cup blocked \cup Range(wakeupq) \cup {running}) \cap freed = {}

(* serve() takes from an empty inbox only after user code came between it   *)
(* and its message: woke it, or called serve() itself and took the message  *)
(* it was woken for.                                                        *)
ServeTakesMessage == phase = "undefined" => meddled

(* A woken coroutine is resumed, however many others are woken meanwhile.   *)
WokenRuns == \A c \in Coroutines : c \in Range(wakeupq) ~> running = c \/ phase = "undefined"

(* Unless coroutines go on waking each other for ever (the inner loop of    *)
(* run() over _wakeup_coroutines does not end then), run() gets to its end  *)
(* with every spawned coroutine started and serve() woken for what is in    *)
(* the inbox, or the process ends: it is not parked with either left to do. *)
Left == spawnq # << >> \/ (inbox # 0 /\ server # None)
DispatchStarts == []<>(running = None /\ wakeupq = << >>) =>
                    (Left ~> ~Left \/ phase \in {"exit", "down"})

(* Unless coroutines go on waking each other for ever (the loop of exit()   *)
(* runs out of woken ones again and again), exit() ends, although they wake,*)
(* spawn and block while it unwinds the others.                             *)
ExitEnds == []<>(running = None /\ wakeupq = << >>) => (phase = "exit" ~> phase = "down")
=============================================================================
