# A TLA+ verification of stp

stp is an actor runtime in C++: *processes* with mailboxes, run by a pool of
worker threads, each process a set of stackful *coroutines* that take turns.
Everything below is about the code in `src/src` and the echo example on top of it
(`src/examples/echo`); line numbers are those of
`PROJECT.json`, whose `map` names the lines each definition stands for.

`*.tla` hold the specifications, `MC*.tla` with `MC*.cfg` the instances TLC
checks, `*Proofs.tla` the proofs TLAPS checks, `PROJECT.json` the index.

    tlc -config MCMailbox.cfg MCMailbox     # one of the runs
    tlapm MailboxProofs.tla                 # one of the proof modules

## 1. The system

| Part | State | Operations | Talks to |
|---|---|---|---|
| **Mailbox** (`process.cpp`, class Mailbox) | `_write` under a spin lock, `_read` of the reader alone, the atomic flag `_wait` | `push` by any thread, `take` by the worker that runs the process | `push_message` resumes the process if `push` found its reader waiting |
| **Scheduler** (class Scheduler) | `_runq`, `_resumeq` with a lock each, `_idle_workers`, `_signaler`, `_threads`, `_stopFired`, `_stop`, `_exitcode` | `resume`, `run` (the workers' loop), `serve`, `stop` | `process::resume` of what it pops; `time::stop` and `fd::stop` from `stop` |
| **Registry and references** | `gProcsMap` under `gProcsLocker`; `_refcnt`, `_requestsMap` of each process | `create`, `find`, `ref`, `unref`, `retire`, `~Process`; `send`, `request`, `response`, `kill` | everything that knows a pid |
| **Process body** (class Process) | queues of coroutines to start and to resume, `_suspend_coroutines`, `_block_sessions`, `_zombie_coroutines`, `_inbox`, `_inbox_coroutine`, the exception in each coroutine's `Result` | `dispatch`, `run`, `resume(co)`, `exit`, `spawn`, `suspend`, `wakeup`, `block`, `unblock`, `yield`, `serve` | the mailbox; user code in coroutines |
| **Coroutine mutex** (`coroutine::detail::Mutex`) | one deque of coroutines, the front holds the lock | `lock`, `try_lock`, `unlock` | `suspend` and `wakeup` of the process |
| **Timer service** (`time.cpp`) | the atomic `TIME`; the wheel's lists in the service process | the tick thread; handlers of `UpdateMessage` and `TimeoutRequest`; `sleep` | mailboxes in both directions |
| **Descriptor polling** (`fd_epoll.cpp`) | `FDSET`, filters in segments, shared without a lock; the kernel's registrations | `wait` in a coroutine, the epoll thread | `process::response` to the mailbox of whoever waits |
| **Sessions and requests** (`process.cpp`, `process.hpp`) | `_sessions`, `_block_sessions` of the one who asks; `_inbox`, `_requestsMap` of the one asked | `new_session`, `block`, `unblock`, `~Session`; `request`, `yield`, `response`, `close_request`, the aborts of `~Process` | mailboxes in both directions, user code in handlers |
| **Polling with kqueue** (`fd_kqueue.cpp`) | the kernel's registrations, with process and session in them | as for epoll | as for epoll |
| **Reads and writes** (`io.cpp`) | buffer, position and count of the call under way | `read_full`, `read`, `write` | system calls, with `fd::wait` between |
| **TCP** (`tcp.cpp`) | addresses left to try, the last error | `listen`, `connect`, `accept` | system calls, with `fd::wait` between |
| **Echo** (`examples/echo`) | connections, buffers | a client that writes and reads back, a server with a process per connection | TCP, reads and writes |
| Events (`event.cpp`) | per-process tables of subscribers and responders | `subscribe`, `publish`, `request` ... | the process that calls |
| Contexts, stacks, message pools | free lists, thread-local with a global one behind | allocate, free | everything above |
| Start-up and exit (`main.cpp`, `exit.cpp`, `os.cpp`) | none | `main`, `stp::exit` | scheduler |

A process travels: `spawn` registers and queues it; a worker pops it, resumes
its coroutines until none can go on, takes one message and queues it again, or
parks it on an empty mailbox; whoever pushes next queues it; `exit`, a kill or
the end of its last coroutine takes it down; the last reference destroys it.

### What is hard, and what makes each part correct

- **Mailbox.** The reader decides to park while writers push; the writers'
  compare-exchange is outside the lock. No message may be slept on, and the
  process may be queued only once, since the queue is intrusive and `_read` has
  no lock. Messages stay in order across the swap of the two lists.
- **Scheduler.** A worker counts itself idle, lets go of the locks, then
  sleeps; a resumer takes the count down under another lock and signals later.
  Idle workers, signals and sleepers must agree; queued work must have somebody
  coming. `stop` reads the size of a vector that `serve` may still be filling.
- **References.** Anyone may hold the last one, and the destructor pushes
  messages and drops references itself. Counts must be exact, nothing may dangle
  (not even the pid that `spawn` returns), and a process that is down must go.
- **Process body.** `exit` interrupts coroutines that unwind, wake, spawn and
  wait meanwhile; `serve` looks at the inbox only before it sleeps; an exception
  stays in a coroutine. Each coroutine is in one place, runs once per wakeup and
  is destroyed once; the process must not sleep with work left.
- **Mutex.** The lock is handed to a coroutine that runs later, while `exit`
  interrupts the queue in any order. Never two holders, no lost hand-over.
- **Timer.** Masks and shifts decide a node's list; the clock may jump; the
  clock's reading and its message to the service are two steps. Nothing is early,
  late, lost or sent twice.
- **Polling.** The filters are read and written with no lock and outlive the
  use of a descriptor number; an event may be reported before the coroutine
  blocks; a coroutine may be killed in `wait`. No event is lost, `epoll_ctl` does
  not fail in an unwinding stack. With kqueue the registration outlives a kill.
- **Requests.** A session number is given out again as soon as its caller is back,
  while answers are on their way; a request is at the same time in `_inbox` and in
  `_requestsMap`; a server may die with requests in any of these. Each request is
  answered once, and the answer wakes the one who asked.
- **Reads and writes.** A transfer may stop anywhere, for `EAGAIN`, an error or the
  end, and goes on from there: nothing is lost, repeated or out of place, whichever
  side breaks, is killed or closes first, and the other side notices.

`PROJECT.json` lists the hazards one by one at their lines with the properties
that cover them, and for those no property covers, why.

## 2. The modules

Three abstract specifications say what a part promises, and the detailed ones are
shown to implement them through `INSTANCE ... WITH`:

- `MessageQueue`: a FIFO queue that closes. `Mailbox` implements it with
  `queue <- read \o write`, `Scheduler` with `runq \o resumeq`.
- `Timer`: a clock that sends each timeout at its tick. `TimerWheel` implements
  it with `pending` as the union of all its lists, also with the service around it.
- `RoundTrip`: a client connects, sends and gets back what it sent, or loses the
  connection, and neither takes for ever. `Echo` implements it.

Each module takes from the ones below what these were shown to promise, which is
how the parts compose:

| Module | What it models | What it takes for granted, and from where |
|---|---|---|
| `Mailbox` | one mailbox and the hand-over of its process between writers, queue and workers | `links` stands for the scheduler's queues |
| `Scheduler` | the pool, its queues, `stop` and `serve` | a process is resumed only when it is in no queue and by nobody but its runner while it runs (`Mailbox!OneToken`) |
| `Process` | one process: `dispatch`, `run`, `exit`, the calls of its coroutines, the messages that come in | one thread at a time (`OneToken`), FIFO mailbox (`QueueSafe`) |
| `Mutex` | the coroutine mutex under `exit` and under wakeups by user code | coroutines run one at a time; a woken one runs (`Process!WokenRuns`) |
| `Runtime` | many processes and threads: registry, counts, requests, destructors | one runner per process and no lost wakeup (`Mailbox`), queued ones get run (`Scheduler`), code yields (`Process`) |
| `TimerWheel` | the hierarchical wheel | - |
| `TimerService` | tick thread, service process, sleepers, around a `TimerWheel` | a FIFO mailbox (`QueueSafe`) |
| `FdPoll` | `wait`, the epoll thread, the kernel's registrations, descriptors closed and opened again; one of the two backends | a response reaches the mailbox and is handled when the coroutine has left its thread (`Mailbox`, `Process`) |
| `Requests` | one client with its callers and sessions, servers with handlers, the death of either | FIFO mailboxes, a response is handled when the caller has blocked, counts are exact (`Runtime!RefBalance`) |
| `BlockingIo` | `read_full`, `read`, `write` over the two streams of a connection | `fd::wait` returns when the descriptor is ready, or throws when the process is killed (`FdPoll`) |
| `Echo` | `connect`, `listen`, `accept`, the client and the server of the example, around `BlockingIo` | processes run (`Scheduler`, `Mailbox`, `Process`) |

### State and actions

What a spin lock protects is one step; so is an atomic access; between two of
them any other thread may come. Coroutines of one process do not interleave, so in
`Process` and `Mutex` a step goes from one switch or call to the next.

- **`Mailbox`.** `Push` is the locked half of `Mailbox::push`, `Notify` the
  compare-exchange behind it, `Resume` the link made by `sched::resume`. A worker
  does `Pop`, then one of `DispatchDown` (nothing left to live for), `TakeRead`,
  `TakeWrite` (which swaps the lists), `Park`; after a take it does `Requeue`
  (`kResume`) or `Kill` (`kDown`).
- **`Scheduler`.** `Resume` is the locked half of `resume()`, which claims an idle
  worker, `Signal` the send behind it. `CheckStop`, `Pick`, `Sleep`, `Wake` and
  `Return` are the loop of `run()`. `StopFire`, `StopOthers`, `StopSet`,
  `StopSize`, `StopSend` are `stop()` in its order; `Start`, `Emplaced`, `Served`
  are `serve()`. A thread that has started is counted by `size()` only at
  `Emplaced`. The signaler (not in the repository) counts sends.
- **`Process`.** `phase` says where `Process::resume` is, `loop` which loop of
  `run()`. `ResumeSpawned`, `Spawned`, `ResumeWoken`, `WakeServer`, `Dispatched`,
  `Take` and `Interrupts` are the process's own steps; `Spawn`, `Wakeup`,
  `Suspend`, `Block`, `YieldCpu`, `ServeWait`, `ServeTake`, `ServeThrow`, `Finish`,
  `ExitProcess` are what a coroutine may call. `exc` is the set of
  coroutines whose `Result` holds an exception that nothing clears; `Catching`
  says whether user code catches it and waits again. Any coroutine may serve, also
  several at once, and any that is suspended may be woken, also one in `serve()`:
  `meddled` records that user code came between a coroutine in `serve()` and its
  message. `ServeEmpty` takes from an empty `_inbox`; nothing is said of what
  follows (`phase` is `"undefined"` from then on).
- **`Mutex`.** `Lock`, `Wait`, `Resume`, `Abandon` are the ways through `lock()`
  (`Abandon` its catch block), `Unlock`, `Exit` (a round of `Process::exit`),
  `Wakeup` (by user code, recorded in `meddled`). `failed` records an assertion.
- **`Runtime`.** `Create`/`Start` are `spawn`, `Find`/`Push`/`Drop` a call
  that looks a process up, `Answer` the return of `block()` in `request`,
  `ResponseLost` an answer to somebody who is gone, `Pick` ... `Release` are
  `process::resume`, with `GoDown`, `Interrupted`, `Unreg`, `Retire` the way
  down, and `Abort`, `Destroyed` are `~Process`, on whichever thread it happens.
- **`TimerWheel`.** `Timeout` is `_timeout` with `_queue`, `Tick` is `_tick` with
  the cascade.  Sums wrap at the width of the wheel, as the code's do at 64 bits
  (14 + 5 x 10).
- **`TimerService`.** `Store` and `Send` are the two halves of the tick thread;
  the service handles an update one tick of the wheel at a time (`UpdateTick`,
  `Updated`), since others go on meanwhile, and a request with `HandleRequest`;
  `Sleep` is `time::sleep`. The module extends `TimerWheel`, whose `Tick` and
  `Timeout` are parts of these steps.
- **`FdPoll`.** `backend` says which of the two files is built in. With epoll,
  `Fill`, `FillRest` write the two fields of a filter in either order, `Add`, `Block`,
  `Del` are the rest of `wait`, `Interrupt` a kill in it; `Poll`, `PollEvents`, `Read`,
  `Respond` are the epoll thread, which reads a filter's fields in either order too.
  With kqueue, `AddEvent` and `Block` are `wait`, which leaves its registration if
  it is killed, and `Kevent`, `RespondEvent` the thread. `Deliver` is the process
  taking the response; `Open`, `Close`, `Arrive`, `UseUp` are the world.
- **`Requests`.** `Ask` and `Yield` are `new_session` to `block`; `Deliver` is a
  response in `Process::resume` with `unblock`, `Runs` the return of `block` with
  `~Session`. `AskLost` is `send()` and `block()` when the server is gone: `send()` does
  nothing, and `lost` keeps the request; `request()` throws `ProcessNotExist` then,
  before it has changed anything. A server's steps are `ServeStarts` (somebody calls
  `serve()`), `Take` (`serve_request`), `Serve` or `Unhandled` (`serve`),
  `HandlerResponds` or `HandlerForgets`, either of which may end with an exception that
  leaves `serve()` (`Ends`), `Down` and `Retire`, and `AbortOpen`,
  `AbortInbox`, `AbortMailbox`, the three loops of `~Process` in its order. Requests
  carry a number of their own, which the code does not have, to tell which one an
  answer is for. `misled` records that a second abort has woken somebody.
- **`BlockingIo`.** `Receive` and `Transmit` are one byte of a system call,
  `Complete`, `Fail`, `Again`, `Partial` the ways a call of `wild::io::Read` or `Write`
  returns, `Resume` the return of `fd::wait`. `base` is the position of the buffer
  pointer and `moved` the count, which the code keeps apart.
- **`Echo`.** `Bind`, `Listen` are `listen`; `Connect`, `ConnectFails`, `Connected`,
  `NextAddress` the loop of `connect`; `Accept`, `AcceptWait`, `ServerEnds` the server;
  `Send`, `Sent`, `Replied` the client's loop and `ReadSome`, `WriteBack` that of the
  process of a connection; `Broken`, `Kill`, `GiveUp` are the ends of a process, which close its
  descriptor, and `Halt` is the exit of the server's program after `ServerEnds`. `Establish`, `Refuse`, `Break` are the network.

Some definitions are not part of any `Next`: the variants of an action or helper
that stand before it, with a comment such as "without ref()", each a mistake one
could make there. `PROJECT.json` pairs each with a property that catches it.

## 3. What the runs check

The type invariants are proved (section 4), so the runs do not repeat them.

| Run | Instance | States | What it shows |
|---|---|---|---|
| `mailbox` | 2 writers, 2 workers, 3 pending messages, one content that kills | 25,544 | `OneToken`: parked, about to be resumed, queued once or run by one worker - never two of these, and always one until down. `NoLostWakeup`. `QueueSafe`, `QueueLive`: the two lists implement `MessageQueue` |
| `scheduler` | 2 workers, 1 thread outside, 3 processes, 2 exit codes | 24,572 | `SignalBalance`, `WorkConserving`: sleepers, idle count and signals agree, and no worker counts as idle while work has nobody coming. `StopReachesAll`, `ServeReturns`: `stop()`, also during start-up. `QueueSafe`, `QueueLive`: the two queues implement `MessageQueue` |
| `process` | 3 coroutines, mailbox 2, inbox 1 | 407,144 | `OnePlace`: a coroutine is in one container, and ended when the process is. `ServeTakesMessage`: `serve()` takes from an empty inbox only after user code came in between. `WokenRuns`; `DispatchStarts`: the process is not parked with a coroutine to start or a message for `serve()`; `ExitEnds` |
| `mutex` | 4 coroutines | 27,346 | `MutualExclusion`, also when user code wakes who waits, thanks to the assertion in `lock()`; `HandoffKept`, `AssertsHold`, `LockServed` when it wakes nobody who waits in `lock()` |
| `runtime` | 2 processes, 1 worker, 1 other thread | 132,083 | `RefBalance`: the count is the set of references. `NoDangling`, `RequestKept`. `Freed`: what is down gets destroyed unless somebody waits for its answer for ever. `KillEnds` |
| `timer` | 2 sleepers, timeouts 0, 1, 2, 5, wheel of 2 x 3 x 3 values, clock to 9 | 173,571 | `InPlace`; `SendsOnTime`: the wheel implements `Timer`; `NoneOverdue`: a sleeper is in the mailbox or in the wheel, once, and nothing there is overdue; `DeadlineExact`: nobody wakes before the clock that was last sent when the sleep began has gone on by the timeout; `EverySleepEnds` |
| `fd_poll` | 2 processes, 2 descriptors, 1 event, 2 waits each, both backends | 123,310 | `EventKept`, `CtlSucceeds`, `Genuine`, `WaitEnds` |
| `requests` | 2 callers, 2 servers, 2 sessions, 3 requests | 190,776 | `AnsweredOnce`, `AnswersOwn`; `RequestEnds`: a request is answered unless `send()` dropped it, its handler forgets it, it has none, it lies in the inbox of a server where nobody serves, or the server is down and kept from being destroyed |
| `echo` | 1 client with 2 addresses, messages of 3 bytes, streams of 1 | 170,121 | `BytesKept`: what is where adds up to the message; `ConnectHonest`: `connect` gives a connection that was made or an error that is set, and leaves no descriptor behind; `RoundTrips`: the example implements `RoundTrip`; `BothEnd` |

Three more runs end in a counterexample, a disagreement between the code and what
it says of itself (section 6).

### Bounds

- *Mailbox.* Two writers race with each other and with the parking reader, two
  workers would race for the process; with three pending messages the swapped
  list has one left while another is written. The proofs need no bound.
- *Scheduler.* Two workers and an outside thread give claims that overlap with
  sleeping and with each other, three processes a batch in both queues. The
  proofs need no bound.
- *Process.* One coroutine serves, one waits, one unwinds or is spawned meanwhile:
  what a coroutine can do to another takes two and the serving one, and two that
  serve leave one to wake them. Two messages let a kill or an answer come behind a
  post; one message in the inbox is what two that serve can take from each other.
  With finitely many coroutines nobody spawns for ever: that would keep `run()` in its
  first loop (`process.cpp:554`), ahead of whoever is woken, by design like the loop below.
- *Mutex.* A holder, the next, one to interrupt out of the middle, one behind it.
- *Runtime.* Two processes ask, answer, kill and destroy each other, also each in
  the other's destructor; the worker and the other thread find, run and drop at once. A
  process is created once. The proofs need no bound.
- *Timer.* The least wheel with two levels of more than one list; the clock goes
  over each boundary of the least level and of the first one (2, 4, 6, 8) and, with
  timeout 5, a node goes down from the second level through the first. The clock's
  jumps of 1 to 9 cover one tick, several and all of the timeouts; two sleepers meet in one list.
- *Requests.* Two callers and two sessions: one waits while the other's session is
  given back and used again, which takes the third request; two servers let one
  request be aborted twice while the session is with the other. The proofs need no bound.
- *Echo.* Message and streams are at the limit of `EchoAssumption`, where every call
  stops in the middle and each buffer fills. Two addresses let `connect` fail and go
  on. One client: clients share only the listener, whose queue holds an attempt that
  failed beside the one that follows. The proofs need no bound.
- *Descriptors.* Two waits make a response for an old session possible, two
  descriptors let a number change hands while the other waits. Two events as well
  would show the outer `epoll_wait` reporting both sets; with two descriptors that
  is beyond what runs in minutes, and the proofs cover any number of both.

Deadlock is not checked: every one of these systems may stop (nobody pushes,
`serve` has returned, the clock is at its bound, a bound on requests or waits is reached); what must not stop is stated as
liveness.

### Fairness

Weak fairness stands for a thread that the operating system schedules: a worker
(`Mailbox`, `Scheduler`), a writer inside `push_message`, the tick, epoll and
kqueue threads, the worker that runs a process (`Process`, `Requests`, `Echo`).
No fairness is assumed of whoever starts something: nobody has to push, lock,
sleep or wait.

- `Scheduler`: strong for `Return` and `StopOthers`, which a resume in progress
  disables for a moment: a process gives its worker back after finitely many
  resumes, and a cancelled thread reaches a cancellation point.
- `Runtime`: strong for the end of a turn and for the way down (`Ends`, `Outer`),
  since a coroutine's calls come between; it says that a process's code yields.
  Strong for `Pick` of each process, what `Scheduler!QueueLive` provides.
- `Mutex`: a woken coroutine is resumed (`Process!WokenRuns`), a holder unlocks.
- `Requests`: a handler that was started comes to its end, with or without an answer;
  that servers go down, that anybody calls `serve()` or that a caller asks, is not assumed.
- `Echo`: a connection is made or refused in the end (the operating system's timeout);
  that it breaks, that anybody is killed or that the server ends, is not assumed.
- `Process`: `ExitEnds` and `DispatchStarts` are conditional on their left side:
  coroutines that wake each other for ever keep `exit()`, or `run()`, in its loop over
  the woken ones, by design of cooperative coroutines. `WokenRuns` needs no condition.

## 4. What is proved

The modules `*Proofs` hold for every value of the constants under the `ASSUME`s of
the modules they are about (finite sets of threads, disjoint where two sets of threads
are, finitely many coroutines, a clock that fits the wheel). What a module needs about
queues as sequences or about quotients stands at its beginning.

| Theorem | Says |
|---|---|
| `MailboxProofs!ProcessRunsOnce`, `WakeupNeverLost` | `OneToken`, `NoLostWakeup` |
| `MailboxProofs!MailboxIsQueue` | the mailbox implements `MessageQueue` |
| `SchedulerProofs!SignalsMatchSleepers`, `WorkIsConserved`, `StopWakesAll` | `SignalBalance`, `WorkConserving`, `StopReachesAll` |
| `SchedulerProofs!ExitCodeIsFirst` | `FirstCodeWins`: only the first `stop()` sets the exit code |
| `SchedulerProofs!SchedulerIsQueue` | the two run queues implement `MessageQueue` |
| `ProcessProofs!CoroutinesInOnePlace`, `ServeFindsMessage` | `OnePlace`, `ServeTakesMessage` |
| `ProcessProofs!CoroutinesNotDestroyed` | `NotDestroyed`: no container points to a destroyed coroutine |
| `MutexProofs!MutexExcludes`, `HandoffIsKept`, `AssertionsHold` | `MutualExclusion`, `HandoffKept`, `AssertsHold` |
| `RuntimeProofs!CountIsBalance`, `NothingDangles`, `RequestsAreKept` | `RefBalance`, `NoDangling`, `RequestKept` |
| `RuntimeProofs!DestroyedByOne` | `DestroyedOnce`: one thread destroys a process, and it is down |
| `IoProofs!CtlNeverFails`, `EventsAreKept`, `ResponsesAreGenuine` | `CtlSucceeds`, `EventKept`, `Genuine` |
| `IoProofs!BytesAlwaysKept`, `ConnectAlwaysHonest` | `BytesKept`, `ConnectHonest` |
| `IoProofs!ReplyIsRequest` | `RoundTripsSafe`: the example implements `RoundTrip`, but for the time it may take |
| `RequestsProofs!RequestsAnsweredOnce`, `AnswersAreOwn` | `AnsweredOnce`, `AnswersOwn` |
| `TimerProofs!WheelInPlace`, `WheelSendsOnTime` | `InPlace`, and that the wheel implements `Timer`, whatever is asked of it |
| `TimerProofs!ServiceInPlace`, `ServiceSendsOnTime` | the same of the wheel in the service |
| `TimerProofs!ServiceNoneOverdue`, `ServiceDeadlineExact` | `NoneOverdue`, `DeadlineExact` |

All but two modules also prove `TypeCorrect`, that `TypeOK` always holds; in
`RequestsProofs`, `TimerProofs` and the second half of `IoProofs` (`Types`) the types are a
part of the invariant. `IoProofs` is about polling and about reads and writes, which wait by it.

- **Mailbox.** `TypeOK`, `OneToken` and `NoLostWakeup` are inductive
  together. `NoLostWakeup` rests on `OneToken`: while the flag is set nobody runs the
  process, so no worker touches the lists of a parked one. For the queue, the swap keeps `read \o write`.
- **Scheduler.** `Counts` relates the cardinalities of the workers that sleep, look
  for work or signal to `idle`, `signals` and the lengths of the queues;
  `StopOrder` says that one worker at most is inside `stop()`, in which order, and
  what is set by then. A worker that starts after `stop()` has read `size()` still
  has its check of `_stop` before it, so it needs no signal.
- **Mutex.** `Queued` and `HolderFirst` (the holder is the front, nobody is in the
  queue twice) hold whatever happens. That whoever returns from `suspend()` in
  `lock()` without an exception is the front (`WokenFirst`), and that the front is
  awake (`FrontAwake`), hold until user code wakes somebody who waits.
- **Runtime.** `Refs(p)` is the set of references as pairs of a kind and a holder.
  Each step adds one, removes one, moves one or none (`AddRef`, `RemoveRef`,
  `MoveRef`, `KeepRefs`), and so does the count. The rest of the invariant says
  where a process can be: `Running` (one worker), `Starting` (`spawn`'s is
  registered and not run), `Requesting`, `Registered` (what may be found or queued is
  in the registry, which holds a reference until the process is down) and `Dead`
  (the destructor runs at count zero).  Hence the last reference to go leaves a
  process that is down (`LastRef`).
  `RequestKept` needs one more fact, that whoever waits can be found (`Findable`).
- **Process.** `Places` says that the containers have no coroutine in common and
  `NoTwice` that no queue repeats one; `OnePlace` is that in cardinalities. `Still` and
  `Quiet` are what holds between runs. `Served` says why `serve()` finds a message after
  its `suspend()`: unless user code meddled, at most one coroutine has been resumed in it
  and is not back yet (`Called`), and then there is a message; `run()` wakes it for one,
  only when nobody is left to resume, and the others take none meanwhile. The theorems assume `~Catching`, that coroutines let the exceptions of the
  runtime through: with `Catching` they are false (section 6).
- **FdPoll.** `Owned` and `Written` say whose filter a slot has, `Registered` and
  `Holds` that with epoll a registration and a coroutine between `ADD` and `DEL` go
  together, `ReadWhole` that the epoll thread reads only what was filled once.
  `Genuine` has an invariant of its own, `Fresh`: while nobody was killed, an event
  that was reported is in one place and its waiter still waits.
- **Echo.** `CallsSound` says of each call of `read_full`, `read` and `write` that it goes
  on where it stopped and fits its buffer, and that without an error it has moved all;
  `ConnEnds` and `ClientEnds` which ends a process in a given place has open, and that
  the attempts a client has not made yet are untouched. `BytesKept` is not inductive as
  it stands: after the server's process has ended, what the client has read and
  what is on the way back must still be the beginning of the message, for `read_full` to
  give back the right bytes. `Carried` says so: these two come first, and a rest; as long
  as the server's end is not closed, the rest is what the server holds, what is
  on the way there and what is not sent. A byte goes from the front of
  one of these sequences to the back of the one before it (`HeadMoves`,
  `HeadMovesBetween`), hence their concatenation stays; when `read_full` returns without an
  error, it has `Size` bytes and the rest is empty (`RepliedWhole`). Nothing in the proof uses
  `Size <= 2 * Cap + 1`, which only the liveness needs.
- **Requests.** `Holds(k, s, n, i)` says that request `i` of session `n` is at place
  `k` of server `s`: its mailbox, its `_requestsMap`, or answered. What is held belongs to
  somebody who waits (`Belongs`), is held once (`Single`), and who waits is held
  somewhere (`Somewhere`). Each step moves one, starts one, ends one or none (`Moves`,
  `Starts`, `DeliverCore`, `Stays`). What `send()` dropped is with nobody, and its caller is
  left out (`AskLostCore`). `Served` ties `_inbox` and the handlers of a server
  that is up to its `_requestsMap`: so a handler answers a request that is still open.
  All this holds until a second abort reaches a caller, and `misled` is part of
  what is proved.

- **Timer.** The wheel may have any radices and any number of levels. `Block(t, l)`
  is the number of the block of level `l` that time `t` is in; a block is `LevelValue`
  of the level below (`Blocks`), so the digits of two times are compared by comparing
  their blocks (`LaterDigit`), and when the clock moves by one tick, a block changes only
  where all lower digits become zero (`TickStays`, `TickEnters`). `InPlace` is inductive
  by itself: `_queue` finds a level for what is not near (`LevelFound`) and puts it in
  place (`QueueKeeps`), a tick keeps what it does not send (`TickKeeps`), and of the lists
  above only the one the clock enters must come down (`CascadeKeeps`). What is in place
  and expires now is in the list that `_send` takes, and nothing else is (`SentExpires`):
  so a tick is a step of `Timer`. `Span` is a recursive function; its values are shown
  to be positive numbers by the least number for which they would not be (`LeastOf`, `UpTo`).
- **Timer service.** `InOrder` says that the updates in the mailbox grow from the
  service's clock to what was sent last, `AskedInOrder` that a request stands behind the
  update its sleeper goes by and before all later ones; so the clock shows that very
  value when `HandleRequest` comes to it, and the node expires when the sleeper said
  (`NodesExact`). `InOnePlace` keeps a second node of the same sleeper away. That the
  sum fits is due to the bound on the clock (`Room`); `timer_overflow` shows the code
  without it.

Only model-checked: every liveness property (TLAPS has no way to prove it under
fairness here), also the part of `RoundTrips` that is about time.

## 5. What is not modelled

- **Weak memory.** All modules are sequentially consistent. The relaxed accesses of
  `_wait`, `_refcnt` and the unlocked reads of `_threads.size()` and of the filters
  are atomic and may come in any of the orders named above, no more than that.
- **The wild library** is not in the repository (a submodule). Spin locks are atomic
  steps, lists are sequences, `Signaler` counts its sends, `IdAllocator` gives
  any free number (`Requests`; in `Process` a session is a coroutine, in `FdPoll` a number
  used once), `io::Read` and `Write` repeat a system call until it fails, `FreeList` has no model.
- **Widths.** Process ids do not wrap (each is used once in `Runtime`); the sign of
  a session, from which `typeOfMessage` tells a request from a response, is not
  modelled: it takes 2^31 sessions in use. The timer's width is (`TimerWheel`).
- **Descriptors.** One coroutine at a time waits for an event of a descriptor, since
  there is one filter for both. `Genuine` is about runs in which nobody is killed
  inside `wait()`: a filter outlives the killed waiter, and the epoll thread may still
  answer with what it read.
- **Several answers to one request.** A handler responds once or never, and a session is
  sent once. A second `response()` by the handler, or one session sent to two servers, is
  user code that says one thing twice; the number may be another's by the second time,
  as with the second abort (section 6). Which coroutines of a server are in `serve()` is in
  `Process`; `Requests` keeps only whether there is one.
- **Handler table and environment** of a process: maps that one coroutine at a time
  uses. That `serve()` calls a handler through a reference into a table the handler
  may change is a question of lifetimes inside one call.
- **Contexts, stacks, message pools** (`context.cpp`): `take` and `push` of
  `wild::FreeList`, whose source is missing, under one lock or on one thread, and a
  branch on a size. Thread-local variables across `swapcontext` are a question of the
  generated code.
- **Events** (`event.cpp`): one coroutine calls the functions of one table one after
  the other; the state between calls is the subscribers'. What happens if a
  subscriber changes the table that `publish` goes through is undefined behaviour of
  the hash table.
- **Start-up, address parsing, type wrappers**: no state that interleaves.
- **Of the echo example**: the sequence numbers it asks `seqService` for, the count of
  clients that have exited, the shuffled data (a round stands for it). `accept` runs out of
  descriptors as `ServerEnds`, and nothing says that the server should try again.
  The client writes a whole message before it reads: `EchoAssumption` keeps the message small
  enough for buffers and streams to take it, as its 37 bytes are.

Where the code's wording matters to nothing that is checked (logging, error texts,
formats) nothing stands for it.

## 6. Where the code disagrees with itself

- `timer_overflow`: `_queue` asserts `expire >= time` (`time.cpp:115`), but the sum of
  clock and timeout (`time.cpp:179`) is unchecked and wraps for a timeout near 2^64.
- `mutex_foreign_wakeup`: `lock()` asserts after `suspend()` that its coroutine is the
  front (`process.cpp:1069`), but suspends once (`process.cpp:1067`) and may be woken
  by anybody who calls `coroutine::wakeup`, for instance for an earlier `suspend()`.
  `MutualExclusion` survives this in the model, which stops at the failed
  assertion; without assertions two coroutines would be in the critical section.
- `process_catching`: a coroutine may block again (`process.cpp:547`), but once it has
  caught the exception of a failed request its `Result` still holds it
  (`process.cpp:229`), so the next time it waits it is taken for finished and destroyed
  while `_block_sessions` or `_suspend_coroutines` point to it.

One more thing the runs came upon contradicts nothing that is written down: a request
in `_inbox` is in `_requestsMap` too, so `~Process` aborts it twice (`process.cpp:751` and
`:755`). The second abort is dropped, unless its session is in use again by then; then
it wakes a caller whose request has not been answered. `AnsweredOnce` and
`AnswersOwn` hold up to there.

Nor do these three, which the models go through and the properties name as exceptions:

- The wakeup that breaks the mutex also reaches `serve()`, which does not look at `_inbox`
  again after `suspend()` (`process.cpp:704` to `706`): if user code wakes a coroutine that
  waits there, or a second coroutine serves and takes the message the first was woken
  for, it takes from an empty deque, which is undefined behaviour. `ServeTakesMessage` says
  that nothing else gets there.
- `send()` to a process that is gone does nothing and says so to nobody
  (`process.cpp:938`), so a coroutine that sends under a new session and calls `block()`
  waits until its own process goes down; `request()` throws in the same case. Such
  requests are in `lost`, which `AnsweredOnce` and `RequestEnds` leave out.
- What a callback throws leaves `serve()` (`process.cpp:713`) and ends the coroutine that
  serves. If others keep the process up, requests in `_inbox` wait until it goes down
  (`Unserved`), and the one in hand stays in `_requestsMap` as if forgotten (`Given`).

`Mutex` and `Process` state what holds otherwise: `AssertsHold` as long as user
code does not wake who waits in `lock()`, `OnePlace` and the others with `Catching`
false, where a coroutine lets the exceptions of the runtime through.

## 7. The order of the work, and what could follow

Written in this order: `MessageQueue` and `Mailbox` with proofs (the hand-over
everything else rests on), `Scheduler` with proofs, `Timer` and `TimerWheel`,
`TimerService`, `Mutex` with proofs, `Process`, `Runtime` with proofs, `FdPoll`; then
the wheel inside the service, kqueue inside `FdPoll`, `BlockingIo`, `RoundTrip` and `Echo`,
`Requests`, and the proofs of `FdPoll`, `Process`, `Requests`, of `RequestKept`, of
the timer and of `Echo`.

What could follow, the most useful first:

1. **Two processes in one wait**: `FdPoll` with more than one waiter for a descriptor and
   event, once the code says what they should get.
