# A TLA+ model of stuck

stuck is a multi-threaded runtime of stackful coroutines. A *task* is a group of
coroutines that one worker thread at a time runs cooperatively; tasks are
scheduled over several workers, and coroutines meet through sessions, channels,
selects, timers and I/O. This directory models the concurrent core of it: what
is written with atomics, mutexes, condition variables and raw pointers, where a
test reaches one interleaving of very many.

Paths below are relative to the repository (`src/task/session.rs` is the crate's
file of that name).

## 1. The system

| Component | State | Operations | Interacts with |
|---|---|---|---|
| **Session** `task/session.rs` | a status word (`Empty`, `Joining`, `Value`, `Joined` and a release bit), a union of joiner and value, a count of wakers | `wake`, `send`, `set_result`, clone, drop of a `SessionWaker`; `wait`, `wait_uninterruptibly`, drop of a `Session`; `interrupt`, `cancel` | settles a blocked coroutine or thread: `Task::wake`, `Thread::unpark` |
| **Scheduler, runtime** `runtime.rs` | run queue, registry of tasks, stop counter, one condition variable | `spawn`, `sched`, `resume`, `run` and `serve` of a worker, `stop`, `Runtime::drop` | runs tasks; starts and stops the timer and the reactor |
| **Task, coroutine** `task.rs`, `coroutine/mod.rs` | running, yielding, suspending and blocking coroutines, the unblocked ones (a mutex), the flag `running` | `sched`, `abort`, `interrupt`, `unblock`, `wake`, `grab`, `block`, `suspend`, `resume`, `yield`, `spawn` | resumed by wakers of sessions, queued with the scheduler |
| **Parallel channel** `channel/parallel.rs`, `channel/shared.rs` | a deque, permits to send and receive, two queues of waiters, the handles | `send`, `recv` and their try forms, select, consume, watch, unwatch, `close`, clone and drop | waits on sessions, parked threads and selectors |
| **Serial channel, suspension** `channel/serial.rs`, `coroutine/suspension.rs` | a deque, two queues of waiters, the handles; a value or the coroutine that waits for it | the same within one task, unsynchronised | `Task::suspend`, `Task::resume` |
| **Timer** `time.rs` | the time it was told, a hierarchical wheel of sleepers | `sleep`, the thread `tickr`, the task `timer` (`timeout`, `update`, `tick`) | wakes sessions; a parallel channel carries its messages; the last worker stops it |
| **Select, parker** `select.rs`, `select/thread.rs` | one waiter shared by the selectors of all selectables; a mutex and a parked thread | `try_select`, `select`, `watch_permit`, `unwatch_permit`, `apply`, `park`, `unpark` | every selectable |
| **Network, TCP** `net/mod.rs`, `net/tcp.rs` | a slab of registered entries, an edge-triggered poll and its thread, tokens to be freed; listeners, streams, halves | register, unregister, poll, `wake_events`; bind, connect, accept, read, write, split, drop | wakes readers and writers over parallel channels |
| **IO poller, files** `io/poller`, `fs/mod.rs` | two channels of requests, the requests of the io_uring and its batch of entries, a pool of threads; the descriptor of a `File` | request, submit, complete, cancel, close | `Session::wait_uninterruptibly`; a reader of the network registry tells of completions |
| **Macros** `select_macro.rs` | – | the conditions of `select!`, `default`, `complete`, the consumption of the permit | Select |
| Context, stacks, errors | | | |

What makes it hard: two wakers, the interruption of an aborted task and the
waiting coroutine race on one word (Session); a worker parks a task while a
waker unblocks a coroutine of it (Task); the runtime stops while tasks are woken
and run (Scheduler); permits are promised now and consumed later, after others
closed, filled or drained the channel (channels); a select hands its selectors
out one by one while others already apply them (Select); a waiter is told first and
runs last (both channels); deadlines cascade through a wheel whose clock is late
(Timer); coroutines of a task wait for each other in circles and are aborted, over
and over (Suspension); the kernel still writes to a buffer whose owner is aborted,
completions race cancellations, and addresses of sessions are used again (IO
poller); events of a socket are handled after it was dropped and its token given
away, and readiness is told once while signals are dropped (Network). `PROJECT.json` lists these hazards at the lines where they bite, with
the properties that watch them.

What makes each part correct:

- Session: one winner; the union never raced; nobody waits for a value that is
  there; no interruption swallows a value.
- Scheduler and task: a task run by one worker at a time and never after it is
  dropped; no wakeup lost; stop ends with nothing left.
- Channels: capacity, order, each value once; a permit keeps its promise; nobody
  waits beside what it waits for; the end is announced once it is true.
- Select: one permit applied, every other one undone or passed on, every watch
  withdrawn; nobody sleeps beside what is ready.
- Timer: no sleeper left asleep, woken at its deadline, and before its time by no
  more than the ticker is late.
- Suspension: `suspend()` returns what was sent and panics only when nothing was; a
  task ends with no coroutine left on its stack.
- IO poller: buffer and descriptor outlive the operation; a cancellation reaches
  only its own operation; every operation is answered; dropping the runtime ends
  the threads.
- Network: an event is told to the socket it is of; an entry is freed once; nobody
  waits for readiness that was told already.

## 2. Modules

| Module | Models | Role |
|---|---|---|
| `OneShot` | – | abstract: at most one setter wins, the owner takes it once |
| `Session` | `task/session.rs`, what `task.rs` does to a blocked session | implements `OneShot` |
| `SessionProofs` | – | theorems about `Session`: the union; who wins, what the owner is told, and that it implements `OneShot` |
| `Scheduler` | `runtime.rs`, `task.rs`, `coroutine/mod.rs` | workers, tasks, coroutines, wakers and `Runtime::drop` composed |
| `ParallelChannel` | `channel/parallel.rs`, `channel/shared.rs` | the channel with all its parties |
| `Serial` | `channel/serial.rs`, the task that runs its coroutines | channel, waits and task composed |
| `Suspension` | `coroutine/suspension.rs`, `spawn` of `coroutine/mod.rs`, `sched` and `abort` of `task.rs` | suspensions, join handles, their selects and the task composed |
| `Select` | `select.rs`, `select/thread.rs`, what `select_macro.rs` expands to, the receivers it selects over, `JoinHandle`, `interval`, `after` | selects, their waiters and their selectables composed |
| `Poller` | `io/poller`, `fs/mod.rs`, as built for Linux | files, channels, uring thread, pool and `Runtime::drop` composed |
| `Net` | `net/mod.rs`, `net/tcp.rs` | sockets, registry and poller thread composed |
| `Deadlines` | – | abstract: a session is settled by the tick of its deadline |
| `Timer` | `time.rs` | ticker, channel, timer task and sleepers composed; implements `Deadlines` |
| `SchedulerProofs`, `ParallelChannelProofs`, `SuspensionProofs`, `SelectProofs`, `PollerProofs`, `NetProofs` | – | theorems about the module each is named after; `SuspensionProofs` ends with those about `Serial`, as `Chan == INSTANCE Serial`, and `NetProofs` with those about `Timer`, as `Wheel == INSTANCE Timer` |
| `SequenceFacts` | – | lemmas about sequences and small sets that those proofs share |
| `MC*` | – | instances for TLC |

Definitions are named after the functions they model; `PROJECT.json` maps each to
its lines. Operators introduced by "Variant:" are not part of any specification:
each is a definition with a mistake in it, kept to show which property notices.

### Session

One atomic access of the status word, or one access of the union, is a step.
`set_value` becomes `SetLoad`, `SetCasEmpty`, `SetWrite`, `SetCasJoining`,
`SetSwap`, `SetUnpark`, `SetPublish` and `WakeTask`, walked by each handle and by
the thread that interrupts the joining task; `join_value` becomes `JoinLoad`,
`JoinCas`, `JoinWrite`, `JoinPublish`, `JoinClaim`, `JoinTake`, and `drop_value`
likewise. `Interrupt`, `Cancel`, `Unblock` and `Cease` are the parts of `task.rs`
that see the session: abort, the cancellation of `wait_uninterruptibly`, the
return to `running_coroutines`, and the end of the task's memory. `status` and
`released` are the two parts of `SessionStatus`; `cell` says which member of the
union was written last. Atomic accesses interleave sequentially consistently:
the word is accessed with acquire and release orderings around each use of the
union, and the model says nothing about weaker ones. A wake that an earlier
session of the same coroutine left outstanding (`StaleWakes`) can only reach a
coroutine that was aborted, for only an interruption resumes one whose winner
has yet to call `Task::wake`.

### Scheduler

The two mutexes `Scheduler::state` and `Task::unblocking_coroutines` delimit the
steps. `wpc` is where a worker is in `serve` and `run`, `wloop` which of the
three loops of `serve` it is in. `loc` is the collection of its task that holds a
coroutine. `Win`, `Wake` and `Requeue` are the steps of a waker on any thread:
it settles the session (all that `Session` details), pushes the coroutine and
takes `running`, and queues the task. What a coroutine does between two switches
is its choice: `Yield`, `Suspend`, `Resume`, `Block`, `Spawn`, `Finish`. What it asks
its task for needs the scope that `sched` enters (`Scoped`). The last sweep calls
`abort` itself and enters none: there main panics with "no running task" as it
ends, outside its `catch_unwind`, and the process aborts (`crashed`); `Yield`,
`Suspend` and `Spawn` panic in the coroutine, which then ends (`Finish`); and a session
joined there parks the worker's thread (`BlockThread`) until it is settled. What
was blocked before the sweep is interrupted as ever, its cancellation waited for
included, for that keeps the task it began with. A session
that is "pinned" is waited for with a cancellation (an I/O operation). A
cancellable wait that is won while its coroutine is aborted is left to `Session`,
whose `TaskAliveForWaker` run is about just that. HashMaps and drained vectors
have an arbitrary order.

### ParallelChannel

What the code does under `Channel::state` is one step, the wakes it makes there
included. Each handle is one party, a task, a thread or a select by turns
(`skind`, `rkind`). `fate` records what each sender was told of its values, and
`received` what was popped. A waiter that was interrupted stays in its queue as
`Dead`, for the code leaves it there until somebody wakes it in vain. A select
waits on this channel and on others; `Withdraw` says whose may be won by another,
and then the witness withdraws the watch (`Witness::drop`). One handle that
consumes a `Permit::Closed` is given away without being counted, as
`consume_permit` takes the handle apart before the channel counts it.
`NoStrandedSender`, `NoStrandedReceiver` and `ReceiverKeepsPlace` do not hold of the
channel as it is, only of some parties: section 3 has the counterexamples, section
4 theorems for the others.

### Serial

Between two suspensions nothing else of a task runs, so a whole operation is one
step. `cur`, `running` and `yielding` are the task's queues and `joint` the state
of the suspension a coroutine waits on. The deque is its length: its order is
that of `VecDeque`, and only how many values there are is told apart. Each
coroutine holds one handle. A wait is "direct" (`send`, `recv`) or a "select",
which another selectable may win (`WonElsewhere`). `MainEnds` and
`InterruptAgain` are the task's abort. `NobodyStranded` is stated while the task
runs: an abort cancels every wait and leaves the cancelled in the channel's
queues. `PermitHonoured` is stated and in no run: see section 3.

### Suspension

A joint is the suspension of a coroutine's own (`plain`), the result of a spawned
one, or the waiter of a select over join handles; `state` and `by` are its
`SuspensionState`. `running`, `yielding` and `suspending` are the task's queues,
`task` where `sched` and `abort` are. A coroutine does what it likes between two
suspensions: `suspension`, `spawn`, `Clone`, `send`, `join`, `Select`,
`yield_coroutine`, and drops of what it has, one by one also while it unwinds
(`Leave`, `End`). Nothing outside the task is waited for: blocking is `Scheduler`'s.
The map of suspended coroutines is drained in any order. `outcome` and `sent`
remember what the documented guarantee is about. "Left" is the `Joining` that `join()`
puts in the place of a value it finds: to the code it is the same as that of a
coroutine which suspends. Its coroutine may do anything by the time a clone of
the resumption is used, and is resumed from wherever it suspends. Coroutines are
told apart for ever; that one is freed and its address given to another is not
modelled. The abort is the one of `sched`, within the scope of the task: what the
sweep of a stopping runtime does without is `Scheduler`'s.

### Select

A select is a coroutine or a thread that calls `select()` again and again, each
call a round with a waiter of its own. `Try` and `TryEnd` are `try_select`, one
`select_permit` a step; `Watch` is one `watch_permit` with the `is_ready` behind
it; `DropWaker`, `Park`, `Unparked` are the rest of `select()` and the parker, and
`Unwatch` one `unwatch_permit` of `Witness::drop`. The enumeration starts
anywhere, and anew for the watch. `Emit` and `Close` are what happens to a
selectable meanwhile: at any time to one of other threads, only while the select
waits to one of its own task (`Reachable`). A selectable keeps how many values it
has, the permits to read and to send them and its queue of selectors: what else its
other parties do is `ParallelChannel`'s and `Serial`'s. Senders that select are
`Permit` and `Fulfil`. `Consume` is `consume_permit`, and `Read` what it frees in a channel
that was full: room for a sender that waits, whose value comes in its place and
wakes no receiver, or for the select of one, as a permit. Whether any waits is a
choice. `silent` remembers that a value came without waking anybody and may still
be unread. The waiter
is the parker; a session and a suspension, which a task and a select without
parallel selectables use, take the first answer too, which is `OneShot`. The
`unparkers` count is kept as the code keeps it: a waker that is used up by
`unpark` stays counted.

A joint stands for every selectable of the task's own that is completed by its
value: a `JoinHandle`, and a `Ready`, an `Option` or a `VecDeque` as far as it has a
value, which it gets or loses only while the select is idle. A `Never`, or one of
those that is empty, is to `select()` what a branch is whose condition failed
(`Out`). An `Interval` or `After` is the serial channel of a coroutine that sleeps
(`Produce`, `Terminate`). `Begin` evaluates the conditions of `select!`, `TryEnd` has
the branches `default` and `complete`, and the panic when there are none is the end
of the select.

### Poller

A client is a coroutine with at most one `File`; each of its operations is one
request (`Begin`, `request`). "read" stands for read, write, fsync and stat, which
only differ in what the kernel does, "pipe" is a read that never completes by
itself, "truncate" is what goes to the pool. `channel` holds the two bounded
channels of requests, `requests` and `entries` are `uring.rs`'s `State`, `upc` is
where the uring thread is between two accesses of a channel or of the ring. Sessions
are addresses, and one that no handle refers to is given out again at once: the
lowest first, which is the allocator at its most unkind. Descriptors likewise.
`kernel` and `cq` are io_uring: an operation completes when it likes, one that is
cancelled with an error, and `AsyncCancel` may find its target or miss it. A
completion is told by the eventfd, over a channel that drops signals when it is
full, unless it is inline. `Interrupt`, `Cancel`, `CancelFails` are what `Task::block`
does to a coroutine that is aborted. The requester is a thread-local that
`request()` keeps a reference to; `dangling` says that the worker it is of has
exited, `CancelDangles` takes its use as undefined.

### Net

A socket is used over and over: `uses` tells the one that was from the one that is,
and `This` is what an entry or an event is about. `Make`, `Insert`, `Register`, `New`
are the steps of bind, connect and accept, with their failures and the abort of who
waits in them; `Try`, `Accept`, `Recv` the loops of a non-blocking call and a wait;
`Leave` and `Unused` the two steps of `deregister_event_source`. `ready`, `shut`,
`edge` and `registered` are the kernel's: an edge-triggered poll reports a socket
when something becomes ready, with all that is ready by then. `Poll`, `wake_events`,
`FreeToken`, `Unlock` are the poller thread; the lock of the slab is held from the
first to the last of the latter three.

### Timer

The real clock (`now`) counts half milliseconds, so that a millisecond that has
partly passed is told from one that has not; all else counts milliseconds. The
lists of the wheel are sets and the free list of nodes is left out: nothing
depends on the order within a list. The channel is a sequence, by what
`ParallelChannel` shows of it. `Settle` is what a wake, an abandoned waker or an
abort does to a sleeper that waits (`Session`).

## 3. What the runs check

| Run | Instance | Question |
|---|---|---|
| `session` | 3 handles, an interrupter, a joiner of either kind and mode; 355 257 states | is the union ever raced, a wakeup lost, the guarantee of `wait` broken, a waiter not served; does the session implement `OneShot` |
| `session_uninterruptible` | 2 handles, a task that waits uninterruptibly | *violated*: `TaskAliveForWaker` |
| `scheduler` | 2 workers, timer and 1 task of 2 coroutines, fairness; 117 717 states | exclusive runs, live pointers; a woken coroutine runs, also while the runtime stops; does `Runtime::drop` return, or come to a sweep, with every other worker gone |
| `channel` | 2 senders, 2 receivers, capacity 1, 2 values each; 1 455 115 states | capacity, permits, fate and order of values, the end |
| `channel_waiters` | 2 senders, 1 receiver (task or select), capacity 1; 18 212 states | does anybody wait beside what it waits for |
| `channel_unwatch` | selects that withdraw from sending | *violated*: `ReceiverKeepsPlace` |
| `serial` | 3 senders, 2 receivers, capacity 2; 371 845 states | stranded waiters, handles counted on every way out |
| `timer` | 1 sleeper of 1 or 6 ms, a wheel of 2 and 2 levels of 4, a ticker late by half a millisecond at each step, 12 ms; 317 660 states | how early a sleep may end and whether it ends, when times are skipped and told late; does the wheel implement `Deadlines` |
| `select` | a task (2 rounds) over two parallel channels and a serial one with a condition, a thread (2 rounds) over the first of them; capacity 1; 5 586 294 states | is a permit lost, left reserved or given to a branch that is off, a ready selectable slept beside, an assertion reached |
| `poller` | 2 files, opened, read for ever and truncated, 1 operation each, channels of 1, batches of 2, 1 pool thread; 1 193 774 states | do buffers and descriptors outlive operations, do cancellations reach only their own, is every operation answered, do the threads end |
| `net` | a listener, a stream used twice, 1 signal a channel, batches of 2, tokens alike; 1 580 898 states | events of former owners, entries freed twice or never, readiness unheard |
| `suspension` | main and 2 coroutines, 1 clone of each resumption; 823 556 states | what `suspend` returns or panics for, resumptions lost, coroutines left on their stacks, an abort without end |

The type invariants of `Net` and `Poller` are proved (section 4), as is that of
`Timer`, and that of `Select` is the part `Typed` of its inductive invariant; their
configurations do not list them.

Beside these runs there are configurations to be tried by hand
(`tlc -config MCSchedulerDrop.cfg MCScheduler`). Three ask what a run asks, on
another instance, and find nothing:

| Configuration | Instance |
|---|---|
| `MCTimerPair.cfg` | 2 sleepers, a ticker that is never late, 8 ms; 194 000 states |
| `MCSelectJoin.cfg` | `select` with a `JoinHandle` in place of the second parallel channel, capacity 2; 3 465 750 states |
| `MCSelectShared.cfg` | a task and a thread over the same two parallel channels, capacity 2; 5 361 420 states |

Six check what a doc or an assertion of the code says, and are violated:

| Configuration | Instance | Violated |
|---|---|---|
| `MCSchedulerDrop.cfg` | 1 worker, timer and 1 task of 2 coroutines, fairness | `StopCompletes` |
| `MCSuspensionReady.cfg` | main and 1 coroutine, 1 clone | `Guarantee` |
| `MCSuspensionSpurious.cfg` | the same, the coroutine yields | `NoUnreachable` |
| `MCSelectValue.cfg` | 2 selects over one channel of capacity 1 | `NoValueMissed` |
| `MCSelectLast.cfg` | the same | `NoLastValueMissed` |
| `MCTimerLate.cfg` | 1 sleeper of 1 ms, a ticker late by half a millisecond | `SleepsAtLeast` |

### What the violations show

- **`TaskAliveForWaker`** – `wake_task` dereferences the joiner's task after the
  value was released, because it "win wakeup contention". A cancellation of
  `wait_uninterruptibly` resumes the joiner without that waker: it sees the value,
  returns, and its task may end first. Without cancellations and stale wakes the
  comment holds: `TaskAliveForWaker` with `Modes = {"interruptible"}`.
- **`ReceiverKeepsPlace`** – `Channel::unwatch_send_permit` finds a position among
  the senders and removes it from the receivers.
- **`StopCompletes`** – the last sweep calls `task.abort` without the scope of the task
  (`runtime.rs:307`). A blocked main is interrupted, unwinds, and asks for the
  current task in its epilogue (`task.rs:101`), behind `catch_unwind`: the panic leaves
  the `extern "C"` entry of the coroutine, and the process aborts within
  `Runtime::drop`, which "will stop and join all serving threads". A join that a
  destructor makes then parks the only thread left, where what it waits for may be
  of the task itself.
- **`Guarantee`** – `SuspensionJoint::join` replaces whatever it finds by `Joining`
  (`suspension.rs:144`), and only `take()` makes that `Joined`. When a value was there,
  `suspend()` returns it and leaves the joint `Joining`: a clone of the resumption sends
  a second one with success. "This method returns and only one value sent" does not
  hold.
- **`NoUnreachable`** – that second `resume()` also resumes the coroutine, which may be
  suspended on another joint by then. `take()` finds this one still `Joining` and
  reaches `unreachable!("suspension: joining state")` (`suspension.rs:136`).
- **`NoValueMissed`** – the receiver that consumes its permit in a full channel
  (`parallel.rs:384-386`) lets the value of a waiting sender into the deque and wakes
  no receiver; a second select that watches the channel sleeps beside it until
  something else is sent.
- **`NoLastValueMissed`** – `consume_send_permit` puts its value in the deque of a
  channel that was closed meanwhile and wakes nobody (`parallel.rs:361-365`): a
  select that waits there is told neither of the value nor of the end, unless another
  receiver drains the channel.
- **`SleepsAtLeast`** – a deadline is counted from the time last told by the ticker. One
  that oversleeps, or is late to tell what it read, makes a sleep shorter than
  `time.rs:253` says ("Sleeps for at least given duration."). The millisecond that is
  added makes up for a ticker that is never late, and no more: the bound that
  holds is `SoonByDelays`.

### Further disagreements, that a change of a `.cfg` shows

- `wake_receiver` gives a value straight to a waiting thread, and the room this
  leaves is announced to no sender (`parallel.rs:179`): `NoStrandedSender` with
  `SendKinds = {"task", "select"}`, `RecvKinds = {"thread"}` in
  `MCParallelChannelWaiters.cfg`.
- A serial channel reserves nothing for the select it wakes; another coroutine of
  the task may be first, and the consumer panics (`serial.rs:299`), where
  `select.rs:9` says "Permit promises to [Select] that read or write will not block
  current execution.": `PermitHonoured` with one sender, two receivers and capacity
  1 in `MCSerial.cfg`.
- `request()` keeps a reference to the requester of the worker it was called on
  (`io/poller/mod.rs:84`), and cancels by it after the coroutine went on elsewhere:
  `RequesterAlive` in `MCPoller.cfg`. It is read after its worker exited when the
  runtime stops with operations under way.
- A cancellation that comes after the poller closed its channel cannot be sent
  (`linux.rs:37`), and who waits for an operation that does not complete by itself
  then waits for ever, `Runtime::drop` with it: `Rests` excepts it as `Hangs`.
- `TcpStream::new` that is aborted while it waits to be writable, or fails there,
  closes the stream and leaves its entry in the slab (`tcp.rs:99`): `AbortNew` counts
  it in `lost`, and `FreedOnce` says that nothing else is lost. Tokens of dropped
  sockets are freed when the poller next has an event, not before.
- `consume_permit` of a `Permit::Closed` gives a channel handle away without counting
  it; the channel is closed by then, and no property notices.
- The same handle twice in one `select!` meets itself in `watch_permit`
  (`suspension.rs:112`): the lists of `Select` are sets.
- Read but not modelled: `Metadata::accessed` returns the time of modification
  (`fs/mod.rs:321`); `OpenOptions::flags` opens for reading where neither read,
  write nor append was asked for (`fs/mod.rs:190`); the value of a send branch is
  evaluated while its permit is held (`select_macro.rs:590`); a `TcpStream` dropped
  outside the runtime finds no registry (`tcp.rs:89`).

A serial channel's `watch_permit` answers `true` though it only queued the selector,
where `select.rs:289` says "If permit is avaiable now, applies it and returns
true."; the loop of `select()` then breaks, if another selectable was ready by that
time, without having counted the serial one, and its dead selector stays in that
queue until a wake passes over it. It does no harm: `OnlyEnabled`,
`NothingElseMissed` and `NeverPanics` hold with it, also when the next select of
the same coroutine has the same identifier and unwatches the old one in its place.

`NoStrandedReceiver` is checked, and proved, with one receiver that does not close the
channel. It fails in the two ways that `NoValueMissed` and `NoLastValueMissed` show for
selects, also for receivers that wait directly: give `MCParallelChannelWaiters.cfg`
two receivers, or `Closers = {r1}`.

What a violated property stands for is split from what holds beside it, so that each
defect leaves the rest checked. `StopReaches` is `StopCompletes` up to the sweep,
`ReturnsWhatWasSent` the part of `Guarantee` that holds: a value is returned only if one
was sent, a panic means that none was or will be, and the one value too many is
accepted after `suspend()` returned one it had found. `Resumable` and `NobodyLeft` say of
joints and of faults what holds until that happens (`OneEach`), and the rest of what
they say always. `NothingElseMissed` excepts a value that woke nobody (`silent`), and only
from a select that could have a permit to read it: the end of a channel, a select that left
a queue, or a value that came by another way are not excepted. `SoonByDelays` is
`SleepsAtLeast` for a ticker that is never late, and for another bounds by how much it
fails; the bound is attained.

### Bounds, and why they are enough

- `session`: a winner, a loser and a third that comes while either is half way;
  clones let all three come from one. More handles only repeat the loser, and
  the theorems hold for any number.
- `scheduler`: two workers are what it takes to run one task twice, to leave one
  as the last, and to park while another wakes. Coroutine `c1` is one that main
  can outlive; the timer's task is the second one of the queue and of the sweep.
  Sessions are rearmed without end. A third worker or task is out of reach of the
  liveness check.
- `channel`, `channel_waiters`: capacity 1 makes full and empty adjacent; two
  values of a sender tell an order from its reverse; two handles a side make the
  last one differ from the first. `MaxSends` bounds the values of a sender and
  `MaxDead` the dead waiters in a queue, which the code lets grow until woken.
- `serial`: capacity 2 tells "one was woken" from "one for each slot"; the third
  sender is the one that overtakes.
- `select`: two parallel channels in a list are what it takes to be answered by one
  while the other is watched, so that a reservation is undone; one shared by two
  selects makes them compete; the second round is the one that meets a selector of the
  first in the serial channel. `Capacity` 1 makes every channel full or empty: a value
  that is read makes room for that of a sender that waits. 2 adds a value beside a
  permit to send, and two values of which one woke somebody: `MCSelectShared.cfg`.
  `Rounds` bounds how often each waits.
- `timer`: a sleep of 1 ms lives in the least lists, one of 6 ms starts in either
  level and cascades through both; 12 ms see the time carry into the top digit, and
  let a sleep of 6 ms attain the bound of `SoonByDelays`. `MaxTime` bounds the clock
  and the deadlines, `MaxMail` the messages on their way, `MaxDelay` how late each step
  of the ticker is. One sleeper is enough: how early a sleep ends depends on its own
  message alone, and what sleepers share, the lists of the wheel, is proved for any
  number of them; `MCTimerPair.cfg` has two, for the liveness. The code's wheel has
  16384 lists and five levels of 1024; times near 2^63 ms, where `timeout + 1` and the
  shift of `exp2` overflow, are outside the model.
- `suspension`: two coroutines wait for each other in a circle, and main is the
  third that spawns, selects and is outlived. One coroutine yields (`Yielders`) and
  once, two make suspensions of their own (`Suspenders`) and one each; `MaxClones`
  makes a second resumption whose holder may be another coroutine.
- `poller`: capacity 1 makes a full channel ordinary, a batch of 2 an operation and
  its cancellation; four addresses are two clients with an operation and a
  cancellation each, and the lowest free one is taken, so that reuse happens. One
  client opens, the other has a file. `Signals` is 1 where the code has 2: with one,
  signals are dropped sooner. Batches of the code are limited by the ring. `MaxOps`
  bounds the operations of a client.
- `net`: a socket that is used twice is the former and the later owner of a token;
  the listener is the one that makes it by `accept`. Three tokens are one for each
  use. `Signals` is 1 where the code has 2, and `Batch` 2 where it has 1024: both make
  the limits ordinary. Nothing is said of sockets after the poller has exited.
- Deadlock is not checked by TLC: sessions end, a runtime stops, tasks and
  channels may come to rest, and waiting for ever is the subject of the
  invariants about stranded waiters and of the liveness properties.

### Fairness, and why the code justifies it

- `Session`: a thread that is inside an operation finishes it, and a parked thread
  that holds a token wakes. No handle need be used, no session joined.
- `Scheduler`: workers run; a coroutine that is current gives up its worker some
  day; the operation behind a cancellable wait completes; the timer receives what
  it was sent. `WokenRuns` assumes that no task keeps its worker for ever: the
  code lets coroutines that only resume each other, or that suspend again
  whenever they are aborted, do that; and that the process is not aborted by the
  sweep. `StopReaches` and `StopCompletes` assume that programs end (`ProgramsEnd`), with
  what they wait for on a thread: dropping a runtime waits for them.
- `Suspension`: the coroutine that runs goes on (`FairSpec`), and a program does not
  suspend for ever anew while it is aborted: the suspensions a coroutine makes are
  bounded. `Ceases` needs no fairness among coroutines: the queue is served in turn.
- `Poller`: its threads run, the kernel completes what completes by itself, clients go
  on once they are answered, and the abort of `Runtime::drop` reaches every
  coroutine. A pipe is never obliged to complete.
- `Timer`: time goes on, the ticker is a thread, and the timer task runs whenever a
  message wakes it, which is `Scheduler`'s `WokenRuns`; it ends before the sweep
  begins.

## 4. What is proved

Each theorem below is checked by TLAPS for every value of the constants that
satisfies the assumptions of the module, where its run shows it on one instance.
All have one form: an inductive invariant that every action of `Next` preserves,
one lemma for an action or for a group that treats the variables alike, and the
property as a consequence of it.

| Proofs | Theorems | Property of a run |
|---|---|---|
| `SessionProofs` | `TypeCorrect`, `CellSafety`, `JoinIsTotal`, `WaitGuarantee`, `UnparkedInJoin`, `Refinement` | `TypeOK`, `CellSafe`, `NeverUnreachable`, `Guarantee`, `ThreadHandleAlive`, `ImplementsOneShot` |
| `SchedulerProofs` | `TypeCorrect`, `NobodyRunsTwice`, `NothingDangles` | `TypeOK`, `RunExclusively`, `PointersAlive` |
| `ParallelChannelProofs` | `TypeCorrect`, `CapacityIsKept`, `PermitsAreBacked`, `AcceptedOnceInOrder`, `EndIsNeverEarly` | `TypeOK`, `BoundRespected`, `PermitsBacked`, `ExactlyOnceInOrder`, `EndIsTrue` |
| the same, for some parties | `SenderIsNeverStranded`, `ReceiverIsNeverStranded`, `PlaceIsKept` | `NoStrandedSender`, `NoStrandedReceiver`, `ReceiverKeepsPlace` |
| `SuspensionProofs` | `TypeCorrect`, `OneValueOrPanic`, `SleepersAreResumable`, `NobodyIsLeft` | `TypeOK`, `ReturnsWhatWasSent`, `Resumable`, `NobodyLeft` |
| `SuspensionProofs`, about `Serial` | `HandlesAreCounted`, `NobodyIsStranded` | `TypeOK`, `NobodyStranded` |
| `SelectProofs` | `PermitsAreHeld`, `NothingElseIsMissed`, `OnlyEnabledWin`, `SelectNeverPanics` | `PermitsHeld`, `NothingElseMissed`, `OnlyEnabled`, `NeverPanics` |
| `PollerProofs` | `BuffersStay`, `CancellationsHit`, `PollersNeverPanic`, `TypeCorrect` | `Owned`, `CancelsOwn`, `NeverPanics`, – |
| `NetProofs` | `EventsAreRouted`, `TokensAreFreedOnce`, `EveryoneIsHeard`, `TypeCorrect` | `Routed`, `FreedOnce`, `NothingUnheard`, – |
| `NetProofs`, about `Timer` | `WheelIsExact`, `SleepsAreNotCutShort`, `TimerTypeCorrect` | `ImplementsDeadlines`, `SoonByDelays`, – |

**Session.** Any set of handles, any joiner, any mode; `Distinct` and `Choices`
say that the values a cell can hold differ and that the parameters are of their
types. `CellSafe` is not inductive: that a setter may take the joiner depends on
what the status word said when it won, and on the owner not having moved since.
`IInv` adds which values of the word go with each place of the owner
(`WordMatches`), which member the union holds (`CellMatches`), and that a setter
between its CAS and its release sees `Value`, unreleased, and is alone
(`Ownership`). For `Guarantee`, `RInv` adds that there is one winner and that who
was told `Err` lost to it (`Race`), that the cell and then the result are the
winner's (`Stored`), that the counter is the number of handles that were not
dropped, so that the panic "no wakeup" means that none is left (`References`), and
that an unparked thread still waits (`Parked`). `Refinement` takes the actions one
by one: under `RInv` the winning CAS is the abstract `Set`, a loser's `Err`, the
owner's take or drop the abstract step, and everything else a stutter. What it
does not cover is the fairness of `OneShot`, which none of its properties needs.

**Scheduler.** Any finite set of workers, any tasks, any coroutines. `Owned` is
the heart of it: who points to a task - its places in the queue, the workers on
it, the wakers that are resuming it - is one party for a registered task whose
flag is set and none for any other. `OnTask`, `Placed` and `Counted` say where a
worker may be with and without a task, that a blocked coroutine's task is
registered, and that the stop counter counts the workers that have left, so that
the last sweep meets no one. `TypeOK` bounds the counter. The sweep is the code's, with
what it does to a main that ends there.

**Parallel channel.** Finite sets of handles, any positive capacity, any of the
configurations (`Withdraw`, `Closers`, kinds), those with the two defects of
section 3 included. `SendSide` and `RecvSide` tie the counts of permits and handles to
the parties that hold them, `Between` keeps the capacity and the truth of the
end, and `History` relates the deque, what was received and what each sender was
told: a value put in behind is its sender's latest, one taken from the front its
sender's earliest.

Three more theorems are about who waits, each under a condition on who uses the
channel that rules out one of the defects of section 3 and nothing else.
- `SenderIsNeverStranded`, where no receiver blocks its thread. Then every value that
  leaves the deque does so in a step of its receiver, which wakes a sender; a permit
  given back does the same, and who is woken is the first in the queue that is alive
  (`WakesSomebody`). `NoStrandedSender` is inductive with that and `IInv`.
- `PlaceIsKept`, where no select withdraws from sending: only `unwatch_send_permit`
  takes another receiver from the queue, and nobody comes to call it
  (`NoneElsewhere`). With selects that withdraw the run `channel_unwatch` refutes it.
- `ReceiverIsNeverStranded`, where moreover there is one receiver that does not
  close. The value that wakes it, or its permit, is then nobody else's to take
  (`NothingToTake`), and a channel that closes under it has lost its senders, with
  them the permits to send (`Ended`).

`MCParallelChannelWaiters.cfg` satisfies the three conditions with two senders and
capacity 1; the theorems are for any number of them and any capacity.

**Suspension.** Any finite set of coroutines, any number of clones; who yields and
who makes a suspension is any choice. `Queued` has each living coroutine run or
in one of the three queues, once; `Waits` has who waits alone on its joint, its
handle given up, and in `suspending` only while the joint is Joining it - exactly as
long, until a joint accepts a second value - which
is where `Resumable` and the absence of a lost wakeup come from; `Values` says which
joints have accepted a value, and a second one: those that `suspend()` found ready and
left Joining; `Found` that only a plain joint that was given a value is left so with
somebody to resume it; `Selects` keeps a
select's handles its own until it takes its permit, so that its selector, or the
answer, is in each of those joints; `Counted` has every Resumption of a joint that
is not settled counted by `wakers`, and of one that is, no more left than that,
for `send` forgets its Resumption without counting it. `Ends` and `Queued` give
`NobodyLeft`: with all queues empty only main can be left, and it completes, whether
a joint was left Joining or not.
The assumption that `None` is no outcome was added for the proof, and the set in
`Resumable` is written without a tuple as bound, which `tlapm` does not parse.

**Serial channel.** Any finite sets of senders and receivers, any capacity. `Handed`
says that the counters are the numbers of coroutines that still have their
handle, on every way out of an operation, a panic included; it holds to the end of
the task. `NobodyStranded` is inductive only with `InLine`: while the task runs, who
waits is in the queue of its side, once, and who is in a queue waits, or was told of
another selectable and has yet to withdraw. Each operation that adds a value or
frees a slot wakes one of the queue, which adds one to those that were told, and
who was told leaves them by taking a value or a slot, or by waiting again when it
was overtaken: so the values beside a waiting receiver are never more than the
receivers that are on their way, and likewise the slots. A wake
passes over a select that was won elsewhere and goes on to the next. These proofs are in
`SuspensionProofs`, which has the queues of a task in common, and name the module's
definitions as `Chan!...`.

**Select.** Any finite set of selects, any selectables and lists, any number of
rounds and values. `Looking` and `Answer` say, for each place in `select()`, what
was watched and whether the waiter was answered; `Blocked` that a serial
selectable cannot become ready under the feet of the select that watches it;
`Listed` that a selector in a queue is of a waiter that lives, or is dead for good;
`Awaited` that what a sleeping select checked is quiet, but for a value that woke
nobody (`silent`), and still has its selector in the queue. `PermitsHeld` is part of the
invariant as it stands. `NoValueMissed` and `NoLastValueMissed`, which leave `silent` out,
are refuted by their configurations.

**IO poller.** Any clients, pool threads, addresses, descriptors and sizes.
Addresses of sessions are given out again at once, and the lemma on which
`CancelsOwn` rests is `Reserved`: an address is one session's from the time its
operation begins to the time its coroutine goes on. `Owing` says that whoever is
to be answered waits with what its request names, `Queued` that a request is in
one place, `Ring` that the batch, the table of requests and the kernel agree, and
`Files` who has each descriptor.

**Network.** Any sockets, tokens, sizes of channel and batch. `Staged` gives the
stages of a socket, `Held` says that every entry is a socket's, on its way to be
freed or lost, and `Current` that an event is of the entry under its token and of
no socket the poll has not known yet. `NothingUnheard` is inductive with these.

**Timer.** Any shifts and any number of levels, any timeouts, so many that the last
deadline is below the unit of the highest level; the code's 14, 10 and 5 make that
2^64. `WheelInv` is that each node hangs where its deadline belongs at the time the
timer is at (`Place`): in a least list if it expires within `TIME_LEAST_VALUE`, else in
a list of the level whose higher digits it shares with the time, for a digit that is
yet to come. A node stays there while the time goes on, though the same deadline
would be queued elsewhere by then; when its list is `Due`, the time's digits below
that level have come round to zero, and `Cascade` hangs it again, further below. So
the list a tick empties holds those whose deadline it is, and no others (`Ticks`), and
`WheelIsExact` takes the actions one by one. The arithmetic, quotients of
quotients and digits that tell two times apart, stands in lemmas of its own before it:
2^(a+b) = 2^a 2^b, which no induction over data could give here, comes from counting
the subsets of an interval.

`SleepsAreNotCutShort` is for any `MaxDelay`. `Timely` has how far the clock may be from what
the ticker read last and from when it woke, `Prompt` that it is not when no step is
late, and `BehindBounds` concludes that the clock is beyond the millisecond after the time
told last by `Behind` at most. `InOrder` says that times are told in
order and that the last of them is under way or the timer's. `Alone` gives a sleeper at
most one message or node, none while it is awake, and `Later` bounds the end of its
sleep by its deadline and `Behind`: one it has, or one it will be given from the time told
by a message before its own. For `MaxDelay = 0` the theorem is `SleepsAtLeast`. The proofs
are in `NetProofs`, with the other source of wakeups from outside, and name the
module's definitions as `Wheel!...`.

The assumptions are those the constants' comments name: finite sets where the
code counts, sizes that are not zero (the code asserts it or passes a literal),
and values that stand for "none" outside the sets they are told from. TLC
evaluates each of them.

### What stays with TLC, and why

- *Liveness* (`Served`, `WokenRuns`, `StopReaches`, `Ceases`, `Rests`,
  `SleepEnds`): not within reach of the prover.
- What the violations refute. `ReceiverKeepsPlace`, `NoStrandedSender` and
  `NoStrandedReceiver` fail for some users of the channel: no theorem states them
  without a condition.

## 5. What is not modelled

- **Select** over writers: the same enumeration; what a sender's watch does is in
  `ParallelChannel` and `Serial`. The start of the enumeration, read from an
  unsynchronised static, is any.
- **TCP**: options, addresses, explicit shutdown: one system call each.
- **Files**: flags, metadata, seek: conversions and calls of std.
- **IO poller** of other systems than Linux (`unix.rs`), where the pool does it all.
- **Interval**: what it does about missed ticks; **sleep** of less than a millisecond,
  which yields.
- The parsing of `select!`, the attributes of main and test; machine contexts and
  stacks; errors.
- Weak memory; the read of `task.id()` after `sched()` parked the task
  (`runtime.rs:264`), undefined behaviour that changes no state of the model.

## 6. Plan

Order: what can corrupt memory or lose a wakeup first.

1. *Done*: Session, Scheduler with tasks, ParallelChannel, Serial, Suspension,
   Timer, Select, Poller, Net; theorems about Session.
2. *Done*: inductive invariants and theorems for Session with its refinement,
   Scheduler, ParallelChannel, Suspension, Select, Poller and Net.
3. *Done*: the waits of both channels, for the parties for which nobody is stranded;
   Serial in full.
4. *Done*: that Timer's wheel implements `Deadlines`, whatever its shape, and how much
   too short a late ticker can make a sleep.
5. *Done*: the sweep outside of the task's scope, joints that are left Joining,
   values that wake nobody, and late tickers, each with what it refutes and what holds
   beside it.
