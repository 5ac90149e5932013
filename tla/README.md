# A verification development for RN (ReviveNetwork)

RN is a small event-driven TCP library in C++ (`src/RN`), built around one
`EventLoop` per thread, with a few thread and logging utilities below it. This
directory holds TLA+ models of its core, the TLC configurations that check
them, and TLAPS proofs about them. Every definition is translated from the
source; `PROJECT.json` maps each one to the lines it stands for.

Contents: [the system](#the-system), [the modules](#the-modules),
[abstractions](#abstractions), [runs](#what-the-runs-check),
[fairness](#fairness), [proofs](#what-is-proved), [findings](#findings),
[what is not modelled](#what-is-not-modelled), [plan](#plan).

## The system

| Component | State it keeps | Operations | Interacts with |
|---|---|---|---|
| `Poller`, `Channel` (`net/Poller.cpp`, `net/Channel.*`) | the `pollfds_` vector, the map `channels_` from descriptor to Channel, and in each Channel its events and its index into the vector | `updateChannel`, `removeChannel`, `poll`, `fillActiveChannels`; `enableReading`, `enableWriting`, `disableWriting`, `disableAll`, `handleEvent` | called by EventLoop on the loop thread; calls the handlers of the others |
| `EventLoop`, `IOWakeupTrigger` (`net/EventLoop.*`) | `quit_`, `looping_`, `callingPendingFunctors_`, the queue `pendingFunctors_`, an eventfd | `loop`, `quit`, `runInLoop`, `queueInLoop`, `doPendingFunctors`, `wakeup` | every thread may call `quit`, `runInLoop` and `queueInLoop` |
| `EventLoopThread` (`net/EventLoopThread.*`) | `loop_`, `exiting_`, a thread, a mutex, a condition | constructor, `startLoop`, `threadFunc`, destructor | owns an EventLoop that lives on another thread's stack |
| `TimerQueue`, `Timer` (`net/TimerQueue.*`, `net/Timer.*`) | `timers_` sorted by expiration, `activeTimers_`, a timerfd | `addTimer` through `runInLoop`, `handleRead`, `getExpired`, `reset`, `insert` | timerfd through a Channel; callbacks add timers |
| `Buffer` (`net/Buffer.h`) | a byte vector, reader and writer index | `append`, `readFd`, `retrive`, `retrieveAll`, `prepend` | owned by one TcpConnection |
| `TcpConnection` (`net/TcpConnection.*`) | `state_`, a Channel, an input and an output buffer | `send`, `shutdown`, `connectionEstablished`, `connectionDestroyed`, `handleRead`, `handleWrite`, `handleClose`, `handleError` | users on any thread; TcpServer's close callback; the peer through the kernel |
| `TcpServer`, `Acceptor`, `Socket`, `SocketsOps` | the map of connections by name, a counter, the listening socket | `start`, `createNewConneciton`, `removeConnection(InLoop)`, `handleRead`, `accept` | builds and lets go of connections |
| `EventLoopThreadPool`, `Connector` | loops and threads, next index | `start`, `getNextLoop` | see [below](#what-is-not-modelled) |
| `ThreadPool`, `BlockingQueue`, `BoundedBlockingQueue` (`base`) | a queue, a mutex, one or two conditions, `running_` | `start`, `stop`, `post`, `take`, `put` | any threads; a task may post |
| `Logging`, `LogStream` (`base`) | `g_logLevel`; in each thread the text of the last second; a fixed buffer per line | `Logger`'s constructors, `operator<<`, `finish`, destructor | every thread logs; the line goes to `g_outputFunc`, which may be `AsyncLogging::append` |
| `AsyncLogging` (`base`) | current, next and full buffers, a back-end thread with two spare buffers | `append`, `threadFunc`, `start`, `stop` | threads that log; `LogFile` |
| `LogFile`, `FileUtil` (`base`) | the open file, bytes written, times of the last roll and flush | `append`, `rollFile`, `flush` | stdio and the disk |
| `Thread`, `CountDownLatch`, `Mutex`, `Condition` | wrappers of pthreads | | everything above |
| `StringPiece`, `Singleton`, `ThreadLocal`, `Atomic`, `ProcessInfo` | value types and thin wrappers | | |

An iteration of `EventLoop::loop` polls, handles each active Channel, and then
runs the functors that were queued. Other threads reach the loop only by
queueing a functor (and waking it through an eventfd) or by `quit`. Timers and
connections are Channels of that same loop, so nearly all state belongs to the
loop thread, and the hard behaviour is what happens *between* steps: callbacks
that change what is being iterated over, other threads between a test and the
queueing it leads to, functors that arrive after the state they were queued for
has gone, and a thread that quits or starts at the wrong moment.

What makes each component correct:

- **Poller**: the three copies of the registration (vector, map, index in the
  Channel) stay one structure through swap-removal; no assert fails; a Channel
  without interests is never reported; nothing handled in an iteration has been
  unregistered.
- **EventLoop**: functors run once and in order; no wakeup is lost; quitting
  leaves the loop.
- **EventLoopThread**: `startLoop` returns; what is sent to its loop is run; a quit
  that reaches the loop ends the thread.
- **TimerQueue**: no timer is early, forgotten, or run twice; the timerfd is
  armed early enough for every waiting timer.
- **Buffer**: bytes are neither lost nor invented; it grows only when it must.
- **TcpConnection**: the Poller watches for room exactly while output waits; what is
  sent stays in order through partial writes; the stream is ended only when no output
  waits in the buffer (a send of another thread still on its way may be cut off); a
  connection whose peer has gone is destroyed, once, and nothing acts on it afterwards.
- **TcpServer**: the map owns exactly the connections that are up; the last
  reference to a connection is never let go of while its Channel is registered;
  connections whose peer has gone are removed.
- **ThreadPool**: a bounded queue in which each task is run once and in order; no
  worker and no poster sleeps through its notify; stop returns, and leaves no task
  that was taken unrun.
- **Logging, AsyncLogging, LogFile**: a line says when it was made and shows its
  numbers as they were given; between append and the files no line is lost,
  doubled or turned round, but for whole buffers that are dropped and told of;
  what the back end has swapped reaches the disk in the same turn.

The `hazards` of `PROJECT.json` list, line by line, what in this code a test
would hardly reach, and which property covers it or why none does.

## The modules

| Module | Models | Composes |
|---|---|---|
| `Poller` | Poller and the Channels registered in it, the loop's walk over active channels | |
| `FunctorQueue` | abstract: a queue that threads put functors into and a loop that runs them one at a time from its head | |
| `EventLoop` | the loop thread and any number of other threads in `queueInLoop`, `runInLoop` and `quit`, step by step | implements `FunctorQueue` |
| `EventLoopThread` | the owner, the thread and its users around one loop | extends `EventLoop` |
| `TimerQueue` | the timers, the timerfd, the clock, callbacks | |
| `BufferView` | abstract: what a reader of a Buffer sees, without the vector | |
| `Buffer` | the vector and its indexes | extends `BufferView`, proved to give that view |
| `TcpConnection` | one connection, its users on and off the loop thread, the kernel and the peer | extends `BufferView` for its output buffer; has the effect of `Poller`'s updates on its entry |
| `TcpServer` | the Acceptor, the map of connections and their names, removal, users that keep references | what one connection does in between is `TcpConnection`'s |
| `TaskQueue` | abstract: a queue with a bound, tasks put in and taken once and in order | |
| `ThreadPool` | owner, workers, posters and tasks that post, over one mutex and two conditions | implements `TaskQueue` |
| `LogStream` | operators: the fixed buffer, the conversions, the text of a line from Logger's constructor to `finish` | |
| `LogFile` | LogFile over AppendFile: rolling, flushing, a disk that fills | |
| `AsyncLogging` | threads that log, the owner, the back end | extends `LogStream` and `LogFile` |
| `MC*` | constants for TLC | |
| `PollerProofs`, `EventLoopProofs`, `TimerQueueProofs`, `BufferProofs`, `ThreadPoolProofs`, `TcpServerProofs`, `TcpConnectionProofs` | theorems | extend their modules |
| `AsyncLoggingProofs` | theorems about the conversions, a line, the buffers and the files | extends `AsyncLogging`, and with it `LogStream` and `LogFile` |

How state and actions correspond to the code:

- **Poller.** `pollfds_`, `channels_` and each channel's `index_` and `events_`
  are the variables of that name. An entry's descriptor keeps its sign: a
  channel without interests is stored as `-fd - 1`, and stays so when it asks again. `updateChannel` and
  `removeChannel` are whole, with the `iter_swap` and the repair of the moved
  channel's index. `poll` chooses any set of reported entries and fills
  `activeChannels_`; each `handleEvent` is one step in which the handler may
  change *its own or any other* channel, as handlers here do. Removing a channel
  still to be handled in the same iteration is left out because the code only
  removes channels from functors, after the walk.
- **EventLoop.** The loop thread moves through `poll`, the handling of active
  channels, the swap of `pendingFunctors_` under the lock, and the functors one at
  a time. `queueInLoop` is three steps (push under the lock; the test of thread
  and `callingPendingFunctors_`; the write to the eventfd); `quit` two. Functors
  and handlers themselves queue functors and quit.
- **EventLoopThread.** One step per shared access of `startLoop`, `threadFunc`
  and the destructor. `MutexLock lock(mutex_);` copies the mutex and locks nothing,
  so no step excludes another; waiting on the condition and notifying it are modelled.
- **TimerQueue.** Time is a counter; `Second` units make a second, because
  `getTimeFromNow` puts the microseconds of the last second into `tv_nsec` unscaled
  and the timerfd fires up to a second early. `handleRead` is split into reading
  the descriptor and taking out what has expired, running each callback (which
  may add timers), and `reset`.
- **Buffer.** All operations on a small vector with the code's indexes. The
  second buffer of `readFd` is modelled by the append it ends in.
- **TcpConnection.** Everything on the loop thread is one step per handler or
  functor, with the write-complete callback between the two halves of
  `handleWrite`. `send` and `shutdown` from another thread are the test of
  `state_`, for shutdown the assignment, and the queueing. `handleClose` sets
  `state_` to `kConnected` because its assert is written `assert(state_ =
  kConnected)`. `removeConnection` of TcpServer is part of it.
- **TcpServer.** A connection is the number it was made with; its name is that
  number cut to `Room` digits, as `getConnectionName` cuts it to the 31 characters
  of its buffer. The map goes from names to connections, and a new connection of
  the same name replaces the old one. Each handler and each `connectionDestroyed`
  is one step, as everything runs on the base loop. `accept` fails when the
  descriptors have run out or the client has reset, and `LOG_SYSFATAL` then ends the
  process. Whether a connection is still *owned* is computed from who has a
  reference: the map, a queued functor, a user.
- **ThreadPool.** What is done under `mutex_` is one step; a wait is a place (`empty`,
  `full`) from which a notify or a spurious wakeup leads back to the test. `notify`
  chooses any one of those that wait. `start` makes the threads one by one while those
  already made run. With no threads, `post` runs the task itself. A task may post
  another, from inside a worker.
- **Logging.** A text is a sequence of pieces, one for each `operator<<`: of a
  string only its length, of a number its digits, as `convert` and `convertHex` make
  them with division that truncates. A piece that finds no room is left out. What
  `staticCheck` asserts of `digits10` is an assumption, and what follows from it,
  that the room asked for suffices, is proved.
  `log` is Logger's life up to `g_outputFunc` (constructor with level, errno and
  function name, the user's pieces, `finish`), which touches only the thread's own
  state; `append_front` is the call to `append` under its mutex; `abort` ends the
  process after a FATAL line.
- **AsyncLogging and LogFile.** The back end moves through the test of `running_`,
  the wait and the swap (`wakes`), the note about dropped buffers, one step for each
  buffer it writes, and `recycle`. It holds `mutex_` from the swap to the end of
  the turn, as the code's `MutexLockGuard` spans the whole body. Lines are
  numbers in the order of `append`, a buffer is the lines in it. A LogFile is one
  sequence over all its files, of which `saved` entries are on the disk.

## Abstractions

- The build is the repository's Debug build, so asserts are live. A failed
  assert is a value of `crash` (TcpConnection) or a state that a property
  forbids (Poller, TimerQueue).
- A mutex that *is* locked is the atomicity of the step that holds it.
- A `poll` with nothing to report may time out at any time (the code passes ten
  seconds), but no property relies on the timeout: every liveness property
  of the loop holds with wakeups alone.
- `TimerQueue`'s wall clock is monotonic. The code computes expirations from
  `gettimeofday`; setting the clock back is outside that model. `LogFile`'s `Clock`
  is any sequence of seconds; the run's goes forward.
- A wait with a time limit may end at any moment. AsyncLogging's notifies only hasten
  the end of a wait that ends anyway and are left out.
- A peer that ends or resets a connection is reported as `POLLIN` (on Linux a
  TCP `POLLHUP` comes with it), which is why `Channel::handleEvent`'s close
  branch and its read branch lead to the same action.
- Descriptors are not used again: `Socket`'s destructor does not close.
- What is sent is a sequence of numbered cells that name their message; input is there
  or not. The output buffer is its view (`BufferView`), in which bytes that nobody
  put in are `Stale`; `Buffer!ContentRight` is what justifies that.
- A name such as *Mutation* in a comment marks a definition that no
  specification uses: a plausible mistake in the definition below it, kept
  so that every property can be seen to fail for a program that makes it.

History variables are marked so where they are declared. They record what
happened and guard nothing but the bounds: a functor is queued once (`queued`), a
message is sent once (`sent`), a timer is added once (`finished`), and a Buffer
holds at most `MaxStored` bytes (`stored`).

## What the runs check

| Run | Question | Bounds, and why they are enough |
|---|---|---|
| `poller` | Do vector, map and indexes stay one structure; can an assert fail; is a disabled channel ever reported? | Three channels: removal moves the last entry over a middle one, over the last, and over the first; descriptors include 0, whose ignored form is -1. |
| `eventloop` | Are functors run once, in order; is a wakeup ever lost; does quitting leave? Does it implement `FunctorQueue`? | Two threads besides the loop: each can be between push and wakeup while the other, and a functor, queue. Three functors: one running, one swapped, one pending. |
| `eventloopthread` | What works in spite of the copied mutex: functors sent to the loop are run, and a quit that comes once the loop has been entered ends the thread | An owner and a user, two functors: every order of start, use and destruction. |
| `startloop` | Does `startLoop` return? (violated) | as above |
| `timerqueue` | Is any timer early or forgotten; is the timerfd readable when read? | Two one-shot timers and a repeated one, with clock values up to `MaxTime` = 5 and `Second` = 2: equal expirations, expirations within a second that a truncated difference confuses, additions that are and are not the earliest, and additions from callbacks. |
| `buffer` | Does moving, growing or the second buffer of `readFd` ever show in what is read; do the indexes stay in order? | Gap 1, room 2, calls of one or two bytes, four stored: room suffices, is made by moving, and is made by growing; `readFd` stays within and overflows. |
| `append` | Is what is read what was put in? (violated) | as above |
| `tcpconnection` | Watching exactly while pending; every cell in its place but those an append spoils; end of stream only with nothing buffered, cutting off at most a send on its way; safety without a race after close; destruction; progress of shutdown | One other thread and the loop thread's users; messages of two cells, one and one, a kernel buffer of one and a high water mark of two: complete, partial and failed writes, crossing and not crossing the mark. The third message is appended when two cells wait: it spoils the first and not the second. |
| `connection_destroyed` | Does connectionDestroyed's assert hold? (violated) | as above |
| `tcpserver` | Does the map own exactly the living; does a Channel ever outlive its connection; are those whose peer has gone removed? | Five clients, five descriptors one of which is the acceptor's, numbers printed in base 2 of which two digits fit: connections 1 to 3 have names of their own, 4 is called 2 again, a fifth finds no descriptor. |
| `threadpool` | Is it a bounded queue; is a notify ever slept through; does posting end; does stop return, with all that was taken run? | Two workers, two posters, four tasks, one of which posts another; a bound of two and none: both conditions with two waiters, a worker that waits inside a task, stop at any moment. |
| `logging` | Is a line right; is every appended line in the buffers or files, once and in order; does what the back end has swapped reach the disk, whether the logger is stopped or runs on; is there always a buffer? | Two threads, three lines. Two INFO lines (with the least of 5-bit integers) fill a buffer, one WARN line does, and lacks a string and its line's number; a SYSFATAL line with errno whose line number just finds room; a DEBUG line below `g_logLevel`. More than two buffers are dropped; the file rolls by size and by the period; the clock shows two seconds. |

`KeepsPromise` (of EventLoop and of ThreadPool) is a refinement, `FrontStays`,
`NeverEarly` and `EndsAfterOutput` are action properties; the rest are invariants
except the liveness properties named in the next section. Deadlock is checked except
where a program may stop: after a loop has been left (`EventLoopThread`), after a
failed assert (`TcpConnection`), an abort or the end of the server (`TcpServer`), after
stop or in a pool blocked by its own tasks (`ThreadPool`), after stop or an abort
(`AsyncLogging`).

A few definitions are proved (next section but one) and not model-checked any more, as
a run of each property would repeat what the theorems say: `FifoOnce`,
`RepeatsLater`, `CountRight`, `MovesDown` and `GrowsOnlyWhenFull`.

## Fairness

Weak fairness of each thread inside a call, and of the loop thread, is what an
operating system's scheduler gives: a thread that can run runs eventually. No
fairness is assumed of what users choose to do (sending, queueing, quitting, shutting
down, logging) or of when the peer sends, ends or resets. Other assumptions:

- `TimerQueue`: time goes on, up to the bound. `EveryTimerRuns` says that each
  timer whose expiration is reached runs.
- `TcpConnection`: a peer reads what it has been sent. Without it no output need
  ever end; `ShutdownEnds` uses it, `GoneIsDestroyed` does not.
- A blocked `poll` returns when something is ready. Its timeout is not
  counted on.
- `TcpServer`: each ready Channel has its turn, as the loop handles every one that
  poll reports: the acceptor, the functors, and each connection have weak fairness of
  their own.
- `ThreadPool`: each thread has weak fairness of its own. A `notify` may choose any of the
  waiters, and a mutex is obtained in the end by a thread that waits for it.
- `AsyncLogging`: the back end's wait has an end (`waitForSeconds`). Nobody need start
  the logger or stop it: only the waits inside those calls (the latch of `start`, the
  join of `stop`) end when what they wait for has happened. A logger may run for
  ever, so that `BackEndDelivers` rests on the flush at the end of each turn
  (`base/AsyncLogging.cpp:120`) and not on the one after the loop. The disk need not get
  room again.

`QueuedRuns`, `QuitLeaves`, `SentRuns`, `QuitInLoopJoins`, `EveryTimerRuns`,
`GoneIsDestroyed`, `ShutdownEnds`, `GoneIsRemoved`, `PostedRuns`,
`StopReturns` and `BackEndDelivers` are the liveness properties. The violated one,
`StartLoopReturns`, is refuted under the same fairness.

Three of them name what is in the way, because the code lets it be:
`PostedRuns` and `StopReturns` except workers that wait, inside a task, for room in
the full queue that only they could make; `BackEndDelivers` excepts an abort and a
full disk, on which `AppendFile::append` spins. `GoneIsRemoved` excepts a server that
accept's error has ended, and, like `OwnsTheLiving`, holds until a number has been cut
from a name.

## What is proved

The theorems hold for every value of the constants that satisfies the named
assumptions of each module. Each rests on one inductive invariant, `IInv`.

- **PollerProofs**: any finite or infinite set of channels with distinct descriptors.
  `IInv` joins the types with `MapConsistent` (the map files each channel under its
  own descriptor), `IndexConsistent` (a registered channel's index leads to its own
  entry), `OutsideConsistent` (what an unregistered channel looks like; without
  it a registration could meet an index left behind), `NoneEventIgnored`,
  `ActiveOnlyInHandle` and `ActiveRegistered` (no removal can happen while channels
  wait to be handled), and `CountConsistent` (as many entries as channels, so that
  the last entry that removal swaps in has an owner). From it follow
  `AssertsHold` and the action property `FrontStays`.
- **EventLoopProofs**: any sets of threads, functors and channels. `IInv` joins the
  types, `FifoOnce`, `PhaseConsistent`, `Announced` (while a functor is queued,
  the eventfd is readable, or a thread is about to write it, or the loop is at a place from
  which it will look at the queue before it polls) and `QuitAnnounced` (the same for
  `quit_`). `NoLostWakeup` follows from the last two at the poll. `Refinement`
  proves `Spec => KeepsPromise`, that is, that EventLoop implements `FunctorQueue`
  when the swapped functors followed by the pending ones are taken as its queue:
  the swap is a stutter.
- **TimerQueueProofs**: any timers, intervals and any length of a second. `IInv` joins
  the types, `ActiveConsistent`, `ExpiredConsistent` (what was taken out has expired
  and is nowhere else), `ReadSucceeds` and `Covered` (the alarm is early enough for
  each waiting timer, or handleRead is under way and will set it).
  `NeverEarly` and `RepeatsLater` are action properties from it.
- **BufferProofs**: any bytes, gap, initial size and length of call. `IInv` joins the
  types, the count (as many bytes as were put in), the bytes of `BufferView` index by
  index, and that the vector is never shorter than the gap, without which
  `retrieveAll` would leave the indexes outside. What append does is proved once, by
  cases on whether the bytes fit, are moved, or need a longer vector; `append` and
  `readFd`, which appends after it has filled the vector, both rest on it.

- **ThreadPoolProofs**: any finite sets of workers and posters, any tasks and any bound.
  `IInv` joins the types, `NoLostNotify` (of those that wait to take, or to post, no more
  than there are others awake and about to look), `OnePlace` (a task is held by one
  thread, or queued, or done), `SpawnsLater` (what a task posts is not posted before it has
  run) and `NotStarted`. `NoLostNotify` counts threads by place, so a step's proof
  says which one thread moved from where to where, and the lemmas about counting do
  the rest; the threads have to be finitely many for that. `OnePlace` is why a
  task is put in and taken once, and `SpawnsLater` carries it through tasks that
  post tasks. `ImplementsTaskQueue` proves `Spec => KeepsPromise`: everything but the
  push and the pop is a stutter of `TaskQueue`, and in a pool of no threads a `post` is
  both. `StopFinishesTaken` adds `StopPhase` to `IInv`: a task taken is run or is held by
  a worker inside it, and a pool that is stopped has no worker left. The assumption that
  each task is posted by one at most stands for each
  `post` having a `std::function` of its own.
- **TcpServerProofs**: any numbers of connections and descriptors, any radix and room.
  `IInv` joins the types, `OwnsTheLiving`, `NumbersLeft` (the next number and the
  clients that wait stay within the bound), `NotYet` (a number not given belongs to
  no connection, so a new one is neither in the map nor queued to be destroyed) and
  `DestroyedOnce` (`connectionDestroyed` is queued once). While numbers are not cut
  their names differ, which is all the proof needs of them. `OwnsTheLiving` keeps
  that hypothesis because the code fails without it, as the run's fourth connection shows.
- **TcpConnectionProofs**: any threads and messages, any size of a message, of the
  kernel's buffer and any mark. `IInv` joins the types, `WritesWhilePending`,
  `Accounted`, `SafeUnlessRaced` and three descriptions: `QueueOrder` (behind
  `connectionDestroyed` there is no second one, and a `sendInLoop` only if a thread was
  late, in the batch that runs and in what waits behind it), `LoopPhase` (what the loop
  holds at each place, and that nothing has happened to a connection not yet
  established) and `ClosePhase` (between `handleClose` and `connectionDestroyed` the state
  is the one the assert accepts, unless a user changed it). Without
  the order of the queue a step that destroys could be followed by one that uses.
  `Accounted` is shown once for a change *in place* (`InPlace`): cells go from the head of
  the buffer to the end of the wire (`Drain`), and what is given is appended behind,
  spoiling the places that `overwritten` names (`Behind`). `EverySendKept` adds
  `SendsKept` to `IInv`: a message passed to send has been given to `sendInLoop`,
  or is in a functor or a thread on its way there. `EndsAfterOutput` is an action
  property from the two: `shutdonwInLoop` and `handleWrite` end the stream only when
  no output waits, and what they can cut off is what `SendsKept` finds on its way.
- **AsyncLoggingProofs**: any finite or infinite set of threads that log, any sets of
  messages of any length, any sizes of the buffers, any widths of an integer
  that satisfy the code's `static_assert`, and any clock, set back or not. Its parts:
  - *Conversions.* `ConvertRight`: what `convert` writes reads back as the number it was
    given, in fewer characters than were asked for. It goes by induction over the
    magnitude, which truncating division makes smaller (`QuotientIs`), and needs no
    negation of the value, so that the least integer is not special.
  - *A line.* `Sound` says of a text in the making that it is typed, begins with the
    second it was made in, is shorter than the buffer, and shows all numbers so far
    or, once room is short, no wrong ones. Each `operator<<` keeps it (`SoundString`,
    `SoundInteger`, ...), hence the whole of Logger (`LineMade`).
  - *The buffers.* `IInv` joins `Control` (who is where), `Stored` (every buffer is
    within its size; while the back end has `mutex_` it has all that there is; at the top
    of a turn both its spare buffers are there, and when it gave the second one away it took
    more than one buffer, so that `recycle` finds enough), `FrontRight`
    (with the cached second and its text equal), `FileRight` and `Complete`. A step
    of the back end moves the boundary between file, what is being written, and
    buffers and leaves their concatenation as it was, but for `note`, which
    cuts off its end (`CutOff`); `append` puts a greater number behind it
    (`OrderedAppend`).
  - *Theorems.* `TypeCorrect`, with the asserts of `AsyncLogging.cpp`; `NothingLost`;
    `LinesReadRight`.

The library states induction and recursion for an operator, which the installed provers
cannot instantiate. `AsyncLoggingProofs` restates them for a *set* and for a *function*
(`NatInd`, `Iterates`), and gets from those that each recursive function of the model
exists and what it yields (the lemmas `TotalIs`, `DigitsExist`, `FlattenAppend`, ...).

Every invariant and every action property of the passing runs is proved.
Only model-checked: everything about liveness under fairness (and with it `ENABLED`),
and the runs that are expected to be violated. `EventLoopThread` has no safety
property beyond those of `EventLoop`.

## Findings

Three runs are expected to be violated; each states what the repository's own asserts
or test programs take for granted.

1. `append`: `Buffer::append` copies to the *reader* and advances the writer
   (`net/Buffer.h:79`), so bytes appended while others wait overwrite them. The
   `buffer` run shows that this is the only fault: `ContentRight` says exactly which
   bytes are lost, and that an append to a drained buffer loses none. In
   TcpConnection every cell keeps its place and content but those that such an append
   has spoilt, whose places `overwritten` names (`Accounted`).
2. `connection_destroyed`: a shutdown between `handleClose` and the functor it
   queues makes the first assert of `connectionDestroyed` fail. `SafeUnlessRaced`
   shows that no other order of calls can: `raced` is set exactly when a user's
   shutdown, or a send from another thread, takes effect after `handleClose`.
   Two more outcomes of such a race are within the model: a late `sendInLoop` that updates a
   removed Channel (`updateChannel`), and one that runs after the object has
   been destructed, as it is bound to a bare pointer (`destructed`).
3. `startloop`: the mutex of EventLoopThread is copied and not locked, so the
   notification may come between the test and the wait.

Some more is in the model without a run expected to be violated, most of it because
nothing in the repository says otherwise:

- `LOG_SYSFATAL` (`net/SocketsOps.cpp:63`) aborts before the switch that sorts accept's
  errors, of which it calls ECONNABORTED and EMFILE expected (`:71`). A client that resets
  before it is accepted, or the connection after the last descriptor, ends the
  server, although `Acceptor::handleRead` would go on; as `Socket` never closes, a
  server that lives long enough gets there.
- `loop()` begins by resetting `quit_` (`net/EventLoop.cpp:51`), so the quit of an
  `~EventLoopThread` that comes before it is forgotten and the join does not return.
  `QuitInLoopJoins` is the part that holds.
- IOWakeupTrigger registers its `handleRead` as the *write* callback
  (`net/IOWakeupTrigger.cpp:26`), so the eventfd is never read back to zero. After
  the first wakeup every poll returns at once and the loop spins.
- `LogFile::append_unlocked` compares the beginning of the period with the time of the
  last roll and never reads `startOfPeriod_` (`base/LogFile.cpp:95-97`): every
  `checkEveryN_` appends begin a new file, unless the last was begun at midnight to
  the second.
- After a FATAL line `abort` is called without AsyncLogging being told
  (`base/Logging.cpp:134`), so that line itself is not written.
- Lines appended after the back end's last swap stay in its buffers when it has been
  stopped (`base/AsyncLogging.cpp:75`); tasks left in a ThreadPool's queue are not run.
- A thread that sends and then shuts down may lose what it sent: shutdown sets
  `kDisconnecting` at once (`net/TcpConnection.cpp:94`), and a `handleWrite` that finishes
  earlier output then ends the stream (`:50`) before the send's functor has run.
  `EndsAfterOutput` says that nothing else can be cut off.
- A full disk stops every thread that logs: `AppendFile::append` goes on for ever
  (`base/FileUtil.cpp:41`) while the back end holds `mutex_`.
- Two connections of one name, once numbers are cut (`net/TcpServer.h:88`): the second
  takes the first's place in the map, and with it the first's last reference.
- A pool whose workers all wait, inside tasks, for room in its queue: neither they nor a
  stop that joins them (`base/ThreadPool.cpp:53`) go on.

## What is not modelled

- `TimerQueue::remove` does not compile when instantiated and `EventLoop::cancle` is
  empty: there is no cancelling to model.
- `EventLoopThreadPool`: TcpServer builds it with no threads and
  `setNumOfThreads` is never passed on, so `getNextLoop` always returns the base loop.
  Started with threads, it would let `unique_ptr`s own loops on other stacks.
- `BoundedBlockingQueue` does not compile when instantiated (`notFull_` is initialised
  with itself, a copy of a noncopyable Condition). `BlockingQueue` has no user in the
  library, and the shape of ThreadPool's queue without a bound.
- `Connector` is empty. `StringPiece`, `Singleton`, `ThreadLocal`, `Atomic`,
  `ProcessInfo`, `InetAddress` and most of `SocketsOps` are value types, system calls,
  or thin wrappers without a protocol of their own.
- `Thread` appears as far as EventLoopThread, ThreadPool and AsyncLogging use it:
  detaching in its destructor, names and the cache of the thread's id are left out.
- `ReadSmallFile`, the lock of a LogFile that several threads share (AsyncLogging
  makes it without one), the names of files, the formatting of doubles and of `Fmt`.
- Exceptions: a task, callback or functor that throws ends the program.

## Plan

Done: Poller, EventLoop with FunctorQueue, EventLoopThread, TimerQueue, Buffer,
TcpConnection, TcpServer, ThreadPool with TaskQueue, LogStream, LogFile,
AsyncLogging; proofs of the safety of all of them but EventLoopThread.

Next, most important first:

1. An abstract specification of a connection's output, a stream of cells that is
   appended to and read from, and the proof that `TcpConnection` implements it as
   long as `overwritten` is empty. `Accounted` already gives the cells in their places.
2. The same for `AsyncLogging` over a queue of lines whose middle may be dropped.
3. The step-level facts the liveness properties rest on (which action is enabled
   where), as far as they can be said without `ENABLED`.
