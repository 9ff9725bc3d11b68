# penduo in TLA+

penduo is a small C++11 network library with one event loop per thread: an
`EventLoop` polls file descriptors, dispatches their `Channel`s and runs the
functors that other threads hand to it; a `TimerQueue` runs callbacks at given
times; an `Acceptor`, a `TcpServer` and its `TcpConnection`s serve TCP peers.
There is no documentation beside the comments; what the code promises is taken
from them, from the assertions and from the programs under `src/src/net/tests`.
All paths below are relative to the repository; `net/` and `base/` stand for
`src/src/net/` and `src/src/base/`, `E.h` and `E.cc` for
`src/src/base/logging/easyloggingpp/easylogging++.h` and `.cc`.

## The system

| component | state | operations | talks to |
|---|---|---|---|
| `EventLoop` (`net/EventLoop.cpp`) | `looping_`, `quit_`, `calling_pending_functors_`, `active_channels_`, `pending_functors_` under `mutex_`, the wakeup pipe | `loop`, `do_pending_functors`, `run_in_loop`, `queue_in_loop`, `quit`, `wakeup`, `wakeupfd_handle_read` | called by any thread; owns the `Poller` and the `TimerQueue`; dispatches channels |
| `Poller`, `Channel` (`net/Poller.cpp`, `net/Channel.cpp`) | `pollfds_`, `channels_`; per channel `events_`, `pollfds_index_`, `added_to_loop_` | `update_channel`, `remove_channel`, `fill_active_channels`; `enable_reading`, `disable_all`, `remove`, constructor, destructor | called in the loop thread by every owner of a channel |
| `TimerQueue` (`net/TimerQueue.cpp`) | `timer_list_` | `add_timer`, `insert`, `handle_read`, `get_expired`, `reset` | hands itself functors through `run_in_loop`; sets and reads a `Timerfd` |
| `Timerfd`, `TimerfdNaive` (`base/timerfd`) | the kernel's timer | `reset`, `read`, `how_much_time_from_now` | read through a channel of the loop |
| `TimerfdThreadSimulation` (`base/timerfd`) | one thread, a set of (time, pipe) under a mutex, a weakup pipe | `reset`, `read`, the thread | the other `Timerfd`, a build option |
| `EventLoopThread` (`net/EventLoopThread.cpp`) | `loop_` under `mutex_`, a condition variable | `start_loop`, `thread_func` | constructs and runs an `EventLoop` in its thread |
| `TcpServer`, `Acceptor`, `TcpConnection`, `Buffer`, `SocketsOps` (`net/`) | `connections_`, `state_`, the channels, the sockets | `start`, `handle_read` of both, `new_connection`, `connect_establish`, `handle_close`, `remove_connection`, `connect_destoryed`, `accept`, `read_fd` | channels in the loop; `queue_in_loop` for the end of a connection; the user's callbacks |
| `Logger` (`base/logging/Logger.cpp`) | `init_flag` | `Init`, the macros `LOG_*` and `LOG_SYS_*` | reconfigures every logger of easylogging++; used by every component and thread |
| easylogging++ (`base/logging/easyloggingpp`) | `Storage`: the registered loggers with their configurations, typed configurations and streams, the files they share, hit counters, verbose levels, callbacks, flags | `Configurations`, `Loggers`, `Writer`, `Logger::log`, `LogDispatcher`, `LogBuilder` | one per process, shared by all threads |

What is hard in it:

* **Lost wakeups.** A functor is pushed under a mutex and the loop is woken
  afterwards, by a test of the calling thread and of a flag
  (`EventLoop.cpp:93`). The loop swaps the vector, runs it without the mutex and
  goes back to a poll of several seconds. `quit()` stores and then wakes.
* **A blocking pipe.** `wakeup()` writes to, and the loop reads from, a pipe
  that is not non-blocking; the only reader is the thread that must not sleep.
* **Start and stop.** A loop is constructed in one thread and its address used
  in another before `loop()` is entered.
* **Index surgery.** `Poller::remove_channel()` moves the last entry into the
  hole; disabled entries carry the complement of their descriptor.
* **Deferred destruction.** A connection leaves the server's map while its
  channel is dispatched and the poller in a functor; other events come between.
* **Time.** Timers are added from any thread and from timer callbacks while
  others expire; the wait is truncated to microseconds and raised to 100.
* **Shared logging.** All threads write through the same loggers. The parts of a
  line are gathered in a stream of the logger, under a lock that is taken in one
  function and given back in another; Writers log inside Writers; the typed
  configurations are deleted and built again while lines are written; files are
  shared by name among loggers that count what they have not flushed.
* **Failure.** `accept()` and `readv()` fail; peers close and reset.

`PROJECT.json` lists each hazard at its line, with the properties that cover it.

## Modules

| module | models | kind |
|---|---|---|
| `FunctorQueue` | what `EventLoop` promises about functors: a first-in first-out queue from which each is run once, and the shortcut of `run_in_loop` | abstract |
| `EventLoop` | the loop, its queue, the wakeup pipe and the calling threads | detailed, implements `FunctorQueue` |
| `EventLoopThread` | extends `EventLoop` with `start_loop` and `thread_func` | composition |
| `Poller` | `Poller` and the registration half of `Channel`, as operators on a registry | operators |
| `PollerClient` | any program that uses channels the way the library's own classes do | detailed, over `Poller` |
| `ServerPromise` | the callbacks a user of `TcpServer` sees of a peer: up, its bytes, at most one message without any, down | abstract |
| `TcpServer` | server, acceptor and connections over `Poller`, with the kernel's half of the sockets | detailed, implements `ServerPromise` |
| `TimerPromise` | a timer is run once and not before its time | abstract |
| `TimerQueue` | the timer queue over `timerfd`, with a clock | detailed, implements `TimerPromise` |
| `TimerThreadPromise` | what a `TimerfdThreadSimulation` promises its loop: one expiration at a time, one tick for each, none early | abstract |
| `TimerThread` | `TimerfdThreadSimulation` and the thread behind it | detailed, implements `TimerThreadPromise` |
| `LogConfigurations` | `el::Configurations`, its defaults and its parser, as operators on a list | operators |
| `LogTyped` | `TypedConfigurations` and the file streams with their sizes and limits | operators, over `LogConfigurations` |
| `LogRegistry` | the registered loggers, `el::Loggers`, the writing, flushing and rolling of files, `penduo::Logger::Init()` | detailed, over `LogTyped` |
| `LogFormat` | `LogFormat` and `DefaultLogBuilder`: how format and message become a line | operators |
| `LogSites` | hit counters, `VRegistry`, the command line | operators |
| `Logging` | threads with `Writer`s and `Logger::log`, the locks, `LogDispatcher`, `Logger::Init()` | detailed, over `LogSites` and `LogFormat` |
| `Loops` | the loop that the operators of easylogging++ are written with | operators |
| `CommonLemmas` | induction over the numbers, iterated functions, loops, sums over finite sets, sequences that hold each element of a set once | lemmas |
| `EventLoopProofs`, `PollerProofs`, `TcpServerProofs`, `TimerQueueProofs`, `TimerThreadProofs`, `LoggingProofs`, `LogRegistryProofs` | theorems about the module of that name, and about `EventLoopThread` and `PollerClient` | proofs |
| `MC...` | the same modules for TLC | |

`TcpServer` and `TimerQueue` do not repeat the queue of functors: they take from
`EventLoop` what `FunctorQueue` and `FunctorsRun` state (each functor is run once,
in order, and one queued elsewhere wakes the loop). `TcpServer` and `PollerClient`
share the operators of `Poller`.

### EventLoop

`pc` is where the loop thread is: `outside` `loop()`, at the `test` of `quit_`, in
`poll`, in `dispatch` of the active channels, before the `swap`, in the `run` of
the batch or inside a `functor`. `pending` is `pending_functors_`, `batch` what is
left of the local vector, `calling` is `calling_pending_functors_`, `pipe` the
number of words in the wakeup pipe, `waking` the threads between the push (or the
store to `quit_`) and their `write`. A thread in `waking` does nothing else, and if
the pipe is full it blocks; if it is the loop thread, the loop blocks with it.
`Init` is a loop constructed and not entered; `Loop` may be taken again after
`loop()` has returned. Channels other than the wakeup channel are one source of
events, `io`: `poll()` may report it at any time, and while it is dispatched the
loop thread may make any call. A functor may do so too, and a callback may call
`quit()`. `submitted`, `early` and `ran` are history variables; no action reads
`early` or `ran`.

`quit_` and `calling_pending_functors_` are `std::atomic<bool>` (`EventLoop.h:68,77`),
read and written with sequential consistency: the model reads and writes them
atomically in program order. `calling_pending_functors_` is read by other threads
only after `!is_in_loop_thread()` has decided the disjunction.

### EventLoopThread

`thread` is where `thread_func()` is, `starter` where the caller of `start_loop()`
is. The wait on the condition variable is a loop on its predicate: the caller is
`calling` when it holds the mutex to evaluate it and `waiting` when it sleeps;
`WakesUp` is a spurious wakeup. Calls on the loop are possible once `start_loop()`
has returned, which may be before `loop()` is entered. The process ends when
`thread_func()` returns: see *Known disagreements*.

### Poller and PollerClient

A registry is a record: `pollfds` and `channels` of the poller, and `fd`, `events`,
`index` and `added` of every channel; `alive` is the set of channels constructed;
`failed` becomes true where an `assert` of the code fails. The operators have the
names of the functions. Indexes count from 0 as in the code. Only reading is
modelled: nothing in the library enables writing. `ReportsHaveChannels` is the two
assertions of `fill_active_channels()`; the property `PollReports` includes it, and
`TcpServer!Poll` fails by it. The break of its loop after `num_events` entries skips
only entries without `revents`. `handle_event` says which of the
callbacks that are set an event calls. `PollerClient` constrains
the order of calls on one channel to that of the library's classes (enable,
disable, remove, destroy, no use after `remove`, no two channels in the loop on one
descriptor) and leaves everything else open.

### TcpServer

`reg` is a registry. A connection is named by its peer. `phase` is where the loop
is; `active` what is left of the active channels; `pending` the queued
`connect_destoryed()` calls. `told` and `got` are what the user's callbacks were
given, and `empties` counts the messages that carry nothing. The kernel is `backlog`,
`sent`, `text` and `wire`, which goes from `open` to `fin` or
to `rst`, and from `rst` to `rstRead` when the error was reported once. `poll()` reports
`POLLHUP` and `POLLERR` with a reset, which must not keep the read callback, the only one
there is, from finding the end of the connection (`Revents`, `handle_event`). Descriptors
are numbers and the kernel gives out the lowest free one, so that a descriptor can
come back while its old connection is still there; `Fds` is the limit of the
process. `accept()` fails when none is left. Every handler is one action, with all
the calls it makes: `AcceptorHandleRead` includes `new_connection` and
`connect_establish`, `ConnectionHandleRead` includes `read_fd`, `handle_close` and
`remove_connection`. `size_t` is `SizeModulus` values wide.

Of the bytes of a peer the model has their number (`sent`) and how many of them come
before the first byte 0 (`text`), since `read_fd()` asserts that what it has read is a
string of its length (`Buffer.cpp:29`). `StringLengths` is what `strlen()` may find in
the zeroed buffer: the bytes up to the first 0, or all of them; and when they fill the
buffer nothing terminates them, and it may be more. If the assertion holds,
`HandleResult` follows; if it does not, the peer is in `misread` and the process has
ended, as with `fatal` and `failed` (`Running`): nothing happens after it, and there is no
server for the peers to talk to. No build file of penduo defines `NDEBUG`, so the
assertion is there.

### TimerQueue

Time is counted in ticks of the steady clock, `TicksPerMicro` to a microsecond.
`left` counts down to the expiration of timerfd, `readable` is an expiration not
read. `Tick` may come between any two steps, also between the reading of the clock
in `handle_read()` (`cutoff`), the read of timerfd, the callbacks and the final
`reset()`; and within `TimerfdNaive::reset()`, between the reading of the clock
(`ResetTimerfd`) and `timerfd_settime()` (`SetTime`), where other threads may queue
functors too. In between `wait` is the time computed, and the loop thread does nothing
else (`At`). `lag` is a history variable, which no guard reads: what passed in between, as
long as that setting is in force. `cutoff` is 0 outside `handle_read()`. `AddInLoop` may come wherever user code runs in the loop thread, which
includes the callbacks of timers; `AddElsewhere` queues a functor.

Two timers due at the same time are ordered in `timer_list_` by the address of the
timer, which is any order: `IsEarliest` and `GetExpired` leave it open.

### TimerThread

The other implementation of `Timerfd`, which is built when
`PENDUO_USE_NAIVE_TIMERFD` is off: one thread for the process, with the set of
(time, pipe) pairs that the loops' `reset()` calls change under a mutex, and a pipe
that wakes it. `instance` is where the constructor or the destructor of
`TimerThread` is; `Init` is the first `reset()` of the process, which constructs it.
`polled` is the descriptor the thread has copied: `Start` may come before
`MakePipe`, since the thread is started by an initializer and the pipe made in the
body of the constructor. `mutex` names the `Timerfd` whose `reset()` is in the write
of its word, which the mutex covers; the pipe is counted in pieces of four bytes,
two to a word, because that is what the thread reads. `wait` is an `int`
(`AsInt`) and may be negative; `left` counts down while the thread is in `poll()`.

### LogConfigurations, LogTyped, LogRegistry

A `Configurations` object is the sequence of its entries, because its order matters:
`set` for `Global` overwrites what levels had, and a copy (`setFromBase`) replays the
entries. A text is a sequence of lines, each split into its words; how it is split is left
out. A word that names no level or no type makes its line, and what follows a level of no
name, fail.
What the code does in a loop, over levels, entries, lines or loggers, is a `Loop`, a
recursive function of the round, as in `Loops`.
`LogTyped!build` makes the maps a logger looks up, where `Global` stands for the levels
that agree with it, and opens or shares the files. A stream is a record of the file's
size and the lines `pending` in its buffer by the logger that wrote them; `tellg()` counts
both, since a stream is opened to append and begins at the end of its file. In `LogRegistry` `registry` is
`RegisteredLoggers` with the streams, `user` an object that the program fills, and
each action an operation of `Configurations`, `Loggers` or `Storage`. `Write` is a line that
has come to the default callback. These operations are taken one at a time: what
several threads do is the subject of `Logging`.

### LogFormat, LogSites, Logging

A text is a sequence of tokens, so that a specifier in a message is the same thing as
one in a format. `replaceFirstWithEscape` is the search and replace that everything is
done with. `LogSites` says, for a place in the program, whether its line is written;
a statement with the field `op` changes, while other threads log, the verbose level or the
modules that decide it for `VLOG`.

In `Logging` each thread has a list of statements `todo` and a stack of `Writer`s, since a
Writer may log in its constructor (there is no such logger) and in its destructor (the
line is fatal). `at` is where a Writer is: before `Logger::Init()`, at the condition of
its macro, in the constructor, in the `<<`s, in `processDispatch()`, waiting for
the lock of `Storage`, in the callbacks, giving the lock back. A statement with the field
`args` is `logger->info(format, values...)`, which takes the lock before there is a
Writer. `owner` and `dispatcher` are the locks; with `ThreadSafe = FALSE`, which is how
penduo is built, they are `NoMutex`. `InitOnce`, `BeginReconfigure` and `EndReconfigure` are
`Logger::Init()` under `call_once`. `visits` and `written` are history variables.

## Runs

Every run checks for deadlock, except those of `EventLoopThread` and `TcpServer`, where
the process may end, `MCLogRegistry`, whose bounds end it, and the violation runs.

| run | instance | shows |
|---|---|---|
| `MCEventLoop` | loop thread and 2 others, 3 functors, functors may queue, 1 `quit()` by others, pipe of 4 words | `NoLostFunctor`, `NoLostQuit`, `WakeupReadHasAWord`, `NoAbandonedBatch`, `ImplementsQueue`, and under fairness `FunctorsRun` and `QuitStops` |
| `MCEventLoopThread` | the same threads, a pipe of 1 word, functors do not queue | `PointerIsLive`, and under fairness `StartLoopReturns`, `HandedFunctorRuns`, `WritersReturn`; here writers do block in the pipe |
| `MCPollerClient` | 4 channels on descriptors 0, 3, 4 | `ClientTypeOK`, `NoAssertFails`, `PollReports`, `OthersKeepTheirEntry` |
| `MCTcpServer` | 2 peers of up to 3 bytes, reads of 2 | `TypeOK`, `OnlyBytesAbort`, `TablesAgree`, `ImplementsPromise`, and under fairness `BacklogIsAccepted`, `AllIsDelivered`, `CloseIsReported` |
| `MCTimerQueue` | 3 timers due at any of 5 times, 2 ticks to the microsecond | `TypeOK`, `ArmedWhenWaiting`, `ImplementsPromise`, `EveryTimerRuns` |
| `MCTimerThread` | 2 Timerfds, 2 resets to any of 5 times, 2 ticks to the millisecond | `TypeOK`, `SleepsNoLonger`, `ImplementsPromise`, `EveryTimerfdTicks`, `DestructorReturns` |
| `MCLogRegistry` | 2 loggers, 2 levels, 3 files of which one cannot be opened, 3 operations, 3 lines | `TypedAgree`, `OneStreamPerFile`, `LossIsBounded`, `ConfiguredAsAsked` |
| `MCLogging` | 2 threads with up to 4 statements each, 3 loggers, 4 command lines, `ThreadSafe` | `MessagesAreWhole`, `MessageIsVerbatim`, `ConfigurationsAreStable`, `OccasionsKept`, and under fairness `StatementsEnd` |
| `MCEventLoopThreadQuit` | as `MCEventLoopThread` | violates `QuitIsHeard` |
| `MCTcpServerFds` | 2 peers, descriptors for one | violates `ExpectedErrorsAreSurvived` |
| `MCTimerThreadStart` | as `MCTimerThread` | violates `RunsAtItsTime` |
| `MCLoggingUnlocked` | as `MCLogging`, `ThreadSafe = FALSE` | violates `DispatchIsExclusive` |

Why the bounds are enough:

* *EventLoop.* A lost wakeup needs a pass that has swapped, a thread that has
  pushed and not written, and a word already in the pipe or already read: two
  threads and two functors. The third functor lets a functor of a pass queue one
  behind another thread's. The pipe holds a word for each functor and the quit,
  since a functor that writes into a full pipe blocks the only reader (a hazard
  without a property: the pipe of Linux holds 8192 words). The theorems hold for
  any number of each.
* *EventLoopThread.* With a pipe of one word, two threads and three functors a
  writer blocks behind another's word. `WritersReturn` holds of calls that come to an
  end, as `Functors` and `MaxQuits` make them: threads that never stop writing could
  always be ahead of one that waits.
* *PollerClient.* Four channels on three descriptors: entries in the first, a
  middle and the last place are removed while another channel waits with the
  descriptor of a removed one. Descriptor 0 is there because its complement is the
  one a change of sign would not make negative.
* *TcpServer.* The listener and two connections give the poller three entries, so
  that a connection that ends moves the entry of another, enabled or not; one closes
  while the other connects, sends, is read or closes in the same iteration. A read
  takes two bytes, so that with two bytes a read fills the buffer and the end of file
  comes with the next; three bytes need two reads, and a byte 0 may be any of them. A
  full read either is followed by a 0 in memory, and all goes on, or is not, and the
  process ends; both are in the run, so `AllIsDelivered` is about two reads in a row,
  too. `SizeModulus` is any number larger
  than a read.
* *TimerQueue.* One timer that expires, one that waits and one that is added in
  between. Timers differ in nothing but their times, so `OrderedSpec` begins with the
  times in the order of the names: every other behaviour is one of these renamed
  (`SYMMETRY` would be unsound with liveness). Two ticks to the microsecond make truncation visible, and five times are as
  many as it takes to set timerfd to more than the shortest wait; times go to
  `MaxTime`, where the clock stops, and timerfd runs on so that no expiration is
  cut off.
* *TimerThread.* Two resets, of one Timerfd or of two, are what it takes for an
  expiration to be replaced or for a wait to be too long for another; with five times
  the wait is more than its minimum. `IdleMillis` stands for 10000 and `IntHalf` for
  2^31; the weakup pipe holds a word for every reset, since a full one blocks the
  thread and the loops for ever (a hazard of `PROJECT.json`, like the cast of a wait
  of 24 days: smaller values of the constants show both).
* *LogRegistry.* Two levels are one that has a default format of its own and one that
  has not; a setting of `Global` differs from one of a level, and both loggers can come
  to share a file of a level, of all levels or one that cannot be opened. Three
  operations are a change, a second one that undoes or overtakes it, and a
  reconfiguration of the rest; three lines fill a buffer up to a threshold of two or
  three, or a file of two lines up to its limit.
* *Logging.* The programs hold every kind of statement; each pair that shares a logger
  meets another thread's on it. A site passed eight times takes its counter twice over
  `KMax`, three, which stands for 100000 and is no multiple of the period. The formats are
  penduo's and one with escapes before and after the specifier.

The fairness assumed: the loop thread takes its steps, callbacks return, and a
thread inside `wakeup()` whose write does not block goes on (the scheduler). Time
passes. `poll()` is *not* assumed to return at its timeout in `EventLoop`,
`EventLoopThread` and `TimerQueue`, where the runs show that nothing depends on it;
in `TcpServer` the poll is a step of the loop and returns with what is readable, and
the poll of `TimerThread` returns at its timeout, which is what its thread waits for.
Nobody is assumed to call anything, and no peer to send, close or read. In `Logging`
every thread that can go on does (weak fairness of each thread), which includes that
callbacks return.

## What the runs show about the code

The properties that hold are what one would want of it: functors are never left
behind a sleeping poll, the queue is first-in first-out, the poller's tables agree
however channels come and go, a connection closes once and its four records agree,
bytes come before the end of file, nothing but the bytes of a peer ends a server that
has descriptors, timers are run once and never early, and timerfd is set
late by no more than passes between the clock reading and `timerfd_settime()`. In a build with
locks a message is that of one statement, stands in its line as it was written, and no
order of the locks stops a thread; loggers look up what they were told, a file has one
stream, and a crash loses no more than the thresholds allow.

The runs that end in a violation:

* `QuitIsHeard`. `loop()` starts with `quit_ = false`. A thread that calls `quit()`
  through the pointer `start_loop()` has returned, before `thread_func()` has entered
  `loop()`, is not heard: the wakeup word makes the first poll return, `quit_` is
  false, and the loop goes on for ever. `EventLoop_6.cpp:29` ends its loop this way.
* `ExpectedErrorsAreSurvived`. `sockets::accept()` calls `fcntl()` on the descriptor
  before it looks at it. With -1 that sets `errno` to `EBADF`, which is what the
  switch then sees: `EMFILE`, an "expected error", ends the process.
* `RunsAtItsTime`. The timer thread copies `weakup_fds_[0]` when it starts, and it is
  started before `pipe()`. If it is first, it polls descriptor 0 from then on: no
  `reset()` wakes it and a timer is run when an idle wait of ten seconds ends, or when
  the standard input has something, of which the thread then takes four bytes.
  `SleepsNoLonger` shows that everything is in order once it watches its pipe, and
  `EveryTimerfdTicks` that even otherwise no timer is lost.

* `DispatchIsExclusive`. "global lock is turned on by default" (`E.cc:2486`), but no build
  file of penduo defines `ELPP_THREAD_SAFE`, without which all mutexes are `NoMutex`
  (`E.h:981`): loops in several threads write to the streams of loggers and files at the
  same time. The other properties of `MCLogging` hold for a build that defines it.

### Known disagreements that need no run

These follow from one or two lines each, whatever the interleaving, and a model would
only restate them:

* When `loop()` has returned, `~EventLoop` destroys its wakeup channel and the
  channel of its `TimerQueue` while both are enabled and in the poller
  (`TimerQueue.cpp:25` has a todo); `Channel.cpp:31-32` assert the contrary. The same
  holds for the channel of an `Acceptor` that listens, when its `TcpServer` is
  destroyed (`TcpServer.cpp:27`).
* `~EventLoopThread` destroys a joinable `std::thread` (`EventLoopThread.h:20`), as
  `EventLoop_6.cpp` does at the end of `main()`.
* `TcpServer.h:29` calls `start()` thread safe; `TcpServer.cpp:30` ends the process
  when another thread than the loop's calls it.
* `TimerQueue.h:29` says that a timer with an interval repeats; `TimerQueue.cpp:87`
  has a todo for it.
* `Buffer::read_fd()` asserts that what it has read is a string of its length
  (`Buffer.cpp:29`): a byte 0 from a peer ends the process, and so may a read of all
  65536 bytes, since the array has no room for a terminator and `strlen()` runs past it.
  With `NDEBUG` the bytes from the first 0 of a read on would be lost (line 30).
  `OnlyBytesAbort` shows that nothing else ends the process, and the liveness properties
  of `MCTcpServer` say `misread # {}` for it.
* `TcpConnection::handle_read()` keeps the result of `read_fd()` in a `size_t`
  (`TcpConnection.cpp:53`); -1 is greater than 0, the message callback is called with a
  buffer to which nothing was added (`EmptyMessage` of `ServerPromise`, at most once for a
  connection), and `handle_error()` cannot be reached. `CloseIsReported` shows that the
  connection is nevertheless closed, by the end of file of the next read.
* The close callback that `new_connection()` stores in a connection holds a
  `shared_ptr` to it (`TcpServer.cpp:49`), so it is never destroyed and its socket never
  closed: a server runs out of descriptors, and then meets `ExpectedErrorsAreSurvived`.
* A callback dispatched before the timer's channel may add a timer that sets timerfd
  again, which takes back the expiration that `poll()` has reported.
  `TimerfdNaive::read()` then reports an error and logs an uninitialised number
  (`TimerfdNaive.cpp:28`); the timers are run all the same (`EveryTimerRuns`).

In easylogging++:

* `Logger::log` with more values than `%v` returns with the lock held and the stream
  filled (`E.h:3287`). `MCLogging` gives such a statement a logger of its own.
* `unregisterLogger()` deletes a logger that a Writer may hold (`E.cc:2959`), and what it
  wrote and did not flush stays in the shared stream.
* `configure()` resets the counts and flushes before it takes the lock of the logger
  (`E.cc:649`).
* `setRemainingToDefault()` sets a missing `Global` with `set`, which overwrites the
  levels that were there (`E.cc:540`, against `E.h:1832`). In a list where levels come
  before `Global`, `setFromBase()` and `setValue()` lose the levels too, hence the
  hypothesis of `ConfiguredAsAsked`.
* If the file of `Global` cannot be opened, `ToFile` of `Global` is set to false, for all
  levels that share it, also those with a good file (`E.cc:1811`).
* A module of `-vmodule` without a level becomes part of the next one's name
  (`E.cc:1951`); of several patterns that match a file any may be found (`E.cc:2023`).
* `RegistryWithPred::unregister()` deletes the element behind the one it has erased
  (`E.h:1507`).
* `HierarchicalLogging` compares the values of the levels, where `Fatal` is below `Error`.
* `--default-log-file` sets the file of every level but `Global` (`E.cc:2163`).
* Of several loggers, if the first has the level disabled the others write an empty
  message; a fatal line to several reaches the first only.
* `LogFormat::operator=` does not copy `m_format` (`E.cc:1470`).

## What is proved

| theorem | in | for every |
|---|---|---|
| `TypeCorrect`, `LosesNoFunctor`, `LosesNoQuit`, `WakeupNeverBlocks`, `AbandonsNoBatch` | `EventLoopProofs` | number of threads, functors, capacity of the pipe, bound on `quit()` |
| `RefinesQueue`: `Spec => Queue!Spec` | `EventLoopProofs` | the same |
| `ThreadRunsLoop`: `ThreadSpec => Spec`; `ThreadLosesNothing`; `PointerStaysLive` | `EventLoopProofs` | the same |
| `ClientTypeCorrect`, `AssertionsHold`, `ReportsAreExact`, `EntriesAreKept` | `PollerProofs` | set of channels and of descriptors |
| `TypeCorrect`, `RecordsAgree`, `NothingElseIsFatal` if descriptors last | `TcpServerProofs` | number of peers, bytes, size of a read, descriptors |
| `ServesAsPromised`: `Spec => Promise!Spec` | `TcpServerProofs` | the same |
| `TypeCorrect`, `NoneIsForgotten` | `TimerQueueProofs` | number of timers, clock, resolution of timerfd |
| `RunsAsPromised`: `Spec => Promise!Spec` | `TimerQueueProofs` | the same |
| `TypeCorrect`, `NeverOversleeps` if waits fit an `int` | `TimerThreadProofs` | number of Timerfds and resets, clock, width of an `int`, pipe |
| `TicksAsPromised`: `Spec => Promise!Spec` | `TimerThreadProofs` | the same |
| `MessagesStayWhole`, `ConfigurationsStay`, `CallbacksStayApart` if `ThreadSafe` | `LoggingProofs` | threads, programs, loggers, levels, formats, flags |
| `OccasionsStay` | `LoggingProofs` | the same, and any `KMax` |
| `MessagesStandVerbatim` if `TextsApart`, with `ThreadSafe` or without | `LoggingProofs` | the same, and any values, messages and custom specifiers |
| `TypedAgrees`, `FilesHaveOneStream`, `LossStaysBounded`, `AllAreAsAsked` | `LogRegistryProofs` | levels, loggers, files, settings, texts, operations and lines |

Every proof of an invariant has the same shape: `IInv` is a conjunction of named parts,
`InitIInv` and a lemma for each action show that it is inductive, and the invariants of the
runs follow from it. TLC has checked each `IInv` on the instance of the component's run
(`LoggingProofs!IInv` with and without `ThreadSafe`; of `LogRegistryProofs!IInv`
the memberships are written out for TLC, since it cannot enumerate functions into `Nat`).

*EventLoop.* The assumptions are those of `EventLoopAssumption`: the loop thread is
none of the others, the pipe holds at least a word. `NoLostFunctor` speaks of the
moments when the loop sleeps or has returned; to be inductive it has to be followed
through an iteration. The invariant says: whenever a functor is pending that the
owner did not queue before `loop()`, and the loop is past the point where the coming
pass would take it, there is a word in the pipe or a thread about to write one; and
that words are taken out only in `dispatch`, between the poll that saw them and the
swap that takes all functors pushed before. `calling` is true exactly from the
dispatch's end to the pass's end, `batch` is empty elsewhere, and a word seen by
`poll()` stays until it is handled. Refinement maps `queue` to
`batch \o pending`: the swap is a stutter, and a push a `Submit`.

*Poller.* `PollerProofs` states first, for the operators, that a *consistent* registry
stays consistent: every channel in the loop owns the entry at its index and the key
of its descriptor, entries and channels in the loop correspond one to one, and
an entry holds the descriptor or its complement according to `events`. The case
that needs care is a removal that moves the last entry. It then applies these
lemmas to each action of `PollerClient` (`ClientInv`). `ReportsAreExact` needs what
`fill_active_channels()` computes: its loop over `pollfds_` is a recursive function, by
induction a prefix of the entries gives each reporting channel once. The lemmas about the
operators do not mention `PollerClient`; `TcpServerProofs` extends the module for them.

*Induction.* The library's induction theorems take an operator, which no prover here can
instantiate. `NatInduct` of `CommonLemmas` states induction for sets (a set of numbers that
has 0 and with each number the next is `Nat`), and `IterationExists` that a function defined
step by step up to `N` exists, which is what unfolding a recursive function needs.
`LoopKeeps`, `LoopProgresses`, `LoopExists` and `LoopExistsIn` state for the loops of the
models what a loop invariant is: a set that every round keeps, the same one or one for each
round. Sums over finite sets, which the library folds in an order it chooses, are treated the
same way: `SumMonotone`, `SumIncrements` and `SumOfZeros`.

*EventLoopThread.* Each of its steps is one of `EventLoop` or leaves the loop alone, so
`ThreadSpec` implies `Spec` and everything proved of the loop carries over.
`PointerStaysLive` adds that `loop_` is set only after the construction and that
`start_loop()` has returned only when it is set.

*TcpServer.* The invariant says that the registry is consistent; that `opened` is the
descriptors of the listener and of every connection ever accepted, all different; that
`backlog`, `pending` and `active` hold, once each, the peers that wait, the connections
that were closed and not yet destroyed, and channels that are still open; and for each
peer, that state, registry, map, wire and what the user was told agree (`PeerKept`). The
part that is needed for `NothingElseIsFatal` is that the active channels and the queued
`connect_destoryed()` never name the same connection: a connection closes in its own
handler, which is behind it in `active`, and is destroyed before the next poll. That the
channels still to be handled are readable makes `readv()` return no -1 but that of a reset
(`ReadOutcome`); a read that stands the assertion takes nothing behind a byte 0
(`TextOutcome`, hence `got[p] <= text[p]`), and for one that does not the invariant keeps
why (`misread`). In the
refinement the bytes of a read are those of the wire, and the end of file comes when
all were read; the loop, the registry and the queue are stutters. The one hypothesis,
`DescriptorsLast`, is that there are descriptors for the listener and all peers, of which
the server closes none; without it `MCTcpServerFds` shows the end of the process. Types,
`TablesAgree` and the refinement hold without it.

*TimerQueue.* A timer is in one of four places: in a functor, in the pass that runs it, in
`timer_list_`, or among the expired ones of a `handle_read()`. `ArmedWhenWaiting` is
inductive with that and with what the loop holds at each place: from the reading of the
clock to the final `reset()` it is the loop that is going to arm timerfd, and otherwise
timerfd is readable, or set to no more than the time of the earliest timer or the shortest
wait, but for `lag`. Between the clock reading and `timerfd_settime()` the same is said of
`wait` (`WaitKept`), and `SetTime` hands it over (`SetKeeps`). That `HowMuchTime` truncates
in the right direction is the lemma `TimeToWait`.

*TimerThread.* A Timerfd has one entry, with the time it was last set to; those taken and
not yet written are of different Timerfds; and `resets` bounds the ticks, written, taken and
to come (`TicksCounted`). From this the refinement follows with the entry of a Timerfd as
its expiration. `SleepsNoLonger` is inductive over that invariant: a thread that watches its
pipe is awake, or has a word to read, or a `reset()` is about to write one, or it sleeps no
longer than to its earliest timer, or a millisecond. Its hypothesis `WaitsFit` is that no
time is further off than an `int` has milliseconds (24 days): the cast makes a longer wait
negative, which is one of the hazards. `CastToInt` says what the cast does in either case.

*Logging.* Each thread has a stack of Writers. The invariant says what each Writer holds
where it is (`WriterKept`: from the lock of its logger on, the logger's owner is its thread
and the stream has exactly the parts said so far); that all Writers but the innermost hold
nothing, since a Writer constructs another only before its lock is taken or after it is
given back; that a logger nobody owns has an empty stream; and who runs
`Logger::Init()`. Mutual exclusion is a consequence of `owner` and `dispatcher`, and the two
Writers of a thread never mix since one at most holds a lock. These parts are stated for
`ThreadSafe`, and without it they are false: `MCLoggingUnlocked` shows one consequence.
`OccasionsStay` follows the counter of a site through its phases: since it starts anew
at `KMax` and not at a multiple of the period, the invariant relates it to the visits
modulo `n`. A visit of a site is one step of the model, which the lock around the counters
justifies where there is one; what two threads do to a counter without it is not stated.
`StatementsAssumption` says what a program is (a statement is for some logger, a site has
one occasion and one `n`), and excludes the one case the model's locks are not meant for: a
thread that leaves a logger locked, by giving `info(format, ...)` too many values, and then
logs again. It is a hazard of `PROJECT.json`.
`MessagesStandVerbatim` needs of the invariant only that a Writer at the callbacks has a
logger and that its message is made of whole parts; the rest is about `LogFormat`, and holds
without the locks, as penduo is built. `ReplaceConcat` says how the search and replace goes
through two texts in turn, the first of which ends with no escape, and `ReplaceKeepsPlain`
that replacing one specifier leaves the plain occurrences of another. So what `build()` has
made of a format when it comes to `%msg` does not depend on the message and still has a plain
`%msg` if the format had one (`OwnIs`); and what stands around a message that no custom
specifier is in is replaced as around any other (`CustomsAround`). Its hypothesis `TextsApart`
is a limit of the code: behind a value that ends with a `%` (the name of a thread, say) the
search takes `%msg` for escaped and the line has no message; and since the custom specifiers
come after the message, they are looked for in it. penduo installs none. `MCLogging` has one,
and TLC evaluates `TextsApart` there.

*LogRegistry.* The invariant says that the registry is one of `Registries`, the defaults a
list that has a value of `Global` first for every type (`FullLists`), the user's object
any list without duplicates (`Lists`). Of a registry it says four things. Streams and references point at
each other (`FilesFit`), which is what `insertFile()` must not break when the file is known,
new, or cannot be opened. The streams of a logger are those its files have in the references
(`TypedFits`). What a logger looks up is what its list says (`SaysTheSame`); for this the list
has to be full, because `setValue()` gives the first value it meets to `Global`, whichever
level it was for, and drops values that equal it: a list that had a level before `Global` would
be misread. That lists stay full is the argument that no operation on a logger puts another entry
first. And the lines that a logger has in the buffer of a stream are no more than its levels
with that stream count, and each level counts less than its threshold (`CountsFit`). This
part is broken and restored within one operation: `configure()` resets the counts and then
flushes with the old typed configurations, so that between the two the lines are
uncounted, until the loop over the levels has emptied each stream that some level of the logger
writes to; `FlushLoop` carries through the rounds which levels are done. `TypedLoop`, `FilesLoop` and
`LimitsLoop` do it for the three loops of `build()`, and the lemmas after them for the list,
the map, the file and the registry in that order. `RegistryAssumption` says that the level
names are strings without `Global` and the files have sizes, `InputsAssumption` that every value
that is set or parsed suits its type and every logger is one of `Ids`. `AllAreAsAsked` follows the
loop of `setFromBase()`: after a round the entry it copied says so, and a later one of the same
type can only change it if it is for `Global`, which `GlobalFirst` excludes.

*Only model-checked*: everything under fairness (liveness and `ENABLED` are out of the
prover's reach), and the four violation runs. Every invariant and every refinement of the
passing runs is proved.

## What is not modelled

* The destructor of a `TimerfdThreadSimulation`, which closes its pipe and leaves its
  entry in the timer thread; a poll interrupted by a signal.
* The contents of buffers but for the place of the first byte 0, and of messages to
  `TcpServer`'s user; names, addresses, byte order, socket options, the printing of times:
  no branch of the code depends on these.
* `event_handling_` of a channel, and the order of several callbacks of one event: no
  channel of the library has an error, close or write callback.
* An `Acceptor` without a connection callback (it closes what it accepts), as two
  test programs could use it.
* The use of a loop after it is destroyed; builds with `NDEBUG`, where the
  erasures inside `assert()` disappear (`Poller.cpp:88`, `TcpServer.cpp:56`) and
  `read_fd()` truncates (`Buffer.cpp:30`).
* Of easylogging++: what is not built here (asynchronous logging, the crash handler,
  performance tracking, syslog, the logging of containers), dates and the arithmetic
  of `DateTime`, colours, paths, the split of a line of configuration text into its
  parts, `AutoSpacing`, `ImmediateFlush` and `StrictLogFileSizeCheck`, the installation
  of callbacks while lines are written, and loggers that are unregistered while another
  thread uses them.

## Plan

1. Done: the event loop, the poller, the server, the timer queue, the loop thread, the timer
   thread, logging and the registry of loggers, with proofs of every safety property of their
   runs and of all refinements.
2. Extend: the end of a `TimerfdThreadSimulation`, signals that interrupt a poll,
   an `Acceptor` without a callback.
