---------------------------- MODULE TimerThread -----------------------------
(***************************************************************************)
(* penduo::TimerfdThreadSimulation and the TimerThread behind it, which    *)
(* serves every Timerfd of the process when timerfd_create() is not used:  *)
(* its constructor, its thread, its destructor, the calls of the loops     *)
(* that own a Timerfd, and the clock.  A poll that a signal interrupts is  *)
(* left out: no handler is installed.                                      *)
(***************************************************************************)
EXTENDS Integers, FiniteSets

CONSTANTS Timerfds,      \* the TimerfdThreadSimulation objects, one to a loop
          NoOne,         \* the mutex is free
          MaxTime,       \* bound: no expiration is later, and the clock stops there
          MaxResets,     \* bound: calls of reset()
          TicksPerMilli, \* clock ticks to a millisecond
          IdleMillis,    \* the wait without a timer, 10000 in the code
          IntHalf,       \* an int is in -IntHalf..IntHalf - 1
          WakeCapacity   \* pieces of 4 bytes the weakup pipe holds

ASSUME TimerThreadAssumption ==
  /\ NoOne \notin Timerfds
  /\ MaxTime \in Nat
  /\ MaxResets \in Nat
  /\ TicksPerMilli \in Nat \ {0}
  /\ IdleMillis \in Nat \ {0}
  /\ IntHalf \in Nat
  /\ IdleMillis < IntHalf
  /\ WakeCapacity \in Nat

VARIABLES
  instance,  \* TimerThread: "pipe", "wait", "ready", "join" or "gone"
  pc,        \* where its thread is
  polled,    \* what fd_array.fd is: "none" before it is set, "pipe" or "stdin"
  running,   \* thread_running
  mutex,     \* NoOne, or the Timerfd whose reset() is in its write
  timers,    \* timer_set_: pairs of a time and a Timerfd
  asked,     \* the local now of the thread, 0 when it has none
  wait,      \* the milliseconds poll() is given, 0 when none are planned
  left,      \* ticks until poll() times out, -1 for never
  expiring,  \* what is left of expiration_fds_, with the times
  set,       \* expiration_ts_ of every Timerfd, -1 before the first reset()
  wake,      \* pieces of 4 bytes in the weakup pipe
  ticks,     \* words in the pipe of every Timerfd
  resets,    \* calls of reset(), counted for MaxResets
  now        \* the clock

threadVars == <<pc, polled, asked, wait, left, expiring>>
vars == <<instance, threadVars, running, mutex, timers, set, wake, ticks, resets, now>>

Times == 0..MaxTime

Ticks(millis) == millis * TicksPerMilli

TypeOK ==
  /\ instance \in {"pipe", "wait", "ready", "join", "gone"}
  /\ pc \in {"start", "unready", "plan", "enter", "poll", "expire", "write", "ended"}
  /\ polled \in {"none", "pipe", "stdin"}
  /\ running \in BOOLEAN
  /\ mutex \in Timerfds \cup {NoOne}
  /\ timers \subseteq Times \X Timerfds
  /\ asked \in Times
  /\ wait \in (-IntHalf)..(IntHalf - 1)
  /\ left \in (-1)..(Ticks(IdleMillis) + MaxTime + TicksPerMilli)
  /\ expiring \subseteq Times \X Timerfds
  /\ set \in [Timerfds -> Times \cup {-1}]
  /\ wake \in 0..WakeCapacity
  /\ ticks \in [Timerfds -> 0..MaxResets]
  /\ resets \in 0..MaxResets
  /\ now \in Times

\* The first reset() constructs the instance: the thread is started, and then the
\* pipe is made.
Init ==
  /\ instance = "pipe"
  /\ pc = "start"
  /\ polled = "none"
  /\ running = FALSE
  /\ mutex = NoOne
  /\ timers = {}
  /\ asked = 0
  /\ wait = 0
  /\ left = 0
  /\ expiring = {}
  /\ set = [d \in Timerfds |-> -1]
  /\ wake = 0
  /\ ticks = [d \in Timerfds |-> 0]
  /\ resets = 0
  /\ now = 0

\* The clock stops at MaxTime, when every timer is due; a poll runs on.
Tick ==
  /\ now' = IF now < MaxTime THEN now + 1 ELSE now
  /\ left' = IF left > 0 THEN left - 1 ELSE left
  /\ UNCHANGED <<instance, pc, polled, asked, wait, expiring, running, mutex,
                 timers, set, wake, ticks, resets>>

-----------------------------------------------------------------------------
(* The constructor and the destructor of TimerThread.                      *)

MakePipe ==
  /\ instance = "pipe"
  /\ instance' = "wait"
  /\ UNCHANGED <<threadVars, running, mutex, timers, set, wake, ticks, resets, now>>

\* cond_.wait() until thread_running.
Constructed ==
  /\ instance = "wait"
  /\ running
  /\ instance' = "ready"
  /\ UNCHANGED <<threadVars, running, mutex, timers, set, wake, ticks, resets, now>>

\* The destructor, when main() returns: the flag is cleared, the thread joined.
Stop ==
  /\ instance = "ready"
  /\ mutex = NoOne
  /\ running' = FALSE
  /\ instance' = "join"
  /\ UNCHANGED <<threadVars, mutex, timers, set, wake, ticks, resets, now>>

Joined ==
  /\ instance = "join"
  /\ pc = "ended"
  /\ instance' = "gone"
  /\ UNCHANGED <<threadVars, running, mutex, timers, set, wake, ticks, resets, now>>

Instance == MakePipe \/ Constructed \/ Joined

-----------------------------------------------------------------------------
(* TimerFunc().                                                            *)

\* weakup_fds_[0] is 0, the standard input, until pipe() has written it.
Start ==
  /\ pc = "start"
  /\ pc' = "unready"
  /\ polled' = IF instance = "pipe" THEN "stdin" ELSE "pipe"
  /\ UNCHANGED <<instance, asked, wait, left, expiring, running, mutex, timers,
                 set, wake, ticks, resets, now>>

\* thread_running is set under the mutex and the constructor notified.
Ready ==
  /\ pc = "unready"
  /\ mutex = NoOne
  /\ pc' = "plan"
  /\ running' = TRUE
  /\ UNCHANGED <<instance, polled, asked, wait, left, expiring, mutex, timers,
                 set, wake, ticks, resets, now>>

IsFirst(t) == \E e \in timers : e[1] = t /\ \A f \in timers : t <= f[1]

\* static_cast<int>
AsInt(n) == ((n + IntHalf) % (2 * IntHalf)) - IntHalf

\* Whole milliseconds until t, and at least one.
Until(t) ==
  LET millis == (t - now) \div TicksPerMilli IN IF millis < 1 THEN 1 ELSE millis

\* Under the mutex the flag is read and the wait computed from the first timer.
Plan ==
  /\ pc = "plan"
  /\ mutex = NoOne
  /\ IF running
       THEN /\ pc' = "enter"
            /\ asked' = now
            /\ \/ timers = {} /\ wait' = AsInt(IdleMillis)
               \/ \E t \in Times : IsFirst(t) /\ wait' = AsInt(Until(t))
       ELSE pc' = "ended" /\ UNCHANGED <<asked, wait>>
  /\ UNCHANGED <<instance, polled, left, expiring, running, mutex, timers, set,
                 wake, ticks, resets, now>>

\* Mutant: without a timer the thread sleeps until it is woken.
NoneWhenIdle(n) == IF timers = {} THEN -1 ELSE Ticks(n)

\* A negative timeout of poll() is none.
Timeout(n) == IF n < 0 THEN -1 ELSE Ticks(n)

Sleep ==
  /\ pc = "enter"
  /\ pc' = "poll"
  /\ left' = Timeout(wait)
  /\ UNCHANGED <<instance, polled, asked, wait, expiring, running, mutex, timers,
                 set, wake, ticks, resets, now>>

\* Mutant: four bytes are taken to be there after a timeout too.
WokenOrNot == polled = "pipe"

Woken == polled = "pipe" /\ wake > 0

\* poll() returns at its timeout, or because what it polls has input, of which four
\* bytes are read.  Whether the standard input has any is not known.
PollReturns ==
  /\ pc = "poll"
  /\ left = 0 \/ Woken \/ polled = "stdin"
  /\ pc' = "expire"
  /\ asked' = now
  /\ wait' = 0
  /\ left' = 0
  /\ wake' = IF Woken THEN wake - 1 ELSE wake
  /\ UNCHANGED <<instance, polled, expiring, running, mutex, timers,
                 set, ticks, resets, now>>

\* Mutant: a timer due within the millisecond is taken for expired.
DueWithin(e) == e[1] < asked + TicksPerMilli

Due(e) == e[1] <= asked

\* Under the mutex the timers due when poll() returned leave the set.
Expire ==
  /\ pc = "expire"
  /\ mutex = NoOne
  /\ pc' = "write"
  /\ expiring' = {e \in timers : Due(e)}
  /\ timers' = {e \in timers : ~Due(e)}
  /\ asked' = 0
  /\ UNCHANGED <<instance, polled, wait, left, running, mutex, set, wake,
                 ticks, resets, now>>

\* One of them is written to the pipe of its Timerfd.
WriteTick ==
  /\ pc = "write"
  /\ \E e \in expiring :
       /\ expiring' = expiring \ {e}
       /\ ticks' = [ticks EXCEPT ![e[2]] = @ + 1]
  /\ UNCHANGED <<instance, pc, polled, asked, wait, left, running, mutex, timers,
                 set, wake, resets, now>>

Written ==
  /\ pc = "write"
  /\ expiring = {}
  /\ pc' = "plan"
  /\ UNCHANGED <<instance, polled, asked, wait, left, expiring, running, mutex,
                 timers, set, wake, ticks, resets, now>>

TimerFunc ==
  Start \/ Ready \/ Plan \/ Sleep \/ PollReturns \/ Expire \/ WriteTick \/ Written

-----------------------------------------------------------------------------
(* TimerfdThreadSimulation, called by the loop that owns it.               *)

\* Mutant: the old expiration stays.
Added(d, t) == timers \cup {<<t, d>>}

\* Mutant: timer_set_ is a map from times.
ReplacedByTime(d, t) ==
  {e \in timers : e # <<set[d], d>> /\ e[1] # t} \cup {<<t, d>>}

\* The old expiration is erased, if it is still there, and the new one inserted.
Replaced(d, t) == (timers \ {<<set[d], d>>}) \cup {<<t, d>>}

\* reset() up to the write, which the mutex covers.
reset(d, t) ==
  /\ instance = "ready"
  /\ mutex = NoOne
  /\ resets < MaxResets
  /\ resets' = resets + 1
  /\ timers' = Replaced(d, t)
  /\ set' = [set EXCEPT ![d] = t]
  /\ mutex' = d
  /\ UNCHANGED <<instance, threadVars, running, wake, ticks, now>>

\* Mutant: nothing is written.
WriteNothing(d) ==
  /\ mutex = d
  /\ mutex' = NoOne
  /\ UNCHANGED <<instance, threadVars, running, timers, set, wake, ticks, resets, now>>

\* The write of eight bytes, which blocks while the pipe is full.
WriteWord(d) ==
  /\ mutex = d
  /\ wake + 2 <= WakeCapacity
  /\ wake' = wake + 2
  /\ mutex' = NoOne
  /\ UNCHANGED <<instance, threadVars, running, timers, set, ticks, resets, now>>

\* read() of the loop, when its poll() has reported the pipe.
read(d) ==
  /\ mutex # d
  /\ ticks[d] > 0
  /\ ticks' = [ticks EXCEPT ![d] = @ - 1]
  /\ UNCHANGED <<instance, threadVars, running, mutex, timers, set, wake, resets, now>>

-----------------------------------------------------------------------------
Next ==
  \/ Tick
  \/ Instance \/ Stop
  \/ TimerFunc
  \/ \E d \in Timerfds : WriteWord(d) \/ read(d) \/ \E t \in Times : reset(d, t)

Spec == Init /\ [][Next]_vars

\* Time passes, and every thread is scheduled; the standard input is not assumed to
\* have anything.
Fairness ==
  /\ WF_vars(Tick)
  /\ WF_vars(Instance)
  /\ WF_vars(TimerFunc /\ (pc = "poll" => left = 0 \/ Woken))
  /\ \A d \in Timerfds : WF_vars(WriteWord(d))

FairSpec == Spec /\ Fairness

-----------------------------------------------------------------------------
(* Properties.                                                             *)

\* While the thread sleeps or is about to, with no word in what it polls and none about
\* to be written, it will wake up by the time of the first timer, or a millisecond after
\* it last looked: no reset() falls into the gap between the computation of the wait
\* and the poll, and a word read in two halves loses nothing.
Timely ==
  pc \in {"enter", "poll"} /\ ~Woken /\ mutex = NoOne =>
    \A e \in timers :
      wait >= 0 /\ (wait = 1 \/ asked + Ticks(wait) <= e[1])

\* Once the thread watches the weakup pipe it never sleeps past a timer.
SleepsNoLonger == polled = "pipe" => Timely

\* The entries and the words of the TimerThread are, for every Timerfd, one
\* expiration that reset() replaces and that gives one tick, never early.
Promise == INSTANCE TimerThreadPromise
  WITH due <- [d \in Timerfds |->
                 IF \E t \in Times : <<t, d>> \in timers
                   THEN CHOOSE t \in Times : <<t, d>> \in timers ELSE -1],
       firing <- [d \in Timerfds |-> Cardinality({e \in expiring : e[2] = d})]

\* TimerThread and its Timerfds do what TimerThreadPromise allows and no more.
ImplementsPromise == Promise!Spec

\* A Timerfd that is set gives its loop a tick, whatever it is reset to in between,
\* unless the process ends.
EveryTimerfdTicks ==
  \A d \in Timerfds :
    (\E e \in timers : e[2] = d) ~> ticks[d] > 0 \/ ~running

\* The destructor of TimerThread returns, though it does not wake the thread.
DestructorReturns == instance = "join" ~> instance = "gone"

\* TimerQueue.h:28 says that a callback is run at its time: not a whole idle wait
\* of the timer thread later.
RunsAtItsTime == Timely

=============================================================================
