----------------------------- MODULE TimerQueue -----------------------------
(***************************************************************************)
(* penduo::TimerQueue on TimerfdNaive, in the loop thread, with the        *)
(* threads that add timers and the clock.  Time is counted in the ticks of *)
(* the steady clock, several to the microsecond that timerfd is set in.    *)
(*                                                                         *)
(* The loop is what EventLoop promises of it: it wakes up for the timerfd  *)
(* and for the functors other threads queue, and runs each functor once.   *)
(***************************************************************************)
EXTENDS Integers, Sequences, FiniteSets, Functions

CONSTANTS Timers,        \* the timers, each added at most once
          MaxTime,       \* bound: no timer is due later, and the clock stops there
          TicksPerMicro, \* clock ticks to a microsecond
          MinMicros      \* the shortest time timerfd is set to, in microseconds

ASSUME TimerAssumption ==
  /\ MaxTime \in Nat
  /\ TicksPerMicro \in Nat \ {0}
  /\ MinMicros \in Nat \ {0}

VARIABLES
  pc,         \* where the loop is
  active,     \* poll() has reported timerfd_channel_, not yet handled
  list,       \* timer_list_
  cutoff,     \* the local now of handle_read(), 0 outside of it
  expired,    \* what is left of the local vector of handle_read()
  wait,       \* the time computed for timerfd and not yet set, 0 if there is none
  functors,   \* add_timer_in_loop() calls queued by other threads
  pass,       \* those the running pass of the loop has taken
  now,        \* the clock
  left,       \* kernel: ticks until timerfd expires, 0 if it is not armed
  readable,   \* kernel: timerfd has expired and was not read or set since
  when,       \* expiration_ts_ of every timer
  lag,        \* history: ticks from the clock reading for timerfd to its setting, while set
  ran         \* history: the timers run

loopVars == <<pc, active>>
timerfd == <<left, readable>>
setting == <<wait, lag>>
vars == <<pc, active, list, cutoff, expired, wait, functors, pass, now, left,
          readable, when, lag, ran>>

MinWait == MinMicros * TicksPerMicro

TypeOK ==
  /\ pc \in {"outside", "poll", "dispatch", "read", "run", "callback", "pass"}
  /\ active \in BOOLEAN
  /\ list \subseteq Timers
  /\ cutoff \in 0..MaxTime
  /\ expired \in Seq(Timers)
  /\ wait \in 0..(MaxTime + MinWait)
  /\ functors \in Seq(Timers)
  /\ pass \in Seq(Timers)
  /\ now \in 0..MaxTime
  /\ left \in 0..(MaxTime + MinWait)
  /\ readable \in BOOLEAN
  /\ when \in [Timers -> 0..MaxTime]
  /\ lag \in 0..MaxTime
  /\ ran \subseteq Timers

Init ==
  /\ pc = "outside"
  /\ active = FALSE
  /\ list = {}
  /\ cutoff = 0
  /\ expired = << >>
  /\ wait = 0
  /\ functors = << >>
  /\ pass = << >>
  /\ now = 0
  /\ left = 0
  /\ readable = FALSE
  /\ when \in [Timers -> 0..MaxTime]
  /\ lag = 0
  /\ ran = {}

-----------------------------------------------------------------------------
(* The clock and timerfd.                                                  *)

\* The clock stops at MaxTime, when every timer is due; timerfd runs on.
Tick ==
  /\ now' = IF now < MaxTime THEN now + 1 ELSE now
  /\ left' = IF left > 0 THEN left - 1 ELSE left
  /\ readable' = (readable \/ left = 1)
  /\ lag' = IF wait > 0 THEN lag + (now' - now) ELSE IF left' > 0 THEN lag ELSE 0
  /\ UNCHANGED <<loopVars, list, cutoff, expired, wait, functors, pass, when, ran>>

\* Mutant: the time is not raised to the shortest one.
HowMuchUnclamped(t) == TicksPerMicro * ((when[t] - now) \div TicksPerMicro)

\* how_much_time_from_now(): whole microseconds, and no fewer than MinMicros.
HowMuchTime(t) ==
  LET micros == (when[t] - now) \div TicksPerMicro
  IN  TicksPerMicro * (IF micros < MinMicros THEN MinMicros ELSE micros)

\* TimerfdNaive::reset() computes the time from the clock and then sets timerfd to it; the
\* loop thread does nothing else in between, but the clock goes on.
ResetTimerfd(t) ==
  /\ wait' = HowMuchTime(t)
  /\ lag' = 0
  /\ UNCHANGED timerfd

\* timerfd_settime() forgets an expiration not yet read.
SetTime ==
  /\ wait > 0
  /\ wait' = 0
  /\ left' = wait
  /\ readable' = FALSE
  /\ UNCHANGED <<loopVars, list, cutoff, expired, functors, pass, now, when, lag, ran>>

\* The loop thread is at one of places, and not inside TimerfdNaive::reset().
At(places) == pc \in places /\ wait = 0

-----------------------------------------------------------------------------
(* TimerQueue.                                                             *)

\* A first element of timer_list_: of two timers due at once either may be.
IsEarliest(t, timers) == t \in timers /\ \A u \in timers : when[t] <= when[u]

\* Mutant: only the first timer arms timerfd.
FirstTimer(t) == list = {}

\* insert() puts the timer before every other.
EarliestChanged(t) == \A u \in list : when[t] < when[u]

add_timer_in_loop(t) ==
  /\ list' = list \cup {t}
  /\ IF EarliestChanged(t) THEN ResetTimerfd(t) ELSE UNCHANGED <<timerfd, setting>>

Added == list \cup Range(expired) \cup Range(functors) \cup Range(pass) \cup ran

\* add_timer() in the loop thread, from code run outside loop(), in the callback of
\* a channel, in that of a timer or in a functor.
AddInLoop(t) ==
  /\ At({"outside", "dispatch", "callback", "pass"})
  /\ t \notin Added
  /\ add_timer_in_loop(t)
  /\ UNCHANGED <<loopVars, cutoff, expired, functors, pass, now, when, ran>>

\* add_timer() in another thread.
AddElsewhere(t) ==
  /\ t \notin Added
  /\ functors' = Append(functors, t)
  /\ UNCHANGED <<loopVars, list, cutoff, expired, pass, now, timerfd, setting, when, ran>>

\* handle_read() takes the time ...
HandleRead ==
  /\ At({"dispatch"})
  /\ active
  /\ active' = FALSE
  /\ pc' = "read"
  /\ cutoff' = now
  /\ UNCHANGED <<list, expired, functors, pass, now, timerfd, setting, when, ran>>

\* Mutant: a timer due within the microsecond is taken for expired.
ExpiresWithin(t) == when[t] <= cutoff + 1

Expires(t) == when[t] <= cutoff

\* ... reads timerfd and moves the expired timers out of timer_list_, in order ...
GetExpired ==
  /\ At({"read"})
  /\ pc' = "run"
  /\ readable' = FALSE
  /\ LET due == {t \in list : Expires(t)}
     IN  \E order \in [1..Cardinality(due) -> due] :
           /\ Range(order) = due
           /\ \A i, j \in DOMAIN order : i < j => when[order[i]] <= when[order[j]]
           /\ expired' = order
           /\ list' = list \ due
  /\ UNCHANGED <<active, cutoff, functors, pass, now, left, setting, when, ran>>

\* ... runs each, ...
RunTimer ==
  /\ At({"run"})
  /\ expired # << >>
  /\ pc' = "callback"
  /\ ran' = ran \cup {Head(expired)}
  /\ expired' = Tail(expired)
  /\ UNCHANGED <<active, list, cutoff, functors, pass, now, timerfd, setting, when>>

CallbackReturns ==
  /\ At({"callback"})
  /\ pc' = "run"
  /\ UNCHANGED <<active, list, cutoff, expired, functors, pass, now, timerfd, setting, when, ran>>

\* Mutant: timerfd is not set again.
NoReset == UNCHANGED <<timerfd, setting>>

reset ==
  IF list = {} THEN UNCHANGED <<timerfd, setting>>
               ELSE \E t \in Timers : IsEarliest(t, list) /\ ResetTimerfd(t)

\* ... and sets timerfd for the next.
EndRead ==
  /\ At({"run"})
  /\ expired = << >>
  /\ pc' = "dispatch"
  /\ cutoff' = 0
  /\ reset
  /\ UNCHANGED <<active, list, expired, functors, pass, now, when, ran>>

-----------------------------------------------------------------------------
(* The loop.                                                               *)

Loop ==
  /\ At({"outside"})
  /\ pc' = "poll"
  /\ UNCHANGED <<active, list, cutoff, expired, functors, pass, now, timerfd, setting, when, ran>>

\* poll() returns: for timerfd, for the wakeup of a functor, or for another channel.
PollReturns ==
  /\ At({"poll"})
  /\ pc' = "dispatch"
  /\ active' = readable
  /\ UNCHANGED <<list, cutoff, expired, functors, pass, now, timerfd, setting, when, ran>>

BeginPass ==
  /\ At({"dispatch"})
  /\ ~active
  /\ pc' = "pass"
  /\ pass' = functors
  /\ functors' = << >>
  /\ UNCHANGED <<active, list, cutoff, expired, now, timerfd, setting, when, ran>>

RunFunctor ==
  /\ At({"pass"})
  /\ pass # << >>
  /\ pass' = Tail(pass)
  /\ add_timer_in_loop(Head(pass))
  /\ UNCHANGED <<loopVars, cutoff, expired, functors, now, when, ran>>

EndPass ==
  /\ At({"pass"})
  /\ pass = << >>
  /\ pc' = "poll"
  /\ UNCHANGED <<active, list, cutoff, expired, functors, pass, now, timerfd, setting, when, ran>>

LoopStep ==
  \/ SetTime \/ HandleRead \/ GetExpired \/ RunTimer \/ CallbackReturns \/ EndRead
  \/ PollReturns \/ BeginPass \/ RunFunctor \/ EndPass

Next ==
  \/ Tick
  \/ Loop
  \/ LoopStep
  \/ \E t \in Timers : AddInLoop(t) \/ AddElsewhere(t)

Spec == Init /\ [][Next]_vars

\* Time passes and the loop thread is scheduled; nothing but timerfd or a functor
\* makes poll() return.
Fairness ==
  /\ WF_vars(Tick)
  /\ WF_vars(LoopStep /\ (pc = "poll" => readable \/ functors # << >>))

FairSpec == Spec /\ Fairness

-----------------------------------------------------------------------------
(* Properties.                                                             *)

\* Whenever neither handle_read() nor reset() is running, a timer that waits has timerfd
\* expired, or set to expire at its time or after the shortest time, whichever is
\* later, and later only by what passed between the clock reading and timerfd_settime():
\* no order of additions, expirations and reads leaves timerfd unset or set too late.
ArmedWhenWaiting ==
  At({"outside", "poll", "dispatch", "pass"}) =>
    \A t \in list :
      \/ readable
      \/ active
      \/ left > 0 /\ (left <= when[t] - now + lag \/ left <= MinWait)

Promise == INSTANCE TimerPromise
             WITH waiting <- list \cup Range(expired) \cup Range(functors) \cup Range(pass)

\* Every timer is run at most once and never early, though timerfd is set in whole
\* microseconds and fires before the last one has passed.
ImplementsPromise == Promise!Spec

\* A timer that was added is run, with no help from the poll timeout, once loop()
\* runs.
EveryTimerRuns ==
  \A t \in Timers : pc # "outside" /\ t \in Added ~> t \in ran

=============================================================================
