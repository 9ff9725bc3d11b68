-------------------------- MODULE TimerQueueProofs --------------------------
(***************************************************************************)
(* Proofs about TimerQueue: every timer is in one place at a time and      *)
(* moves on in order, timerfd is armed for the first of those that wait,   *)
(* and no timer runs early or twice, for any number of timers, any clock   *)
(* and any resolution of timerfd.                                          *)
(***************************************************************************)
EXTENDS TimerQueue, CommonLemmas

\* A timer that was added and has not run waits in one place.
InOnePlace ==
  /\ list \cap (Range(expired) \cup Range(functors) \cup Range(pass)) = {}
  /\ Range(expired) \cap (Range(functors) \cup Range(pass)) = {}
  /\ Range(functors) \cap Range(pass) = {}
  /\ Enumerates(expired, Range(expired))
  /\ Enumerates(functors, Range(functors))
  /\ Enumerates(pass, Range(pass))
  /\ IsFiniteSet(list)

\* What the loop holds at each of its places; what has expired is due.
LoopKept ==
  /\ pc \notin {"run", "callback"} => expired = << >>
  /\ pc # "pass" => pass = << >>
  /\ active => pc = "dispatch"
  /\ cutoff <= now
  /\ \A t \in Range(expired) : when[t] <= cutoff

\* The time computed for timerfd ends in time for t.
EndsFor(t) == wait <= when[t] - now + lag \/ wait <= MinWait

\* A time that was computed and not yet set is in time for all that wait.
WaitKept ==
  /\ lag <= now
  /\ wait > 0 => \A t \in list : EndsFor(t)

IInv ==
  /\ TypeOK
  /\ InOnePlace
  /\ LoopKept
  /\ WaitKept
  /\ ArmedWhenWaiting

-----------------------------------------------------------------------------
(* Facts the steps share.                                                  *)

\* The time timerfd is set to ends when the timer is due, or is the shortest.
LEMMA TimeToWait ==
  ASSUME TypeOK, NEW t \in Timers
  PROVE  /\ MinWait \in Nat
         /\ HowMuchTime(t) \in 1..(MaxTime + MinWait)
         /\ HowMuchTime(t) <= when[t] - now \/ HowMuchTime(t) = MinWait
<1> DEFINE x == when[t] - now
           micros == x \div TicksPerMicro
<1>1. /\ TicksPerMicro \in Nat \ {0} /\ MinMicros \in Nat \ {0} /\ MaxTime \in Nat
      /\ x \in Int /\ x <= MaxTime
  BY TimerAssumption DEF TypeOK
<1> HIDE DEF x
<1>2. micros \in Int /\ TicksPerMicro * micros <= x
  BY <1>1
<1> HIDE DEF micros
<1>3. MinWait \in Nat /\ MinWait >= 1 /\ MinWait = TicksPerMicro * MinMicros
  BY <1>1 DEF MinWait
<1>4. HowMuchTime(t) = TicksPerMicro * (IF micros < MinMicros THEN MinMicros ELSE micros)
  BY DEF HowMuchTime, micros, x
<1>5. CASE micros < MinMicros
  <2>1. HowMuchTime(t) = MinWait
    BY <1>3, <1>4, <1>5
  <2> QED
    BY <1>1, <1>3, <2>1
<1>6. CASE ~(micros < MinMicros)
  <2>1. HowMuchTime(t) = TicksPerMicro * micros
    BY <1>4, <1>6
  <2>2. TicksPerMicro * micros \in Int /\ TicksPerMicro * micros >= 1
    BY <1>1, <1>2, <1>6
  <2> QED
    BY <1>1, <1>2, <1>3, <2>1, <2>2 DEF x
<1> QED
  BY <1>5, <1>6

\* timerfd will report in time for t.
Armed(t) ==
  \/ readable
  \/ active
  \/ left > 0 /\ (left <= when[t] - now + lag \/ left <= MinWait)

Idle == At({"outside", "poll", "dispatch", "pass"})

LEMMA ArmedMeans == ArmedWhenWaiting <=> (Idle => \A t \in list : Armed(t))
  BY DEF ArmedWhenWaiting, Idle, Armed

\* A timer due no earlier than one that timerfd is armed for.
LEMMA ArmedForLater ==
  ASSUME TypeOK, NEW t \in Timers, NEW u \in Timers, when[t] <= when[u], Armed(t)
  PROVE  Armed(u)
<1>1. /\ when[t] \in Nat /\ when[u] \in Nat /\ now \in Nat /\ left \in Nat
      /\ MinWait \in Nat /\ lag \in Nat
  BY TimerAssumption, TimeToWait DEF TypeOK
<1> QED
  BY <1>1 DEF Armed

\* The time computed for t ends for t and for all that are due later.
LEMMA ResetEnds ==
  ASSUME TypeOK, NEW t \in Timers, ResetTimerfd(t), when' = when, now' = now
  PROVE  /\ wait' \in 0..(MaxTime + MinWait) /\ lag' \in 0..MaxTime /\ lag' <= now'
         /\ wait' > 0 /\ left' = left /\ readable' = readable
         /\ \A u \in Timers : when[t] <= when[u] => EndsFor(u)'
<1>1. /\ MinWait \in Nat /\ HowMuchTime(t) \in 1..(MaxTime + MinWait)
      /\ HowMuchTime(t) <= when[t] - now \/ HowMuchTime(t) = MinWait
      /\ MaxTime \in Nat /\ now \in Nat /\ when \in [Timers -> 0..MaxTime]
  BY TimeToWait, TimerAssumption DEF TypeOK
<1>2. /\ wait' = HowMuchTime(t) /\ lag' = 0 /\ UNCHANGED <<left, readable>>
      /\ MinWait' = MinWait
  BY DEF ResetTimerfd, timerfd, MinWait
<1>3. wait' \in 0..(MaxTime + MinWait) /\ wait' > 0 /\ wait' \in Nat
  BY <1>1, <1>2
<1>4. ASSUME NEW u \in Timers, when[t] <= when[u] PROVE EndsFor(u)'
  <2>1. when[t] \in Nat /\ when[u] \in Nat
    BY <1>1
  <2> QED
    BY <1>1, <1>2, <1>3, <1>4, <2>1 DEF EndsFor
<1> QED
  BY <1>1, <1>2, <1>3, <1>4

\* A timer that is added keeps timerfd armed for the others: it is set again only
\* when the new timer is due before them.
LEMMA AddArms ==
  ASSUME IInv, NEW t \in Timers, add_timer_in_loop(t), wait = 0,
         when' = when, now' = now, active' = active
  PROVE  /\ wait' \in 0..(MaxTime + MinWait) /\ lag' \in 0..MaxTime
         /\ left' = left /\ readable' = readable
         /\ WaitKept'
         /\ wait' > 0 \/ ((\A u \in list : Armed(u)) => \A u \in list' : Armed(u)')
<1>1. TypeOK /\ WaitKept /\ list' = list \cup {t} /\ list \subseteq Timers
  BY DEF IInv, TypeOK, add_timer_in_loop
<1>2. /\ when \in [Timers -> 0..MaxTime] /\ MaxTime \in Nat
      /\ \A u \in Timers : when[u] \in Nat
  BY <1>1, TimerAssumption DEF TypeOK
<1>3. CASE EarliestChanged(t)
  <2>1. ResetTimerfd(t)
    BY <1>3 DEF add_timer_in_loop
  <2>2. /\ wait' \in 0..(MaxTime + MinWait) /\ lag' \in 0..MaxTime /\ lag' <= now'
        /\ wait' > 0 /\ left' = left /\ readable' = readable
        /\ \A u \in Timers : when[t] <= when[u] => EndsFor(u)'
    BY <1>1, <2>1, ResetEnds
  <2>3. ASSUME NEW u \in list' PROVE when[t] <= when[u] /\ u \in Timers
    BY <1>1, <1>2, <1>3 DEF EarliestChanged
  <2>4. WaitKept'
    BY <2>2, <2>3 DEF WaitKept
  <2> QED
    BY <2>2, <2>4
<1>4. CASE ~EarliestChanged(t)
  <2>1. UNCHANGED <<left, readable, wait, lag>>
    BY <1>4 DEF add_timer_in_loop, timerfd, setting
  <2>2. PICK u \in list : when[u] <= when[t] /\ u \in Timers
    BY <1>1, <1>2, <1>4 DEF EarliestChanged
  <2>3. ASSUME \A v \in list : Armed(v) PROVE Armed(t)
    BY <1>1, <2>2, <2>3, ArmedForLater
  <2>4. MinWait' = MinWait
    BY DEF MinWait
  <2>5. \A v : Armed(v)' <=> Armed(v)
    BY <2>1, <2>4 DEF Armed
  <2>6. WaitKept'
    BY <1>1, <2>1 DEF WaitKept
  <2> QED
    BY <1>1, <2>1, <2>3, <2>5, <2>6 DEF TypeOK
<1> QED
  BY <1>3, <1>4

\* The expired timers in an order of their times: each once.
LEMMA OrderUnique ==
  ASSUME NEW due \in SUBSET Timers, IsFiniteSet(due),
         NEW order \in [1..Cardinality(due) -> due], Range(order) = due
  PROVE  order \in Seq(Timers) /\ Enumerates(order, Range(order))
<1> DEFINE n == Cardinality(due)
<1>1. n \in Nat
  BY FS_CardinalityType
<1>2. IsFiniteSet(1..n) /\ Cardinality(1..n) = n
  BY <1>1, FS_Interval
<1>3. order \in Surjection(1..n, due)
  BY Fun_IsSurj DEF Range
<1>4. order \in Injection(1..n, due)
  BY <1>2, <1>3, FS_SurjSameCardinalityImpliesInj
<1>5. \A i, j \in 1..n : order[i] = order[j] => i = j
  BY <1>4, Fun_InjectionProperties DEF Injection, IsInjective
<1> HIDE DEF n
<1>6. order \in [1..n -> due] /\ DOMAIN order = 1..n
  BY DEF n
<1>7. order \in Seq(Timers) /\ Len(order) = n
  BY <1>1, <1>6, LenProperties
<1> QED
  BY <1>5, <1>6, <1>7 DEF Enumerates, Range

-----------------------------------------------------------------------------
(* The invariant.                                                          *)

\* Nothing was added.
LEMMA InitIInv == Init => IInv
<1> SUFFICES ASSUME Init PROVE IInv
  OBVIOUS
<1>1. MaxTime \in Nat /\ MinWait \in Nat
  BY TimerAssumption DEF MinWait
<1>2. TypeOK
  <2>1. expired \in Seq(Timers) /\ functors \in Seq(Timers) /\ pass \in Seq(Timers)
    BY EmptySeq DEF Init
  <2>2. 0 \in 0..MaxTime /\ 0 \in 0..(MaxTime + MinWait)
    BY <1>1
  <2> QED
    BY <2>1, <2>2 DEF Init, TypeOK
<1>3. InOnePlace
  <2>1. Range(<< >>) = {} /\ Enumerates(<< >>, {}) /\ IsFiniteSet({})
    BY EmptyEnumerates, FS_EmptySet DEF Range
  <2> QED
    BY <2>1 DEF Init, InOnePlace
<1>4. LoopKept
  BY <1>1 DEF Init, LoopKept, Range
<1>5. ArmedWhenWaiting
  BY DEF Init, ArmedWhenWaiting
<1>6. WaitKept
  BY DEF Init, WaitKept
<1> QED
  BY <1>2, <1>3, <1>4, <1>5, <1>6 DEF IInv

\* Time passes for the timers and for timerfd alike.
LEMMA TickKeeps ==
  ASSUME IInv, Tick
  PROVE  IInv'
<1>1. TypeOK /\ InOnePlace /\ LoopKept /\ WaitKept /\ ArmedWhenWaiting
  BY DEF IInv
<1>2. /\ UNCHANGED <<pc, active, list, cutoff, expired, wait, functors, pass, when, ran>>
      /\ lag' = IF wait > 0 THEN lag + (now' - now) ELSE IF left' > 0 THEN lag ELSE 0
      /\ now' = IF now < MaxTime THEN now + 1 ELSE now
      /\ left' = IF left > 0 THEN left - 1 ELSE left
      /\ readable' = (readable \/ left = 1)
  BY DEF Tick, loopVars
<1>3. /\ now \in Nat /\ now <= MaxTime /\ MaxTime \in Nat /\ MinWait \in Nat /\ left \in Nat
      /\ left <= MaxTime + MinWait /\ lag \in Nat /\ lag <= now /\ wait \in Nat
  BY <1>1, TimerAssumption DEF TypeOK, WaitKept, MinWait
<1>4. /\ now' \in 0..MaxTime /\ left' \in 0..(MaxTime + MinWait) /\ readable' \in BOOLEAN
      /\ now <= now' /\ now' - now \in 0..1 /\ lag' \in 0..MaxTime /\ lag' <= now'
  BY <1>2, <1>3
<1>5. TypeOK'
  BY <1>1, <1>2, <1>4 DEF TypeOK, MinWait
<1>6. InOnePlace'
  BY <1>1, <1>2 DEF InOnePlace
<1>7. LoopKept'
  BY <1>1, <1>2, <1>3, <1>4 DEF LoopKept, TypeOK
<1>9. WaitKept'
  <2> SUFFICES ASSUME wait > 0, NEW t \in list PROVE EndsFor(t)'
    BY <1>2, <1>4 DEF WaitKept
  <2>1. /\ EndsFor(t) /\ when[t] \in Nat /\ when'[t] = when[t] /\ MinWait' = MinWait
        /\ lag' = lag + (now' - now) /\ wait' = wait
    BY <1>1, <1>2, <1>3 DEF WaitKept, TypeOK, MinWait
  <2>2. when'[t] - now' + lag' = when[t] - now + lag
    BY <1>3, <1>4, <2>1
  <2> QED
    BY <2>1, <2>2 DEF EndsFor
<1>8. ArmedWhenWaiting'
  <2> SUFFICES ASSUME Idle, NEW t \in list PROVE Armed(t)'
    BY <1>2, ArmedMeans DEF ArmedWhenWaiting, Idle, At, Armed
  <2>1. Armed(t) /\ wait = 0
    BY <1>1, ArmedMeans DEF Idle, At
  <2>2. when[t] \in Nat /\ when[t] <= MaxTime /\ when'[t] = when[t] /\ MinWait' = MinWait
    BY <1>1, <1>2, <1>3 DEF TypeOK, MinWait
  <2>3. CASE readable \/ active \/ left = 1
    <3>1. readable' \/ active'
      BY <1>2, <2>3
    <3> QED
      BY <3>1 DEF Armed
  <2>4. CASE left # 1 /\ left > 0 /\ (left <= when[t] - now + lag \/ left <= MinWait)
    <3>1. left' = left - 1 /\ left' > 0 /\ lag' = lag
      BY <1>2, <1>3, <2>1, <2>4
    <3>2. left' <= when[t] - now' + lag' \/ left' <= MinWait
      BY <1>3, <1>4, <2>2, <2>4, <3>1
    <3> QED
      BY <2>2, <3>1, <3>2 DEF Armed
  <2> QED
    BY <2>1, <2>3, <2>4 DEF Armed
<1> QED
  BY <1>5, <1>6, <1>7, <1>8, <1>9 DEF IInv

\* timerfd is set to a time that ends for all that wait.
LEMMA SetKeeps ==
  ASSUME IInv, SetTime
  PROVE  IInv'
<1>1. TypeOK /\ InOnePlace /\ LoopKept /\ WaitKept
  BY DEF IInv
<1>2. /\ wait > 0 /\ wait' = 0 /\ left' = wait /\ readable' = FALSE /\ MinWait' = MinWait
      /\ UNCHANGED <<pc, active, list, cutoff, expired, functors, pass, now, when, lag, ran>>
  BY DEF SetTime, loopVars, MinWait
<1>3. 0 \in 0..(MaxTime + MinWait)
  BY TimerAssumption DEF MinWait
<1>4. TypeOK'
  BY <1>1, <1>2, <1>3 DEF TypeOK
<1>5. InOnePlace' /\ LoopKept'
  BY <1>1, <1>2 DEF InOnePlace, LoopKept
<1>6. WaitKept'
  BY <1>1, <1>2 DEF WaitKept
<1>7. \A t \in list : EndsFor(t)
  BY <1>1, <1>2 DEF WaitKept
<1>8. ArmedWhenWaiting'
  BY <1>2, <1>7 DEF ArmedWhenWaiting, EndsFor
<1> QED
  BY <1>4, <1>5, <1>6, <1>8 DEF IInv

\* A step of the loop that moves no timer and leaves timerfd alone.
LEMMA PhaseKeeps ==
  ASSUME IInv, HandleRead \/ CallbackReturns \/ Loop \/ PollReturns \/ EndPass \/ UNCHANGED vars
  PROVE  IInv'
<1>1. TypeOK /\ InOnePlace /\ LoopKept /\ WaitKept /\ ArmedWhenWaiting
  BY DEF IInv
<1>2. /\ UNCHANGED <<list, expired, functors, pass, now, left, readable, wait, when, lag, ran>>
      /\ MinWait' = MinWait
  BY DEF HandleRead, CallbackReturns, Loop, PollReturns, EndPass, vars, loopVars, timerfd,
     setting, MinWait
<1>3. TypeOK'
  BY <1>1, <1>2 DEF TypeOK, MinWait, HandleRead, CallbackReturns, Loop, PollReturns, EndPass,
     vars, loopVars
<1>4. InOnePlace'
  BY <1>1, <1>2 DEF InOnePlace
<1>5. LoopKept'
  <2>1. now \in Nat /\ Range(<< >>) = {}
    BY <1>1, TimerAssumption DEF TypeOK, Range
  <2> QED
    BY <1>1, <1>2, <2>1 DEF LoopKept, HandleRead, CallbackReturns, Loop, PollReturns, EndPass,
       At, vars, loopVars
<1>6. ArmedWhenWaiting'
  <2> SUFFICES ASSUME Idle', NEW t \in list PROVE Armed(t)'
    BY <1>2, ArmedMeans DEF ArmedWhenWaiting, Idle, At, Armed
  <2>1. Idle /\ (active => active' \/ readable)
    BY <1>1 DEF Idle, At, LoopKept, HandleRead, CallbackReturns, Loop, PollReturns, EndPass,
       vars, loopVars
  <2>2. Armed(t)
    BY <1>1, <2>1, ArmedMeans
  <2>3. /\ active \in BOOLEAN /\ readable \in BOOLEAN /\ active' \in BOOLEAN
        /\ left' = left /\ readable' = readable /\ now' = now /\ when'[t] = when[t]
        /\ lag' = lag
    BY <1>1, <1>2, <1>3 DEF TypeOK
  <2> QED
    BY <1>2, <2>1, <2>2, <2>3 DEF Armed
<1>7. WaitKept'
  BY <1>1, <1>2 DEF WaitKept, EndsFor
<1> QED
  BY <1>3, <1>4, <1>5, <1>6, <1>7 DEF IInv

\* A timer is added where none of it was.
LEMMA AddKeeps ==
  ASSUME IInv, NEW t \in Timers, AddInLoop(t)
  PROVE  IInv'
<1>1. TypeOK /\ InOnePlace /\ LoopKept
  BY DEF IInv
<1>2. /\ UNCHANGED <<pc, active, cutoff, expired, functors, pass, now, when, ran>>
      /\ add_timer_in_loop(t) /\ list' = list \cup {t} /\ t \notin Added /\ wait = 0
      /\ MinWait' = MinWait
  BY DEF AddInLoop, At, loopVars, add_timer_in_loop, MinWait
<1>3. /\ wait' \in 0..(MaxTime + MinWait) /\ lag' \in 0..MaxTime
      /\ left' = left /\ readable' = readable
      /\ WaitKept'
      /\ wait' > 0 \/ ((\A u \in list : Armed(u)) => \A u \in list' : Armed(u)')
  BY <1>2, AddArms
<1>4. TypeOK'
  BY <1>1, <1>2, <1>3 DEF TypeOK
<1>5. InOnePlace'
  <2>1. IsFiniteSet(list')
    BY <1>1, <1>2, FS_AddElement DEF InOnePlace
  <2> QED
    BY <1>1, <1>2, <2>1 DEF InOnePlace, Added
<1>6. LoopKept'
  BY <1>1, <1>2 DEF LoopKept
<1>7. ArmedWhenWaiting'
  <2> SUFFICES ASSUME Idle' PROVE \A u \in list' : Armed(u)'
    BY DEF ArmedWhenWaiting, Idle, Armed
  <2>1. wait' = 0 /\ Idle
    BY <1>2 DEF Idle, At
  <2>2. \A u \in list : Armed(u)
    BY <2>1, ArmedMeans DEF IInv
  <2> QED
    BY <1>3, <2>1, <2>2
<1> QED
  BY <1>3, <1>4, <1>5, <1>6, <1>7 DEF IInv

\* A functor of another thread is queued.
LEMMA QueueKeeps ==
  ASSUME IInv, NEW t \in Timers, AddElsewhere(t)
  PROVE  IInv'
<1>1. TypeOK /\ InOnePlace /\ LoopKept /\ WaitKept /\ ArmedWhenWaiting
  BY DEF IInv
<1>2. /\ UNCHANGED <<pc, active, list, cutoff, expired, pass, now, left, readable, wait, when,
                     lag, ran>>
      /\ functors' = Append(functors, t) /\ t \notin Added
  BY DEF AddElsewhere, loopVars, timerfd, setting
<1>3. /\ functors' \in Seq(Timers)
      /\ Range(functors') = Range(functors) \cup {t}
      /\ Enumerates(functors', Range(functors'))
  BY <1>1, <1>2, AppendUnique DEF TypeOK, InOnePlace, Added
<1>4. TypeOK'
  BY <1>1, <1>2, <1>3 DEF TypeOK, MinWait
<1>5. InOnePlace'
  BY <1>1, <1>2, <1>3 DEF InOnePlace, Added
<1>6. LoopKept'
  BY <1>1, <1>2 DEF LoopKept
<1>7. ArmedWhenWaiting' /\ WaitKept'
  BY <1>1, <1>2 DEF ArmedWhenWaiting, At, WaitKept, EndsFor, MinWait
<1> QED
  BY <1>4, <1>5, <1>6, <1>7 DEF IInv

\* Those that have expired leave the list, in the order they will run in.
LEMMA ExpireKeeps ==
  ASSUME IInv, GetExpired
  PROVE  /\ IInv'
         /\ expired = << >> /\ list \cup Range(expired) = list' \cup Range(expired')
<1> DEFINE due == {t \in list : Expires(t)}
<1>1. TypeOK /\ InOnePlace /\ LoopKept /\ WaitKept
  BY DEF IInv
<1>2. /\ pc = "read" /\ pc' = "run" /\ readable' = FALSE /\ list' = list \ due
      /\ expired' \in [1..Cardinality(due) -> due] /\ Range(expired') = due
      /\ UNCHANGED <<active, cutoff, functors, pass, now, left, wait, when, lag, ran>>
  BY DEF GetExpired, At, setting
<1>3. /\ due \subseteq list /\ due \in SUBSET Timers /\ IsFiniteSet(due) /\ IsFiniteSet(list')
      /\ \A t \in due : when[t] <= cutoff
  <2>1. due \subseteq list /\ list' \subseteq list /\ IsFiniteSet(list) /\ list \subseteq Timers
    BY <1>1, <1>2 DEF InOnePlace, TypeOK
  <2>2. IsFiniteSet(due) /\ IsFiniteSet(list')
    BY <2>1, FS_Subset
  <2> QED
    BY <2>1, <2>2 DEF Expires
<1> HIDE DEF due
<1>4. expired' \in Seq(Timers) /\ Enumerates(expired', Range(expired'))
  BY <1>2, <1>3, OrderUnique
<1>5. expired = << >> /\ Range(expired) = {}
  BY <1>1, <1>2 DEF LoopKept, Range
<1>6. TypeOK'
  BY <1>1, <1>2, <1>4 DEF TypeOK, MinWait
<1>7. InOnePlace'
  BY <1>1, <1>2, <1>3, <1>4 DEF InOnePlace
<1>8. LoopKept'
  BY <1>1, <1>2, <1>3 DEF LoopKept
<1>9. ArmedWhenWaiting' /\ WaitKept'
  BY <1>1, <1>2 DEF ArmedWhenWaiting, At, WaitKept, EndsFor, MinWait
<1> QED
  BY <1>2, <1>3, <1>5, <1>6, <1>7, <1>8, <1>9 DEF IInv

\* The first of them runs.
LEMMA RunKeeps ==
  ASSUME IInv, RunTimer
  PROVE  IInv'
<1>1. TypeOK /\ InOnePlace /\ LoopKept /\ WaitKept
  BY DEF IInv
<1>2. /\ pc = "run" /\ pc' = "callback" /\ expired # << >>
      /\ ran' = ran \cup {Head(expired)} /\ expired' = Tail(expired)
      /\ UNCHANGED <<active, list, cutoff, functors, pass, now, left, readable, wait, when, lag>>
  BY DEF RunTimer, At, timerfd, setting
<1>3. /\ Head(expired) \in Timers /\ expired' \in Seq(Timers)
      /\ Range(expired') = Range(expired) \ {Head(expired)}
      /\ Enumerates(expired', Range(expired'))
  BY <1>1, <1>2, TailUnique DEF TypeOK, InOnePlace
<1>4. TypeOK'
  BY <1>1, <1>2, <1>3 DEF TypeOK, MinWait
<1>5. InOnePlace'
  BY <1>1, <1>2, <1>3 DEF InOnePlace
<1>6. LoopKept'
  BY <1>1, <1>2, <1>3 DEF LoopKept
<1>7. ArmedWhenWaiting' /\ WaitKept'
  BY <1>1, <1>2 DEF ArmedWhenWaiting, At, WaitKept, EndsFor, MinWait
<1> QED
  BY <1>4, <1>5, <1>6, <1>7 DEF IInv

\* handle_read() ends with a time computed for the first timer of the list, and so for all.
LEMMA EndReadKeeps ==
  ASSUME IInv, EndRead
  PROVE  IInv'
<1>1. TypeOK /\ InOnePlace /\ LoopKept /\ WaitKept
  BY DEF IInv
<1>2. /\ pc = "run" /\ pc' = "dispatch" /\ expired = << >> /\ reset /\ cutoff' = 0
      /\ UNCHANGED <<active, list, expired, functors, pass, now, when, ran>>
      /\ wait = 0 /\ MinWait' = MinWait
  BY DEF EndRead, At, MinWait
<1>3. /\ wait' \in 0..(MaxTime + MinWait) /\ lag' \in 0..MaxTime
      /\ left' = left /\ readable' = readable
      /\ WaitKept'
      /\ wait' > 0 \/ list = {}
  <2>1. CASE list = {}
    BY <1>1, <1>2, <2>1 DEF reset, timerfd, setting, TypeOK, WaitKept
  <2>2. CASE list # {}
    <3>1. PICK t \in Timers : IsEarliest(t, list) /\ ResetTimerfd(t)
      BY <1>2, <2>2 DEF reset
    <3>2. /\ wait' \in 0..(MaxTime + MinWait) /\ lag' \in 0..MaxTime /\ lag' <= now'
          /\ wait' > 0 /\ left' = left /\ readable' = readable
          /\ \A u \in Timers : when[t] <= when[u] => EndsFor(u)'
      BY <1>1, <1>2, <3>1, ResetEnds
    <3>3. \A u \in list : u \in Timers /\ when[t] <= when[u]
      BY <1>1, <3>1 DEF IsEarliest, TypeOK
    <3>4. WaitKept'
      BY <1>2, <3>2, <3>3 DEF WaitKept
    <3> QED
      BY <3>2, <3>4
  <2> QED
    BY <2>1, <2>2
<1>4. TypeOK'
  <2>1. cutoff' \in 0..MaxTime
    BY <1>2, TimerAssumption
  <2> QED
    BY <1>1, <1>2, <1>3, <2>1 DEF TypeOK
<1>5. InOnePlace'
  BY <1>1, <1>2 DEF InOnePlace
<1>6. LoopKept'
  <2>1. now \in Nat /\ Range(expired') = {}
    BY <1>1, <1>2, TimerAssumption DEF TypeOK, Range
  <2> QED
    BY <1>1, <1>2, <2>1 DEF LoopKept
<1>7. ArmedWhenWaiting'
  <2>1. ASSUME wait' > 0 PROVE ~(wait' = 0)
    BY <2>1
  <2> QED
    BY <1>2, <1>3, <2>1 DEF ArmedWhenWaiting, At
<1> QED
  BY <1>3, <1>4, <1>5, <1>6, <1>7 DEF IInv

\* A pass takes the functors queued, and leaves those that come later.
LEMMA BeginPassKeeps ==
  ASSUME IInv, BeginPass
  PROVE  /\ IInv'
         /\ Range(functors') \cup Range(pass') = Range(functors) \cup Range(pass)
<1>1. TypeOK /\ InOnePlace /\ LoopKept /\ WaitKept /\ ArmedWhenWaiting
  BY DEF IInv
<1>2. /\ pc = "dispatch" /\ pc' = "pass" /\ ~active /\ pass' = functors /\ functors' = << >>
      /\ UNCHANGED <<active, list, cutoff, expired, now, left, readable, wait, when, lag, ran>>
      /\ wait = 0
  BY DEF BeginPass, At, timerfd, setting
<1>3. Range(<< >>) = {} /\ Enumerates(<< >>, {}) /\ << >> \in Seq(Timers)
  BY EmptyEnumerates, EmptySeq DEF Range
<1>4. Range(pass) = {}
  BY <1>1, <1>2, <1>3 DEF LoopKept
<1>5. TypeOK'
  BY <1>1, <1>2, <1>3 DEF TypeOK, MinWait
<1>6. InOnePlace'
  BY <1>1, <1>2, <1>3 DEF InOnePlace
<1>7. LoopKept'
  BY <1>1, <1>2 DEF LoopKept
<1>8. ArmedWhenWaiting' /\ WaitKept'
  BY <1>1, <1>2 DEF ArmedWhenWaiting, At, WaitKept, EndsFor, MinWait
<1> QED
  BY <1>2, <1>3, <1>4, <1>5, <1>6, <1>7, <1>8 DEF IInv

\* The first of them adds its timer to the list.
LEMMA FunctorKeeps ==
  ASSUME IInv, RunFunctor
  PROVE  /\ IInv'
         /\ list' \cup Range(pass') = list \cup Range(pass)
<1> DEFINE t == Head(pass)
<1>1. TypeOK /\ InOnePlace /\ LoopKept
  BY DEF IInv
<1>2. /\ pc = "pass" /\ pass # << >> /\ pass' = Tail(pass)
      /\ add_timer_in_loop(t) /\ list' = list \cup {t}
      /\ UNCHANGED <<pc, active, cutoff, expired, functors, now, when, ran>>
      /\ wait = 0 /\ MinWait' = MinWait
  BY DEF RunFunctor, At, loopVars, add_timer_in_loop, MinWait
<1>3. /\ t \in Timers /\ t \in Range(pass) /\ pass' \in Seq(Timers)
      /\ Range(pass') = Range(pass) \ {t}
      /\ Enumerates(pass', Range(pass'))
  BY <1>1, <1>2, TailUnique DEF TypeOK, InOnePlace
<1> HIDE DEF t
<1>4. /\ wait' \in 0..(MaxTime + MinWait) /\ lag' \in 0..MaxTime
      /\ left' = left /\ readable' = readable
      /\ WaitKept'
      /\ wait' > 0 \/ ((\A u \in list : Armed(u)) => \A u \in list' : Armed(u)')
  BY <1>2, <1>3, AddArms
<1>5. TypeOK'
  BY <1>1, <1>2, <1>3, <1>4 DEF TypeOK
<1>6. InOnePlace'
  <2>1. IsFiniteSet(list')
    BY <1>1, <1>2, FS_AddElement DEF InOnePlace
  <2> QED
    BY <1>1, <1>2, <1>3, <2>1 DEF InOnePlace
<1>7. LoopKept'
  BY <1>1, <1>2 DEF LoopKept
<1>8. ArmedWhenWaiting'
  <2> SUFFICES ASSUME Idle' PROVE \A u \in list' : Armed(u)'
    BY DEF ArmedWhenWaiting, Idle, Armed
  <2>1. wait' = 0 /\ \A u \in list : Armed(u)
    BY <1>2, ArmedMeans DEF IInv, Idle, At
  <2> QED
    BY <1>4, <2>1
<1> QED
  BY <1>2, <1>3, <1>4, <1>5, <1>6, <1>7, <1>8 DEF IInv

\* Every step, of the loop, of another thread or of the clock, keeps the invariant.
LEMMA StepIInv == IInv /\ [Next]_vars => IInv'
<1> SUFFICES ASSUME IInv, [Next]_vars PROVE IInv'
  OBVIOUS
<1>1. CASE \E t \in Timers : AddInLoop(t) \/ AddElsewhere(t)
  BY <1>1, AddKeeps, QueueKeeps
<1>2. CASE GetExpired \/ RunTimer \/ EndRead
  BY <1>2, ExpireKeeps, RunKeeps, EndReadKeeps
<1>3. CASE BeginPass \/ RunFunctor \/ Tick \/ SetTime
  BY <1>3, BeginPassKeeps, FunctorKeeps, TickKeeps, SetKeeps
<1>4. CASE \/ HandleRead \/ CallbackReturns \/ Loop \/ PollReturns \/ EndPass \/ UNCHANGED vars
  BY <1>4, PhaseKeeps
<1> QED
  BY <1>1, <1>2, <1>3, <1>4 DEF Next, LoopStep

\* Every timer is in one place, and timerfd armed for those that wait.
THEOREM Invariance == Spec => []IInv
  BY InitIInv, StepIInv, PTL DEF Spec

\* Every field of the loop, the queue and timerfd keeps to its type.
THEOREM TypeCorrect == Spec => []TypeOK
<1>1. IInv => TypeOK
  BY DEF IInv
<1> QED
  BY Invariance, <1>1, PTL

\* No timer waits with timerfd unset or set later than the time between the clock reading
\* and timerfd_settime() makes it, whatever is added, expires and is read in whatever
\* order, however coarse timerfd is and wherever the clock ticks.
THEOREM NoneIsForgotten == Spec => []ArmedWhenWaiting
<1>1. IInv => ArmedWhenWaiting
  BY DEF IInv
<1> QED
  BY Invariance, <1>1, PTL

-----------------------------------------------------------------------------
(* The queue implements TimerPromise.                                      *)

\* The queue, the vector of the expired, the functors and the clock together do what
\* TimerPromise does, or nothing that it can see.
LEMMA PromiseStep ==
  ASSUME IInv, [Next]_vars
  PROVE  [Promise!Next]_(Promise!vars)
<1> DEFINE waiting == list \cup Range(expired) \cup Range(functors) \cup Range(pass)
<1>1. TypeOK /\ InOnePlace /\ LoopKept
  BY DEF IInv
<1>2. ASSUME NEW t \in Timers, AddInLoop(t) \/ AddElsewhere(t)
      PROVE  Promise!Add(t)
  <2>1. t \notin waiting \cup ran
    BY <1>2 DEF AddInLoop, AddElsewhere, Added
  <2>2. waiting' = waiting \cup {t}
    <3>1. CASE AddInLoop(t)
      BY <3>1 DEF AddInLoop, add_timer_in_loop
    <3>2. CASE AddElsewhere(t)
      <4>1. Range(functors') = Range(functors) \cup {t}
        BY <1>1, <2>1, <3>2, AppendUnique DEF AddElsewhere, TypeOK, InOnePlace
      <4> QED
        BY <3>2, <4>1 DEF AddElsewhere
    <3> QED
      BY <1>2, <3>1, <3>2
  <2> QED
    BY <1>2, <2>1, <2>2 DEF Promise!Add, AddInLoop, AddElsewhere
<1>3. CASE RunTimer
  <2> DEFINE t == Head(expired)
  <2>1. /\ expired # << >> /\ expired' = Tail(expired) /\ ran' = ran \cup {t}
        /\ UNCHANGED <<list, functors, pass, now, when>>
    BY <1>3 DEF RunTimer
  <2>2. t \in Timers /\ t \in Range(expired) /\ Range(expired') = Range(expired) \ {t}
    BY <1>1, <2>1, TailUnique DEF TypeOK, InOnePlace
  <2> HIDE DEF t
  <2>3. waiting' = waiting \ {t}
    BY <1>1, <2>1, <2>2 DEF InOnePlace
  <2>4. when[t] <= now
    BY <1>1, <2>2, TimerAssumption DEF LoopKept, TypeOK
  <2>5. Promise!Run(t)
    BY <2>1, <2>2, <2>3, <2>4 DEF Promise!Run
  <2> QED
    BY <2>2, <2>5 DEF Promise!Next
<1>4. CASE Tick
  <2>1. UNCHANGED <<when, waiting, ran>> /\ (now' = now + 1 \/ now' = now)
    BY <1>4 DEF Tick
  <2> QED
    BY <2>1 DEF Promise!Next, Promise!Tick, Promise!vars
<1>5. CASE GetExpired
  <2>1. UNCHANGED <<now, when, ran, waiting>>
    BY <1>5, ExpireKeeps DEF GetExpired
  <2> QED
    BY <2>1 DEF Promise!vars
<1>6. CASE BeginPass
  <2>1. UNCHANGED <<now, when, ran, waiting>>
    BY <1>6, BeginPassKeeps DEF BeginPass
  <2> QED
    BY <2>1 DEF Promise!vars
<1>7. CASE RunFunctor
  <2>1. UNCHANGED <<now, when, ran, waiting>>
    BY <1>7, FunctorKeeps DEF RunFunctor
  <2> QED
    BY <2>1 DEF Promise!vars
<1>8. CASE \/ HandleRead \/ CallbackReturns \/ EndRead \/ Loop \/ PollReturns \/ EndPass
           \/ SetTime \/ UNCHANGED vars
  <2>1. UNCHANGED <<list, expired, functors, pass, now, when, ran>>
    BY <1>8 DEF HandleRead, CallbackReturns, EndRead, Loop, PollReturns, EndPass, SetTime, vars
  <2> QED
    BY <2>1 DEF Promise!vars
<1> QED
  BY <1>2, <1>3, <1>4, <1>5, <1>6, <1>7, <1>8 DEF Next, LoopStep, Promise!Next

\* Every timer that is added runs at most once and not before its time, for any clock
\* and any resolution of timerfd.
THEOREM RunsAsPromised == Spec => ImplementsPromise
<1>1. Init => Promise!Init
  <2>1. Range(<< >>) = {}
    BY DEF Range
  <2> QED
    BY <2>1 DEF Init, Promise!Init
<1> QED
  BY <1>1, PromiseStep, Invariance, PTL DEF Spec, ImplementsPromise, Promise!Spec

=============================================================================
