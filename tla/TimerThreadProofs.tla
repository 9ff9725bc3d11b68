------------------------- MODULE TimerThreadProofs --------------------------
(***************************************************************************)
(* Proofs about TimerThread: each Timerfd has one expiration at a time and *)
(* one tick for each, the thread never sleeps past a timer once it watches *)
(* its pipe, and the whole implements TimerThreadPromise, for any number   *)
(* of Timerfds, any clock and any pipe.                                    *)
(***************************************************************************)
EXTENDS TimerThread, FiniteSetTheorems, TLAPS

\* Has S an expiration of d?
Held(S, d) == IF \E e \in S : e[2] = d THEN 1 ELSE 0

\* The entry of a Timerfd is the one it remembers, so it has one; those that were taken
\* are of different Timerfds, and are given before others are taken.
EntriesKept ==
  /\ \A e \in timers : e[1] = set[e[2]]
  /\ \A e, f \in expiring : e[2] = f[2] => e = f
  /\ pc # "write" => expiring = {}

\* A call of reset() gives one tick at most, in whatever part of the system it is.
TicksCounted ==
  \A d \in Timerfds : ticks[d] + Held(expiring, d) + Held(timers, d) <= resets

\* The thread looked at the clock before now, and sleeps for no longer than the idle
\* wait or the time of some timer.
WaitKept ==
  /\ asked <= now
  /\ Ticks(wait) <= Ticks(IdleMillis) + MaxTime + TicksPerMilli

IInv ==
  /\ TypeOK
  /\ EntriesKept
  /\ TicksCounted
  /\ WaitKept

-----------------------------------------------------------------------------
(* Times and waits.                                                        *)

\* What is assumed of the constants.
LEMMA Sizes ==
  /\ MaxTime \in Nat /\ MaxResets \in Nat /\ WakeCapacity \in Nat
  /\ TicksPerMilli \in Nat \ {0} /\ IdleMillis \in Nat \ {0}
  /\ IntHalf \in Nat /\ IdleMillis < IntHalf
  /\ Times \subseteq Nat /\ 0 \in Times
  BY TimerThreadAssumption DEF Times

\* Milliseconds to ticks.
LEMMA TicksMonotone ==
  ASSUME NEW a \in Int, NEW b \in Int
  PROVE  /\ Ticks(a) \in Int
         /\ a <= b => Ticks(a) <= Ticks(b)
         /\ a >= 0 => Ticks(a) >= 0
<1>1. TicksPerMilli \in Nat
  BY Sizes
<1>2. a * TicksPerMilli \in Int /\ (a >= 0 => a * TicksPerMilli >= 0)
  BY <1>1
<1>3. a <= b => a * TicksPerMilli <= b * TicksPerMilli
  BY <1>1
<1> QED
  BY <1>2, <1>3 DEF Ticks

\* A cast to int changes no number that an int has, and makes none larger.
LEMMA CastToInt ==
  ASSUME NEW n \in Nat
  PROVE  /\ AsInt(n) \in (-IntHalf)..(IntHalf - 1)
         /\ AsInt(n) <= n
         /\ n < IntHalf => AsInt(n) = n
<1> DEFINE m == 2 * IntHalf
           x == n + IntHalf
<1>1. IntHalf \in Nat \ {0} /\ m \in Nat \ {0} /\ x \in Nat /\ m = 2 * IntHalf
  BY Sizes
<1>2. AsInt(n) = (x % m) - IntHalf
  BY DEF AsInt
<1> HIDE DEF m
<1>3. x % m \in 0..(m - 1)
  BY <1>1
<1>4. x % m <= x
  BY <1>1
<1>5. x < m => x % m = x
  BY <1>1
<1> QED
  BY <1>1, <1>2, <1>3, <1>4, <1>5

\* The whole milliseconds until a time, or one.
LEMMA UntilTime ==
  ASSUME TypeOK, NEW t \in Times
  PROVE  Until(t) \in Nat \ {0} /\ (Until(t) = 1 \/ Ticks(Until(t)) <= t - now)
<1> DEFINE millis == (t - now) \div TicksPerMilli
<1>1. t - now \in Int /\ TicksPerMilli \in Nat \ {0}
  BY Sizes DEF TypeOK
<1>2. millis \in Int /\ millis * TicksPerMilli <= t - now
  BY <1>1
<1>3. Until(t) = IF millis < 1 THEN 1 ELSE millis
  BY DEF Until
<1> HIDE DEF millis
<1> QED
  BY <1>2, <1>3 DEF Ticks

-----------------------------------------------------------------------------
(* The invariant.                                                          *)

\* Nothing was reset.
LEMMA InitIInv == Init => IInv
<1> SUFFICES ASSUME Init PROVE IInv
  OBVIOUS
<1>1. Ticks(0) = 0 /\ Ticks(IdleMillis) \in Nat
  <2>1. Ticks(IdleMillis) >= 0 /\ Ticks(IdleMillis) \in Int
    BY Sizes, TicksMonotone
  <2> QED
    BY Sizes, <2>1 DEF Ticks
<1>2. /\ 0 \in (-IntHalf)..(IntHalf - 1)
      /\ 0 \in (-1)..(Ticks(IdleMillis) + MaxTime + TicksPerMilli)
      /\ 0 \in 0..WakeCapacity /\ 0 \in 0..MaxResets
  BY Sizes, <1>1
<1>3. TypeOK
  BY Sizes, <1>2 DEF Init, TypeOK
<1>4. EntriesKept
  BY DEF Init, EntriesKept
<1>5. TicksCounted
  BY DEF Init, TicksCounted, Held
<1>6. WaitKept
  BY Sizes, <1>1 DEF Init, WaitKept
<1> QED
  BY <1>3, <1>4, <1>5, <1>6 DEF IInv

\* A step that touches no timer, and computes no wait.
LEMMA QuietKeeps ==
  ASSUME IInv, \/ Tick \/ Instance \/ Stop \/ Start \/ Ready \/ Written \/ PollReturns
               \/ (\E d \in Timerfds : WriteWord(d)) \/ UNCHANGED vars
  PROVE  IInv'
<1>1. TypeOK /\ EntriesKept /\ TicksCounted /\ WaitKept
  BY DEF IInv
<1>2. /\ UNCHANGED <<timers, expiring, set, ticks, resets>>
      /\ pc # "write" => pc' # "write"
      /\ pc' # "write" => expiring = {}
  BY <1>1 DEF Tick, Instance, MakePipe, Constructed, Joined, Stop, Start, Ready, Written,
     PollReturns, WriteWord, vars, threadVars, EntriesKept
<1>3. /\ MaxTime \in Nat /\ now \in Nat /\ now <= MaxTime /\ Times = 0..MaxTime
      /\ left \in Int /\ -1 <= left /\ left <= Ticks(IdleMillis) + MaxTime + TicksPerMilli
      /\ Ticks(IdleMillis) \in Nat /\ TicksPerMilli \in Nat
      /\ wake \in Nat /\ wake <= WakeCapacity /\ WakeCapacity \in Nat
  <2>1. Ticks(IdleMillis) >= 0 /\ Ticks(IdleMillis) \in Int
    BY Sizes, TicksMonotone
  <2> QED
    BY <1>1, <2>1, Sizes DEF TypeOK, Times
<1>4. TypeOK'
  <2>1. CASE Tick
    <3>1. now' \in Times /\ left' \in (-1)..(Ticks(IdleMillis) + MaxTime + TicksPerMilli)
      BY <1>3, <2>1 DEF Tick
    <3> QED
      BY <1>1, <2>1, <3>1 DEF TypeOK, Tick, Ticks, Times
  <2>2. CASE Instance \/ Stop
    BY <1>1, <2>2 DEF TypeOK, Instance, MakePipe, Constructed, Joined, Stop, threadVars,
       Ticks, Times
  <2>3. CASE Start \/ Ready \/ Written \/ UNCHANGED vars
    BY <1>1, <2>3 DEF TypeOK, Start, Ready, Written, vars, threadVars, Ticks, Times
  <2>4. CASE PollReturns
    <3>1. /\ wake' \in 0..WakeCapacity /\ asked' = now /\ wait' = 0 /\ left' = 0
          /\ UNCHANGED <<instance, polled, expiring, running, mutex, timers, set, ticks,
                         resets, now>>
      BY <1>3, <2>4 DEF PollReturns, Woken
    <3>2. 0 \in (-IntHalf)..(IntHalf - 1) /\ pc' = "expire"
          /\ 0 \in (-1)..(Ticks(IdleMillis) + MaxTime + TicksPerMilli)
      BY <1>3, <2>4, Sizes DEF PollReturns
    <3> QED
      BY <1>1, <3>1, <3>2 DEF TypeOK, Ticks, Times
  <2>5. ASSUME NEW d \in Timerfds, WriteWord(d) PROVE TypeOK'
    <3>1. wake' \in 0..WakeCapacity
      BY <1>3, <2>5 DEF WriteWord
    <3> QED
      BY <1>1, <2>5, <3>1 DEF TypeOK, WriteWord, threadVars, Ticks, Times
  <2> QED
    BY <2>1, <2>2, <2>3, <2>4, <2>5
<1>5. EntriesKept'
  BY <1>1, <1>2 DEF EntriesKept
<1>6. TicksCounted'
  BY <1>1, <1>2 DEF TicksCounted, Held
<1>7. WaitKept'
  <2>1. /\ now \in Nat /\ now' \in Nat /\ now <= now'
        /\ \/ asked' = asked /\ wait' = wait
           \/ asked' = now /\ wait' = 0 /\ now' = now
    BY <1>3 DEF Tick, Instance, MakePipe, Constructed, Joined, Stop, Start, Ready, Written,
       PollReturns, WriteWord, vars, threadVars
  <2>2. Ticks(0) = 0 /\ asked \in Nat
    BY <1>1, Sizes DEF Ticks, TypeOK
  <2> QED
    BY <1>1, <1>3, <2>1, <2>2 DEF WaitKept, Ticks
<1> QED
  BY <1>4, <1>5, <1>6, <1>7 DEF IInv

\* The wait is computed, and the poll begins with it as its timeout.
LEMMA SleepKeeps ==
  ASSUME IInv, Plan \/ Sleep
  PROVE  IInv'
<1> DEFINE bound == Ticks(IdleMillis) + MaxTime + TicksPerMilli
<1>1. TypeOK /\ EntriesKept /\ TicksCounted /\ WaitKept
  BY DEF IInv
<1>2. /\ UNCHANGED <<instance, polled, expiring, running, mutex, timers, set, wake,
                     ticks, resets, now>>
      /\ pc # "write" /\ pc' \in {"enter", "poll", "ended"}
  BY DEF Plan, Sleep
<1>3. /\ now \in Nat /\ asked \in Nat /\ asked <= now /\ now \in Times /\ MaxTime \in Nat
      /\ Ticks(IdleMillis) \in Nat /\ TicksPerMilli \in Nat
      /\ wait \in Int /\ IntHalf \in Nat
  <2>1. Ticks(IdleMillis) >= 0 /\ Ticks(IdleMillis) \in Int
    BY Sizes, TicksMonotone
  <2> QED
    BY <1>1, <2>1, Sizes DEF TypeOK, WaitKept
<1>4. /\ asked' \in Times /\ asked' <= now
      /\ wait' \in (-IntHalf)..(IntHalf - 1)
      /\ Ticks(wait') <= bound
  <2>1. CASE asked' = asked /\ wait' = wait
    BY <1>1, <2>1 DEF TypeOK, WaitKept
  <2>2. CASE asked' = now /\ wait' = AsInt(IdleMillis)
    <3>1. wait' = IdleMillis /\ wait' \in (-IntHalf)..(IntHalf - 1)
      BY <2>2, CastToInt, Sizes
    <3> QED
      BY <1>3, <2>2, <3>1
  <2>3. ASSUME NEW t \in Times, asked' = now, wait' = AsInt(Until(t))
        PROVE  /\ wait' \in (-IntHalf)..(IntHalf - 1)
               /\ Ticks(wait') <= bound
    <3>1. /\ Until(t) \in Nat \ {0}
          /\ Until(t) = 1 \/ Ticks(Until(t)) <= t - now
      BY <1>1, UntilTime
    <3>2. wait' \in (-IntHalf)..(IntHalf - 1) /\ wait' <= Until(t) /\ wait' \in Int
      BY <1>3, <2>3, <3>1, CastToInt
    <3>3. /\ Ticks(wait') <= Ticks(Until(t)) /\ Ticks(wait') \in Int
          /\ Ticks(Until(t)) \in Int /\ Ticks(1) = TicksPerMilli
      BY <1>3, <3>1, <3>2, TicksMonotone DEF Ticks
    <3>4. t \in Nat /\ t <= MaxTime
      BY <1>3 DEF Times
    <3>5. Ticks(Until(t)) <= bound
      BY <1>3, <3>1, <3>3, <3>4
    <3> QED
      BY <1>3, <3>2, <3>3, <3>5
  <2> QED
    BY <1>3, <2>1, <2>2, <2>3 DEF Plan, Sleep
<1>5. left' \in (-1)..bound
  <2>1. CASE Plan
    BY <1>1, <2>1 DEF Plan, TypeOK
  <2>2. CASE Sleep
    <3>1. wait >= 0 => Ticks(wait) >= 0 /\ Ticks(wait) \in Int
      BY <1>3, TicksMonotone
    <3> QED
      BY <1>1, <1>3, <2>2, <3>1 DEF Sleep, Timeout, WaitKept
  <2> QED
    BY <2>1, <2>2
<1>6. TypeOK'
  BY <1>1, <1>2, <1>4, <1>5 DEF TypeOK, Ticks, Times
<1>7. EntriesKept'
  BY <1>1, <1>2 DEF EntriesKept
<1>8. TicksCounted'
  BY <1>1, <1>2 DEF TicksCounted, Held
<1>9. WaitKept'
  BY <1>2, <1>4 DEF WaitKept, Ticks
<1> QED
  BY <1>6, <1>7, <1>8, <1>9 DEF IInv

\* What is in timers of a Timerfd, and what in expiring.
LEMMA OneEach ==
  ASSUME IInv
  PROVE  /\ \A e \in timers : e[1] \in Times /\ e[2] \in Timerfds /\ e = <<e[1], e[2]>>
         /\ \A e, f \in timers : e[2] = f[2] => e = f
         /\ \A e \in expiring : e[2] \in Timerfds
         /\ \A e, f \in expiring : e[2] = f[2] => e = f
         /\ \A d \in Timerfds : ticks[d] \in Nat /\ resets \in Nat
<1>1. /\ \A e \in Times \X Timerfds : e[1] \in Times /\ e[2] \in Timerfds /\ e = <<e[1], e[2]>>
      /\ timers \subseteq Times \X Timerfds /\ expiring \subseteq Times \X Timerfds
  BY DEF IInv, TypeOK
<1>2. \A e, f \in timers : e[2] = f[2] => e[1] = f[1]
  BY DEF IInv, EntriesKept
<1>3. \A d \in Timerfds : ticks[d] \in Nat /\ resets \in Nat
  BY Sizes DEF IInv, TypeOK
<1>4. \A e, f \in timers : e[2] = f[2] => e = f
  <2> SUFFICES ASSUME NEW e \in timers, NEW f \in timers, e[2] = f[2] PROVE e = f
    OBVIOUS
  <2> QED
    BY <1>1, <1>2
<1> QED
  BY <1>1, <1>3, <1>4 DEF IInv, EntriesKept

\* What is due moves from timers to expiring.
LEMMA ExpireKeeps ==
  ASSUME IInv, Expire
  PROVE  IInv'
<1>1. TypeOK /\ EntriesKept /\ TicksCounted /\ WaitKept
  BY DEF IInv
<1>2. /\ pc = "expire" /\ pc' = "write" /\ asked' = 0 /\ expiring = {}
      /\ expiring' \subseteq timers /\ timers' = timers \ expiring'
      /\ UNCHANGED <<instance, polled, wait, left, running, mutex, set, wake, ticks,
                     resets, now>>
  BY <1>1 DEF Expire, EntriesKept
<1>3. TypeOK'
  BY <1>1, <1>2, Sizes DEF TypeOK, Ticks, Times
<1>4. EntriesKept'
  BY <1>1, <1>2, OneEach DEF EntriesKept
<1>5. ASSUME NEW d \in Timerfds
      PROVE  ticks'[d] + Held(expiring', d) + Held(timers', d) <= resets'
  <2>1. /\ ticks[d] + Held(expiring, d) + Held(timers, d) <= resets
        /\ ticks[d] \in Nat /\ resets \in Nat
    BY <1>1, OneEach DEF TicksCounted
  <2>2. CASE \E e \in timers : e[2] = d
    <3>1. Held(expiring, d) = 0 /\ Held(timers, d) = 1
      BY <1>2, <2>2 DEF Held
    <3>2. Held(expiring', d) = 0 \/ Held(timers', d) = 0
      BY <1>2, OneEach DEF Held
    <3>3. Held(expiring', d) \in 0..1 /\ Held(timers', d) \in 0..1
      BY DEF Held
    <3> QED
      BY <1>2, <2>1, <3>1, <3>2, <3>3
  <2>3. CASE ~\E e \in timers : e[2] = d
    <3>1. Held(expiring', d) = 0 /\ Held(timers', d) = 0
      BY <1>2, <2>3 DEF Held
    <3>2. Held(expiring, d) = 0 /\ Held(timers, d) = 0
      BY <1>2, <2>3 DEF Held
    <3> QED
      BY <1>2, <2>1, <3>1, <3>2
  <2> QED
    BY <2>2, <2>3
<1>6. TicksCounted'
  BY <1>5 DEF TicksCounted
<1>7. WaitKept'
  BY <1>1, <1>2, Sizes DEF WaitKept, TypeOK, Ticks
<1> QED
  BY <1>3, <1>4, <1>6, <1>7 DEF IInv

\* What was taken becomes a word the owner can read.
LEMMA GiveKeeps ==
  ASSUME IInv, WriteTick
  PROVE  IInv'
<1>1. TypeOK /\ EntriesKept /\ TicksCounted /\ WaitKept
  BY DEF IInv
<1>2. PICK e \in expiring : /\ expiring' = expiring \ {e}
                            /\ ticks' = [ticks EXCEPT ![e[2]] = @ + 1]
  BY DEF WriteTick
<1>3. /\ pc = "write" /\ e[2] \in Timerfds
      /\ UNCHANGED <<instance, pc, polled, asked, wait, left, running, mutex, timers, set,
                     wake, resets, now>>
  BY OneEach DEF WriteTick
<1>4. ASSUME NEW d \in Timerfds
      PROVE  /\ ticks'[d] \in 0..MaxResets
             /\ ticks'[d] + Held(expiring', d) + Held(timers', d) <= resets'
  <2>1. /\ ticks[d] + Held(expiring, d) + Held(timers, d) <= resets
        /\ ticks[d] \in Nat /\ resets \in Nat /\ resets <= MaxResets /\ MaxResets \in Nat
        /\ Held(expiring, d) \in 0..1 /\ Held(timers, d) \in 0..1
    BY <1>1, OneEach, Sizes DEF TicksCounted, TypeOK, Held
  <2>2. CASE d = e[2]
    <3>1. Held(expiring, d) = 1 /\ Held(expiring', d) = 0 /\ ticks'[d] = ticks[d] + 1
      BY <1>1, <1>2, <1>3, <2>2, OneEach DEF Held, TypeOK
    <3> QED
      BY <1>3, <2>1, <3>1
  <2>3. CASE d # e[2]
    <3>1. Held(expiring', d) = Held(expiring, d) /\ ticks'[d] = ticks[d]
      BY <1>1, <1>2, <1>3, <2>3 DEF Held, TypeOK
    <3> QED
      BY <1>3, <2>1, <3>1
  <2> QED
    BY <2>2, <2>3
<1>5. TypeOK'
  <2>1. ticks' \in [Timerfds -> 0..MaxResets]
    BY <1>1, <1>2, <1>4 DEF TypeOK
  <2> QED
    BY <1>1, <1>2, <1>3, <2>1 DEF TypeOK, Ticks, Times
<1>6. EntriesKept'
  BY <1>1, <1>2, <1>3 DEF EntriesKept
<1>7. TicksCounted'
  BY <1>4 DEF TicksCounted
<1>8. WaitKept'
  BY <1>1, <1>3 DEF WaitKept, Ticks
<1> QED
  BY <1>5, <1>6, <1>7, <1>8 DEF IInv

\* reset() replaces the entry of its Timerfd.
LEMMA ResetKeeps ==
  ASSUME IInv, NEW d \in Timerfds, NEW t \in Times, reset(d, t)
  PROVE  /\ IInv'
         /\ \A e \in Times \X Timerfds :
              e \in timers' <=> IF e[2] = d THEN e[1] = t ELSE e \in timers
<1>1. TypeOK /\ EntriesKept /\ TicksCounted /\ WaitKept
  BY DEF IInv
<1>2. /\ resets < MaxResets /\ resets' = resets + 1
      /\ timers' = (timers \ {<<set[d], d>>}) \cup {<<t, d>>}
      /\ set' = [set EXCEPT ![d] = t] /\ mutex' = d
      /\ UNCHANGED <<instance, pc, polled, asked, wait, left, expiring, running, wake, ticks,
                     now>>
  BY DEF reset, Replaced, threadVars
<1>3. \A e \in timers : e[2] = d => e = <<set[d], d>>
  BY <1>1, OneEach DEF EntriesKept
<1>4. \A e \in timers' : e = <<t, d>> \/ (e \in timers /\ e[2] # d)
  BY <1>2, <1>3
<1>5. TypeOK'
  <2>1. timers' \subseteq Times \X Timerfds /\ set' \in [Timerfds -> Times \cup {-1}]
    BY <1>1, <1>2 DEF TypeOK
  <2>2. resets' \in 0..MaxResets
    BY <1>1, <1>2, Sizes DEF TypeOK
  <2> QED
    BY <1>1, <1>2, <2>1, <2>2 DEF TypeOK, Ticks, Times
<1>6. EntriesKept'
  <2>1. ASSUME NEW e \in timers' PROVE e[1] = set'[e[2]]
    BY <1>1, <1>2, <1>4, OneEach DEF EntriesKept, TypeOK
  <2> QED
    BY <1>1, <1>2, <2>1 DEF EntriesKept
<1>7. ASSUME NEW c \in Timerfds
      PROVE  ticks'[c] + Held(expiring', c) + Held(timers', c) <= resets'
  <2>1. /\ ticks[c] + Held(expiring, c) + Held(timers, c) <= resets
        /\ ticks[c] \in Nat /\ resets \in Nat
        /\ Held(expiring, c) \in 0..1 /\ Held(timers, c) \in 0..1
    BY <1>1, OneEach DEF TicksCounted, Held
  <2>2. Held(timers', c) <= Held(timers, c) + 1
    BY DEF Held
  <2> QED
    BY <1>2, <2>1, <2>2 DEF Held
<1>8. TicksCounted'
  BY <1>7 DEF TicksCounted
<1>9. WaitKept'
  BY <1>1, <1>2 DEF WaitKept, Ticks
<1>10. ASSUME NEW e \in Times \X Timerfds
       PROVE  e \in timers' <=> IF e[2] = d THEN e[1] = t ELSE e \in timers
  BY <1>2, <1>4
<1> QED
  BY <1>5, <1>6, <1>8, <1>9, <1>10 DEF IInv

\* The owner reads a word.
LEMMA ReadKeeps ==
  ASSUME IInv, NEW d \in Timerfds, read(d)
  PROVE  IInv'
<1>1. TypeOK /\ EntriesKept /\ TicksCounted /\ WaitKept
  BY DEF IInv
<1>2. /\ ticks[d] > 0 /\ ticks' = [ticks EXCEPT ![d] = @ - 1]
      /\ UNCHANGED <<instance, pc, polled, asked, wait, left, expiring, running, mutex, timers,
                     set, wake, resets, now>>
  BY DEF read, threadVars
<1>3. ASSUME NEW c \in Timerfds
      PROVE  ticks'[c] \in 0..MaxResets /\ ticks'[c] <= ticks[c] /\ ticks[c] \in Nat
  BY <1>1, <1>2, Sizes DEF TypeOK
<1>4. TypeOK'
  <2>1. ticks' \in [Timerfds -> 0..MaxResets]
    BY <1>1, <1>2, <1>3 DEF TypeOK
  <2> QED
    BY <1>1, <1>2, <2>1 DEF TypeOK, Ticks, Times
<1>5. EntriesKept'
  BY <1>1, <1>2 DEF EntriesKept
<1>6. ASSUME NEW c \in Timerfds
      PROVE  ticks'[c] + Held(expiring', c) + Held(timers', c) <= resets'
  <2>1. /\ ticks[c] + Held(expiring, c) + Held(timers, c) <= resets
        /\ resets \in Nat /\ Held(expiring, c) \in 0..1 /\ Held(timers, c) \in 0..1
    BY <1>1, OneEach DEF TicksCounted, Held
  <2>2. ticks'[c] \in Nat /\ ticks'[c] <= ticks[c] /\ ticks[c] \in Nat
    BY <1>3, Sizes
  <2>3. /\ Held(expiring', c) = Held(expiring, c) /\ Held(timers', c) = Held(timers, c)
        /\ resets' = resets
    BY <1>2
  <2> QED
    BY <2>1, <2>2, <2>3
<1>7. TicksCounted'
  BY <1>6 DEF TicksCounted
<1>8. WaitKept'
  BY <1>1, <1>2 DEF WaitKept, Ticks
<1> QED
  BY <1>4, <1>5, <1>7, <1>8 DEF IInv

\* Every step, of the thread, of an owner or of the clock, keeps the invariant.
LEMMA StepIInv == IInv /\ [Next]_vars => IInv'
<1> SUFFICES ASSUME IInv, [Next]_vars PROVE IInv'
  OBVIOUS
<1>1. CASE Plan \/ Sleep \/ Expire \/ WriteTick
  BY <1>1, SleepKeeps, ExpireKeeps, GiveKeeps
<1>2. CASE \E d \in Timerfds : read(d) \/ \E t \in Times : reset(d, t)
  BY <1>2, ReadKeeps, ResetKeeps
<1>3. CASE \/ Tick \/ Instance \/ Stop \/ Start \/ Ready \/ Written \/ PollReturns
           \/ (\E d \in Timerfds : WriteWord(d)) \/ UNCHANGED vars
  BY <1>3, QuietKeeps
<1> QED
  BY <1>1, <1>2, <1>3 DEF Next, TimerFunc

\* Each Timerfd has one expiration and one tick for it.
THEOREM Invariance == Spec => []IInv
  BY InitIInv, StepIInv, PTL DEF Spec

\* Every field of the thread and the Timerfds keeps to its type: no word is given that
\* no reset() asked for.
THEOREM TypeCorrect == Spec => []TypeOK
<1>1. IInv => TypeOK
  BY DEF IInv
<1> QED
  BY Invariance, <1>1, PTL

-----------------------------------------------------------------------------
(* The thread wakes up in time.                                            *)

\* No timer is due further off than the milliseconds an int can count, 24 days: the
\* cast in the code makes a longer wait a negative one.
WaitsFit == MaxTime < Ticks(IntHalf)

\* The wait that is computed ends by the time of every timer, or is the shortest.
LEMMA PlanIsTimely ==
  ASSUME WaitsFit, IInv, Plan, pc' = "enter", NEW e \in timers
  PROVE  wait' \in Nat /\ (wait' = 1 \/ asked' + Ticks(wait') <= e[1])
<1>1. TypeOK
  BY DEF IInv
<1>2. PICK t \in Times : IsFirst(t) /\ asked' = now /\ wait' = AsInt(Until(t))
  <2>1. timers # {}
    OBVIOUS
  <2> QED
    BY <2>1 DEF Plan
<1>3. t <= e[1] /\ e[1] \in Times
  BY <1>2, OneEach DEF IsFirst
<1>4. /\ Until(t) \in Nat \ {0} /\ (Until(t) = 1 \/ Ticks(Until(t)) <= t - now)
      /\ t \in Nat /\ t <= MaxTime /\ e[1] \in Nat /\ now \in Nat /\ MaxTime \in Nat
  BY <1>1, <1>3, UntilTime, Sizes DEF Times, TypeOK
<1>5. Until(t) < IntHalf
  <2>1. CASE Until(t) = 1
    BY <2>1, Sizes
  <2>2. CASE Until(t) # 1
    <3>1. IntHalf \in Int /\ Until(t) \in Int
      BY <1>4, Sizes
    <3>2. /\ Ticks(IntHalf) \in Int /\ Ticks(Until(t)) \in Int
          /\ IntHalf <= Until(t) => Ticks(IntHalf) <= Ticks(Until(t))
      BY <3>1, TicksMonotone
    <3>3. Ticks(Until(t)) < Ticks(IntHalf)
      BY <1>4, <2>2, <3>2 DEF WaitsFit
    <3> QED
      BY <3>1, <3>2, <3>3
  <2> QED
    BY <2>1, <2>2
<1>6. wait' = Until(t)
  BY <1>2, <1>4, <1>5, CastToInt
<1>7. CASE wait' = 1
  BY <1>7
<1>8. CASE wait' # 1
  <2>1. Ticks(Until(t)) <= t - now /\ Ticks(Until(t)) \in Int
    BY <1>4, <1>6, <1>8, TicksMonotone
  <2> QED
    BY <1>2, <1>3, <1>4, <1>6, <2>1
<1> QED
  BY <1>7, <1>8

\* Nothing makes a wait too long that was not: a reset() holds the mutex until its word
\* is in the pipe.
LEMMA TimelyStep ==
  ASSUME WaitsFit, IInv, SleepsNoLonger, [Next]_vars
  PROVE  SleepsNoLonger'
<1> SUFFICES ASSUME polled' = "pipe", pc' \in {"enter", "poll"}, ~Woken', mutex' = NoOne,
                    NEW e \in timers'
             PROVE  wait' >= 0 /\ (wait' = 1 \/ asked' + Ticks(wait') <= e[1])
  BY DEF SleepsNoLonger, Timely, Ticks
<1>1. CASE Plan
  BY <1>1, PlanIsTimely DEF Plan
<1>2. CASE Sleep \/ Tick \/ UNCHANGED vars \/ \E d \in Timerfds : read(d)
  <2>1. /\ UNCHANGED <<polled, mutex, timers, wait, asked, wake>>
        /\ pc \in {"enter", "poll"}
    BY <1>2 DEF Sleep, Tick, vars, threadVars, read
  <2> QED
    BY <2>1 DEF SleepsNoLonger, Timely, Woken
<1>3. CASE Instance \/ Stop
  <2>1. UNCHANGED <<polled, mutex, timers, wait, asked, wake, pc>>
    BY <1>3 DEF Instance, MakePipe, Constructed, Joined, Stop, threadVars
  <2> QED
    BY <2>1 DEF SleepsNoLonger, Timely, Woken
<1>4. CASE Start \/ Ready \/ PollReturns \/ Expire \/ Written
  BY <1>4 DEF Start, Ready, PollReturns, Expire, Written
<1>5. CASE WriteTick
  <2>1. pc = "write" /\ pc' = pc
    BY <1>5 DEF WriteTick
  <2> QED
    BY <2>1
<1>6. ASSUME NEW d \in Timerfds, WriteWord(d) PROVE FALSE
  <2>1. wake' = wake + 2 /\ wake \in Nat
    BY <1>6, Sizes DEF WriteWord, IInv, TypeOK
  <2> QED
    BY <2>1 DEF Woken
<1>7. ASSUME NEW d \in Timerfds, NEW t \in Times, reset(d, t) PROVE FALSE
  BY <1>7, TimerThreadAssumption DEF reset
<1> QED
  BY <1>1, <1>2, <1>3, <1>4, <1>5, <1>6, <1>7 DEF Next, TimerFunc

\* Once it watches its pipe the thread never sleeps past a timer, wherever a reset()
\* falls and however its words are read.
THEOREM NeverOversleeps ==
  ASSUME WaitsFit
  PROVE  Spec => []SleepsNoLonger
<1>1. Init => SleepsNoLonger
  BY DEF Init, SleepsNoLonger
<1> QED
  BY <1>1, TimelyStep, Invariance, PTL DEF Spec

-----------------------------------------------------------------------------
(* The thread implements TimerThreadPromise.                               *)

\* What the refinement makes of timers and expiring.
DueIn(T, d) == IF \E t \in Times : <<t, d>> \in T
                 THEN CHOOSE t \in Times : <<t, d>> \in T ELSE -1
FiringIn(E, d) == Cardinality({e \in E : e[2] = d})
due == [d \in Timerfds |-> DueIn(timers, d)]
firing == [d \in Timerfds |-> FiringIn(expiring, d)]

\* The time in T of a d that has one at most.
LEMMA DueIs ==
  ASSUME NEW T, NEW d, \A t, u \in Times : <<t, d>> \in T /\ <<u, d>> \in T => t = u
  PROVE  /\ \A t \in Times : <<t, d>> \in T => DueIn(T, d) = t
         /\ (~\E t \in Times : <<t, d>> \in T) => DueIn(T, d) = -1
<1>1. ASSUME NEW t \in Times, <<t, d>> \in T PROVE DueIn(T, d) = t
  <2>1. \A u \in Times : <<u, d>> \in T => u = t
    BY <1>1
  <2> QED
    BY <1>1, <2>1 DEF DueIn
<1> QED
  BY <1>1 DEF DueIn

\* How many of a d that has one at most in E.
LEMMA FiringIs ==
  ASSUME NEW E, NEW d, \A e, f \in E : e[2] = f[2] => e = f
  PROVE  FiringIn(E, d) = Held(E, d)
<1>1. CASE \E e \in E : e[2] = d
  <2>1. PICK e \in E : e[2] = d
    BY <1>1
  <2>2. {f \in E : f[2] = d} = {e}
    BY <2>1
  <2> QED
    BY <1>1, <2>2, FS_Singleton DEF FiringIn, Held
<1>2. CASE ~\E e \in E : e[2] = d
  <2>1. {f \in E : f[2] = d} = {}
    BY <1>2
  <2> QED
    BY <1>2, <2>1, FS_EmptySet DEF FiringIn, Held
<1> QED
  BY <1>1, <1>2

\* reset() replaces the expiration of its Timerfd and leaves the others.
LEMMA ResetStep ==
  ASSUME IInv, NEW d \in Timerfds, NEW t \in Times, reset(d, t)
  PROVE  Promise!Reset(d)
<1>1. \A e \in Times \X Timerfds :
        e \in timers' <=> IF e[2] = d THEN e[1] = t ELSE e \in timers
  BY ResetKeeps
<1>2. \A c \in Timerfds : \A u \in Times :
        <<u, c>> \in timers' <=> IF c = d THEN u = t ELSE <<u, c>> \in timers
  <2> SUFFICES ASSUME NEW c \in Timerfds, NEW u \in Times
               PROVE  <<u, c>> \in timers' <=> IF c = d THEN u = t ELSE <<u, c>> \in timers
    OBVIOUS
  <2>1. <<u, c>> \in Times \X Timerfds /\ <<u, c>>[1] = u /\ <<u, c>>[2] = c
    OBVIOUS
  <2> QED
    BY <1>1, <2>1
<1>3. UNCHANGED <<now, expiring, ticks>>
  BY DEF reset, threadVars
<1>4. DueIn(timers', d) = t
  BY <1>2, DueIs
<1>5. ASSUME NEW c \in Timerfds, c # d PROVE DueIn(timers', c) = DueIn(timers, c)
  <2>1. \A u \in Times : <<u, c>> \in timers' <=> <<u, c>> \in timers
    BY <1>2, <1>5
  <2> QED
    BY <2>1 DEF DueIn
<1>6. due' = [due EXCEPT ![d] = t]
  <2>1. due' = [c \in Timerfds |-> DueIn(timers', c)]
    BY DEF due, DueIn, Times
  <2> QED
    BY <1>4, <1>5, <2>1 DEF due
<1>7. firing' = firing
  BY <1>3 DEF firing, FiringIn
<1> QED
  BY <1>3, <1>6, <1>7 DEF Promise!Reset, due, firing, DueIn, FiringIn, Times

\* What is due is taken together: of each Timerfd the one expiration it has.
LEMMA ExpireStep ==
  ASSUME IInv, Expire
  PROVE  \E D \in SUBSET Timerfds : Promise!Expire(D)
<1>0. PICK D \in SUBSET Timerfds :
        D = {d \in Timerfds : \E t \in Times : <<t, d>> \in timers /\ t <= asked}
  OBVIOUS
<1>1. /\ expiring = {} /\ expiring' = {e \in timers : e[1] <= asked}
      /\ timers' = {e \in timers : ~(e[1] <= asked)}
      /\ UNCHANGED <<now, ticks>>
      /\ asked \in Nat /\ now \in Nat /\ asked <= now /\ Times \subseteq Nat
  BY Sizes DEF Expire, Due, IInv, EntriesKept, WaitKept, TypeOK
<1>2. ASSUME NEW d \in D
      PROVE  /\ DueIn(timers, d) \in 0..now
             /\ DueIn(timers', d) = -1
             /\ FiringIn(expiring, d) = 0 /\ FiringIn(expiring', d) = 1
  <2>1. PICK t \in Times : <<t, d>> \in timers /\ t <= asked
    BY <1>0
  <2>2. \A u \in Times : <<u, d>> \in timers => u = t
    BY <2>1, OneEach
  <2>3. DueIn(timers, d) = t
    BY <2>1, <2>2, DueIs
  <2>4. ~\E u \in Times : <<u, d>> \in timers'
    BY <1>1, <2>1, <2>2
  <2>5. DueIn(timers', d) = -1
    BY <2>4, DueIs
  <2>6. Held(expiring', d) = 1 /\ Held(expiring, d) = 0
    <3>1. <<t, d>> \in expiring' /\ <<t, d>>[2] = d
      BY <1>1, <2>1
    <3> QED
      BY <1>1, <3>1 DEF Held
  <2>7. \A e, f \in expiring' : e[2] = f[2] => e = f
    BY <1>1, OneEach
  <2>8. FiringIn(expiring', d) = 1 /\ FiringIn(expiring, d) = 0
    BY <1>1, <2>6, <2>7, FiringIs
  <2> QED
    BY <1>1, <2>1, <2>3, <2>5, <2>8
<1>3. ASSUME NEW d \in Timerfds, d \notin D
      PROVE  /\ DueIn(timers', d) = DueIn(timers, d)
             /\ FiringIn(expiring', d) = FiringIn(expiring, d)
  <2>1. \A u \in Times : <<u, d>> \in timers' <=> <<u, d>> \in timers
    BY <1>0, <1>1, <1>3
  <2>2. {e \in expiring' : e[2] = d} = {e \in expiring : e[2] = d}
    <3> SUFFICES ASSUME NEW e \in timers, e[1] <= asked, e[2] = d PROVE FALSE
      BY <1>1
    <3>1. e = <<e[1], d>> /\ e[1] \in Times
      BY OneEach
    <3> QED
      BY <1>0, <1>3, <3>1
  <2> QED
    BY <2>1, <2>2 DEF DueIn, FiringIn
<1>4. \A d \in D : due[d] \in 0..now
  BY <1>2 DEF due
<1>5. due' = [d \in Timerfds |-> IF d \in D THEN -1 ELSE due[d]]
  <2>1. due' = [d \in Timerfds |-> DueIn(timers', d)]
    BY DEF due, DueIn, Times
  <2> QED
    BY <1>2, <1>3, <2>1 DEF due
<1>6. firing' = [d \in Timerfds |-> IF d \in D THEN firing[d] + 1 ELSE firing[d]]
  <2>1. firing' = [d \in Timerfds |-> FiringIn(expiring', d)]
    BY DEF firing, FiringIn
  <2> QED
    BY <1>2, <1>3, <2>1 DEF firing
<1>7. Promise!Expire(D)
  BY <1>1, <1>4, <1>5, <1>6 DEF Promise!Expire, due, firing, DueIn, FiringIn, Times
<1> QED
  BY <1>7

\* The word of one that was taken is given to its owner.
LEMMA GiveStep ==
  ASSUME IInv, WriteTick
  PROVE  \E d \in Timerfds : Promise!Give(d)
<1>1. PICK e \in expiring : /\ expiring' = expiring \ {e}
                            /\ ticks' = [ticks EXCEPT ![e[2]] = @ + 1]
  BY DEF WriteTick
<1> DEFINE d == e[2]
<1>2. d \in Timerfds /\ UNCHANGED <<now, timers>>
  BY OneEach DEF WriteTick
<1>3. FiringIn(expiring, d) = 1 /\ FiringIn(expiring', d) = 0
  <2>1. \A f, g \in expiring : f[2] = g[2] => f = g
    BY OneEach
  <2>2. \A f, g \in expiring' : f[2] = g[2] => f = g
    BY <1>1, <2>1
  <2>3. Held(expiring, d) = 1 /\ Held(expiring', d) = 0
    BY <1>1, <2>1 DEF Held
  <2> QED
    BY <2>1, <2>2, <2>3, FiringIs
<1>4. ASSUME NEW c \in Timerfds, c # d PROVE FiringIn(expiring', c) = FiringIn(expiring, c)
  <2>1. {f \in expiring' : f[2] = c} = {f \in expiring : f[2] = c}
    BY <1>1, <1>4
  <2> QED
    BY <2>1 DEF FiringIn
<1>5. firing' = [firing EXCEPT ![d] = @ - 1] /\ firing[d] > 0
  <2>1. firing' = [c \in Timerfds |-> FiringIn(expiring', c)]
    BY DEF firing, FiringIn
  <2> HIDE DEF d
  <2>2. firing[d] = 1
    BY <1>2, <1>3 DEF firing
  <2>3. firing' = [c \in Timerfds |-> IF c = d THEN 0 ELSE firing[c]]
    BY <1>3, <1>4, <2>1 DEF firing
  <2>4. firing' = [firing EXCEPT ![d] = 0]
    BY <2>3 DEF firing
  <2> QED
    BY <2>2, <2>4
<1>6. due' = due
  BY <1>2 DEF due, DueIn, Times
<1>7. Promise!Give(d)
  BY <1>1, <1>2, <1>5, <1>6 DEF Promise!Give, due, firing, DueIn, FiringIn, Times
<1> QED
  BY <1>2, <1>7

\* A step that neither resets, takes nor gives.
LEMMA OtherStep ==
  ASSUME \/ Tick \/ Instance \/ Stop \/ Start \/ Ready \/ Plan \/ Sleep \/ PollReturns
         \/ Written \/ (\E d \in Timerfds : WriteWord(d) \/ read(d)) \/ UNCHANGED vars
  PROVE  [Promise!Next]_(Promise!vars)
<1>1. UNCHANGED <<timers, expiring>>
  BY DEF Tick, Instance, MakePipe, Constructed, Joined, Stop, Start, Ready, Plan, Sleep,
     PollReturns, Written, WriteWord, read, vars, threadVars
<1>2. UNCHANGED <<due, firing>>
  BY <1>1 DEF due, firing, DueIn, FiringIn, Times
<1>3. CASE Tick
  <2>1. UNCHANGED ticks /\ (now' = now + 1 \/ now' = now)
    BY <1>3 DEF Tick
  <2> QED
    BY <1>2, <2>1 DEF Promise!Next, Promise!Tick, Promise!vars, due, firing, DueIn, FiringIn,
       Times
<1>4. ASSUME NEW d \in Timerfds, read(d) PROVE Promise!Next
  <2>1. Promise!Read(d)
    BY <1>2, <1>4 DEF read, Promise!Read, due, firing, DueIn, FiringIn, Times
  <2> QED
    BY <2>1 DEF Promise!Next
<1>5. CASE \/ Instance \/ Stop \/ Start \/ Ready \/ Plan \/ Sleep \/ PollReturns
           \/ Written \/ (\E d \in Timerfds : WriteWord(d)) \/ UNCHANGED vars
  <2>1. UNCHANGED <<now, ticks>>
    BY <1>5 DEF Instance, MakePipe, Constructed, Joined, Stop, Start, Ready, Plan, Sleep,
       PollReturns, Written, WriteWord, vars, threadVars
  <2> QED
    BY <1>2, <2>1 DEF Promise!vars, due, firing, DueIn, FiringIn, Times
<1> QED
  BY <1>3, <1>4, <1>5

\* A Timerfd has at most one expiration, which reset() replaces and which gives one
\* word, never early, whatever the thread, its poll and its pipe do in between.
THEOREM TicksAsPromised == Spec => ImplementsPromise
<1>1. Init => Promise!Init
  <2> SUFFICES ASSUME Init PROVE Promise!Init
    OBVIOUS
  <2>1. ASSUME NEW d \in Timerfds PROVE DueIn(timers, d) = -1 /\ FiringIn(expiring, d) = 0
    <3>1. {e \in expiring : e[2] = d} = {}
      BY DEF Init
    <3> QED
      BY <3>1, FS_EmptySet DEF Init, DueIn, FiringIn
  <2>2. due = [d \in Timerfds |-> -1] /\ firing = [d \in Timerfds |-> 0]
    BY <2>1 DEF due, firing
  <2> QED
    BY <2>2 DEF Init, Promise!Init, due, firing, DueIn, FiringIn, Times
<1>2. IInv /\ [Next]_vars => [Promise!Next]_(Promise!vars)
  <2> SUFFICES ASSUME IInv, [Next]_vars PROVE [Promise!Next]_(Promise!vars)
    OBVIOUS
  <2>1. CASE \E d \in Timerfds : \E t \in Times : reset(d, t)
    BY <2>1, ResetStep DEF Promise!Next
  <2>2. CASE Expire
    BY <2>2, ExpireStep DEF Promise!Next
  <2>3. CASE WriteTick
    BY <2>3, GiveStep DEF Promise!Next
  <2>4. CASE \/ Tick \/ Instance \/ Stop \/ Start \/ Ready \/ Plan \/ Sleep \/ PollReturns
             \/ Written \/ (\E d \in Timerfds : WriteWord(d) \/ read(d)) \/ UNCHANGED vars
    BY <2>4, OtherStep
  <2> QED
    BY <2>1, <2>2, <2>3, <2>4 DEF Next, TimerFunc
<1> QED
  BY <1>1, <1>2, Invariance, PTL DEF Spec, ImplementsPromise, Promise!Spec

=============================================================================
