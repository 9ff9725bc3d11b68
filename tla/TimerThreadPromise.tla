------------------------- MODULE TimerThreadPromise -------------------------
(***************************************************************************)
(* What a TimerfdThreadSimulation promises to its owner: it has at most    *)
(* one expiration, which reset() replaces; an expiration is taken when its *)
(* time has come and not before, and gives the owner one word to read.     *)
(***************************************************************************)
EXTENDS Integers

CONSTANTS Timerfds, MaxTime

VARIABLES now,
          due,     \* the time every timerfd is set to, -1 for none
          firing,  \* expirations taken and not yet given to the owner
          ticks    \* words the owner can read

vars == <<now, due, firing, ticks>>

Init ==
  /\ now = 0
  /\ due = [d \in Timerfds |-> -1]
  /\ firing = [d \in Timerfds |-> 0]
  /\ ticks = [d \in Timerfds |-> 0]

Tick ==
  /\ now' = now + 1
  /\ UNCHANGED <<due, firing, ticks>>

Reset(d) ==
  /\ \E t \in 0..MaxTime : due' = [due EXCEPT ![d] = t]
  /\ UNCHANGED <<now, firing, ticks>>

\* The expirations of D are taken together.
Expire(D) ==
  /\ \A d \in D : due[d] \in 0..now
  /\ due' = [d \in Timerfds |-> IF d \in D THEN -1 ELSE due[d]]
  /\ firing' = [d \in Timerfds |-> IF d \in D THEN firing[d] + 1 ELSE firing[d]]
  /\ UNCHANGED <<now, ticks>>

Give(d) ==
  /\ firing[d] > 0
  /\ firing' = [firing EXCEPT ![d] = @ - 1]
  /\ ticks' = [ticks EXCEPT ![d] = @ + 1]
  /\ UNCHANGED <<now, due>>

Read(d) ==
  /\ ticks[d] > 0
  /\ ticks' = [ticks EXCEPT ![d] = @ - 1]
  /\ UNCHANGED <<now, due, firing>>

Next ==
  \/ Tick
  \/ \E D \in SUBSET Timerfds : Expire(D)
  \/ \E d \in Timerfds : Reset(d) \/ Give(d) \/ Read(d)

Spec == Init /\ [][Next]_vars

=============================================================================
