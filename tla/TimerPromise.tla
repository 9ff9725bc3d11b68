---------------------------- MODULE TimerPromise ----------------------------
(***************************************************************************)
(* What TimerQueue promises of the timers added to it: each is run once,   *)
(* not before its time.                                                    *)
(***************************************************************************)
EXTENDS Naturals

CONSTANTS Timers, MaxTime

VARIABLES now, when, waiting, ran

vars == <<now, when, waiting, ran>>

Init ==
  /\ now = 0
  /\ when \in [Timers -> 0..MaxTime]
  /\ waiting = {}
  /\ ran = {}

Tick ==
  /\ now' = now + 1
  /\ UNCHANGED <<when, waiting, ran>>

Add(t) ==
  /\ t \notin waiting \cup ran
  /\ waiting' = waiting \cup {t}
  /\ UNCHANGED <<now, when, ran>>

Run(t) ==
  /\ t \in waiting
  /\ when[t] <= now
  /\ waiting' = waiting \ {t}
  /\ ran' = ran \cup {t}
  /\ UNCHANGED <<now, when>>

Next == Tick \/ \E t \in Timers : Add(t) \/ Run(t)

Spec == Init /\ [][Next]_vars

=============================================================================
