---------------------------- MODULE MCTimerQueue ----------------------------
(* TimerQueue for TLC. *)
EXTENDS TimerQueue

CONSTANTS t1, t2, t3

ThreeTimers == {t1, t2, t3}

\* The timers differ in nothing but their times: of the behaviours that differ only in the
\* names of the timers, that with the times in this order stands for all.  Liveness rules
\* out SYMMETRY, and the order does the same for the initial states.
OrderedInit == Init /\ when[t1] <= when[t2] /\ when[t2] <= when[t3]

OrderedSpec == OrderedInit /\ [][Next]_vars /\ Fairness

=============================================================================
