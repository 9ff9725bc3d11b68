--------------------------- MODULE MCTimerThread ----------------------------
(* TimerThread for TLC. *)
EXTENDS TimerThread

=============================================================================
