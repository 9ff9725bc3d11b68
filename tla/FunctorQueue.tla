---------------------------- MODULE FunctorQueue ----------------------------
(***************************************************************************)
(* What EventLoop promises about the callbacks handed to it, without the   *)
(* mutex, the swap, the wakeup pipe or the poller: one first-in first-out  *)
(* queue, from which each callback is taken once, and a shortcut for the   *)
(* callbacks that run_in_loop() runs on the spot.                          *)
(***************************************************************************)
EXTENDS Sequences

CONSTANT Functors    \* the callbacks, each handed over at most once

VARIABLES submitted, \* the callbacks handed over so far
          queue,     \* the callbacks waiting, oldest first
          ran        \* the callbacks started, in the order they started

vars == <<submitted, queue, ran>>

TypeOK ==
  /\ submitted \subseteq Functors
  /\ queue \in Seq(Functors)
  /\ ran \in Seq(Functors)

Init ==
  /\ submitted = {}
  /\ queue = << >>
  /\ ran = << >>

Hand(f) ==
  /\ f \in Functors \ submitted
  /\ submitted' = submitted \cup {f}

\* The callback goes to the end of the queue.
Submit(f) ==
  /\ Hand(f)
  /\ queue' = Append(queue, f)
  /\ UNCHANGED ran

\* The callback is run at once by the caller, ahead of the queue.
RunInline(f) ==
  /\ Hand(f)
  /\ ran' = Append(ran, f)
  /\ UNCHANGED queue

\* The oldest callback leaves the queue and is run.
RunFirst ==
  /\ queue # << >>
  /\ ran' = Append(ran, Head(queue))
  /\ queue' = Tail(queue)
  /\ UNCHANGED submitted

Next ==
  \/ \E f \in Functors : Submit(f) \/ RunInline(f)
  \/ RunFirst

Spec == Init /\ [][Next]_vars

=============================================================================
