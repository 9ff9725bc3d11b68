-------------------------- MODULE EventLoopProofs --------------------------
(***************************************************************************)
(* Proofs about EventLoop: its safety invariants, and that it implements   *)
(* FunctorQueue, for any number of threads and functors; and that they     *)
(* hold of a loop in the thread of an EventLoopThread.                     *)
(***************************************************************************)
EXTENDS EventLoopThread, SequenceTheorems, TLAPS

\* Where the loop thread is determines what it holds.
LoopInv ==
  /\ calling <=> pc \in {"swap", "run", "functor"}
  /\ active # {} => pc = "dispatch"
  /\ Owner \in waking => pc = "functor"
  /\ WakeupReadHasAWord
  /\ NoAbandonedBatch

\* From the swap to the next poll() a functor that was not queued early has a
\* wakeup on its way; in the other phases the swap is still to come.
WakeInv ==
  pc \in {"outside", "test", "poll", "run", "functor"}
      /\ ~(Range(pending) \subseteq early)
    => pipe > 0 \/ waking # {}

IInv == TypeOK /\ LoopInv /\ WakeInv /\ NoLostQuit

-----------------------------------------------------------------------------
(* Sequences.                                                              *)

\* Appending to a sequence adds the element to its range.
LEMMA RangeAppend ==
  ASSUME NEW S, NEW s \in Seq(S), NEW e \in S
  PROVE  Range(Append(s, e)) = Range(s) \cup {e}
<1>1. <<e>> \in Seq(S) /\ Range(<<e>>) = {e}
  BY DEF Range
<1>2. Append(s, e) = s \o <<e>>
  BY AppendIsConcat
<1>3. Range(s \o <<e>>) = Range(s) \cup Range(<<e>>)
  BY <1>1, RangeConcatenation, Zenon
<1> QED
  BY <1>1, <1>2, <1>3, Zenon

\* The head and the tail of a concatenation come from its first part.
LEMMA HeadTailConcat ==
  ASSUME NEW S, NEW s \in Seq(S), NEW t \in Seq(S), s # << >>
  PROVE  /\ s \o t # << >>
         /\ Head(s \o t) = Head(s)
         /\ Tail(s \o t) = Tail(s) \o t
<1>1. /\ s \o t \in Seq(S)
      /\ Len(s) \in Nat \ {0}
      /\ Len(t) \in Nat
      /\ Len(s \o t) = Len(s) + Len(t)
      /\ \A i \in 1..(Len(s) + Len(t)) :
           (s \o t)[i] = IF i <= Len(s) THEN s[i] ELSE t[i - Len(s)]
  BY ConcatProperties, EmptySeq, LenProperties
<1>2. s \o t # << >>
  BY <1>1, ConcatEqualIffEmpty
<1>3. Head(s \o t) = Head(s)
  BY <1>1
<1>4. /\ Tail(s) \in Seq(S)
      /\ Len(Tail(s)) = Len(s) - 1
      /\ \A i \in 1..Len(Tail(s)) : Tail(s)[i] = s[i+1]
      /\ Tail(s \o t) \in Seq(S)
      /\ Len(Tail(s \o t)) = Len(s) + Len(t) - 1
      /\ \A i \in 1..Len(Tail(s \o t)) : Tail(s \o t)[i] = (s \o t)[i+1]
  BY <1>1, <1>2, HeadTailProperties
<1>5. /\ Tail(s) \o t \in Seq(S)
      /\ Len(Tail(s) \o t) = Len(s) - 1 + Len(t)
      /\ \A i \in 1..(Len(s) - 1 + Len(t)) :
           (Tail(s) \o t)[i] = IF i <= Len(s) - 1 THEN Tail(s)[i]
                                                  ELSE t[i - (Len(s) - 1)]
  BY <1>4, ConcatProperties
<1>6. ASSUME NEW i \in 1..(Len(s) + Len(t) - 1)
      PROVE  Tail(s \o t)[i] = (Tail(s) \o t)[i]
  BY <1>1, <1>4, <1>5
<1>7. Tail(s \o t) = Tail(s) \o t
  BY <1>1, <1>4, <1>5, <1>6, SeqEqual
<1> QED
  BY <1>2, <1>3, <1>7

-----------------------------------------------------------------------------
(* The invariant.                                                          *)

\* No step takes a variable out of its type.
LEMMA TypeStep == TypeOK /\ [Next]_vars => TypeOK'
<1> SUFFICES ASSUME TypeOK, [Next]_vars PROVE TypeOK'
  OBVIOUS
<1> USE EventLoopAssumption DEF TypeOK, Threads, OwnerAt
<1>1. CASE Loop
  BY <1>1 DEF Loop, history
<1>2. CASE TestQuit
  BY <1>2 DEF TestQuit, history
<1>3. CASE PollReturns
  BY <1>3 DEF PollReturns, history
<1>4. CASE HandleWakeup
  BY <1>4 DEF HandleWakeup, history
<1>5. CASE HandleIo
  BY <1>5 DEF HandleIo, history
<1>6. CASE BeginPass
  BY <1>6 DEF BeginPass, history
<1>7. CASE SwapPending
  BY <1>7 DEF SwapPending, history
<1>8. CASE RunFunctor
  BY <1>8, HeadTailProperties DEF RunFunctor
<1>9. CASE FunctorReturns
  BY <1>9 DEF FunctorReturns, history
<1>10. CASE EndPass
  BY <1>10 DEF EndPass, history
<1>11. ASSUME NEW t \in Threads, NEW f \in Functors, queue_in_loop(t, f)
       PROVE  TypeOK'
  BY <1>11, AppendProperties DEF queue_in_loop, Hand, loopVars
<1>12. ASSUME NEW f \in Functors, RunInline(f)
       PROVE  TypeOK'
  BY <1>12, AppendProperties DEF RunInline, Hand, loopVars
<1>13. ASSUME NEW t \in Threads, Quit(t)
       PROVE  TypeOK'
  BY <1>13 DEF Quit, loopVars, history
<1>14. ASSUME NEW t \in Threads, Wakeup(t)
       PROVE  TypeOK'
  BY <1>14 DEF Wakeup, WriteFits, loopVars, history
<1>15. CASE UNCHANGED vars
  BY <1>15 DEF vars
<1> QED
  BY <1>1, <1>2, <1>3, <1>4, <1>5, <1>6, <1>7, <1>8, <1>9, <1>10, <1>11,
     <1>12, <1>13, <1>14, <1>15
     DEF Next, LoopStep, Call, run_in_loop

\* What the loop thread holds follows from where it is, after every step.
LEMMA LoopStepInv == TypeOK /\ LoopInv /\ [Next]_vars => LoopInv'
<1> SUFFICES ASSUME TypeOK, LoopInv, [Next]_vars PROVE LoopInv'
  OBVIOUS
<1> USE EventLoopAssumption
    DEF TypeOK, LoopInv, WakeupReadHasAWord, NoAbandonedBatch, Threads, OwnerAt,
        looping
<1>1. CASE Loop
  BY <1>1 DEF Loop
<1>2. CASE TestQuit
  BY <1>2 DEF TestQuit
<1>3. CASE PollReturns
  BY <1>3 DEF PollReturns
<1>4. CASE HandleWakeup
  BY <1>4 DEF HandleWakeup
<1>5. CASE HandleIo
  BY <1>5 DEF HandleIo
<1>6. CASE BeginPass
  BY <1>6 DEF BeginPass
<1>7. CASE SwapPending
  BY <1>7 DEF SwapPending
<1>8. CASE RunFunctor
  BY <1>8 DEF RunFunctor
<1>9. CASE FunctorReturns
  BY <1>9 DEF FunctorReturns
<1>10. CASE EndPass
  BY <1>10 DEF EndPass, PassIsOver
<1>11. ASSUME NEW t \in Threads, NEW f \in Functors, queue_in_loop(t, f)
       PROVE  LoopInv'
  BY <1>11 DEF queue_in_loop, MayCall, InCallback, MustWake, loopVars
<1>12. ASSUME NEW f \in Functors, RunInline(f)
       PROVE  LoopInv'
  BY <1>12 DEF RunInline, loopVars
<1>13. ASSUME NEW t \in Threads, Quit(t)
       PROVE  LoopInv'
  BY <1>13 DEF Quit, QuitWakes, loopVars
<1>14. ASSUME NEW t \in Threads, Wakeup(t)
       PROVE  LoopInv'
  BY <1>14 DEF Wakeup, loopVars
<1>15. CASE UNCHANGED vars
  BY <1>15 DEF vars
<1> QED
  BY <1>1, <1>2, <1>3, <1>4, <1>5, <1>6, <1>7, <1>8, <1>9, <1>10, <1>11,
     <1>12, <1>13, <1>14, <1>15
     DEF Next, LoopStep, Call, run_in_loop

\* A wakeup that is on its way reaches the pipe before it is given up.
LEMMA WakeStep ==
  TypeOK /\ LoopInv /\ WakeInv /\ NoLostQuit /\ [Next]_vars
    => WakeInv' /\ NoLostQuit'
<1> SUFFICES ASSUME TypeOK, LoopInv, WakeInv, NoLostQuit, [Next]_vars
             PROVE  WakeInv' /\ NoLostQuit'
  OBVIOUS
<1> USE EventLoopAssumption
    DEF TypeOK, LoopInv, WakeInv, NoLostQuit, Threads, OwnerAt, looping
<1>1. CASE Loop
  BY <1>1 DEF Loop, history
<1>2. CASE TestQuit
  BY <1>2 DEF TestQuit, history
<1>3. CASE PollReturns
  BY <1>3 DEF PollReturns
<1>4. CASE HandleWakeup
  BY <1>4 DEF HandleWakeup
<1>5. CASE HandleIo
  BY <1>5 DEF HandleIo
<1>6. CASE BeginPass
  BY <1>6 DEF BeginPass
<1>7. CASE SwapPending
  BY <1>7, Range(<< >>) = {} DEF SwapPending, Range
<1>8. CASE RunFunctor
  BY <1>8 DEF RunFunctor
<1>9. CASE FunctorReturns
  BY <1>9 DEF FunctorReturns, history
<1>10. CASE EndPass
  BY <1>10 DEF EndPass, history
<1>11. ASSUME NEW t \in Threads, NEW f \in Functors, queue_in_loop(t, f)
       PROVE  WakeInv' /\ NoLostQuit'
  <2>1. waking' # {} \/ (t = Owner /\ ~calling)
    BY <1>11 DEF queue_in_loop, MustWake
  <2>2. CASE waking' # {}
    BY <2>2
  <2>3. CASE t = Owner /\ ~calling
    <3>1. pc' = pc /\ pc \in {"outside", "dispatch"}
      BY <1>11, <2>3 DEF queue_in_loop, MayCall, InCallback, loopVars
    <3>2. CASE pc = "dispatch"
      BY <3>1, <3>2
    <3>3. CASE pc = "outside"
      <4>1. /\ Range(pending') = Range(pending) \cup {f}
            /\ early' = early \cup {f}
            /\ UNCHANGED pipe
            /\ waking' = waking
        BY <1>11, <2>3, <3>3, RangeAppend DEF queue_in_loop, MustWake
      <4> QED
        BY <3>1, <3>3, <4>1
    <3> QED
      BY <3>1, <3>2, <3>3
  <2> QED
    BY <2>1, <2>2, <2>3
<1>12. ASSUME NEW f \in Functors, RunInline(f)
       PROVE  WakeInv' /\ NoLostQuit'
  BY <1>12 DEF RunInline, loopVars
<1>13. ASSUME NEW t \in Threads, Quit(t)
       PROVE  WakeInv' /\ NoLostQuit'
  BY <1>13 DEF Quit, QuitWakes, MayCall, InCallback, loopVars, history
<1>14. ASSUME NEW t \in Threads, Wakeup(t)
       PROVE  WakeInv' /\ NoLostQuit'
  BY <1>14 DEF Wakeup, loopVars, history
<1>15. CASE UNCHANGED vars
  BY <1>15 DEF vars
<1> QED
  BY <1>1, <1>2, <1>3, <1>4, <1>5, <1>6, <1>7, <1>8, <1>9, <1>10, <1>11,
     <1>12, <1>13, <1>14, <1>15
     DEF Next, LoopStep, Call, run_in_loop

\* The conjunction of the parts is inductive.
THEOREM Invariance == Spec => []IInv
<1>1. Init => IInv
  <2>1. Init => TypeOK
    <3>1. << >> \in Seq(Functors) /\ 0 \in 0..PipeCapacity /\ 0 \in 0..MaxQuits
      BY EventLoopAssumption, EmptySeq
    <3> QED
      BY <3>1 DEF Init, TypeOK
  <2>2. Init => Range(pending) = {}
    BY DEF Init, Range
  <2> QED
    BY <2>1, <2>2 DEF Init, IInv, LoopInv, WakeInv, NoLostQuit,
                      WakeupReadHasAWord, NoAbandonedBatch
<1>2. IInv /\ [Next]_vars => IInv'
  BY TypeStep, LoopStepInv, WakeStep DEF IInv
<1> QED
  BY <1>1, <1>2, PTL DEF Spec

-----------------------------------------------------------------------------
(* What follows from it.                                                   *)

\* Every variable of the loop keeps to its type; the pipe is never written
\* beyond its capacity.
THEOREM TypeCorrect == Spec => []TypeOK
<1>1. IInv => TypeOK
  BY DEF IInv
<1> QED
  BY <1>1, Invariance, PTL

\* A queued functor is never left behind a sleeping poll() without a wakeup.
THEOREM LosesNoFunctor == Spec => []NoLostFunctor
<1>1. IInv => NoLostFunctor
  BY DEF IInv, WakeInv, NoLostFunctor
<1> QED
  BY <1>1, Invariance, PTL

\* A call of quit() is never left behind a sleeping poll() without a wakeup.
THEOREM LosesNoQuit == Spec => []NoLostQuit
<1>1. IInv => NoLostQuit
  BY DEF IInv
<1> QED
  BY <1>1, Invariance, PTL

\* The read of the wakeup pipe never blocks the loop.
THEOREM WakeupNeverBlocks == Spec => []WakeupReadHasAWord
<1>1. IInv => WakeupReadHasAWord
  BY DEF IInv, LoopInv
<1> QED
  BY <1>1, Invariance, PTL

\* The loop neither polls nor returns with functors it took and did not run.
THEOREM AbandonsNoBatch == Spec => []NoAbandonedBatch
<1>1. IInv => NoAbandonedBatch
  BY DEF IInv, LoopInv
<1> QED
  BY <1>1, Invariance, PTL

-----------------------------------------------------------------------------
(* The refinement of FunctorQueue.                                         *)

\* Every step of the loop or of a caller is a step of the abstract queue, or
\* leaves it alone.
LEMMA QueueStep ==
  TypeOK /\ LoopInv /\ [Next]_vars => [Queue!Next]_(Queue!vars)
<1> SUFFICES ASSUME TypeOK, LoopInv, [Next]_vars
             PROVE  Queue!Next \/ UNCHANGED Queue!vars
  OBVIOUS
<1> USE DEF TypeOK, Queue!vars
<1>1. ASSUME UNCHANGED <<batch, pending, submitted, ran>>
      PROVE  UNCHANGED Queue!vars
  BY <1>1
<1>2. CASE Loop \/ TestQuit \/ PollReturns \/ HandleWakeup \/ HandleIo
             \/ BeginPass \/ FunctorReturns \/ EndPass
  BY <1>1, <1>2 DEF Loop, TestQuit, PollReturns, HandleWakeup, HandleIo,
                    BeginPass, FunctorReturns, EndPass, history
<1>3. CASE SwapPending
  <2>1. batch = << >> /\ batch' = pending /\ pending' = << >>
    BY <1>3 DEF SwapPending, OwnerAt, LoopInv, NoAbandonedBatch
  <2>2. batch' \o pending' = batch \o pending
    BY <2>1, ConcatEmptySeq
  <2> QED
    BY <1>3, <2>2 DEF SwapPending, history
<1>4. CASE RunFunctor
  <2>1. /\ batch \o pending # << >>
        /\ Head(batch \o pending) = Head(batch)
        /\ Tail(batch \o pending) = Tail(batch) \o pending
    BY <1>4, HeadTailConcat DEF RunFunctor
  <2>2. Queue!RunFirst
    BY <1>4, <2>1 DEF RunFunctor, Queue!RunFirst
  <2> QED
    BY <2>2 DEF Queue!Next
<1>5. ASSUME NEW t \in Threads, NEW f \in Functors, queue_in_loop(t, f)
      PROVE  Queue!Next
  <2>1. batch \o Append(pending, f) = Append(batch \o pending, f)
    <3>1. /\ <<f>> \in Seq(Functors)
          /\ batch \o pending \in Seq(Functors)
          /\ Append(pending, f) = pending \o <<f>>
      BY AppendIsConcat, ConcatProperties
    <3>2. Append(batch \o pending, f) = (batch \o pending) \o <<f>>
      BY <3>1, AppendIsConcat
    <3>3. (batch \o pending) \o <<f>> = batch \o (pending \o <<f>>)
      BY <3>1, ConcatAssociative
    <3> QED
      BY <3>1, <3>2, <3>3
  <2>2. Queue!Submit(f)
    BY <1>5, <2>1 DEF queue_in_loop, Hand, loopVars, Queue!Submit, Queue!Hand
  <2> QED
    BY <2>2 DEF Queue!Next
<1>6. ASSUME NEW f \in Functors, RunInline(f)
      PROVE  Queue!Next
  <2>1. Queue!RunInline(f)
    BY <1>6 DEF RunInline, Hand, loopVars, Queue!RunInline, Queue!Hand
  <2> QED
    BY <2>1 DEF Queue!Next
<1>7. ASSUME NEW t \in Threads, Quit(t) \/ Wakeup(t)
      PROVE  UNCHANGED Queue!vars
  BY <1>1, <1>7 DEF Quit, Wakeup, loopVars, history
<1>8. CASE UNCHANGED vars
  BY <1>1, <1>8 DEF vars
<1> QED
  BY <1>2, <1>3, <1>4, <1>5, <1>6, <1>7, <1>8
     DEF Next, LoopStep, Call, run_in_loop

\* Vector, mutex, swap and wakeup together are one first-in first-out queue that
\* runs each functor once.
THEOREM RefinesQueue == Spec => ImplementsQueue
<1>1. Init => Queue!Init
  <2>1. << >> \o << >> = << >>
    BY EmptySeq, ConcatEmptySeq
  <2> QED
    BY <2>1 DEF Init, Queue!Init
<1>2. IInv /\ [Next]_vars => [Queue!Next]_(Queue!vars)
  BY QueueStep DEF IInv
<1> QED
  BY <1>1, <1>2, Invariance, PTL DEF Spec, ImplementsQueue, Queue!Spec

-----------------------------------------------------------------------------
(* The loop in a thread of its own.                                        *)

\* Whatever the two threads do around the loop, the loop does a step of its own or
\* none.
LEMMA ThreadStep == [ThreadNext]_allVars => [Next]_vars
<1>1. CASE start_loop \/ WakesUp \/ Construct \/ Publish \/ UNCHANGED allVars
  BY <1>1 DEF start_loop, WakesUp, Construct, Publish, allVars
<1>2. CASE EnterLoop \/ RunLoop
  BY <1>2 DEF EnterLoop, RunLoop, Next
<1>3. CASE Calls \/ \E t \in Threads : WakeupBy(t)
  BY <1>3 DEF Calls, WakeupBy, Next
<1> QED
  BY <1>1, <1>2, <1>3 DEF ThreadNext, ThreadFunc

\* An EventLoopThread makes no step of the loop that EventLoop does not have: what is
\* proved of EventLoop holds of the loop start_loop() returns.
THEOREM ThreadRunsLoop == ThreadSpec => Spec
<1>1. ThreadInit => Init
  BY DEF ThreadInit
<1> QED
  BY <1>1, ThreadStep, PTL DEF ThreadSpec, Spec

\* So no functor handed over through the pointer is left behind a sleeping poll(), no
\* quit() goes unnoticed, and each functor is run once, first in first out.
THEOREM ThreadLosesNothing ==
  ThreadSpec => /\ [](TypeOK /\ NoLostFunctor /\ NoLostQuit)
                /\ [](WakeupReadHasAWord /\ NoAbandonedBatch)
                /\ ImplementsQueue
  BY TypeCorrect, LosesNoFunctor, LosesNoQuit, WakeupNeverBlocks, AbandonsNoBatch,
     RefinesQueue, ThreadRunsLoop, PTL

\* loop_ is set after the loop is constructed, and start_loop() returns after that.
PublishedWhenSet ==
  /\ loop_ => thread \notin {"constructing", "publishing"}
  /\ starter = "started" => loop_

\* start_loop() gives away no pointer to a loop that is not constructed, whichever
\* thread is first and however often the wait is woken for nothing.
THEOREM PointerStaysLive == ThreadSpec => []PointerIsLive
<1>1. ThreadInit => PublishedWhenSet
  BY DEF ThreadInit, PublishedWhenSet
<1>2. PublishedWhenSet /\ [ThreadNext]_allVars => PublishedWhenSet'
  <2> SUFFICES ASSUME PublishedWhenSet, [ThreadNext]_allVars PROVE PublishedWhenSet'
    OBVIOUS
  <2> USE DEF PublishedWhenSet
  <2>1. CASE start_loop
    BY <2>1 DEF start_loop
  <2>2. CASE WakesUp
    BY <2>2 DEF WakesUp
  <2>3. CASE Construct \/ Publish
    BY <2>3 DEF Construct, Publish
  <2>4. CASE EnterLoop \/ RunLoop
    BY <2>4 DEF EnterLoop, RunLoop
  <2>5. CASE Calls \/ (\E t \in Threads : WakeupBy(t)) \/ UNCHANGED allVars
    BY <2>5 DEF Calls, WakeupBy, own, allVars
  <2> QED
    BY <2>1, <2>2, <2>3, <2>4, <2>5 DEF ThreadNext, ThreadFunc
<1>3. PublishedWhenSet => PointerIsLive
  BY DEF PublishedWhenSet, PointerIsLive
<1> QED
  BY <1>1, <1>2, <1>3, PTL DEF ThreadSpec

=============================================================================
