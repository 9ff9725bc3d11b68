----------------------------- MODULE EventLoop -----------------------------
(***************************************************************************)
(* penduo::EventLoop: the loop thread, the queue of pending functors, the  *)
(* wakeup pipe and the threads that call run_in_loop, queue_in_loop and    *)
(* quit.  The channels other than the wakeup channel (the timer's and the  *)
(* sockets') are one source of events, "io", whose callback may make any   *)
(* call the loop thread may make.  A call of wakeup() is a step of its     *)
(* own, so it interleaves with the loop between the push (or the store to  *)
(* quit_) and the write.                                                   *)
(***************************************************************************)
EXTENDS Naturals, Sequences, Functions

CONSTANTS Owner,         \* the thread that constructed the loop (thread_id_)
          Others,        \* the other threads that hold a pointer to it
          Functors,      \* the callbacks, each handed to the loop at most once
          FunctorsQueue, \* do functors call queue_in_loop themselves?
          PipeCapacity,  \* 8-byte words the wakeup pipe holds before write blocks
          MaxQuits       \* bound: calls of quit() by other threads

ASSUME EventLoopAssumption ==
  /\ Owner \notin Others
  /\ FunctorsQueue \in BOOLEAN
  /\ PipeCapacity \in Nat \ {0}
  /\ MaxQuits \in Nat

VARIABLES pc,        \* where the owner is: "outside" loop(), or in which part of it
          active,    \* active_channels_ not yet handled: "wakeup", "io"
          quit,      \* quit_
          calling,   \* calling_pending_functors_
          pending,   \* pending_functors_
          batch,     \* what is left of the local vector of do_pending_functors()
          pipe,      \* words in wakeup_pipe_
          waking,    \* the threads inside wakeup()
          quits,     \* calls of quit() by other threads, counted for MaxQuits
          submitted, \* history: the functors handed over
          early,     \* history: those the owner queued outside loop()
          ran        \* history: the functors started, in order

loopVars == <<pc, active, calling, batch>>
history == <<submitted, early, ran>>
vars == <<pc, active, quit, calling, pending, batch, pipe, waking, quits,
          submitted, early, ran>>

Threads == Others \cup {Owner}
looping == pc # "outside"

TypeOK ==
  /\ pc \in {"outside", "test", "poll", "dispatch", "swap", "run", "functor"}
  /\ active \subseteq {"wakeup", "io"}
  /\ quit \in BOOLEAN
  /\ calling \in BOOLEAN
  /\ pending \in Seq(Functors)
  /\ batch \in Seq(Functors)
  /\ pipe \in 0..PipeCapacity
  /\ waking \subseteq Threads
  /\ quits \in 0..MaxQuits
  /\ submitted \subseteq Functors
  /\ early \subseteq submitted
  /\ ran \in Seq(Functors)

Init ==
  /\ pc = "outside"
  /\ active = {}
  /\ quit = FALSE
  /\ calling = FALSE
  /\ pending = << >>
  /\ batch = << >>
  /\ pipe = 0
  /\ waking = {}
  /\ quits = 0
  /\ submitted = {}
  /\ early = {}
  /\ ran = << >>

-----------------------------------------------------------------------------
(* The loop thread, in loop() and do_pending_functors().                   *)

OwnerAt(label) == pc = label /\ Owner \notin waking

\* loop() is entered: whatever was in quit_ is overwritten.
Loop ==
  /\ OwnerAt("outside")
  /\ pc' = "test"
  /\ quit' = FALSE
  /\ UNCHANGED <<active, calling, batch, pending, pipe, waking, quits, history>>

\* while (!quit_), then either loop() returns or the poller blocks.
TestQuit ==
  /\ OwnerAt("test")
  /\ pc' = IF quit THEN "outside" ELSE "poll"
  /\ UNCHANGED <<active, quit, calling, batch, pending, pipe, waking, quits, history>>

\* poll() returns: the wakeup channel is active iff a word is in the pipe.
\* Nothing active is a timeout of K_POLLTIME_MS or an interrupted call.
PollReturns ==
  /\ OwnerAt("poll")
  /\ \E io \in SUBSET {"io"} :
       active' = io \cup (IF pipe > 0 THEN {"wakeup"} ELSE {})
  /\ pc' = "dispatch"
  /\ UNCHANGED <<quit, calling, batch, pending, pipe, waking, quits, history>>

\* Mutant: the pipe is read until it is empty, though its read blocks.
HandleWakeupUntilEmpty ==
  /\ OwnerAt("dispatch")
  /\ "wakeup" \in active
  /\ pipe > 0
  /\ pipe' = pipe - 1
  /\ UNCHANGED <<pc, active, quit, calling, batch, pending, waking, quits, history>>

\* Mutant: the word is left in the pipe.
HandleWakeupUnread ==
  /\ OwnerAt("dispatch")
  /\ "wakeup" \in active
  /\ active' = active \ {"wakeup"}
  /\ UNCHANGED <<pc, quit, calling, batch, pending, pipe, waking, quits, history>>

\* wakeupfd_handle_read(): one blocking read of one word.
HandleWakeup ==
  /\ OwnerAt("dispatch")
  /\ "wakeup" \in active
  /\ pipe > 0
  /\ pipe' = pipe - 1
  /\ active' = active \ {"wakeup"}
  /\ UNCHANGED <<pc, quit, calling, batch, pending, waking, quits, history>>

\* The callback of another channel returns; its calls are taken before.
HandleIo ==
  /\ OwnerAt("dispatch")
  /\ "io" \in active
  /\ active' = active \ {"io"}
  /\ UNCHANGED <<pc, quit, calling, batch, pending, pipe, waking, quits, history>>

\* Every active channel is handled: do_pending_functors() starts.
BeginPass ==
  /\ OwnerAt("dispatch")
  /\ active = {}
  /\ pc' = "swap"
  /\ calling' = TRUE
  /\ UNCHANGED <<active, quit, batch, pending, pipe, waking, quits, history>>

\* Mutant: the functors are copied, not moved.
CopyPending ==
  /\ OwnerAt("swap")
  /\ pc' = "run"
  /\ batch' = pending
  /\ UNCHANGED <<active, quit, calling, pending, pipe, waking, quits, history>>

\* Under the mutex, pending_functors_ is swapped with an empty vector.
SwapPending ==
  /\ OwnerAt("swap")
  /\ pc' = "run"
  /\ batch' = pending
  /\ pending' = << >>
  /\ UNCHANGED <<active, quit, calling, pipe, waking, quits, history>>

RunFunctor ==
  /\ OwnerAt("run")
  /\ batch # << >>
  /\ pc' = "functor"
  /\ ran' = Append(ran, Head(batch))
  /\ batch' = Tail(batch)
  /\ UNCHANGED <<active, quit, calling, pending, pipe, waking, quits, submitted, early>>

FunctorReturns ==
  /\ OwnerAt("functor")
  /\ pc' = "run"
  /\ UNCHANGED <<active, quit, calling, batch, pending, pipe, waking, quits, history>>

\* Mutant: a pass gives up once quit() was called.
PassIsOverOrQuit == batch = << >> \/ quit

PassIsOver == batch = << >>

EndPass ==
  /\ OwnerAt("run")
  /\ PassIsOver
  /\ pc' = "test"
  /\ calling' = FALSE
  /\ UNCHANGED <<active, quit, batch, pending, pipe, waking, quits, history>>

-----------------------------------------------------------------------------
(* The calls, by any thread.                                               *)

\* Code of the owner's user runs outside loop(), in the callback of an "io"
\* channel and in a functor.
InCallback == pc = "functor" \/ (pc = "dispatch" /\ "io" \in active)

MayCall(t) ==
  /\ t \notin waking
  /\ t = Owner => ~looping \/ InCallback

Hand(f) ==
  /\ f \in Functors \ submitted
  /\ submitted' = submitted \cup {f}

\* Mutant: a functor that queues a functor does not wake the loop.
OnlyOthersWake(t) == t # Owner

\* Mutant: the test for the loop thread has lost its negation.
OnlyOwnerWakes(t) == t = Owner \/ calling

\* The caller goes on to wakeup() when it is not the loop thread or when the
\* loop thread is running functors.
MustWake(t) == t # Owner \/ calling

\* The push is under the mutex.
queue_in_loop(t, f) ==
  /\ MayCall(t)
  /\ t = Owner /\ calling => FunctorsQueue
  /\ Hand(f)
  /\ pending' = Append(pending, f)
  /\ waking' = IF MustWake(t) THEN waking \cup {t} ELSE waking
  /\ early' = IF t = Owner /\ ~looping THEN early \cup {f} ELSE early
  /\ UNCHANGED <<loopVars, quit, pipe, quits, ran>>

\* In the loop thread the functor runs on the spot, its own calls being calls
\* of the code around it; in any other thread run_in_loop is queue_in_loop.
RunInline(f) ==
  /\ MayCall(Owner)
  /\ Hand(f)
  /\ ran' = Append(ran, f)
  /\ UNCHANGED <<loopVars, quit, pending, pipe, waking, quits, early>>

run_in_loop(t, f) == IF t = Owner THEN RunInline(f) ELSE queue_in_loop(t, f)

\* Mutant: quit() only stores.
QuitNeverWakes(t) == FALSE

\* Only another thread than the loop's goes on to wakeup() after the store.
QuitWakes(t) == t # Owner

Quit(t) ==
  /\ MayCall(t)
  /\ quit' = TRUE
  /\ waking' = IF QuitWakes(t) THEN waking \cup {t} ELSE waking
  /\ IF t = Owner THEN UNCHANGED quits
                  ELSE quits < MaxQuits /\ quits' = quits + 1
  /\ UNCHANGED <<loopVars, pending, pipe, history>>

\* A write into a full pipe blocks.
WriteFits == pipe < PipeCapacity

\* The write of one word.
Wakeup(t) ==
  /\ t \in waking
  /\ WriteFits
  /\ pipe' = pipe + 1
  /\ waking' = waking \ {t}
  /\ UNCHANGED <<loopVars, quit, pending, quits, history>>

-----------------------------------------------------------------------------
LoopStep ==
  \/ TestQuit \/ PollReturns \/ HandleWakeup \/ HandleIo
  \/ BeginPass \/ SwapPending \/ RunFunctor \/ FunctorReturns \/ EndPass

Call(t) ==
  \/ \E f \in Functors : queue_in_loop(t, f) \/ run_in_loop(t, f)
  \/ Quit(t)

Next ==
  \/ Loop
  \/ LoopStep
  \/ \E t \in Threads : Call(t) \/ Wakeup(t)

Spec == Init /\ [][Next]_vars

\* The threads are scheduled and callbacks return.  A poll that has nothing to
\* report is not assumed to return, so no timeout helps a functor along.
Fairness ==
  /\ WF_vars(LoopStep /\ (pc = "poll" => pipe > 0))
  /\ \A t \in Threads : WF_vars(Wakeup(t))

FairSpec == Spec /\ Fairness

-----------------------------------------------------------------------------
(* Properties.                                                             *)

\* A functor queued by another thread, or from a callback of the loop, is never
\* left behind a sleeping poll(), nor behind a loop() that returned: a word is
\* in the pipe or a thread is about to write one.  Only what the owner itself
\* queued before loop() may wait for the poll timeout.
NoLostFunctor ==
  pc \in {"poll", "outside"} /\ ~(Range(pending) \subseteq early)
    => pipe > 0 \/ waking # {}

\* quit() called while the loop sleeps in poll() is never left unnoticed.
NoLostQuit == pc = "poll" /\ quit => pipe > 0 \/ waking # {}

\* The wakeup pipe is blocking and loop() must not sleep in its read: when the
\* wakeup channel is dispatched there is a word to read.
WakeupReadHasAWord == "wakeup" \in active => pipe > 0

\* quit() lets the pass finish: loop() neither polls nor returns with functors
\* left in the local vector, whose end would destroy them unrun.
NoAbandonedBatch == batch # << >> => pc \in {"run", "functor"}

\* The vector, the mutex and the swap behave as one first-in first-out queue
\* from which each functor is run once.
Queue == INSTANCE FunctorQueue WITH queue <- batch \o pending
ImplementsQueue == Queue!Spec

\* With no help from the poll timeout, a functor queued by another thread or by
\* a callback is run, unless the loop stops first.
FunctorsRun ==
  \A f \in Functors :
    looping /\ f \in Range(pending) \ early ~> f \in Range(ran) \/ ~looping

\* quit() called after loop() was entered makes loop() return.
QuitStops == looping /\ quit ~> ~looping

=============================================================================
