-------------------------- MODULE EventLoopThread ---------------------------
(***************************************************************************)
(* penduo::EventLoopThread around an EventLoop: the thread that constructs *)
(* a loop on its stack, publishes it and runs it, and the thread that      *)
(* waits in start_loop() for it.  The pointer start_loop() returns may be  *)
(* handed to the other threads, which then make the calls of EventLoop.    *)
(* One thread calls start_loop(), as the tests do: notify_one() would wake *)
(* only one.                                                               *)
(***************************************************************************)
EXTENDS EventLoop

VARIABLES thread,  \* where thread_func() is
          loop_,   \* has loop_ been set?
          starter  \* the caller of start_loop()

own == <<thread, loop_, starter>>
allVars == <<vars, own>>

ThreadInit ==
  /\ Init
  /\ thread = "constructing"
  /\ loop_ = FALSE
  /\ starter = "calling"

-----------------------------------------------------------------------------
(* start_loop().                                                           *)

\* Mutant: start_loop() does not wait.
ReturnAtOnce ==
  /\ starter = "calling"
  /\ starter' = "started"
  /\ UNCHANGED <<vars, thread, loop_>>

\* With the mutex the predicate of the wait is evaluated, at first and whenever the
\* condition variable is notified.
start_loop ==
  /\ starter = "calling"
  /\ starter' = IF loop_ THEN "started" ELSE "waiting"
  /\ UNCHANGED <<vars, thread, loop_>>

\* A condition variable may wake up for no reason.
WakesUp ==
  /\ starter = "waiting"
  /\ starter' = "calling"
  /\ UNCHANGED <<vars, thread, loop_>>

-----------------------------------------------------------------------------
(* thread_func().                                                          *)

Construct ==
  /\ thread = "constructing"
  /\ thread' = "publishing"
  /\ UNCHANGED <<vars, loop_, starter>>

\* Mutant: nobody is notified.
PublishSilently ==
  /\ thread = "publishing"
  /\ thread' = "entering"
  /\ loop_' = TRUE
  /\ UNCHANGED <<vars, starter>>

\* With the mutex loop_ is set and the caller, if it waits, notified.
Publish ==
  /\ thread = "publishing"
  /\ thread' = "entering"
  /\ loop_' = TRUE
  /\ starter' = IF starter = "waiting" THEN "calling" ELSE starter
  /\ UNCHANGED vars

EnterLoop ==
  /\ thread = "entering"
  /\ Loop
  /\ thread' = "running"
  /\ UNCHANGED <<loop_, starter>>

\* thread_func() returns when loop() does.  The destructor of the loop then fails
\* the assertions of its own channels, which nothing has taken out of the poller:
\* "returned" is the end of the process.
RunLoop ==
  /\ thread = "running"
  /\ LoopStep
  /\ thread' = IF pc' = "outside" THEN "returned" ELSE thread
  /\ UNCHANGED <<loop_, starter>>

ThreadFunc == Construct \/ Publish \/ EnterLoop \/ RunLoop

\* The threads that have the pointer, and the callbacks they have given the loop.
Calls ==
  /\ starter = "started"
  /\ thread # "returned"
  /\ \E t \in Threads : Call(t) /\ (t = Owner => looping)
  /\ UNCHANGED own

WakeupBy(t) ==
  /\ thread # "returned"
  /\ Wakeup(t)
  /\ UNCHANGED own

ThreadNext ==
  start_loop \/ WakesUp \/ ThreadFunc \/ Calls \/ \E t \in Threads : WakeupBy(t)

ThreadSpec == ThreadInit /\ [][ThreadNext]_allVars

\* Both threads are scheduled; poll() is not assumed to return by itself.
ThreadFairSpec ==
  /\ ThreadSpec
  /\ WF_allVars(start_loop)
  /\ WF_allVars(ThreadFunc /\ (pc = "poll" => pipe > 0))
  /\ \A t \in Threads : WF_allVars(WakeupBy(t))

-----------------------------------------------------------------------------
(* Properties.                                                             *)

\* start_loop() returns, whichever of the two threads is first: the notification is
\* not lost.
StartLoopReturns == <>(starter = "started")

\* The pointer start_loop() returns is that of a loop that is constructed, whichever
\* thread is first and however often the wait is woken for nothing.
PointerIsLive == starter = "started" => thread \notin {"constructing", "publishing"}

\* A functor handed over through the pointer is run even if loop() was not yet
\* entered, unless the loop is told to quit.
HandedFunctorRuns ==
  \A f \in Functors :
    f \in submitted ~> f \in Range(ran) \/ quits > 0 \/ quit

\* A thread that blocks in its write, the pipe being full of the words of others, gets
\* out: loop() takes a word each time around even when all it has to run is done.
WritersReturn == \A t \in Threads : t \in waking ~> t \notin waking \/ thread = "returned"

\* EventLoop_6.cpp:29 ends the loop with quit(), called through the pointer.
QuitIsHeard == quits > 0 ~> thread = "returned"

=============================================================================
