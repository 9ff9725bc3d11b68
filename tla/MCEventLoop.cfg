SPECIFICATION FairSpec
CONSTANTS
  Owner = owner
  Others = {t1, t2}
  Functors = {f1, f2, f3}
  FunctorsQueue = TRUE
  PipeCapacity = 4
  MaxQuits = 1
INVARIANT NoLostFunctor
INVARIANT NoLostQuit
INVARIANT WakeupReadHasAWord
INVARIANT NoAbandonedBatch
PROPERTY ImplementsQueue
PROPERTY FunctorsRun
PROPERTY QuitStops
