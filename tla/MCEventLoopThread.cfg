SPECIFICATION ThreadFairSpec
CONSTANTS
  Owner = owner
  Others = {t1, t2}
  Functors = {f1, f2, f3}
  FunctorsQueue = FALSE
  PipeCapacity = 1
  MaxQuits = 1
INVARIANT PointerIsLive
PROPERTY StartLoopReturns
PROPERTY HandedFunctorRuns
PROPERTY WritersReturn
CHECK_DEADLOCK FALSE
