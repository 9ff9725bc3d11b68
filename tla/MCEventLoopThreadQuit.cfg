SPECIFICATION ThreadFairSpec
CONSTANTS
  Owner = owner
  Others = {t1, t2}
  Functors = {f1, f2, f3}
  FunctorsQueue = FALSE
  PipeCapacity = 1
  MaxQuits = 1
PROPERTY QuitIsHeard
CHECK_DEADLOCK FALSE
