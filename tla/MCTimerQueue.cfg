SPECIFICATION OrderedSpec
CONSTANTS
  t1 = t1
  t2 = t2
  t3 = t3
  Timers <- ThreeTimers
  TicksPerMicro = 2
  MinMicros = 1
  MaxTime = 4
INVARIANT TypeOK
INVARIANT ArmedWhenWaiting
PROPERTY ImplementsPromise
PROPERTY EveryTimerRuns
