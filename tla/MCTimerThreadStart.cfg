SPECIFICATION Spec
CONSTANTS
  Timerfds = {d1, d2}
  NoOne = NoOne
  MaxTime = 4
  MaxResets = 2
  TicksPerMilli = 2
  IdleMillis = 2
  IntHalf = 100
  WakeCapacity = 4
INVARIANT RunsAtItsTime
