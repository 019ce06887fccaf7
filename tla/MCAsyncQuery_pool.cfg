\* A stopped pool, all requests used, rests for ever.
CHECK_DEADLOCK FALSE
CONSTANTS
  Requests = {r1, r2, r3}
  Workers = {w1, w2}
  None = None
  MaxPending = 2
  PipeCapacity = 1
  MaxLost = 1
  MaxStarts = 2
SPECIFICATION Spec
INVARIANTS PendingIsExact ExactlyOneOwner NoLostWakeup NoSleepOnWork
           StopLeavesNothing
PROPERTIES StopTerminates ServiceSpec
