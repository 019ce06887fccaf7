\* Idle processes are the end of a behaviour once the tasks are used up.
CHECK_DEADLOCK FALSE
SPECIFICATION Spec
CONSTANTS
  Workers = {w1, w2}
  MaxTasks = 2
  MaxFaults = 0
  Torn = Torn
INVARIANTS OnePending
