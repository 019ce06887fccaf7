\* Idle processes are the end of a behaviour once the tasks are used up.
CHECK_DEADLOCK FALSE
SPECIFICATION FairSpec
CONSTANTS
  Workers = {w1}
  MaxTasks = 2
  MaxFaults = 2
  Torn = Torn
INVARIANTS AppliedRollbackIsDone ConfirmedIsInEffect
PROPERTIES OutcomeFinal EveryTaskEnds
