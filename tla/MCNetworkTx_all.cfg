CONSTANTS
  Keys = {k1}
  Watchers = {w1, w2}
  Edits = {e1}
  Orig = Orig
  None = None
  NumFiles = 2
  MaxFaults = 2
SPECIFICATION FairSpec
INVARIANTS ConfirmedIsLive RolledBackIsBefore AlwaysRecoverable
PROPERTIES DriftPreserved ChangeSpec EveryTaskEnds
\* When every key is used and every task has its outcome, nothing happens.
CHECK_DEADLOCK FALSE
