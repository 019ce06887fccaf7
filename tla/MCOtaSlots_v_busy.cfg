CONSTANTS
  Slots = {A, B}
  Ops = {u1, u2}
  None = None
  Torn = Torn
  RestartLimit = 2
  Confirmations = 2
  FaultKinds = {"power"}
  Rollbacks = FALSE
  MaxFaults = 1
SPECIFICATION Spec
INVARIANTS BusyMeansActive
\* Without a pending candidate the device may run on with nothing to do.
CHECK_DEADLOCK FALSE
