CONSTANTS
  Slots = {A, B}
  Ops = {u1}
  None = None
  Torn = Torn
  RestartLimit = 2
  Confirmations = 2
  FaultKinds = {"kill"}
  Rollbacks = FALSE
  MaxFaults = 1
SPECIFICATION Spec
INVARIANTS FailedIsNotActive
\* Without a pending candidate the device may run on with nothing to do.
CHECK_DEADLOCK FALSE
