CONSTANTS
  Slots = {A, B}
  Ops = {u1, u2}
  None = None
  Torn = Torn
  RestartLimit = 2
  Confirmations = 2
  FaultKinds = {"power", "kill", "env", "daemon", "reboot"}
  Rollbacks = TRUE
  MaxFaults = 2
SPECIFICATION Spec
SYMMETRY OtaSymmetry
INVARIANTS TornNeverSelectable RebootingIsWritten
PROPERTIES SuccessIsPromoted
\* Without a pending candidate the device may run on with nothing to do.
CHECK_DEADLOCK FALSE
