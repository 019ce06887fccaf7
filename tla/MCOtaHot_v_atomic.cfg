CONSTANTS
  Files = {f1, f2}
  Contents = {c1, c2}
  None = None
  Packages = 1
  Ops = {o1, o2}
  FaultKinds = {}
  MaxFaults = 0
SPECIFICATION Spec
SYMMETRY HotSymmetry
INVARIANTS ReplacedAtomically
\* A release that fits no package any more leaves nothing to do.
CHECK_DEADLOCK FALSE
