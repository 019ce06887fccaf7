CONSTANTS
  Jobs <- OneApply
  Kind <- OneApplyKind
  SourceOf <- UndoFirst
  Faults <- LinkFaults
  Base = Base
  Mixed = Mixed
  NoPrev = NoPrev
  EmptyPrev = EmptyPrev
INIT Init
NEXT Next
INVARIANTS CompensationRecovered
\* With every job ended and every fault spent nothing is left to do.
CHECK_DEADLOCK FALSE
