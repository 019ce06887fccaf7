CONSTANTS
  Jobs <- WithAction
  Kind <- WithActionKind
  SourceOf <- NoUndo
  Faults <- RequeueFaults
  Base = Base
  Mixed = Mixed
  NoPrev = NoPrev
  EmptyPrev = EmptyPrev
INIT Init
NEXT Next
INVARIANTS ExecutedAtMostOnce FinishAgrees
\* With every job ended and every fault spent nothing is left to do.
CHECK_DEADLOCK FALSE
