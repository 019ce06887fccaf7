CONSTANTS
  Jobs <- WithAction
  Kind <- WithActionKind
  SourceOf <- NoUndo
  Faults <- LinkFaults
  Base = Base
  Mixed = Mixed
  NoPrev = NoPrev
  EmptyPrev = EmptyPrev
SPECIFICATION Spec
PROPERTIES ActionOutcomeReported
\* With every job ended and every fault spent nothing is left to do.
CHECK_DEADLOCK FALSE
