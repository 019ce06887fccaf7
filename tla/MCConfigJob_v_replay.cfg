CONSTANTS
  Jobs <- TwoApplies
  Kind <- TwoAppliesKind
  SourceOf <- UndoFirst
  Faults <- JournalFaults
  Base = Base
  Mixed = Mixed
  NoPrev = NoPrev
  EmptyPrev = EmptyPrev
SPECIFICATION Spec
PROPERTIES FinishReplayed
\* With every job ended and every fault spent nothing is left to do.
CHECK_DEADLOCK FALSE
