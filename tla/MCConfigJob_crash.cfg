CONSTANTS
  Jobs <- AppliesAndAction
  Kind <- AppliesAndActionKind
  SourceOf <- UndoFirst
  Faults <- CrashFaults
  Base = Base
  Mixed = Mixed
  NoPrev = NoPrev
  EmptyPrev = EmptyPrev
INIT Init
NEXT Next
INVARIANTS RollbackReferenceDurable NoSilentHalfApply
           OutcomeIsLive ControllerKnowsLive
\* With every job ended and every fault spent nothing is left to do.
CHECK_DEADLOCK FALSE
