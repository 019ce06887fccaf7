----------------------------- MODULE MCConfigJob -----------------------------
EXTENDS ConfigJob, TLC

\* Two transactions, the first of which a failing peer may undo.
TwoApplies     == {1, 2, 3}
TwoAppliesKind == (1 :> "apply") @@ (2 :> "apply") @@ (3 :> "rollback")

\* Besides them a runtime action, before, between or after.
AppliesAndAction == {1, 2, 3, 4}
AppliesAndActionKind == TwoAppliesKind @@ (4 :> "action")

\* One transaction that a failing peer may undo.
OneApply     == {1, 3}
OneApplyKind == (1 :> "apply") @@ (3 :> "rollback")

UndoFirst == 3 :> 1

\* A runtime action and a transaction.
WithAction     == {1, 2}
WithActionKind == (1 :> "action") @@ (2 :> "apply")

NoUndo == <<>>

NoFaults       == [k \in FaultKinds |-> 0]
CrashFaults    == [NoFaults EXCEPT !["crash"] = 2, !["journal"] = 1]
RequeueFaults  == [NoFaults EXCEPT !["crash"] = 1, !["drop"] = 1, !["journal"] = 1, !["requeue"] = 1,
                                      !["oversize"] = 1]
RequeueOnly    == [NoFaults EXCEPT !["drop"] = 1, !["requeue"] = 1]
LinkFaults     == [NoFaults EXCEPT !["crash"] = 1, !["drop"] = 2]
JournalFaults  == [NoFaults EXCEPT !["drop"] = 1, !["journal"] = 1]
=============================================================================
