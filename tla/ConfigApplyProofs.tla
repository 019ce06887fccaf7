-------------------------- MODULE ConfigApplyProofs --------------------------
(* Proofs about ConfigApply, for any number of requests at once, of tasks and  *)
(* of faults: types, and that the first outcome of a task stands.              *)
EXTENDS ConfigApply, TLAPS

\* A request that has inserted or loaded its row, and a supervisor that works
\* on one, know a task.
Early == {"idle", "checked", "snapped"}
Inv ==
  /\ TypeOK
  /\ \A w \in Workers : req[w].pc \notin Early => req[w].t \in Tasks
  /\ sup.pc # "idle" => sup.t \in Tasks

Places == {"idle", "checked", "snapped", "inserted", "reload", "verify", "ports", "undo",
           "copy", "undo_reload", "undo_ports", "record"}

-----------------------------------------------------------------------------

LEMMA Constants == /\ NoRow \in Rows /\ IdleRequest \in Request
                   /\ Tasks \subseteq Values /\ NoTask \in Values
                   /\ IdleSupervisor \in [pc : {"idle", "read", "copy", "update"},
                                          t : Tasks \cup {NoTask}, ok : BOOLEAN]
<1>1. Tasks \subseteq Values /\ NoTask \in Values
  BY ConstantsAssumption DEF ConstantsAssumption, Tasks, Values, NoTask
<1>2. NoRow \in Rows
  BY <1>1 DEF NoRow, Rows, NoTask, Terminal
<1>3. IdleRequest \in Request
  BY <1>2 DEF IdleRequest, Request
<1> QED
  BY <1>1, <1>2, <1>3 DEF IdleSupervisor

\* The updates of a row.
LEMMA RowUpdates ==
  ASSUME NEW r \in Rows
  PROVE  /\ \A s \in Values \cup {Torn} : [r EXCEPT !.snapOk = TRUE, !.snap = s] \in Rows
         /\ \A b \in BOOLEAN : [r EXCEPT !.state = "pending", !.answered = b] \in Rows
         /\ [r EXCEPT !.answered = TRUE] \in Rows
         /\ \A s \in {"pending"} \cup Terminal, b \in BOOLEAN :
              [r EXCEPT !.state = s, !.applied = b] \in Rows
         /\ [r EXCEPT !.state = "confirmed"] \in Rows
         /\ [r EXCEPT !.touched = @ \cup {"webd"}] \in Rows
         /\ [r EXCEPT !.touched = @ \cup {"init"}] \in Rows
         /\ [r EXCEPT !.expired = TRUE] \in Rows
<1>1. \A s \in Values \cup {Torn} : [r EXCEPT !.snapOk = TRUE, !.snap = s] \in Rows
  BY DEF Rows
<1>2. \A b \in BOOLEAN : [r EXCEPT !.state = "pending", !.answered = b] \in Rows
  BY DEF Rows
<1>3. [r EXCEPT !.answered = TRUE] \in Rows
  BY DEF Rows
<1>4. \A s \in {"pending"} \cup Terminal, b \in BOOLEAN :
        [r EXCEPT !.state = s, !.applied = b] \in Rows
  BY DEF Rows
<1>5. [r EXCEPT !.state = "confirmed"] \in Rows
  BY DEF Rows, Terminal
<1>6. [r EXCEPT !.touched = @ \cup {"webd"}] \in Rows
  BY DEF Rows
<1>7. [r EXCEPT !.touched = @ \cup {"init"}] \in Rows
  BY DEF Rows
<1>8. [r EXCEPT !.expired = TRUE] \in Rows
  BY DEF Rows
<1> QED
  BY <1>1, <1>2, <1>3, <1>4, <1>5, <1>6, <1>7, <1>8

LEMMA InitInv == Init => Inv
<1> SUFFICES ASSUME Init PROVE Inv
  OBVIOUS
<1>1. 0 \in Values /\ 0 \in 0 .. MaxFaults
  BY ConstantsAssumption DEF ConstantsAssumption, Values
<1>2. TypeOK
  BY <1>1, Constants DEF Init, TypeOK
<1>3. \A w \in Workers : req[w].pc = "idle"
  BY DEF Init, IdleRequest
<1>4. sup.pc = "idle"
  BY DEF Init, IdleSupervisor
<1> QED
  BY <1>2, <1>3, <1>4 DEF Inv, Early

LEMMA FaultTyped ==
  ASSUME Inv, Fault \/ UNCHANGED faults
  PROVE  faults' \in 0 .. MaxFaults
BY ConstantsAssumption DEF Inv, TypeOK, Fault, ConstantsAssumption

LEMMA WatchTyped ==
  ASSUME Inv, Watch
  PROVE  unclaimed' \in BOOLEAN
BY DEF Inv, TypeOK, Watch

\* A request moves on, with its task known when it must be.
LEMMA Moved ==
  ASSUME Inv, NEW w \in Workers, NEW pc \in Places,
         pc \notin Early => req[w].t \in Tasks,
         req' = [req EXCEPT ![w].pc = pc]
  PROVE  /\ req' \in [Workers -> Request]
         /\ \A v \in Workers : req'[v].pc \notin Early => req'[v].t \in Tasks
BY DEF Inv, TypeOK, Request, Places

LEMMA Replaced ==
  ASSUME Inv, NEW w \in Workers, NEW r \in Request,
         r.pc \notin Early => r.t \in Tasks,
         req' = [req EXCEPT ![w] = r]
  PROVE  /\ req' \in [Workers -> Request]
         /\ \A v \in Workers : req'[v].pc \notin Early => req'[v].t \in Tasks
BY DEF Inv, TypeOK

LEMMA Ended ==
  ASSUME Inv, NEW t \in Tasks, NEW s \in {"pending"} \cup Terminal, NEW b \in BOOLEAN
  PROVE  EndTask(t, s, b) \in [Tasks -> Rows]
<1>1. task[t] \in Rows
  BY DEF Inv, TypeOK
<1>2. [task[t] EXCEPT !.state = s, !.applied = b] \in Rows
  BY <1>1, RowUpdates
<1>3. EndTask(t, s, b) \in {task, [task EXCEPT ![t] = [task[t] EXCEPT !.state = s, !.applied =
  b]]}
  BY DEF EndTask, Inv, TypeOK
<1> QED
  BY <1>2, <1>3 DEF Inv, TypeOK

LEMMA BackToIdle ==
  ASSUME Inv, NEW w \in Workers, req' = [req EXCEPT ![w] = IdleRequest]
  PROVE  /\ req' \in [Workers -> Request]
         /\ \A v \in Workers : req'[v].pc \notin Early => req'[v].t \in Tasks
BY Constants, Replaced DEF IdleRequest, Early

LEMMA UndoMoved ==
  ASSUME Inv, NEW w \in Workers, NEW ok \in BOOLEAN,
         req[w].pc \notin Early, req' = UndoNext(w, ok)
  PROVE  /\ req' \in [Workers -> Request]
         /\ \A v \in Workers : req'[v].pc \notin Early => req'[v].t \in Tasks
<1>1. AfterNetwork(w) \in {"undo_ports", "record"}
  BY DEF AfterNetwork
<1>2. req[w] \in Request /\ req[w].t \in Tasks
  BY DEF Inv, TypeOK
<1>3. CASE req[w].again
  <2> DEFINE r == [req[w] EXCEPT !.pc = "undo", !.again = FALSE]
  <2>1. r \in Request /\ r.t \in Tasks
    BY <1>2 DEF Request
  <2>2. req' = [req EXCEPT ![w] = r]
    BY <1>3 DEF UndoNext, Inv, TypeOK
  <2> HIDE DEF r
  <2> QED
    BY <2>1, <2>2, Replaced
<1>4. CASE ~req[w].again
  <2> DEFINE r == [req[w] EXCEPT !.pc = AfterNetwork(w), !.ok = ok]
  <2>1. r \in Request /\ r.t \in Tasks
    BY <1>1, <1>2 DEF Request
  <2>2. req' = [req EXCEPT ![w] = r]
    BY <1>4 DEF UndoNext, Inv, TypeOK
  <2> HIDE DEF r
  <2> QED
    BY <2>1, <2>2, Replaced
<1> QED
  BY <1>3, <1>4

-----------------------------------------------------------------------------
(* A step keeps the types *)

LEMMA ApplyTypes ==
  ASSUME Inv, NEW w \in Workers, ApplyStep(w) \/ \E mutating \in BOOLEAN : ApplyCheck(w, mutating)
  PROVE  Inv'
<1> USE DEF live
<1>1. ASSUME NEW mutating \in BOOLEAN, ApplyCheck(w, mutating)
      PROVE  Inv'
  <2> DEFINE r == [IdleRequest EXCEPT !.pc = "checked", !.row.mutating = mutating,
                                      !.row.oldPorts = ports]
  <2>1. r \in Request /\ r.pc = "checked"
    <3>1. [NoRow EXCEPT !.mutating = mutating, !.oldPorts = ports] \in Rows
      BY Constants DEF Inv, TypeOK, Rows
    <3>2. r = [IdleRequest EXCEPT !.pc = "checked",
                                  !.row = [NoRow EXCEPT !.mutating = mutating,
                                                        !.oldPorts = ports]]
      BY DEF IdleRequest
    <3> QED
      BY <3>1, <3>2, Constants DEF Request
  <2>2. req' = [req EXCEPT ![w] = r]
    BY <1>1 DEF ApplyCheck
  <2> HIDE DEF r
  <2>3. /\ req' \in [Workers -> Request]
        /\ \A v \in Workers : req'[v].pc \notin Early => req'[v].t \in Tasks
    BY <2>1, <2>2, Replaced DEF Early
  <2> QED
    BY <1>1, <2>3, WatchTyped DEF ApplyCheck, Inv, TypeOK
<1>2. CASE ApplySnapshot(w)
  <2>1. /\ req' \in [Workers -> Request]
        /\ \A v \in Workers : req'[v].pc \notin Early => req'[v].t \in Tasks
    <3>1. CASE req' = [req EXCEPT ![w].pc = "snapped", ![w].row.snapOk = TRUE,
                                  ![w].row.snap = file]
      <4>1. [req[w].row EXCEPT !.snapOk = TRUE, !.snap = file] \in Rows
        <5>1. req[w].row \in Rows /\ file \in Values \cup {Torn}
          BY DEF Inv, TypeOK, Request
        <5> QED
          BY <5>1, RowUpdates
      <4> DEFINE r == [req[w] EXCEPT !.pc = "snapped",
                                     !.row = [req[w].row EXCEPT !.snapOk = TRUE, !.snap = file]]
      <4>2. req[w] \in Request
        BY DEF Inv, TypeOK
      <4>3. r \in Request /\ r.pc = "snapped"
        BY <4>1, <4>2 DEF Request
      <4>4. req' = [req EXCEPT ![w] = r]
        BY <3>1, <4>2 DEF Inv, TypeOK, Request, Rows
      <4> HIDE DEF r
      <4> QED
        BY <4>3, <4>4, Replaced DEF Early
    <3>2. CASE req' = [req EXCEPT ![w].pc = "snapped"]
      <4>1. "snapped" \in Places /\ "snapped" \in Early
        BY DEF Places, Early
      <4> QED
        BY <3>2, <4>1, Moved
    <3> QED
      BY <1>2, <3>1, <3>2, BackToIdle DEF ApplySnapshot
  <2> QED
    BY <1>2, <2>1, WatchTyped, FaultTyped DEF ApplySnapshot, Inv, TypeOK
<1>3. ASSUME NEW t \in Tasks, ApplyInsert(w, t)
      PROVE  Inv'
  <2>1. task' \in [Tasks -> Rows]
    <3>1. req[w].row \in Rows /\ (~req[w].row.mutating) \in BOOLEAN
      BY DEF Inv, TypeOK, Request, Rows
    <3>2. [req[w].row EXCEPT !.state = "pending", !.answered = ~req[w].row.mutating] \in Rows
      BY <3>1, RowUpdates
    <3> QED
      BY <1>3, <3>2 DEF ApplyInsert, Inv, TypeOK
  <2>2. /\ req' \in [Workers -> Request]
        /\ \A v \in Workers : req'[v].pc \notin Early => req'[v].t \in Tasks
    <3>1. CASE req' = [req EXCEPT ![w].pc = "inserted", ![w].t = t, ![w].row = NoRow]
      <4> DEFINE r == [req[w] EXCEPT !.pc = "inserted", !.t = t, !.row = NoRow]
      <4>1. r \in Request /\ r.t \in Tasks
        BY Constants DEF Inv, TypeOK, Request
      <4>2. req' = [req EXCEPT ![w] = r]
        BY <3>1 DEF Inv, TypeOK
      <4> HIDE DEF r
      <4> QED
        BY <4>1, <4>2, Replaced
    <3> QED
      BY <1>3, <3>1, BackToIdle DEF ApplyInsert
  <2> QED
    BY <1>3, <2>1, <2>2, WatchTyped DEF ApplyInsert, Inv, TypeOK
<1>4. CASE ApplyCommit(w) \/ ApplyPrepareFails(w) \/ ApplyReload(w) \/ ApplyVerify(w)
  <2>1. \E pc \in Places : pc \notin Early /\ req' = [req EXCEPT ![w].pc = pc]
    BY <1>4 DEF ApplyCommit, ApplyPrepareFails, ApplyReload, ApplyVerify, Goto, Places, Early
  <2>2. req[w].t \in Tasks
    BY <1>4 DEF Inv, ApplyCommit, ApplyPrepareFails, ApplyReload, ApplyVerify, Early
  <2>3. /\ req' \in [Workers -> Request]
        /\ \A v \in Workers : req'[v].pc \notin Early => req'[v].t \in Tasks
    BY <2>1, <2>2, Moved
  <2>4. faults' \in 0 .. MaxFaults /\ unclaimed' \in BOOLEAN
    BY <1>4, WatchTyped, FaultTyped DEF ApplyCommit, ApplyPrepareFails, ApplyReload, ApplyVerify
  <2> QED
    BY <1>4, <2>2, <2>3, <2>4, Constants
    DEF ApplyCommit, ApplyPrepareFails, ApplyReload, ApplyVerify, Inv, TypeOK
<1>5. CASE ApplyNetworkFails(w)
  <2> DEFINE r == [req[w] EXCEPT !.pc = "undo", !.again = TRUE]
  <2>a. r \in Request /\ r.t \in Tasks
    BY <1>5 DEF ApplyNetworkFails, Inv, TypeOK, Request, Early
  <2>b. req' = [req EXCEPT ![w] = r]
    BY <1>5 DEF ApplyNetworkFails, Inv, TypeOK
  <2> HIDE DEF r
  <2>1. /\ req' \in [Workers -> Request]
        /\ \A v \in Workers : req'[v].pc \notin Early => req'[v].t \in Tasks
    BY <2>a, <2>b, Replaced
  <2>2. faults' \in 0 .. MaxFaults
    BY <1>5, FaultTyped DEF ApplyNetworkFails
  <2> QED
    BY <1>5, <2>1, <2>2, WatchTyped DEF ApplyNetworkFails, Inv, TypeOK
<1>6. CASE ApplyPorts(w)
  <2>1. req[w].t \in Tasks
    BY <1>6 DEF Inv, ApplyPorts, Early
  <2>2. task' \in [Tasks -> Rows]
    <3>1. task[req[w].t] \in Rows
      BY <2>1 DEF Inv, TypeOK
    <3>2. [task[req[w].t] EXCEPT !.answered = TRUE] \in Rows
      BY <3>1, RowUpdates
    <3>3. task' = [task EXCEPT ![req[w].t] = [task[req[w].t] EXCEPT !.answered = TRUE]]
      BY <1>6 DEF ApplyPorts, Inv, TypeOK
    <3> QED
      BY <3>2, <3>3 DEF Inv, TypeOK
  <2> QED
    BY <1>6, <2>1, <2>2, BackToIdle, WatchTyped, Constants DEF ApplyPorts, Inv, TypeOK
<1>7. CASE ApplyPortsFails(w)
  <2>1. req[w].t \in Tasks
    BY <1>7 DEF Inv, ApplyPortsFails, Early
  <2> DEFINE r == [req[w] EXCEPT !.pc = "undo", !.portErr = TRUE]
  <2>a. r \in Request /\ r.t \in Tasks
    BY <2>1 DEF Inv, TypeOK, Request
  <2>b. req' = [req EXCEPT ![w] = r]
    BY <1>7 DEF ApplyPortsFails, Inv, TypeOK
  <2> HIDE DEF r
  <2>2. /\ req' \in [Workers -> Request]
        /\ \A v \in Workers : req'[v].pc \notin Early => req'[v].t \in Tasks
    BY <2>a, <2>b, Replaced
  <2> QED
    BY <1>7, <2>1, <2>2, WatchTyped, FaultTyped, Constants DEF ApplyPortsFails, Inv, TypeOK
<1> QED
  BY <1>1, <1>2, <1>3, <1>4, <1>5, <1>6, <1>7 DEF ApplyStep

LEMMA UndoTypes ==
  ASSUME Inv, NEW w \in Workers, UndoStep(w)
  PROVE  Inv'
<1> USE DEF live
<1>1. req[w].pc \notin Early /\ req[w].t \in Tasks /\ task[req[w].t] \in Rows
      /\ req[w] \in Request
  BY DEF UndoStep, UndoOpen, UndoCopied, UndoCopyFails, UndoReload, UndoReloadFails, UndoPorts,
         UndoPortsFails, UndoRecord, Inv, TypeOK, Early
<1>2. task[req[w].t].snap \in Values \cup {Torn} /\ task[req[w].t].oldPorts \in Values
  BY <1>1 DEF Rows
<1>3. CASE UndoOpen(w) \/ UndoCopied(w)
  <2>1. \E pc \in Places : req' = [req EXCEPT ![w].pc = pc]
    BY <1>3 DEF UndoOpen, UndoCopied, Goto, Places
  <2>2. /\ req' \in [Workers -> Request]
        /\ \A v \in Workers : req'[v].pc \notin Early => req'[v].t \in Tasks
    BY <1>1, <2>1, Moved
  <2> QED
    BY <1>2, <1>3, <2>2, WatchTyped DEF UndoOpen, UndoCopied, Inv, TypeOK
<1>4. CASE UndoCopyFails(w) \/ UndoReload(w) \/ UndoReloadFails(w)
  <2>1. \E ok \in BOOLEAN : req' = UndoNext(w, ok)
    BY <1>4 DEF UndoCopyFails, UndoReload, UndoReloadFails
  <2>2. /\ req' \in [Workers -> Request]
        /\ \A v \in Workers : req'[v].pc \notin Early => req'[v].t \in Tasks
    BY <1>1, <2>1, UndoMoved
  <2>3. /\ faults' \in 0 .. MaxFaults /\ unclaimed' \in BOOLEAN
        /\ runtime' \in Values \cup {Torn} /\ UNCHANGED <<file, ports, task, sup>>
    BY <1>4, FaultTyped, WatchTyped DEF UndoCopyFails, UndoReload, UndoReloadFails, Inv, TypeOK
  <2> QED
    BY <2>2, <2>3 DEF Inv, TypeOK
<1>5. CASE UndoPorts(w)
  <2>1. "record" \in Places /\ req' = [req EXCEPT ![w].pc = "record"]
    BY <1>5 DEF UndoPorts, Goto, Places
  <2>2. /\ req' \in [Workers -> Request]
        /\ \A v \in Workers : req'[v].pc \notin Early => req'[v].t \in Tasks
    BY <1>1, <2>1, Moved
  <2> QED
    BY <1>2, <1>5, <2>2, WatchTyped DEF UndoPorts, Inv, TypeOK
<1>6. CASE UndoPortsFails(w)
  <2> DEFINE r == [req[w] EXCEPT !.pc = "record", !.ok = FALSE]
  <2>1. r \in Request /\ r.t \in Tasks
    BY <1>1 DEF Request
  <2>2. req' = [req EXCEPT ![w] = r]
    BY <1>6 DEF UndoPortsFails, Inv, TypeOK
  <2> HIDE DEF r
  <2>3. /\ req' \in [Workers -> Request]
        /\ \A v \in Workers : req'[v].pc \notin Early => req'[v].t \in Tasks
    BY <2>1, <2>2, Replaced
  <2> QED
    BY <1>2, <1>6, <2>3, WatchTyped, FaultTyped DEF UndoPortsFails, Inv, TypeOK
<1>7. CASE UndoRecord(w)
  <2>1. task' \in [Tasks -> Rows]
    <3> DEFINE outcome == IF req[w].op = "apply" THEN "failed"
                          ELSE IF req[w].ok THEN "rolled_back" ELSE "pending"
    <3>1. outcome \in {"pending"} \cup Terminal /\ req[w].ok \in BOOLEAN
      BY <1>1 DEF Terminal, Request
    <3>2. task' = EndTask(req[w].t, outcome, req[w].ok) \/ task' = task
      BY <1>7 DEF UndoRecord
    <3> HIDE DEF outcome
    <3> QED
      BY <3>1, <3>2, <1>1, Ended DEF Inv, TypeOK
  <2> QED
    BY <1>7, <2>1, BackToIdle, WatchTyped, FaultTyped DEF UndoRecord, Inv, TypeOK
<1> QED
  BY <1>3, <1>4, <1>5, <1>6, <1>7 DEF UndoStep

LEMMA TableTypes ==
  ASSUME Inv, NEW w \in Workers, NEW t \in Tasks, Confirm(w, t) \/ RollbackBegin(w, t)
  PROVE  Inv'
<1> USE DEF live
<1>1. task[t] \in Rows
  BY DEF Inv, TypeOK
<1>2. \E r \in Rows : task' = [task EXCEPT ![t] = r]
  <2>1. CASE Confirm(w, t)
    BY <1>1, <2>1, RowUpdates DEF Confirm, Inv, TypeOK
  <2>2. CASE RollbackBegin(w, t)
    BY <1>1, <2>2, RowUpdates DEF RollbackBegin, Inv, TypeOK
  <2> QED
    BY <2>1, <2>2
<1>3. task' \in [Tasks -> Rows]
  BY <1>2 DEF Inv, TypeOK
<1>4. CASE Confirm(w, t)
  BY <1>3, <1>4, WatchTyped DEF Confirm, Inv, TypeOK
<1>5. CASE RollbackBegin(w, t)
  <2> DEFINE r == [IdleRequest EXCEPT !.pc = "undo", !.op = "rollback", !.t = t]
  <2>1. r \in Request /\ r.t \in Tasks
    BY Constants DEF IdleRequest, Request
  <2>2. req' = [req EXCEPT ![w] = r]
    BY <1>5 DEF RollbackBegin
  <2> HIDE DEF r
  <2>3. /\ req' \in [Workers -> Request]
        /\ \A v \in Workers : req'[v].pc \notin Early => req'[v].t \in Tasks
    BY <2>1, <2>2, Replaced
  <2> QED
    BY <1>3, <1>5, <2>3, WatchTyped DEF RollbackBegin, Inv, TypeOK
<1> QED
  BY <1>4, <1>5

LEMMA ScanTypes ==
  ASSUME Inv, ScanStep
  PROVE  Inv'
<1> USE DEF live
<1>1. ASSUME NEW t \in Tasks, ScanRow(t)
      PROVE  Inv'
  BY <1>1, WatchTyped DEF ScanRow, Inv, TypeOK
<1>2. CASE ScanOpen
  <2>1. sup.t \in Tasks /\ task[sup.t] \in Rows
    BY <1>2 DEF ScanOpen, Inv, TypeOK
  <2>2. [task[sup.t] EXCEPT !.touched = @ \cup {"init"}] \in Rows
    BY <2>1, RowUpdates
  <2>3. task' \in [Tasks -> Rows]
    BY <1>2, <2>2 DEF ScanOpen, Inv, TypeOK
  <2> QED
    BY <1>2, <2>1, <2>3, WatchTyped DEF ScanOpen, Inv, TypeOK
<1>3. CASE ScanCopied
  <2>1. task[sup.t].snap \in Values \cup {Torn}
    BY <1>3 DEF ScanCopied, Inv, TypeOK, Rows
  <2> QED
    BY <1>3, <2>1, WatchTyped DEF ScanCopied, Inv, TypeOK
<1>4. CASE ScanCopyFails
  BY <1>4, WatchTyped, FaultTyped DEF ScanCopyFails, Inv, TypeOK
<1>5. CASE ScanUpdate
  <2>1. sup.t \in Tasks /\ sup.ok \in BOOLEAN
        /\ (IF sup.ok THEN "rolled_back" ELSE "rollback_failed") \in {"pending"} \cup Terminal
    BY <1>5 DEF ScanUpdate, Inv, TypeOK, Terminal
  <2>2. task' \in [Tasks -> Rows]
    BY <1>5, <2>1, Ended DEF ScanUpdate, Inv, TypeOK
  <2>3. sup' = IdleSupervisor /\ sup'.pc = "idle"
    BY <1>5 DEF ScanUpdate, IdleSupervisor
  <2> QED
    BY <1>5, <2>2, <2>3, WatchTyped, FaultTyped, Constants DEF ScanUpdate, Inv, TypeOK
<1> QED
  BY <1>1, <1>2, <1>3, <1>4, <1>5 DEF ScanStep

LEMMA FailureTypes ==
  ASSUME Inv, PowerLoss \/ \E w \in Workers : RequestDies(w)
  PROVE  Inv'
<1> USE DEF live
<1>1. CASE PowerLoss
  <2>1. req' \in [Workers -> Request] /\ \A v \in Workers : req'[v].pc = "idle"
    BY <1>1, Constants DEF PowerLoss, IdleRequest
  <2>2. sup'.pc = "idle"
    BY <1>1 DEF PowerLoss, IdleSupervisor
  <2> QED
    BY <1>1, <2>1, <2>2, WatchTyped, FaultTyped, Constants DEF PowerLoss, Inv, TypeOK, Early
<1>2. ASSUME NEW w \in Workers, RequestDies(w)
      PROVE  Inv'
  BY <1>2, BackToIdle, WatchTyped, FaultTyped DEF RequestDies, Inv, TypeOK
<1> QED
  BY <1>1, <1>2

LEMMA NextTypes == Inv /\ [Next]_vars => Inv'
<1> SUFFICES ASSUME Inv, [Next]_vars PROVE Inv'
  OBVIOUS
<1>1. ASSUME NEW w \in Workers, NEW t \in Tasks, Confirm(w, t) \/ RollbackBegin(w, t)
      PROVE  Inv'
  BY <1>1, TableTypes
<1>2. ASSUME NEW t \in Tasks, Expire(t)
      PROVE  Inv'
  <2>1. [task[t] EXCEPT !.expired = TRUE] \in Rows
    BY RowUpdates DEF Inv, TypeOK
  <2>2. task' \in [Tasks -> Rows]
    BY <1>2, <2>1 DEF Expire, Inv, TypeOK
  <2> QED
    BY <1>2, <2>2, WatchTyped DEF Expire, Inv, TypeOK, live
<1>3. CASE UNCHANGED vars
  BY <1>3 DEF Inv, TypeOK, vars, live
<1> QED
  BY <1>1, <1>2, <1>3, ApplyTypes, UndoTypes, ScanTypes, FailureTypes DEF Next

THEOREM Inductive == Spec => []Inv
BY InitInv, NextTypes, PTL DEF Spec

\* Every variable keeps its type.
THEOREM TypeCorrect == Spec => []TypeOK
<1>1. Inv => TypeOK
  BY DEF Inv
<1> QED
  BY <1>1, Inductive, PTL

-----------------------------------------------------------------------------
(* The first outcome stands *)

LEMMA Kept ==
  ASSUME Inv, [Next]_vars, NEW t \in Tasks, task[t].state \in Terminal
  PROVE  task'[t].state = task[t].state
<1>1. task[t] \in Rows /\ task[t].state \notin {"none", "pending"}
  BY DEF Inv, TypeOK, Terminal
<1>2. ASSUME NEW w \in Workers, NEW u \in Tasks, ApplyInsert(w, u)
      PROVE  task'[t].state = task[t].state
  BY <1>1, <1>2 DEF ApplyInsert, Inv, TypeOK
<1>3. ASSUME NEW w \in Workers, ApplyPorts(w)
      PROVE  task'[t].state = task[t].state
  <2>1. req[w].t \in Tasks /\ task[req[w].t] \in Rows
    BY <1>3 DEF ApplyPorts, Inv, TypeOK, Early
  <2>2. task' = [task EXCEPT ![req[w].t].answered = TRUE]
    BY <1>3 DEF ApplyPorts
  <2> QED
    BY <1>1, <2>1, <2>2 DEF Inv, TypeOK, Rows
<1>4. ASSUME NEW w \in Workers, NEW u \in Tasks, Confirm(w, u) \/ RollbackBegin(w, u)
      PROVE  task'[t].state = task[t].state
  <2>1. u # t
    BY <1>1, <1>4 DEF Confirm, RollbackBegin, Pending
  <2> QED
    BY <1>4, <2>1 DEF Confirm, RollbackBegin, Inv, TypeOK
<1>5. ASSUME NEW u \in Tasks, Expire(u)
      PROVE  task'[t].state = task[t].state
  BY <1>1, <1>5 DEF Expire, Pending, Inv, TypeOK
<1>6. ASSUME NEW u, NEW s, NEW b, task' = EndTask(u, s, b)
      PROVE  task'[t].state = task[t].state
  BY <1>1, <1>6 DEF EndTask, Pending, Inv, TypeOK
<1>7. ASSUME NEW w \in Workers, UndoRecord(w)
      PROVE  task'[t].state = task[t].state
  BY <1>6, <1>7 DEF UndoRecord
<1>8. CASE ScanUpdate
  BY <1>6, <1>8 DEF ScanUpdate
<1>9. CASE ScanOpen
  <2>1. sup.t \in Tasks /\ task[sup.t] \in Rows
    BY <1>9 DEF ScanOpen, Inv, TypeOK
  <2> QED
    BY <1>1, <1>9, <2>1 DEF ScanOpen, Inv, TypeOK, Rows
<1>10. CASE task' = task
  BY <1>10
<1>11. ASSUME NEW w \in Workers,
              \/ ApplySnapshot(w) \/ ApplyCommit(w) \/ ApplyPrepareFails(w) \/ ApplyReload(w)
              \/ ApplyVerify(w) \/ ApplyNetworkFails(w) \/ ApplyPortsFails(w) \/ UndoOpen(w)
              \/ UndoCopied(w) \/ UndoCopyFails(w) \/ UndoReload(w) \/ UndoReloadFails(w)
              \/ UndoPorts(w) \/ UndoPortsFails(w) \/ RequestDies(w)
              \/ \E mutating \in BOOLEAN : ApplyCheck(w, mutating)
       PROVE  task' = task
  BY <1>11 DEF ApplySnapshot, ApplyCommit, ApplyPrepareFails, ApplyReload, ApplyVerify,
    ApplyNetworkFails, ApplyPortsFails, UndoOpen, UndoCopied, UndoCopyFails, UndoReload,
    UndoReloadFails, UndoPorts, UndoPortsFails, RequestDies, ApplyCheck, live
<1>12. CASE ScanCopied \/ ScanCopyFails \/ PowerLoss \/ UNCHANGED vars \/ \E u \in Tasks :
  ScanRow(u)
  BY <1>12 DEF ScanCopied, ScanCopyFails, PowerLoss, ScanRow, vars
<1>13. ASSUME NEW w \in Workers, ApplyStep(w) \/ UndoStep(w)
       PROVE  task'[t].state = task[t].state
  BY <1>2, <1>3, <1>7, <1>10, <1>11, <1>13 DEF ApplyStep, UndoStep
<1> QED
  BY <1>4, <1>5, <1>8, <1>9, <1>10, <1>11, <1>12, <1>13 DEF Next, ScanStep

\* However many requests and the supervisor work on a task, no step changes an
\* outcome that was recorded (UPDATE ... WHERE state='pending').
THEOREM FirstOutcomeStands == Spec => OutcomeFinal
<1>1. Inv /\ [Next]_vars
        => [\A t \in Tasks : task[t].state \in Terminal => task'[t].state = task[t].state]_vars
  BY Kept
<1> QED
  BY <1>1, Inductive, PTL DEF Spec, OutcomeFinal
=============================================================================
