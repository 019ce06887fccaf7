----------------------------- MODULE ConfigApply -----------------------------
(***************************************************************************)
(* Configuration transactions of the web daemon (jmxd/src/webd/             *)
(* jmx_app_api.c) and the automatic rollback of the supervisor              *)
(* (jmxd/src/init/dreamingwrt_init.c).                                      *)
(*                                                                          *)
(* The web daemon forks a process for each request, so that requests run    *)
(* next to each other and next to the supervisor; they meet in the table    *)
(* config_apply_tasks, in /etc/config/network, in the running network and   *)
(* in the stored configuration of the ports.  The timer that                *)
(* jmx_config_apply arms belongs to the process of the request and dies     *)
(* with it: the supervisor alone rolls expired tasks back.                  *)
(*                                                                          *)
(* A value of a part is the task that wrote it, 0 at the start.  A file is  *)
(* copied by truncating and rewriting it, and is torn in between.           *)
(***************************************************************************)
EXTENDS Integers, FiniteSets

CONSTANTS Workers,    \* request processes that can run at the same time
          MaxTasks,   \* bound: rows of config_apply_tasks
          MaxFaults,  \* bound: failing steps and crashes
          Torn        \* a file cut short

ASSUME ConstantsAssumption ==
  /\ MaxTasks \in Nat \ {0}
  /\ MaxFaults \in Nat
  /\ Torn \notin Int
  /\ "init" \notin Workers

VARIABLES
  file,     \* /etc/config/network
  runtime,  \* what the network runs with
  ports,    \* the stored port configuration
  task,     \* config_apply_tasks, by id
  req,      \* the request processes
  sup,      \* the supervisor's auto_rollback_one
  faults,   \* faults so far
  unclaimed \* a snapshot was copied that its writer could not have claimed

live == <<file, runtime, ports>>
vars == <<live, task, req, sup, faults, unclaimed>>

Tasks  == 1 .. MaxTasks
Values == 0 .. MaxTasks
NoTask == 0

Terminal == {"confirmed", "rolled_back", "rollback_failed", "failed"}
Rows == [state : {"none", "pending"} \cup Terminal,
         mutating : BOOLEAN,                 \* port_vlan_runtime
         snapOk : BOOLEAN,                   \* snapshot_ok
         snap : Values \cup {Torn},          \* the file at snapshot_path
         oldPorts : Values,                  \* plan.current_port in changes_json
         expired : BOOLEAN,                  \* started_at + rollback_timeout has passed
         applied : BOOLEAN,                  \* rollback_applied
         answered : BOOLEAN,                 \* jmx_config_apply has reported success
         touched : SUBSET {"webd", "init"}]  \* who began to roll it back
NoRow == [state |-> "none", mutating |-> FALSE, snapOk |-> FALSE, snap |-> 0, oldPorts |-> 0,
          expired |-> FALSE, applied |-> FALSE, answered |-> FALSE, touched |-> {}]

\* "checked" to "inserted": before anything is changed.  "reload" to "ports":
\* webd_port_manager_apply_network_transaction and the port configuration.
\* "undo" to "record": restoring, for the operation of the request.
Request == [pc : {"idle", "checked", "snapped", "inserted", "reload", "verify", "ports", "undo",
                  "copy", "undo_reload", "undo_ports", "record"},
            op : {"apply", "rollback"}, t : Tasks \cup {NoTask}, row : Rows,
            ok : BOOLEAN,       \* restored
            portErr : BOOLEAN,  \* config_err
            again : BOOLEAN]    \* fail_restore, and the caller restores once more
IdleRequest == [pc |-> "idle", op |-> "apply", t |-> NoTask, row |-> NoRow, ok |-> FALSE,
                portErr |-> FALSE, again |-> FALSE]

IdleSupervisor == [pc |-> "idle", t |-> NoTask, ok |-> FALSE]

TypeOK ==
  /\ file \in Values \cup {Torn}
  /\ runtime \in Values \cup {Torn}
  /\ ports \in Values
  /\ task \in [Tasks -> Rows]
  /\ req \in [Workers -> Request]
  /\ sup \in [pc : {"idle", "read", "copy", "update"}, t : Tasks \cup {NoTask}, ok : BOOLEAN]
  /\ faults \in 0 .. MaxFaults
  /\ unclaimed \in BOOLEAN

Init ==
  /\ file = 0 /\ runtime = 0 /\ ports = 0
  /\ task = [t \in Tasks |-> NoRow]
  /\ req = [w \in Workers |-> IdleRequest]
  /\ sup = IdleSupervisor
  /\ faults = 0
  /\ unclaimed = FALSE

Pending(t) == t \in Tasks /\ task[t].state = "pending"
Fault == faults < MaxFaults /\ faults' = faults + 1

Goto(w, pc) == req' = [req EXCEPT ![w].pc = pc]

\* The tasks whose snapshot is being copied over the file.
Copying == {req[w].t : w \in {v \in Workers : req[v].pc = "copy"}}
           \cup (IF sup.pc = "copy" THEN {sup.t} ELSE {})

\* Who is restoring t; with a claim there would be at most one, and none once
\* the task is over.
Restorers(t) ==
  {w \in Workers : req[w].t = t
                     /\ req[w].pc \in {"undo", "copy", "undo_reload", "undo_ports", "record"}}
  \cup {s \in {"init"} : sup.t = t}
Unclaimed(t) == task[t].state # "pending" \/ \E a, b \in Restorers(t) : a # b

\* Of every step: keeps book of copies that nobody could have claimed.
Watch == unclaimed' = (unclaimed \/ \E t \in Copying' : Unclaimed(t)')

-----------------------------------------------------------------------------
(* jmx_config_apply *)

\* jmx_config_pending_task_id finds nothing.  The plan in the request names
\* the port configuration it replaces.
NonePending == \A t \in Tasks : ~Pending(t)

ApplyCheck(w, mutating) ==
  /\ req[w].pc = "idle"
  /\ NonePending
  /\ req' = [req EXCEPT ![w] = [IdleRequest EXCEPT !.pc = "checked",
                                  !.row.mutating = mutating, !.row.oldPorts = ports]]
  /\ UNCHANGED <<live, task, sup, faults>>
  /\ Watch

\* webd_network_config_snapshot; without it a change of the network is refused.
ApplySnapshot(w) ==
  /\ req[w].pc = "checked"
  /\ \/ /\ req' = [req EXCEPT ![w].pc = "snapped", ![w].row.snapOk = TRUE, ![w].row.snap = file]
        /\ UNCHANGED faults
     \/ /\ Fault
        /\ req' = IF req[w].row.mutating THEN [req EXCEPT ![w] = IdleRequest]
                  ELSE [req EXCEPT ![w].pc = "snapped"]
  /\ UNCHANGED <<live, task, sup>>
  /\ Watch

\* The INSERT.  A change that does not touch the network ends here.
ApplyInsert(w, t) ==
  /\ req[w].pc = "snapped"
  /\ task[t].state = "none"
  /\ \A u \in Tasks : u < t => task[u].state # "none"
  /\ task' = [task EXCEPT ![t] = [req[w].row EXCEPT !.state = "pending",
                                    !.answered = ~req[w].row.mutating]]
  /\ req' = IF req[w].row.mutating
            THEN [req EXCEPT ![w].pc = "inserted", ![w].t = t, ![w].row = NoRow]
            ELSE [req EXCEPT ![w] = IdleRequest]
  /\ UNCHANGED <<live, sup, faults>>
  /\ Watch

\* The port can be configured and uci_commit renames the new file into place.
ApplyCommit(w) ==
  /\ req[w].pc = "inserted"
  /\ file # Torn
  /\ file' = req[w].t
  /\ Goto(w, "reload")
  /\ UNCHANGED <<runtime, ports, task, sup, faults>>
  /\ Watch

\* Before uci_commit nothing has changed; jmx_config_apply restores all the same.
ApplyPrepareFails(w) ==
  /\ req[w].pc = "inserted"
  /\ IF file = Torn THEN UNCHANGED faults ELSE Fault
  /\ Goto(w, "undo")
  /\ UNCHANGED <<live, task, sup>>
  /\ Watch

ApplyReload(w) ==
  /\ req[w].pc = "reload"
  /\ runtime' = file
  /\ Goto(w, "verify")
  /\ UNCHANGED <<file, ports, task, sup, faults>>
  /\ Watch

\* The reachability probe and webd_port_bridge_vlan_readback.
ApplyVerify(w) ==
  /\ req[w].pc = "verify"
  /\ runtime = req[w].t
  /\ Goto(w, "ports")
  /\ UNCHANGED <<live, task, sup, faults>>
  /\ Watch

\* Label fail_restore, whose restore is followed by that of jmx_config_apply.
ApplyNetworkFails(w) ==
  /\ req[w].pc \in {"reload", "verify"}
  /\ IF req[w].pc = "verify" /\ runtime # req[w].t THEN UNCHANGED faults ELSE Fault
  /\ runtime' \in IF req[w].pc = "reload" THEN {runtime, file} ELSE {runtime}
  /\ req' = [req EXCEPT ![w].pc = "undo", ![w].again = TRUE]
  /\ UNCHANGED <<file, ports, task, sup>>
  /\ Watch

ApplyPortsPrevious(w) ==
  /\ req[w].pc = "ports"
  /\ ports' = task[req[w].t].oldPorts
  /\ task' = [task EXCEPT ![req[w].t].answered = TRUE]
  /\ req' = [req EXCEPT ![w] = IdleRequest]
  /\ UNCHANGED <<file, runtime, sup, faults>>
  /\ Watch
ApplyPorts(w) ==
  /\ req[w].pc = "ports"
  /\ ports' = req[w].t
  /\ task' = [task EXCEPT ![req[w].t].answered = TRUE]
  /\ req' = [req EXCEPT ![w] = IdleRequest]
  /\ UNCHANGED <<file, runtime, sup, faults>>
  /\ Watch

\* The call is refused, or its answer comes too late.
ApplyPortsFails(w) ==
  /\ req[w].pc = "ports"
  /\ Fault
  /\ ports' \in {ports, req[w].t}
  /\ req' = [req EXCEPT ![w].pc = "undo", ![w].portErr = TRUE]
  /\ UNCHANGED <<file, runtime, task, sup>>
  /\ Watch

-----------------------------------------------------------------------------
(* webd_network_config_restore and what follows it *)

\* jmx_config_rollback restores the ports of every task that has some,
\* jmx_config_apply only after it tried to change them.
AfterNetwork(w) ==
  IF task[req[w].t].mutating /\ (req[w].op = "rollback" \/ req[w].portErr)
  THEN "undo_ports" ELSE "record"

\* The restore, or the first one of two, has ended.
UndoNext(w, ok) ==
  IF req[w].again THEN [req EXCEPT ![w].pc = "undo", ![w].again = FALSE]
  ELSE [req EXCEPT ![w].pc = AfterNetwork(w), ![w].ok = ok]

UndoOpen(w) ==
  /\ req[w].pc = "undo"
  /\ task[req[w].t].snapOk
  /\ file' = Torn
  /\ Goto(w, "copy")
  /\ UNCHANGED <<runtime, ports, task, sup, faults>>
  /\ Watch

UndoCopied(w) ==
  /\ req[w].pc = "copy"
  /\ file' = task[req[w].t].snap
  /\ Goto(w, "undo_reload")
  /\ UNCHANGED <<runtime, ports, task, sup, faults>>
  /\ Watch

\* No snapshot, or a failing open or write.
UndoCopyFails(w) ==
  /\ req[w].pc \in {"undo", "copy"}
  /\ IF task[req[w].t].snapOk THEN Fault ELSE UNCHANGED faults
  /\ req' = UndoNext(w, FALSE)
  /\ UNCHANGED <<live, task, sup>>
  /\ Watch

UndoReload(w) ==
  /\ req[w].pc = "undo_reload"
  /\ runtime' = file
  /\ req' = UndoNext(w, TRUE)
  /\ UNCHANGED <<file, ports, task, sup, faults>>
  /\ Watch

\* Only jmx_config_apply takes a failed reload for a failed restore.
ReloadFailureIgnored(w) == FALSE
ReloadFailureCounts(w) == req[w].op = "apply"

UndoReloadFails(w) ==
  /\ req[w].pc = "undo_reload"
  /\ Fault
  /\ runtime' \in {runtime, file}
  /\ req' = UndoNext(w, ~ReloadFailureCounts(w))
  /\ UNCHANGED <<file, ports, task, sup>>
  /\ Watch

UndoPorts(w) ==
  /\ req[w].pc = "undo_ports"
  /\ ports' = task[req[w].t].oldPorts
  /\ Goto(w, "record")
  /\ UNCHANGED <<file, runtime, task, sup, faults>>
  /\ Watch

UndoPortsFails(w) ==
  /\ req[w].pc = "undo_ports"
  /\ Fault
  /\ ports' \in {ports, task[req[w].t].oldPorts}
  /\ req' = [req EXCEPT ![w].pc = "record", ![w].ok = FALSE]
  /\ UNCHANGED <<file, runtime, task, sup>>
  /\ Watch

\* UPDATE ... WHERE state='pending'.
EndTaskAnyState(t, outcome, ok) ==
  [task EXCEPT ![t].state = outcome, ![t].applied = ok]
EndTask(t, outcome, ok) ==
  IF Pending(t) THEN [task EXCEPT ![t].state = outcome, ![t].applied = ok] ELSE task

\* A failed manual rollback leaves the task pending.
UndoRecord(w) ==
  LET t  == req[w].t
      ok == req[w].ok IN
  /\ req[w].pc = "record"
  /\ \/ /\ task' = EndTask(t, IF req[w].op = "apply" THEN "failed"
                              ELSE IF ok THEN "rolled_back" ELSE "pending", ok)
        /\ UNCHANGED faults
     \/ Fault /\ UNCHANGED task
  /\ req' = [req EXCEPT ![w] = IdleRequest]
  /\ UNCHANGED <<live, sup>>
  /\ Watch

-----------------------------------------------------------------------------
(* jmx_config_confirm and jmx_config_rollback *)

Confirm(w, t) ==
  /\ req[w].pc = "idle"
  /\ Pending(t)
  /\ task' = [task EXCEPT ![t].state = "confirmed"]
  /\ UNCHANGED <<live, req, sup, faults>>
  /\ Watch

RollbackBegin(w, t) ==
  /\ req[w].pc = "idle"
  /\ Pending(t)
  /\ req' = [req EXCEPT ![w] = [IdleRequest EXCEPT !.pc = "undo", !.op = "rollback", !.t = t]]
  /\ task' = [task EXCEPT ![t].touched = @ \cup {"webd"}]
  /\ UNCHANGED <<live, sup, faults>>
  /\ Watch

-----------------------------------------------------------------------------
(* The supervisor: auto_rollback_scan and auto_rollback_one *)

\* A row of the scan; without a snapshot the restore fails at once.
ExpiredWithSnapshot(t) == Pending(t) /\ task[t].expired /\ task[t].snapOk
Expired(t) == Pending(t) /\ task[t].expired

ScanRow(t) ==
  /\ sup.pc = "idle"
  /\ Expired(t)
  /\ sup' = [pc |-> IF task[t].snapOk THEN "read" ELSE "update", t |-> t, ok |-> FALSE]
  /\ UNCHANGED <<live, task, req, faults>>
  /\ Watch

\* restore_network_snapshot.
ScanOpen ==
  /\ sup.pc = "read"
  /\ file' = Torn
  /\ task' = [task EXCEPT ![sup.t].touched = @ \cup {"init"}]
  /\ sup' = [sup EXCEPT !.pc = "copy"]
  /\ UNCHANGED <<runtime, ports, req, faults>>
  /\ Watch

ScanCopied ==
  /\ sup.pc = "copy"
  /\ file' = task[sup.t].snap
  /\ sup' = [sup EXCEPT !.pc = "update", !.ok = TRUE]
  /\ UNCHANGED <<runtime, ports, task, req, faults>>
  /\ Watch

ScanCopyFails ==
  /\ sup.pc \in {"read", "copy"}
  /\ Fault
  /\ sup' = [sup EXCEPT !.pc = "update"]
  /\ UNCHANGED <<live, task, req>>
  /\ Watch

\* The scan still reads from the database, so that its UPDATE fails when
\* another process has written since; the row is met again five seconds later.
ScanUpdate ==
  /\ sup.pc = "update"
  /\ \/ /\ task' = EndTask(sup.t, IF sup.ok THEN "rolled_back" ELSE "rollback_failed", sup.ok)
        /\ UNCHANGED faults
     \/ Fault /\ UNCHANGED task
  /\ sup' = IdleSupervisor
  /\ UNCHANGED <<live, req>>
  /\ Watch

-----------------------------------------------------------------------------
(* The clock and failures *)

\* The shortest timeout is 10 seconds; a request needs less from its INSERT
\* to uci_commit, but the reload and the probe may take longer.
Expire(t) ==
  /\ Pending(t)
  /\ ~task[t].expired
  /\ \A w \in Workers : req[w].t = t => req[w].pc # "inserted"
  /\ task' = [task EXCEPT ![t].expired = TRUE]
  /\ UNCHANGED <<live, req, sup, faults>>
  /\ Watch

RequestDies(w) ==
  /\ req[w].pc # "idle"
  /\ Fault
  /\ req' = [req EXCEPT ![w] = IdleRequest]
  /\ UNCHANGED <<live, task, sup>>
  /\ Watch

PowerLoss ==
  /\ Fault
  /\ req' = [w \in Workers |-> IdleRequest]
  /\ sup' = IdleSupervisor
  /\ runtime' = file
  /\ UNCHANGED <<file, ports, task>>
  /\ Watch

-----------------------------------------------------------------------------

ApplyStep(w) ==
  \/ ApplySnapshot(w) \/ \E t \in Tasks : ApplyInsert(w, t)
  \/ ApplyCommit(w) \/ ApplyPrepareFails(w) \/ ApplyReload(w) \/ ApplyVerify(w)
  \/ ApplyNetworkFails(w) \/ ApplyPorts(w) \/ ApplyPortsFails(w)
UndoStep(w) ==
  \/ UndoOpen(w) \/ UndoCopied(w) \/ UndoCopyFails(w) \/ UndoReload(w) \/ UndoReloadFails(w)
  \/ UndoPorts(w) \/ UndoPortsFails(w) \/ UndoRecord(w)
ScanStep == \/ \E t \in Tasks : ScanRow(t)
            \/ ScanOpen \/ ScanCopied \/ ScanCopyFails \/ ScanUpdate

Next == \/ \E w \in Workers :
             \/ \E mutating \in BOOLEAN : ApplyCheck(w, mutating)
             \/ ApplyStep(w) \/ UndoStep(w) \/ RequestDies(w)
             \/ \E t \in Tasks : Confirm(w, t) \/ RollbackBegin(w, t)
        \/ ScanStep
        \/ \E t \in Tasks : Expire(t)
        \/ PowerLoss

Spec == Init /\ [][Next]_vars

\* The supervisor's loop and the requests run, and time passes.
FairSpec == /\ Spec
            /\ WF_vars(ScanStep)
            /\ \A w \in Workers : WF_vars(ApplyStep(w) \/ UndoStep(w))
            /\ \A t \in Tasks : WF_vars(Expire(t))

-----------------------------------------------------------------------------
(* Properties *)

Youngest(t) == task[t].state # "none" /\ \A u \in Tasks : u > t => task[u].state = "none"
Quiet == Copying = {} /\ \A w \in Workers : req[w].pc = "idle"

\* A task that ended with rollback_applied has its snapshot in
\* /etc/config/network, whether the request or the supervisor restored it and
\* whatever failed on the way, and a failed apply that says so has undone the
\* network and the ports too; unless somebody restored without a claim.
AppliedRollbackIsDone ==
  \A t \in Tasks :
    (Youngest(t) /\ ~unclaimed /\ task[t].applied /\ task[t].state \in {"rolled_back", "failed"})
      => /\ file = task[t].snap
         /\ task[t].state = "failed" => runtime = task[t].snap /\ ports = task[t].oldPorts

\* A confirmed change that was reported as applied, and that nobody tried to
\* roll back, is in the file, in the network and in the ports.
ConfirmedIsInEffect ==
  \A t \in Tasks :
    (Youngest(t) /\ ~unclaimed /\ task[t].state = "confirmed" /\ task[t].mutating
       /\ task[t].answered /\ task[t].touched = {})
      => file = t /\ runtime = t /\ ports = t

\* However many requests and the supervisor work on a task, its first outcome
\* stands.
OutcomeFinal ==
  [][\A t \in Tasks : task[t].state \in Terminal => task'[t].state = task[t].state]_vars

\* The supervisor ends every pending task, whatever became of the request that
\* opened it.
EveryTaskEnds == \A t \in Tasks : Pending(t) ~> ~Pending(t)

\* One change is pending at a time.
OnePending == Cardinality({t \in Tasks : Pending(t)}) <= 1

\* Nobody restores a snapshot over a change that was confirmed.
ConfirmedStays ==
  [][\A t \in Tasks : (Youngest(t) /\ task[t].state = "confirmed" /\ task[t].mutating)
                       => file' = file]_vars

\* A task that reads rolled_back with rollback_applied has passed all stages:
\* the file, the network and the ports are restored.
RolledBackIsComplete ==
  \A t \in Tasks :
    (Youngest(t) /\ Quiet /\ task[t].state = "rolled_back" /\ task[t].applied /\ task[t].mutating)
      => /\ file = task[t].snap
         /\ runtime = task[t].snap
         /\ ports = task[t].oldPorts
=============================================================================
