------------------------------- MODULE OtaSlots -------------------------------
(***************************************************************************)
(* Firmware updates of a device with two root slots: the update daemon's    *)
(* preflight, apply worker, boot confirmation, reconciliation and rollback  *)
(* (jmxd/src/otad/otad_firmware.c), the operation ledger (otad_db.c) and    *)
(* the boot state the bootloader reads (otad_topology.c).                   *)
(*                                                                          *)
(* Three stores disagree after a power loss: the bootloader's environment   *)
(* (one block, written and synced at once), the config database and the     *)
(* ledger database.  A database in WAL mode may lose its last commits until *)
(* otad_db_persist_now; confOld and opsOld hold the versions that may       *)
(* come back.  The bootloader's script is not in the repository: Boot is    *)
(* what the daemon expects of it.                                           *)
(***************************************************************************)
EXTENDS Integers

CONSTANTS Slots,          \* the two slots
          Ops,            \* firmware operations; each carries its own build
          None,           \* no slot, no operation, no build
          Torn,           \* an image that is not completely written
          RestartLimit,   \* OTAD_BOOT_RESTART_LIMIT
          Confirmations,  \* OTAD_BOOT_HARD_FAILURE_CONFIRMATIONS
          FaultKinds,     \* subset of {"power", "kill", "env", "daemon", "reboot"}
          Rollbacks,      \* whether the operator may ask for a rollback
          MaxFaults       \* bound: how many faults happen

ASSUME ConstantsAssumption ==
  /\ \E a, b \in Slots : a # b /\ Slots = {a, b}
  /\ None \notin Slots \cup Ops
  /\ Torn \notin Ops \cup {None}
  /\ RestartLimit \in Nat \ {0}
  /\ Confirmations \in Nat \ {0}
  /\ FaultKinds \subseteq {"power", "kill", "env", "daemon", "reboot"}
  /\ Rollbacks \in BOOLEAN
  /\ MaxFaults \in Nat

VARIABLES env,      \* grubenv: active and pending slot, tries left, valid slots
          image,    \* what each slot holds: a build, None for the first one, or Torn
          running,  \* the slot the system runs from, or None
          conf,     \* ota_state and ota_slots
          confOld,  \* earlier versions of conf a power loss may bring back
          ops,      \* ota_operations
          opsOld,
          otad,     \* the daemon: "down", "reconciled", "up"; or inside a handler
          timer,    \* the confirmation timer is armed
          hard,     \* g_otad_hard_failure_confirmations
          worker,   \* the apply worker
          faults    \* faults so far

vars == <<env, image, running, conf, confOld, ops, opsOld, otad, timer, hard, worker, faults>>

Other(s) == CHOOSE t \in Slots : t # s
Idle     == [op |-> None, pc |-> "idle", child |-> FALSE]

\* The ledger states that the unique index counts, and that an apply ends in.
Busy == {"writing", "rebooting"}

Envs == [active : Slots, pending : Slots \cup {None}, tries : 0 .. RestartLimit,
         valid : [Slots -> BOOLEAN]]
Rows == [state : {"good", "pending", "pending_boot", "rolled_back", "failed"},
         build : Ops \cup {None}]

Confs == [pending : Slots \cup {None}, op : Ops \cup {None}, obs : {"none", "young", "old"},
          rolledBack : BOOLEAN, row : [Slots -> Rows]]
Ledgers == [Ops -> [state : {"none", "pending", "writing", "rebooting", "success", "failed"},
                    target : Slots \cup {None}, digest : Envs]]
Workers == [op : Ops \cup {None}, child : BOOLEAN,
            pc : {"idle", "check", "prepare", "write", "finish", "valid", "pending",
                  "rows", "ledger", "opid", "reboot", "clear", "fail"}]

TypeOK ==
  /\ env \in Envs
  /\ image \in [Slots -> Ops \cup {None, Torn}]
  /\ running \in Slots \cup {None}
  /\ conf \in Confs /\ confOld \subseteq Confs
  /\ ops \in Ledgers /\ opsOld \subseteq Ledgers
  /\ otad \in {"down", "reconciled", "up", "promoted", "completed", "cleared",
               "undone", "unrecorded"}
  /\ timer \in BOOLEAN
  /\ hard \in 0 .. Confirmations
  /\ worker \in Workers
  /\ faults \in 0 .. MaxFaults

Init ==
  /\ \E s \in Slots :
       /\ env = [active |-> s, pending |-> None, tries |-> 0, valid |-> [t \in Slots |-> t = s]]
       /\ running = s
  /\ image = [s \in Slots |-> IF s = env.active THEN None ELSE Torn]
  /\ conf = [pending |-> None, op |-> None, obs |-> "none", rolledBack |-> FALSE,
             row |-> [s \in Slots |-> [state |-> "good", build |-> None]]]
  /\ ops = [o \in Ops |-> [state |-> "none", target |-> None, digest |-> env]]
  /\ confOld = {} /\ opsOld = {}
  /\ otad = "up" /\ timer = FALSE /\ hard = 0
  /\ worker = Idle
  /\ faults = 0

-----------------------------------------------------------------------------
(* The three stores *)

\* A fault of this kind happens.
Fault(kind) ==
  /\ kind \in FaultKinds
  /\ faults < MaxFaults
  /\ faults' = faults + 1

\* Commits to the config database and to the ledger.
Conf(c) == conf' = c /\ confOld' = confOld \cup {conf}
Ledger(l) == ops' = l /\ opsOld' = opsOld \cup {ops}

\* otad_operation_transition_ok.
MayMove(from, to) ==
  \/ from = "pending" /\ to \in {"writing", "failed"}
  \/ from = "writing" /\ to \in {"rebooting", "failed"}
  \/ from = "rebooting" /\ to = "failed"

\* otad_operation_update.
Updated(l, o, to) == IF MayMove(l[o].state, to) THEN [l EXCEPT ![o].state = to] ELSE l

\* otad_grubenv_set_args: a failure is reported by the command or by the sync,
\* so the block may have been written all the same.
EnvSet(e) == env' = e /\ UNCHANGED faults
EnvFails(e) == Fault("env") /\ env' \in {env, e}

Invalidated(s) == [active |-> env.active, pending |-> None, tries |-> 0,
                   valid |-> [env.valid EXCEPT ![s] = FALSE]]
Deselected == [env EXCEPT !.pending = None, !.tries = 0]

\* topology_boot_state_parse: the environment makes sense to a system that
\* runs from slot s.
Coherent(s) ==
  /\ env.valid[env.active] /\ env.valid[s]
  /\ IF env.pending = None
     THEN s = env.active /\ env.tries = 0
     ELSE /\ env.pending # env.active /\ env.valid[env.pending]
          /\ s \in {env.active, env.pending}

\* topology_inactive_kernel_verify.
Bootable(s) == env.valid[s] /\ image[s] # Torn

-----------------------------------------------------------------------------
(* Requests: preflight, apply, rollback *)

\* otad_firmware_preflight, of a release that passes; any other leaves only a
\* failed operation.  The digest covers the whole boot state.
Preflight(o) ==
  /\ otad = "up" /\ ops[o].state = "none"
  /\ Coherent(running)
  /\ Ledger([ops EXCEPT ![o] = [state |-> "pending", target |-> Other(running), digest |-> env]])
  /\ UNCHANGED <<env, image, running, conf, confOld, otad, timer, hard, worker, faults>>

\* The unique index lets one apply be busy.
ClaimableAnyState(o) == ops[o].state = "pending"
Claimable(o) == ops[o].state = "pending" /\ \A q \in Ops : ops[q].state \notin Busy

\* otad_firmware_apply.
Apply(o) ==
  /\ otad = "up"
  /\ Claimable(o)
  /\ \/ /\ worker = Idle
        /\ worker' = [op |-> o, pc |-> "check", child |-> TRUE]
        /\ Ledger([ops EXCEPT ![o].state = "writing"])
     \/ /\ worker' = worker
        /\ Ledger([ops EXCEPT ![o].state = "failed"])
  /\ UNCHANGED <<env, image, running, conf, confOld, otad, timer, hard, faults>>

\* otad_firmware_rollback: the ledger's active operation fails.
Rollback ==
  LET candidate == env.pending # None /\ env.pending # running
      ended == IF \E o \in Ops : ops[o].state \in Busy
               THEN [o \in Ops |-> IF ops[o].state \in Busy
                                   THEN [ops[o] EXCEPT !.state = "failed"] ELSE ops[o]]
               ELSE ops
      cleared == [conf EXCEPT !.pending = None, !.op = None, !.obs = "none",
                              !.rolledBack = FALSE]
      target == IF candidate THEN Invalidated(env.pending)
                ELSE Deselected
  IN
  /\ Rollbacks
  /\ otad = "up"
  /\ Coherent(running) /\ Bootable(Other(running))
  /\ \/ /\ EnvSet(target)
        /\ Conf(IF candidate THEN [cleared EXCEPT !.row[env.pending].state = "rolled_back"]
                ELSE cleared)
        /\ Ledger(ended)
     \/ EnvFails(target) /\ UNCHANGED <<conf, confOld, ops, opsOld>>
  /\ UNCHANGED <<image, running, otad, timer, hard, worker>>

-----------------------------------------------------------------------------
(* otad_firmware_apply_worker *)

Target == ops[worker.op].target
At(pc) == worker.pc = pc /\ running # None
To(pc) == worker' = [worker EXCEPT !.pc = pc]

\* The binding is verified again, and what was decided is flushed; or the upload
\* does not pass any more, which the earliest of the checks note in the state too.
WorkerCheck ==
  /\ At("check")
  /\ \/ /\ ops[worker.op].state = "writing"
        /\ Coherent(running) /\ env = ops[worker.op].digest /\ Target = Other(running)
        /\ To("prepare")
        /\ confOld' = {} /\ opsOld' = {}
        /\ UNCHANGED <<conf, ops>>
     \/ /\ worker' = Idle
        /\ Ledger(Updated(ops, worker.op, "failed"))
        /\ UNCHANGED <<conf, confOld>> \/ Conf([conf EXCEPT !.rolledBack = FALSE])
  /\ UNCHANGED <<env, image, running, otad, timer, hard, faults>>

\* The target slot stops being selectable before it is written.
PreparedPendingOnly == Deselected
Prepared == Invalidated(Target)

WorkerPrepare ==
  /\ At("prepare")
  /\ \/ EnvSet(Prepared) /\ To("write") /\ UNCHANGED <<ops, opsOld>>
     \/ /\ EnvFails(Prepared)
        /\ worker' = Idle
        /\ Ledger(Updated(ops, worker.op, "failed"))
  /\ UNCHANGED <<image, running, conf, confOld, otad, timer, hard>>

\* The slot is opened and written, or cannot be opened.
WorkerWrite ==
  /\ At("write")
  /\ \/ /\ image' = [image EXCEPT ![Target] = Torn]
        /\ Conf([conf EXCEPT !.rolledBack = FALSE])
        /\ To("finish")
     \/ UNCHANGED <<image, conf, confOld>> /\ To("clear")
  /\ UNCHANGED <<env, running, ops, opsOld, otad, timer, hard, faults>>

\* The slot reads back as the release, or some step of it failed.
WorkerFinish ==
  /\ At("finish")
  /\ \/ image' = [image EXCEPT ![Target] = worker.op] /\ To("valid")
     \/ UNCHANGED image /\ To("clear")
  /\ UNCHANGED <<env, running, conf, confOld, ops, opsOld, otad, timer, hard, faults>>

WorkerValid ==
  LET e == [env EXCEPT !.valid[Target] = TRUE] IN
  /\ At("valid")
  /\ (EnvSet(e) /\ To("pending")) \/ (EnvFails(e) /\ To("clear"))
  /\ UNCHANGED <<image, running, conf, confOld, ops, opsOld, otad, timer, hard>>

\* otad_grubenv_set_pending.
Selected == [env EXCEPT !.pending = Target, !.tries = RestartLimit]

WorkerPending ==
  /\ At("pending")
  /\ (EnvSet(Selected) /\ To("rows")) \/ (EnvFails(Selected) /\ To("clear"))
  /\ UNCHANGED <<image, running, conf, confOld, ops, opsOld, otad, timer, hard>>

WorkerRows ==
  /\ At("rows")
  /\ Conf([conf EXCEPT !.row[Target] = [state |-> "pending", build |-> worker.op],
                       !.pending = Target, !.obs = "none", !.rolledBack = FALSE])
  /\ To("ledger")
  /\ UNCHANGED <<env, image, running, ops, opsOld, otad, timer, hard, faults>>

WorkerLedger ==
  /\ At("ledger")
  /\ IF MayMove(ops[worker.op].state, "rebooting")
     THEN Ledger(Updated(ops, worker.op, "rebooting")) /\ To("opid")
     ELSE UNCHANGED <<ops, opsOld>> /\ To("clear")
  /\ UNCHANGED <<env, image, running, conf, confOld, otad, timer, hard, faults>>

\* The operation id is stored; without auto_reboot the worker is done.
WorkerOpId ==
  /\ At("opid")
  /\ Conf([conf EXCEPT !.op = worker.op])
  /\ To("reboot") \/ worker' = Idle
  /\ UNCHANGED <<env, image, running, ops, opsOld, otad, timer, hard, faults>>

\* The system goes down in order: databases are closed.
Down ==
  /\ running' = None
  /\ otad' = "down" /\ timer' = FALSE /\ hard' = 0
  /\ worker' = Idle
  /\ confOld' = {} /\ opsOld' = {}

WorkerReboot ==
  /\ At("reboot")
  /\ Down
  /\ UNCHANGED <<env, image, conf, ops, faults>>

\* The reboot request fails: the candidate is withdrawn, if grubenv can be written.
WorkerRebootFails ==
  /\ At("reboot")
  /\ Fault("reboot")
  /\ \/ env' = Invalidated(Target) /\ Conf([conf EXCEPT !.pending = None])
     \/ UNCHANGED <<env, conf, confOld>>
  /\ Ledger(Updated(ops, worker.op, "failed"))
  /\ worker' = Idle
  /\ UNCHANGED <<image, running, otad, timer, hard>>

\* The fail path: a failure to clear the environment is ignored.
WorkerClear ==
  /\ At("clear")
  /\ EnvSet(Invalidated(Target)) \/ EnvFails(Invalidated(Target))
  /\ To("fail")
  /\ UNCHANGED <<image, running, conf, confOld, ops, opsOld, otad, timer, hard>>

WorkerFails ==
  /\ At("fail")
  /\ Conf([conf EXCEPT !.pending = None, !.rolledBack = FALSE,
                       !.row[Target] = [state |-> "failed", build |-> worker.op]])
  /\ Ledger(Updated(ops, worker.op, "failed"))
  /\ worker' = Idle
  /\ UNCHANGED <<env, image, running, otad, timer, hard, faults>>

\* otad_operation_process_done: the daemon that started the worker sees it die.
WorkerDies ==
  /\ worker # Idle
  /\ Fault("kill")
  /\ worker' = Idle
  /\ IF worker.child /\ ops[worker.op].state = "writing"
     THEN Ledger(Updated(ops, worker.op, "failed")) ELSE UNCHANGED <<ops, opsOld>>
  /\ UNCHANGED <<env, image, running, conf, confOld, otad, timer, hard>>

-----------------------------------------------------------------------------
(* Boot: the bootloader, the daemon's reconciliation *)

\* The system stops at once: commits that are not flushed may be lost, those of
\* one database independently of those of the other.
Stop ==
  /\ running # None
  /\ running' = None
  /\ otad' = "down" /\ timer' = FALSE /\ hard' = 0
  /\ worker' = Idle
  /\ conf' \in confOld \cup {conf} /\ confOld' = {}
  /\ ops' \in opsOld \cup {ops} /\ opsOld' = {}
  /\ UNCHANGED <<env, image>>

Boot ==
  /\ running = None
  /\ IF env.pending # None /\ env.tries > 0
     THEN running' = env.pending /\ env' = [env EXCEPT !.tries = @ - 1]
     ELSE running' = env.active /\ env' = Deselected
  /\ UNCHANGED <<image, conf, confOld, ops, opsOld, otad, timer, hard, worker, faults>>

\* A system that does not come up to the daemon is reset: always when its image
\* is torn, perhaps when it is a candidate.
Hang ==
  /\ otad = "down"
  /\ Stop
  /\ image[running] = Torn \/ running # env.active
  /\ UNCHANGED faults

\* The row of a candidate that is tried, or given up.
Marked(row, s, state) ==
  IF row[s].state \in {"pending", "pending_boot"} THEN [row EXCEPT ![s].state = state] ELSE row

\* otad_operation_complete_confirmed_boot: of the operations waiting for slot s,
\* the one with this id and this build, where they are known.
Waiting(o, s) == ops[o].target = s /\ ops[o].state = "rebooting"
ConfirmedAny(s, expected, build) ==
  [o \in Ops |-> IF ops[o].state = "rebooting" THEN [ops[o] EXCEPT !.state = "success"] ELSE ops[o]]
Confirmed(s, expected, build) ==
  [o \in Ops |-> IF /\ Waiting(o, s)
                    /\ expected \in {None, o} /\ build \in {None, o}
                 THEN [ops[o] EXCEPT !.state = "success"] ELSE ops[o]]

\* otad_operation_complete_automatic_rollback.
GivenUp(s, expected) ==
  [o \in Ops |-> IF /\ Waiting(o, s)
                    /\ \/ expected \in {None, o}
                       \/ \A q \in Ops : Waiting(q, s) => q = o
                 THEN [ops[o] EXCEPT !.state = "failed"] ELSE ops[o]]

\* GRUB's pending slot is authoritative.
ReconcilePending ==
  LET tried == env.pending = running IN
  /\ env.pending # None
  /\ Conf([conf EXCEPT !.pending = env.pending,
                       !.rolledBack = FALSE,
                       !.obs = IF tried /\ @ = "none" THEN "young" ELSE @,
                       !.row = IF tried THEN Marked(@, running, "pending_boot") ELSE @])
  /\ UNCHANGED <<ops, opsOld>>

\* Nothing is pending: an interrupted rollback is recorded, or a confirmation
\* whose slot is good.
ReconcileSettled ==
  LET stale == conf.rolledBack /\ conf.row[Other(running)].state = "rolled_back"
      known == conf.row[running].state = "good" /\ conf.row[running].build # None
      undone == GivenUp(Other(running), conf.op)
      confirmed == Confirmed(running, None, conf.row[running].build)
  IN
  /\ env.pending = None /\ conf.pending = None
  /\ IF stale THEN Conf([conf EXCEPT !.op = None, !.obs = "none"])
              ELSE UNCHANGED <<conf, confOld>>
  /\ Ledger([o \in Ops |->
               IF stale /\ undone[o] # ops[o] THEN undone[o]
               ELSE IF known THEN confirmed[o] ELSE ops[o]])

\* The bootloader gave the candidate up.
GivesUpAnySlot == env.pending = None /\ conf.pending # None
GivesUp == env.pending = None /\ conf.pending \notin {None, running}

ReconcileRolledBack ==
  /\ GivesUp
  /\ Conf([conf EXCEPT !.pending = None, !.op = None, !.obs = "none", !.rolledBack = TRUE,
                       !.row = Marked(@, conf.pending, "rolled_back")])
  /\ Ledger(GivenUp(conf.pending, conf.op))

\* otad_reconcile_boot_state.
Reconcile ==
  /\ running # None /\ image[running] # Torn
  /\ otad = "down"
  /\ IF Coherent(running)
     THEN \/ ReconcilePending
          \/ ReconcileSettled
          \/ ReconcileRolledBack
          \/ /\ env.pending = None /\ conf.pending = running
             /\ UNCHANGED <<conf, confOld, ops, opsOld>>
     ELSE UNCHANGED <<conf, confOld, ops, opsOld>>
  /\ otad' = "reconciled"
  /\ UNCHANGED <<env, image, running, timer, hard, worker, faults>>

\* The reconciliation of a trial or of a rollback is flushed, that of anything else
\* is not; then otad_confirm_timer_start.
Flushes == Coherent(running) /\ (env.pending = running \/ conf.rolledBack)

Start ==
  /\ otad = "reconciled"
  /\ otad' = "up"
  /\ IF Flushes THEN confOld' = {} /\ opsOld' = {} ELSE UNCHANGED <<confOld, opsOld>>
  /\ timer' = (conf.pending = running /\ Coherent(running))
  /\ UNCHANGED <<env, image, running, conf, ops, hard, worker, faults>>

-----------------------------------------------------------------------------
(* otad_confirm_boot and otad_confirm_timer_cb *)

\* Ten minutes after the observation was started.
WindowEnds ==
  LET aged(c) == IF c.obs = "young" THEN [c EXCEPT !.obs = "old"] ELSE c IN
  /\ conf.obs = "young"
  /\ conf' = aged(conf)
  /\ confOld' = {aged(c) : c \in confOld}
  /\ UNCHANGED <<env, image, running, ops, opsOld, otad, timer, hard, worker, faults>>

Trial == otad = "up" /\ conf.pending = running /\ Coherent(running)

\* Every service is ready, inside the window.
CheckReady ==
  /\ Trial
  /\ conf.obs # "old"
  /\ hard' \in {hard, 0}
  /\ IF conf.obs = "none" THEN Conf([conf EXCEPT !.obs = "young"])
                          ELSE UNCHANGED <<conf, confOld>>
  /\ UNCHANGED <<env, image, running, ops, opsOld, otad, timer, worker, faults>>

\* ... and after it: the slot is promoted.
PromotedSlotOnly == [env EXCEPT !.active = running, !.tries = 0, !.valid[running] = TRUE]
Promoted == [active |-> running, pending |-> None, tries |-> 0,
             valid |-> [env.valid EXCEPT ![running] = TRUE]]

CheckConfirms ==
  /\ Trial
  /\ conf.obs = "old"
  /\ \/ EnvSet(Promoted) /\ otad' = "promoted"
     \/ EnvFails(Promoted) /\ UNCHANGED otad
  /\ UNCHANGED <<image, running, conf, confOld, ops, opsOld, timer, hard, worker>>

ConfirmLedger ==
  /\ otad = "promoted"
  /\ Ledger(Confirmed(running, conf.op, None))
  /\ otad' = "completed"
  /\ UNCHANGED <<env, image, running, conf, confOld, timer, hard, worker, faults>>

ConfirmState ==
  /\ otad = "completed"
  /\ Conf([conf EXCEPT !.pending = None, !.op = None, !.obs = "none", !.rolledBack = FALSE])
  /\ otad' = "cleared"
  /\ UNCHANGED <<env, image, running, ops, opsOld, timer, hard, worker, faults>>

ConfirmRow ==
  /\ otad = "cleared"
  /\ Conf([conf EXCEPT !.row[running].state = "good"])
  /\ otad' = "up" /\ timer' \in {FALSE, timer} /\ hard' = 0
  /\ UNCHANGED <<env, image, running, ops, opsOld, worker, faults>>

\* A failure that does not call for a rollback, or no trial at all.
CheckSoft ==
  /\ otad = "up" /\ timer
  /\ hard' = 0
  /\ UNCHANGED <<env, image, running, conf, confOld, ops, opsOld, otad, timer, worker, faults>>

\* The same hard failure again, or a different one.
CheckHard ==
  /\ timer /\ Trial
  /\ hard' \in {1, hard + 1}
  /\ hard' < Confirmations
  /\ UNCHANGED <<env, image, running, conf, confOld, ops, opsOld, otad, timer, worker, faults>>

\* otad_pending_boot_rollback.
MayUndo == env.pending = running /\ env.active # running /\ Bootable(Other(running))
UndoneStillPending == [env EXCEPT !.valid[running] = FALSE, !.valid[env.active] = TRUE]
Undone == [active |-> env.active, pending |-> None, tries |-> 0,
           valid |-> [env.valid EXCEPT ![running] = FALSE, ![env.active] = TRUE]]

CheckUndoes ==
  /\ timer /\ Trial
  /\ hard + 1 = Confirmations
  /\ hard' = Confirmations
  /\ timer' = FALSE
  /\ IF MayUndo
     THEN \/ EnvSet(Undone) /\ otad' = "undone"
          \/ EnvFails(Undone) /\ UNCHANGED otad
     ELSE UNCHANGED <<env, otad, faults>>
  /\ UNCHANGED <<image, running, conf, confOld, ops, opsOld, worker>>

UndoLedger ==
  /\ otad = "undone"
  /\ Conf([conf EXCEPT !.row = Marked(@, running, "rolled_back")])
  /\ Ledger(GivenUp(running, conf.op))
  /\ otad' = "unrecorded"
  /\ UNCHANGED <<env, image, running, timer, hard, worker, faults>>

\* The state is flushed and the system reboots; a request that fails is noted over it.
UndoReboot ==
  LET flushed == [conf EXCEPT !.pending = None, !.op = None, !.obs = "none",
                              !.rolledBack = TRUE] IN
  /\ otad = "unrecorded"
  /\ \/ Down /\ conf' = flushed /\ UNCHANGED faults
     \/ /\ Fault("reboot")
        /\ conf' = [flushed EXCEPT !.rolledBack = FALSE] /\ confOld' = {flushed}
        /\ otad' = "up" /\ opsOld' = {}
        /\ UNCHANGED <<running, timer, hard, worker>>
  /\ UNCHANGED <<env, image, ops>>

-----------------------------------------------------------------------------
(* Environment *)

\* The operator reboots into what was selected.
UserReboot ==
  /\ otad = "up" /\ worker = Idle
  /\ running # (IF env.pending # None THEN env.pending ELSE env.active)
  /\ Down
  /\ UNCHANGED <<env, image, conf, ops, faults>>

PowerLoss == Stop /\ Fault("power")

\* The daemon dies; a worker goes on without it.
DaemonDies ==
  /\ running # None /\ otad # "down"
  /\ Fault("daemon")
  /\ otad' = "down" /\ timer' = FALSE /\ hard' = 0
  /\ worker' = [worker EXCEPT !.child = FALSE]
  /\ UNCHANGED <<env, image, running, conf, confOld, ops, opsOld>>

Worker ==
  \/ WorkerCheck \/ WorkerPrepare \/ WorkerWrite \/ WorkerFinish \/ WorkerValid
  \/ WorkerPending \/ WorkerRows \/ WorkerLedger \/ WorkerOpId \/ WorkerReboot
  \/ WorkerClear \/ WorkerFails

Confirm == ConfirmLedger \/ ConfirmState \/ ConfirmRow
Undo == UndoLedger \/ UndoReboot

\* What the confirmation finds, and every other step.
Check == CheckReady \/ CheckConfirms \/ CheckSoft \/ CheckHard \/ CheckUndoes

Unchecked ==
  \/ \E o \in Ops : Preflight(o) \/ Apply(o)
  \/ Rollback
  \/ Worker \/ WorkerRebootFails \/ WorkerDies
  \/ Boot \/ Hang \/ Reconcile \/ Start
  \/ WindowEnds \/ Confirm \/ Undo
  \/ UserReboot \/ PowerLoss \/ DaemonDies

Next == Unchecked \/ Check

Spec == Init /\ [][Next]_vars

-----------------------------------------------------------------------------
(* Properties *)

\* Whatever interrupts the worker, a slot that is not completely written is
\* neither valid nor pending for the bootloader (otad_grubenv_prepare_target
\* before the write, otad_grubenv_set_slot_valid after the read-back).
TornNeverSelectable ==
  \A s \in Slots : image[s] = Torn => ~env.valid[s] /\ env.pending # s

\* The slot the bootloader falls back to holds a complete image: a device never
\* ends without one to start (apply worker, promotion and rollback together).
ActiveStaysBootable == Bootable(env.active)

\* "Slot writes are restricted to verified inactive A/B slots" (otad_main.c:2).
WritesInactive == worker.pc = "write" => Target # env.active

\* An operation that waits for its reboot has its own build in the slot it chose,
\* however many operations were prepared or interrupted besides
\* (otad_operation_claim_apply and its unique index).
RebootingIsWritten == \A o \in Ops : ops[o].state = "rebooting" => image[ops[o].target] = o

\* An update is a success only when its own build is what the bootloader starts
\* from now on, however long after the promotion that is recorded
\* (otad_confirm_boot and otad_reconcile_boot_state).
SuccessIsPromoted ==
  [][\A o \in Ops : ops'[o].state = "success" /\ ops[o].state # "success" =>
       /\ env.active = ops[o].target /\ env.pending = None
       /\ image[env.active] = o]_vars

\* A candidate that is given up is no longer selectable, and its operation is not
\* reported as a success (otad_operation_complete_automatic_rollback).
FailedIsNotActive ==
  \A o \in Ops : ops[o].state = "failed" => image[env.active] # o

\* A device comes up in a boot state that its daemon accepts: in any other it
\* could neither confirm nor roll back (topology_boot_state_parse).
ComesUpCoherent == otad = "reconciled" => Coherent(running)

\* "another firmware write or reboot is active" (otad_firmware_apply): an apply
\* is refused because of one that is still going on.
BusyMeansActive ==
  otad = "up" /\ worker = Idle /\ running = env.active
      /\ env.pending = None /\ conf.pending = None
    => \A o \in Ops : ops[o].state \notin Busy
=============================================================================
