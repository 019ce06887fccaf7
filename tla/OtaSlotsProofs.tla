---------------------------- MODULE OtaSlotsProofs ----------------------------
(* Proofs about OtaSlots, for every set of operations and any restart limit.    *)
(* The first two parts hold under every kind and number of faults; the last one *)
(* is about a device that loses its power any number of times, where nothing    *)
(* else fails and the operator asks for no rollback.                            *)
EXTENDS OtaSlots, TLAPS

LEMMA TwoSlots ==
  ASSUME NEW s \in Slots
  PROVE  /\ Other(s) \in Slots /\ Other(s) # s
         /\ \A t \in Slots : t # s => t = Other(s)
<1>1. \E t \in Slots : t # s
  BY ConstantsAssumption DEF ConstantsAssumption
<1>2. Other(s) \in Slots /\ Other(s) # s
  BY <1>1 DEF Other
<1> QED
  BY <1>2, ConstantsAssumption DEF ConstantsAssumption

-----------------------------------------------------------------------------
(* The three stores keep their types. *)

LEMMA ConfTyped ==
  ASSUME conf \in Confs, confOld \subseteq Confs, NEW c \in Confs, Conf(c)
  PROVE  conf' \in Confs /\ confOld' \subseteq Confs
BY DEF Conf

LEMMA LedgerTyped ==
  ASSUME ops \in Ledgers, opsOld \subseteq Ledgers, NEW l \in Ledgers, Ledger(l)
  PROVE  ops' \in Ledgers /\ opsOld' \subseteq Ledgers
BY DEF Ledger

LEMMA RowTyped ==
  ASSUME NEW c \in Confs, NEW s \in Slots,
         NEW state \in {"good", "pending", "pending_boot", "rolled_back", "failed"}
  PROVE  [c EXCEPT !.row[s].state = state] \in Confs
<1>1. [c.row[s] EXCEPT !.state = state] \in Rows
  BY DEF Confs, Rows
<1>2. [c.row EXCEPT ![s].state = state] \in [Slots -> Rows]
  BY <1>1 DEF Confs
<1> QED
  BY <1>2 DEF Confs

\* What may replace a ledger: no operation is forgotten or changes its slot.
Follows(l, k) ==
  /\ k \in Ledgers
  /\ \A o \in Ops : /\ k[o].target = l[o].target
                    /\ l[o].state # "none" => k[o].state # "none"

LEMMA UpdatedFollows ==
  ASSUME NEW l \in Ledgers, NEW o \in Ops, NEW to \in {"rebooting", "failed"}
  PROVE  Follows(l, Updated(l, o, to))
<1>1. CASE MayMove(l[o].state, to)
  BY <1>1 DEF Follows, Updated, Ledgers
<1>2. CASE ~MayMove(l[o].state, to)
  BY <1>2 DEF Follows, Updated, Ledgers
<1> QED
  BY <1>1, <1>2

LEMMA EndedFollows ==
  ASSUME NEW l \in Ledgers, NEW to \in {"success", "failed"}, NEW S \in SUBSET Ops,
         \A o \in S : l[o].state # "none"
  PROVE  Follows(l, [o \in Ops |-> IF o \in S THEN [l[o] EXCEPT !.state = to] ELSE l[o]])
BY DEF Follows, Ledgers

\* An environment that selects nothing e did not.
Shrinks(e, f) ==
  /\ f \in Envs
  /\ f.pending \in {e.pending, None}
  /\ \A s \in Slots : f.valid[s] => e.valid[s]

LEMMA InvalidatedShrinks ==
  ASSUME env \in Envs, NEW s \in Slots
  PROVE  /\ Shrinks(env, Invalidated(s))
         /\ ~Invalidated(s).valid[s] /\ Invalidated(s).pending # s
BY ConstantsAssumption DEF Shrinks, Invalidated, Envs, ConstantsAssumption

LEMMA DeselectedShrinks ==
  ASSUME env \in Envs
  PROVE  Shrinks(env, Deselected)
<1>1. Deselected \in Envs
  <2>1. 0 \in 0 .. RestartLimit /\ None \in Slots \cup {None}
    BY ConstantsAssumption DEF ConstantsAssumption
  <2> QED
    BY <2>1 DEF Deselected, Envs
<1> QED
  BY <1>1 DEF Shrinks, Deselected, Envs

LEMMA EnvStep ==
  ASSUME env \in Envs, faults \in 0 .. MaxFaults, NEW e \in Envs, EnvSet(e) \/ EnvFails(e)
  PROVE  env' \in {env, e} /\ faults' \in 0 .. MaxFaults
BY ConstantsAssumption DEF EnvSet, EnvFails, Fault, ConstantsAssumption

-----------------------------------------------------------------------------
(* The inductive invariant *)

\* The daemon runs only in a system that does.  A worker that has claimed its slot
\* keeps it unselectable until the image is complete.
WorkerInv ==
  /\ otad # "down" => running # None
  /\ worker.pc = "idle" => worker = Idle
  /\ worker.pc # "idle" =>
       worker.op \in Ops /\ running # None /\ ops[worker.op].state # "none"
  /\ worker.pc \notin {"idle", "check"} => Target \in Slots
  /\ worker.pc \in {"write", "finish"} => ~env.valid[Target] /\ env.pending # Target
  /\ worker.pc \in {"valid", "pending"} => image[Target] # Torn

IInv == TypeOK /\ WorkerInv /\ TornNeverSelectable

\* A step outside the worker writes no slot and selects none.
LEMMA QuietStep ==
  ASSUME IInv, image' = image, Shrinks(env, env'), otad' # "down" => running' # None,
         \/ worker' = Idle
         \/ /\ worker'.pc = worker.pc /\ worker'.op = worker.op
            /\ worker.pc = "idle" => worker' = Idle
            /\ running' = running /\ Follows(ops, ops')
  PROVE  WorkerInv' /\ TornNeverSelectable'
<1>1. TornNeverSelectable'
  BY ConstantsAssumption DEF IInv, TornNeverSelectable, Shrinks, ConstantsAssumption
<1>2. CASE worker' = Idle
  BY <1>1, <1>2 DEF IInv, WorkerInv, Idle
<1>3. CASE worker'.pc = worker.pc /\ worker'.op = worker.op
           /\ (worker.pc = "idle" => worker' = Idle)
           /\ running' = running /\ Follows(ops, ops')
  <2>1. worker.pc # "idle" => Target' = Target
    BY <1>3 DEF IInv, WorkerInv, Target, Follows
  <2> QED
    BY <1>1, <1>3, <2>1, ConstantsAssumption
    DEF IInv, WorkerInv, Follows, Shrinks, ConstantsAssumption
<1> QED
  BY <1>2, <1>3

LEMMA InitIInv == ASSUME Init PROVE IInv
<1>1. PICK s \in Slots : /\ env = [active |-> s, pending |-> None, tries |-> 0,
                                   valid |-> [t \in Slots |-> t = s]]
                         /\ running = s
  BY DEF Init
<1>2. env \in Envs
  BY <1>1, ConstantsAssumption DEF Envs, ConstantsAssumption
<1>3. ops \in Ledgers
  BY <1>2 DEF Init, Ledgers
<1>4. conf \in Confs
  BY DEF Init, Confs, Rows
<1>5. TypeOK
  <2>1. image \in [Slots -> Ops \cup {None, Torn}]
    BY DEF Init
  <2>2. hard \in 0 .. Confirmations /\ faults \in 0 .. MaxFaults
    BY ConstantsAssumption DEF Init, ConstantsAssumption
  <2>3. worker \in Workers
    BY DEF Init, Workers, Idle
  <2> QED
    BY <1>1, <1>2, <1>3, <1>4, <2>1, <2>2, <2>3 DEF Init, TypeOK
<1>6. WorkerInv
  BY <1>1, ConstantsAssumption DEF Init, WorkerInv, Idle, ConstantsAssumption
<1>7. TornNeverSelectable
  BY <1>1, ConstantsAssumption DEF Init, TornNeverSelectable, ConstantsAssumption
<1> QED
  BY <1>5, <1>6, <1>7 DEF IInv

\* Nothing changes in the environment or in the ledger.
LEMMA Unchanged ==
  ASSUME TypeOK
  PROVE  Shrinks(env, env) /\ Follows(ops, ops)
BY DEF TypeOK, Shrinks, Follows

-----------------------------------------------------------------------------
(* Requests *)

LEMMA PreflightStep ==
  ASSUME IInv, NEW o \in Ops, Preflight(o)
  PROVE  IInv'
<1> DEFINE l == [ops EXCEPT ![o] = [state |-> "pending", target |-> Other(running), digest |-> env]]
<1>1. Other(running) \in Slots \cup {None}
  <2>1. running \in Slots
    BY ConstantsAssumption DEF Preflight, Coherent, IInv, TypeOK, Envs, ConstantsAssumption
  <2> QED
    BY <2>1, TwoSlots
<1>2. l \in Ledgers
  BY <1>1 DEF IInv, TypeOK, Ledgers
<1>3. TypeOK'
  BY <1>2, LedgerTyped DEF IInv, TypeOK, Preflight
<1>4. Shrinks(env, env')
  BY Unchanged DEF Preflight, IInv
<1>5. worker.pc # "idle" => Target' = Target /\ ops'[worker.op].state # "none"
  BY DEF Preflight, IInv, TypeOK, WorkerInv, Ledger, Ledgers, Target
<1> QED
  BY <1>3, <1>5 DEF Preflight, IInv, WorkerInv, TornNeverSelectable

LEMMA ApplyStep ==
  ASSUME IInv, NEW o \in Ops, Apply(o)
  PROVE  IInv'
<1>1. /\ [ops EXCEPT ![o].state = "writing"] \in Ledgers
      /\ [ops EXCEPT ![o].state = "failed"] \in Ledgers
  BY DEF IInv, TypeOK, Ledgers
<1>2. ops' \in Ledgers /\ opsOld' \subseteq Ledgers
  BY <1>1, LedgerTyped DEF Apply, IInv, TypeOK
<1>3. worker' \in Workers
  <2>1. [op |-> o, pc |-> "check", child |-> TRUE] \in Workers
    BY DEF Workers
  <2> QED
    BY <2>1 DEF Apply, IInv, TypeOK
<1>4. TypeOK'
  BY <1>2, <1>3 DEF Apply, IInv, TypeOK
<1>5. CASE worker' = worker
  <2>1. Follows(ops, ops')
    BY <1>1, <1>2, <1>5 DEF Apply, Follows, IInv, TypeOK, Ledger, Ledgers
  <2> QED
    BY <1>4, <1>5, <2>1, QuietStep, Unchanged DEF Apply, IInv, WorkerInv
<1>6. CASE worker' = [op |-> o, pc |-> "check", child |-> TRUE] /\ ops'[o].state = "writing"
  BY <1>4, <1>6 DEF Apply, IInv, WorkerInv, TornNeverSelectable
<1> QED
  BY <1>5, <1>6 DEF Apply, Ledger, IInv, TypeOK, Ledgers

LEMMA RollbackStep ==
  ASSUME IInv, Rollback
  PROVE  IInv'
<1> DEFINE candidate == env.pending # None /\ env.pending # running
           busy == {o \in Ops : ops[o].state \in Busy}
           ended == [o \in Ops |->
                       IF o \in busy THEN [ops[o] EXCEPT !.state = "failed"] ELSE ops[o]]
           cleared == [conf EXCEPT !.pending = None, !.op = None, !.obs = "none",
                                   !.rolledBack = FALSE]
           target == IF candidate THEN Invalidated(env.pending)
                     ELSE Deselected
<1>1. TypeOK
  BY DEF IInv
<1>2. Follows(ops, ended)
  <2>1. \A o \in busy : ops[o].state # "none"
    BY DEF Busy
  <2> QED
    BY <1>1, <2>1, EndedFollows DEF TypeOK
<1>3. Follows(ops, IF \E o \in Ops : ops[o].state \in Busy THEN ended ELSE ops)
  BY <1>1, <1>2, Unchanged
<1>4. Shrinks(env, target)
  <2>1. CASE candidate
    BY <1>1, <2>1, InvalidatedShrinks DEF TypeOK, Envs
  <2>2. CASE ~candidate
    BY <1>1, <2>2, DeselectedShrinks DEF TypeOK
  <2> QED
    BY <2>1, <2>2
<1>5. cleared \in Confs
  BY <1>1 DEF TypeOK, Confs
<1>6. candidate => [cleared EXCEPT !.row[env.pending].state = "rolled_back"] \in Confs
  BY <1>1, <1>5, RowTyped DEF TypeOK, Envs
<1>7. conf' \in Confs /\ confOld' \subseteq Confs
  BY <1>1, <1>5, <1>6, ConfTyped DEF Rollback, TypeOK
<1>8. Follows(ops, ops') /\ opsOld' \subseteq Ledgers
  BY <1>1, <1>3, Unchanged DEF Rollback, TypeOK, Ledger
<1>9. Shrinks(env, env') /\ faults' \in 0 .. MaxFaults
  BY <1>1, <1>4, Unchanged, EnvStep DEF Rollback, TypeOK, Shrinks
<1>10. TypeOK'
  BY <1>1, <1>7, <1>8, <1>9 DEF Rollback, TypeOK, Follows, Shrinks
<1> QED
  BY <1>8, <1>9, <1>10, QuietStep DEF Rollback, IInv, WorkerInv

-----------------------------------------------------------------------------
(* The apply worker *)

LEMMA Moves ==
  ASSUME TypeOK, NEW pc \in {"check", "prepare", "write", "finish", "valid", "pending",
                             "rows", "ledger", "opid", "reboot", "clear", "fail"}, To(pc)
  PROVE  worker' \in Workers /\ worker'.pc = pc /\ worker'.op = worker.op
BY DEF TypeOK, To, Workers

LEMMA IdleTyped == Idle \in Workers /\ Idle.pc = "idle"
BY DEF Idle, Workers

\* A worker that gives up, or is stopped.
LEMMA WorkerStops ==
  ASSUME IInv, worker' = Idle, image' = image, Shrinks(env, env'),
         otad' # "down" => running' # None
  PROVE  WorkerInv' /\ TornNeverSelectable'
BY QuietStep

\* A worker at work on its slot.
LEMMA AtWork ==
  ASSUME IInv, NEW pc, At(pc), pc # "idle"
  PROVE  /\ worker.op \in Ops /\ running # None /\ ops[worker.op].state # "none"
         /\ pc # "check" => Target \in Slots
BY DEF IInv, WorkerInv, At

LEMMA WorkerCheckStep ==
  ASSUME IInv, WorkerCheck
  PROVE  IInv'
<1>1. TypeOK /\ worker.op \in Ops /\ running # None /\ ops[worker.op].state # "none"
  BY AtWork DEF WorkerCheck, IInv
<1>2. Follows(ops, Updated(ops, worker.op, "failed"))
  BY <1>1, UpdatedFollows DEF TypeOK
<1>3. Shrinks(env, env')
  BY <1>1, Unchanged DEF WorkerCheck
<1>4. CASE /\ worker' = Idle /\ Ledger(Updated(ops, worker.op, "failed"))
           /\ UNCHANGED <<conf, confOld>> \/ Conf([conf EXCEPT !.rolledBack = FALSE])
  <2>0. conf' \in Confs /\ confOld' \subseteq Confs
    <3>1. [conf EXCEPT !.rolledBack = FALSE] \in Confs
      BY <1>1 DEF TypeOK, Confs
    <3> QED
      BY <1>1, <1>4, <3>1, ConfTyped DEF TypeOK
  <2>1. TypeOK'
    BY <1>1, <1>2, <1>4, <2>0, LedgerTyped, IdleTyped DEF WorkerCheck, TypeOK, Follows
  <2> QED
    BY <1>3, <1>4, <2>1, WorkerStops DEF WorkerCheck, IInv, WorkerInv
<1>5. CASE /\ ops[worker.op].state = "writing"
           /\ Coherent(running) /\ env = ops[worker.op].digest /\ Target = Other(running)
           /\ To("prepare")
           /\ confOld' = {} /\ opsOld' = {}
           /\ UNCHANGED <<conf, ops>>
  <2>1. TypeOK'
    BY <1>1, <1>5, Moves DEF WorkerCheck, TypeOK
  <2>2. Target \in Slots
    BY <1>1, <1>5, TwoSlots DEF TypeOK
  <2>3. Target' = Target
    BY <1>1, <1>5, Moves DEF Target
  <2> QED
    BY <1>1, <1>5, <2>1, <2>2, <2>3, Moves DEF WorkerCheck, IInv, WorkerInv, TornNeverSelectable
<1> QED
  BY <1>4, <1>5 DEF WorkerCheck

LEMMA WorkerPrepareStep ==
  ASSUME IInv, WorkerPrepare
  PROVE  IInv'
<1>1. TypeOK /\ worker.op \in Ops /\ running # None /\ Target \in Slots
      /\ ops[worker.op].state # "none"
  BY AtWork DEF WorkerPrepare, IInv
<1>2. Shrinks(env, Prepared) /\ ~Prepared.valid[Target] /\ Prepared.pending # Target
  BY <1>1, InvalidatedShrinks DEF TypeOK, Prepared
<1>3. env' \in {env, Prepared} /\ faults' \in 0 .. MaxFaults
  BY <1>1, <1>2, EnvStep DEF WorkerPrepare, TypeOK, Shrinks
<1>4. Shrinks(env, env')
  BY <1>1, <1>2, <1>3, Unchanged
<1>5. CASE EnvSet(Prepared) /\ To("write") /\ UNCHANGED <<ops, opsOld>>
  <2>1. TypeOK'
    BY <1>1, <1>2, <1>3, <1>5, Moves DEF WorkerPrepare, TypeOK, Shrinks
  <2>2. Target' = Target /\ env' = Prepared
    BY <1>1, <1>5, Moves DEF Target, EnvSet
  <2> QED
    BY <1>1, <1>2, <1>4, <1>5, <2>1, <2>2, Moves, ConstantsAssumption
    DEF WorkerPrepare, IInv, WorkerInv, TornNeverSelectable, Shrinks, ConstantsAssumption
<1>6. CASE worker' = Idle /\ Ledger(Updated(ops, worker.op, "failed"))
  <2>1. Follows(ops, Updated(ops, worker.op, "failed"))
    BY <1>1, UpdatedFollows DEF TypeOK
  <2>2. TypeOK'
    BY <1>1, <1>3, <1>4, <1>6, <2>1, LedgerTyped, IdleTyped
    DEF WorkerPrepare, TypeOK, Follows, Shrinks
  <2> QED
    BY <1>4, <1>6, <2>2, WorkerStops DEF WorkerPrepare, IInv, WorkerInv
<1> QED
  BY <1>5, <1>6 DEF WorkerPrepare

LEMMA WorkerWriteStep ==
  ASSUME IInv, WorkerWrite
  PROVE  IInv'
<1>1. TypeOK /\ worker.op \in Ops /\ running # None /\ Target \in Slots
      /\ ops[worker.op].state # "none"
  BY AtWork DEF WorkerWrite, IInv
<1>2. [conf EXCEPT !.rolledBack = FALSE] \in Confs
  BY <1>1 DEF TypeOK, Confs
<1>3. conf' \in Confs /\ confOld' \subseteq Confs
  BY <1>1, <1>2, ConfTyped DEF WorkerWrite, TypeOK
<1>4. image' \in [Slots -> Ops \cup {None, Torn}]
  BY <1>1 DEF WorkerWrite, TypeOK
<1>5. worker' \in Workers /\ worker'.pc \in {"finish", "clear"} /\ worker'.op = worker.op
  BY <1>1, Moves DEF WorkerWrite
<1>6. TypeOK'
  BY <1>1, <1>3, <1>4, <1>5 DEF WorkerWrite, TypeOK
<1>7. Target' = Target
  BY <1>5 DEF WorkerWrite, Target
<1>8. ~env.valid[Target] /\ env.pending # Target
  BY DEF WorkerWrite, At, IInv, WorkerInv
<1>9. TornNeverSelectable'
  BY <1>1, <1>8 DEF WorkerWrite, IInv, TypeOK, TornNeverSelectable
<1> QED
  BY <1>1, <1>5, <1>6, <1>7, <1>8, <1>9 DEF WorkerWrite, IInv, WorkerInv

LEMMA WorkerFinishStep ==
  ASSUME IInv, WorkerFinish
  PROVE  IInv'
<1>1. TypeOK /\ worker.op \in Ops /\ running # None /\ Target \in Slots
      /\ ops[worker.op].state # "none"
  BY AtWork DEF WorkerFinish, IInv
<1>2. image' \in [Slots -> Ops \cup {None, Torn}]
  BY <1>1 DEF WorkerFinish, TypeOK
<1>3. worker' \in Workers /\ worker'.pc \in {"valid", "clear"} /\ worker'.op = worker.op
  BY <1>1, Moves DEF WorkerFinish
<1>4. TypeOK'
  BY <1>1, <1>2, <1>3 DEF WorkerFinish, TypeOK
<1>5. Target' = Target
  BY <1>3 DEF WorkerFinish, Target
<1>6. worker'.pc = "valid" => image'[Target] # Torn
  BY <1>1, Moves, ConstantsAssumption DEF WorkerFinish, TypeOK, ConstantsAssumption
<1>7. TornNeverSelectable'
  BY <1>1, ConstantsAssumption
  DEF WorkerFinish, IInv, TypeOK, TornNeverSelectable, ConstantsAssumption
<1> QED
  BY <1>1, <1>3, <1>4, <1>5, <1>6, <1>7 DEF WorkerFinish, IInv, WorkerInv

LEMMA WorkerValidStep ==
  ASSUME IInv, WorkerValid
  PROVE  IInv'
<1> DEFINE e == [env EXCEPT !.valid[Target] = TRUE]
<1>1. TypeOK /\ worker.op \in Ops /\ running # None /\ Target \in Slots
      /\ ops[worker.op].state # "none"
  BY AtWork DEF WorkerValid, IInv
<1>2. e \in Envs /\ e.pending = env.pending /\ e.valid = [env.valid EXCEPT ![Target] = TRUE]
  BY <1>1 DEF TypeOK, Envs
<1>3. env' \in {env, e} /\ faults' \in 0 .. MaxFaults
  BY <1>1, <1>2, EnvStep DEF WorkerValid, TypeOK
<1>4. worker' \in Workers /\ worker'.pc \in {"pending", "clear"} /\ worker'.op = worker.op
  BY <1>1, Moves DEF WorkerValid
<1>5. TypeOK'
  BY <1>1, <1>2, <1>3, <1>4 DEF WorkerValid, TypeOK
<1>6. Target' = Target
  BY <1>4 DEF WorkerValid, Target
<1>7. image[Target] # Torn
  BY DEF WorkerValid, At, IInv, WorkerInv
<1>8. TornNeverSelectable'
  BY <1>1, <1>2, <1>3, <1>7 DEF WorkerValid, IInv, TypeOK, Envs, TornNeverSelectable
<1> QED
  BY <1>1, <1>4, <1>5, <1>6, <1>7, <1>8 DEF WorkerValid, IInv, WorkerInv

LEMMA WorkerPendingStep ==
  ASSUME IInv, WorkerPending
  PROVE  IInv'
<1>1. TypeOK /\ worker.op \in Ops /\ running # None /\ Target \in Slots
      /\ ops[worker.op].state # "none"
  BY AtWork DEF WorkerPending, IInv
<1>2. Selected \in Envs /\ Selected.pending = Target /\ Selected.valid = env.valid
  <2>1. RestartLimit \in 0 .. RestartLimit
    BY ConstantsAssumption DEF ConstantsAssumption
  <2> QED
    BY <1>1, <2>1 DEF TypeOK, Envs, Selected
<1>3. env' \in {env, Selected} /\ faults' \in 0 .. MaxFaults
  BY <1>1, <1>2, EnvStep DEF WorkerPending, TypeOK
<1>4. worker' \in Workers /\ worker'.pc \in {"rows", "clear"} /\ worker'.op = worker.op
  BY <1>1, Moves DEF WorkerPending
<1>5. TypeOK'
  BY <1>1, <1>2, <1>3, <1>4 DEF WorkerPending, TypeOK
<1>6. Target' = Target
  BY <1>4 DEF WorkerPending, Target
<1>7. image[Target] # Torn
  BY DEF WorkerPending, At, IInv, WorkerInv
<1>8. TornNeverSelectable'
  BY <1>1, <1>2, <1>3, <1>7 DEF WorkerPending, IInv, TornNeverSelectable
<1> QED
  BY <1>1, <1>4, <1>5, <1>6, <1>8 DEF WorkerPending, IInv, WorkerInv

\* The worker goes on without touching slot or environment.
LEMMA WorkerMoves ==
  ASSUME IInv, worker.pc \in {"pending", "rows", "ledger", "opid", "reboot", "clear", "fail"},
         NEW pc \in {"rows", "ledger", "opid", "reboot", "clear", "fail"}, To(pc),
         image' = image, Shrinks(env, env'), running' = running, otad' = otad,
         Follows(ops, ops')
  PROVE  WorkerInv' /\ TornNeverSelectable'
<1>1. worker'.pc = pc /\ worker'.op = worker.op
  BY Moves DEF IInv
<1>2. Target' = Target
  BY <1>1 DEF Target, Follows, IInv, WorkerInv
<1>3. TornNeverSelectable'
  BY ConstantsAssumption DEF IInv, TornNeverSelectable, Shrinks, ConstantsAssumption
<1> QED
  BY <1>1, <1>2, <1>3 DEF IInv, WorkerInv, Follows

LEMMA WorkerRowsStep ==
  ASSUME IInv, WorkerRows
  PROVE  IInv'
<1> DEFINE row == [conf.row EXCEPT ![Target] = [state |-> "pending", build |-> worker.op]]
           c == [conf EXCEPT !.row[Target] = [state |-> "pending", build |-> worker.op],
                             !.pending = Target, !.obs = "none", !.rolledBack = FALSE]
<1>1. TypeOK /\ worker.op \in Ops /\ Target \in Slots
  BY AtWork DEF WorkerRows, IInv
<1>2. row \in [Slots -> Rows]
  BY <1>1 DEF TypeOK, Confs, Rows
<1>3. c = [conf EXCEPT !.row = row, !.pending = Target, !.obs = "none", !.rolledBack = FALSE]
  BY <1>1 DEF TypeOK, Confs
<1>4. c \in Confs
  BY <1>1, <1>2, <1>3 DEF TypeOK, Confs
<1>5. conf' \in Confs /\ confOld' \subseteq Confs
  BY <1>1, <1>4, ConfTyped DEF WorkerRows, TypeOK
<1>6. TypeOK'
  BY <1>1, <1>5, Moves DEF WorkerRows, TypeOK
<1> QED
  BY <1>1, <1>6, WorkerMoves, Unchanged DEF WorkerRows, At, IInv

LEMMA WorkerLedgerStep ==
  ASSUME IInv, WorkerLedger
  PROVE  IInv'
<1>1. TypeOK /\ worker.op \in Ops
  BY AtWork DEF WorkerLedger, IInv
<1>2. Follows(ops, ops') /\ opsOld' \subseteq Ledgers
  BY <1>1, UpdatedFollows, Unchanged DEF WorkerLedger, TypeOK, Ledger
<1>3. worker' \in Workers
  BY <1>1, Moves DEF WorkerLedger
<1>4. TypeOK'
  BY <1>1, <1>2, <1>3 DEF WorkerLedger, TypeOK, Follows
<1> QED
  BY <1>1, <1>2, <1>4, WorkerMoves, Unchanged DEF WorkerLedger, At, IInv

LEMMA WorkerOpIdStep ==
  ASSUME IInv, WorkerOpId
  PROVE  IInv'
<1>1. TypeOK /\ worker.op \in Ops
  BY AtWork DEF WorkerOpId, IInv
<1>2. [conf EXCEPT !.op = worker.op] \in Confs
  BY <1>1 DEF TypeOK, Confs
<1>3. conf' \in Confs /\ confOld' \subseteq Confs
  BY <1>1, <1>2, ConfTyped DEF WorkerOpId, TypeOK
<1>4. worker' \in Workers
  BY <1>1, Moves, IdleTyped DEF WorkerOpId
<1>5. TypeOK'
  BY <1>1, <1>3, <1>4 DEF WorkerOpId, TypeOK
<1>6. CASE To("reboot")
  BY <1>1, <1>5, <1>6, WorkerMoves, Unchanged DEF WorkerOpId, At, IInv
<1>7. CASE worker' = Idle
  BY <1>1, <1>5, <1>7, WorkerStops, Unchanged DEF WorkerOpId, IInv, WorkerInv
<1> QED
  BY <1>6, <1>7 DEF WorkerOpId

\* The system goes down.
LEMMA DownStep ==
  ASSUME IInv, Down, image' = image, Shrinks(env, env'),
         conf' \in Confs, ops' \in Ledgers, faults' \in 0 .. MaxFaults
  PROVE  IInv'
<1>1. TypeOK'
  <2>1. 0 \in 0 .. Confirmations
    BY ConstantsAssumption DEF ConstantsAssumption
  <2> QED
    BY <2>1, IdleTyped DEF Down, IInv, TypeOK, Shrinks
<1> QED
  BY <1>1, WorkerStops DEF Down, IInv

LEMMA WorkerRebootStep ==
  ASSUME IInv, WorkerReboot
  PROVE  IInv'
BY DownStep, Unchanged DEF WorkerReboot, IInv, TypeOK

LEMMA WorkerRebootFailsStep ==
  ASSUME IInv, WorkerRebootFails
  PROVE  IInv'
<1>1. TypeOK /\ worker.op \in Ops /\ Target \in Slots
  BY AtWork DEF WorkerRebootFails, IInv
<1>2. Shrinks(env, env')
  BY <1>1, InvalidatedShrinks, Unchanged DEF WorkerRebootFails, TypeOK
<1>3. [conf EXCEPT !.pending = None] \in Confs
  BY <1>1 DEF TypeOK, Confs
<1>4. conf' \in Confs /\ confOld' \subseteq Confs
  BY <1>1, <1>3, ConfTyped DEF WorkerRebootFails, TypeOK
<1>5. ops' \in Ledgers /\ opsOld' \subseteq Ledgers
  BY <1>1, UpdatedFollows, LedgerTyped DEF WorkerRebootFails, TypeOK, Follows
<1>6. faults' \in 0 .. MaxFaults
  BY <1>1, ConstantsAssumption DEF WorkerRebootFails, Fault, TypeOK, ConstantsAssumption
<1>7. TypeOK'
  BY <1>1, <1>2, <1>4, <1>5, <1>6, IdleTyped DEF WorkerRebootFails, TypeOK, Shrinks
<1> QED
  BY <1>2, <1>7, WorkerStops DEF WorkerRebootFails, IInv, WorkerInv

LEMMA WorkerClearStep ==
  ASSUME IInv, WorkerClear
  PROVE  IInv'
<1>1. TypeOK /\ Target \in Slots
  BY AtWork DEF WorkerClear, IInv
<1>2. Shrinks(env, Invalidated(Target))
  BY <1>1, InvalidatedShrinks DEF TypeOK
<1>3. env' \in {env, Invalidated(Target)} /\ faults' \in 0 .. MaxFaults
  BY <1>1, <1>2, EnvStep DEF WorkerClear, TypeOK, Shrinks
<1>4. Shrinks(env, env')
  BY <1>1, <1>2, <1>3, Unchanged
<1>5. TypeOK'
  BY <1>1, <1>3, <1>4, Moves DEF WorkerClear, TypeOK, Shrinks
<1> QED
  BY <1>1, <1>4, <1>5, WorkerMoves, Unchanged DEF WorkerClear, At, IInv

LEMMA WorkerFailsStep ==
  ASSUME IInv, WorkerFails
  PROVE  IInv'
<1> DEFINE row == [conf.row EXCEPT ![Target] = [state |-> "failed", build |-> worker.op]]
           c == [conf EXCEPT !.pending = None, !.rolledBack = FALSE,
                             !.row[Target] = [state |-> "failed", build |-> worker.op]]
<1>1. TypeOK /\ worker.op \in Ops /\ Target \in Slots
  BY AtWork DEF WorkerFails, IInv
<1>2. row \in [Slots -> Rows]
  BY <1>1 DEF TypeOK, Confs, Rows
<1>3. c = [conf EXCEPT !.pending = None, !.rolledBack = FALSE, !.row = row]
  BY <1>1 DEF TypeOK, Confs
<1>4. c \in Confs
  BY <1>1, <1>2, <1>3 DEF TypeOK, Confs
<1>5. conf' \in Confs /\ confOld' \subseteq Confs
  BY <1>1, <1>4, ConfTyped DEF WorkerFails, TypeOK
<1>6. ops' \in Ledgers /\ opsOld' \subseteq Ledgers
  BY <1>1, UpdatedFollows, LedgerTyped DEF WorkerFails, TypeOK, Follows
<1>7. TypeOK'
  BY <1>1, <1>5, <1>6, IdleTyped DEF WorkerFails, TypeOK
<1> QED
  BY <1>1, <1>7, WorkerStops, Unchanged DEF WorkerFails, IInv, WorkerInv

LEMMA WorkerDiesStep ==
  ASSUME IInv, WorkerDies
  PROVE  IInv'
<1>1. TypeOK /\ worker.op \in Ops
  BY DEF WorkerDies, IInv, WorkerInv
<1>2. ops' \in Ledgers /\ opsOld' \subseteq Ledgers
  BY <1>1, UpdatedFollows, LedgerTyped DEF WorkerDies, TypeOK, Follows
<1>3. faults' \in 0 .. MaxFaults
  BY <1>1, ConstantsAssumption DEF WorkerDies, Fault, TypeOK, ConstantsAssumption
<1>4. TypeOK'
  BY <1>1, <1>2, <1>3, IdleTyped DEF WorkerDies, TypeOK
<1> QED
  BY <1>1, <1>4, WorkerStops, Unchanged DEF WorkerDies, IInv, WorkerInv

-----------------------------------------------------------------------------
(* Boot and reconciliation *)

LEMMA StopStep ==
  ASSUME IInv, Stop, faults' \in 0 .. MaxFaults
  PROVE  IInv'
<1>1. 0 \in 0 .. Confirmations
  BY ConstantsAssumption DEF ConstantsAssumption
<1>2. TypeOK'
  BY <1>1, IdleTyped DEF Stop, IInv, TypeOK
<1> QED
  BY <1>2, WorkerStops, Unchanged DEF Stop, IInv

LEMMA BootStep ==
  ASSUME IInv, Boot
  PROVE  IInv'
<1>1. TypeOK /\ worker = Idle
  BY DEF IInv, WorkerInv, Boot
<1>2. CASE /\ running' = env.pending /\ env' = [env EXCEPT !.tries = @ - 1]
           /\ env.pending # None /\ env.tries > 0
  <2>1. env.tries - 1 \in 0 .. RestartLimit
    BY <1>1, <1>2, ConstantsAssumption DEF TypeOK, Envs, ConstantsAssumption
  <2>2. Shrinks(env, env') /\ running' \in Slots
    BY <1>1, <1>2, <2>1 DEF TypeOK, Envs, Shrinks
  <2>3. TypeOK'
    BY <1>1, <2>2 DEF Boot, TypeOK, Shrinks
  <2>4. running' # None
    BY <1>2
  <2> QED
    BY <1>1, <2>2, <2>3, <2>4, WorkerStops DEF Boot, IInv
<1>3. CASE running' = env.active /\ env' = Deselected
  <2>1. Shrinks(env, env')
    BY <1>1, <1>3, DeselectedShrinks DEF TypeOK
  <2>2. running' \in Slots /\ running' # None
    BY <1>1, <1>3, ConstantsAssumption DEF TypeOK, Envs, ConstantsAssumption
  <2>3. TypeOK'
    BY <1>1, <2>1, <2>2 DEF Boot, TypeOK, Shrinks
  <2> QED
    BY <1>1, <2>1, <2>2, <2>3, WorkerStops DEF Boot, IInv
<1> QED
  BY <1>2, <1>3 DEF Boot

LEMMA MarkedTyped ==
  ASSUME NEW row \in [Slots -> Rows], NEW s \in Slots,
         NEW state \in {"pending_boot", "rolled_back"}
  PROVE  Marked(row, s, state) \in [Slots -> Rows]
<1>1. [row[s] EXCEPT !.state = state] \in Rows
  BY DEF Rows
<1> QED
  BY <1>1 DEF Marked

LEMMA ConfirmedFollows ==
  ASSUME ops \in Ledgers, NEW s, NEW expected, NEW build
  PROVE  Follows(ops, Confirmed(s, expected, build))
<1> DEFINE S == {o \in Ops : Waiting(o, s) /\ expected \in {None, o} /\ build \in {None, o}}
<1>1. Confirmed(s, expected, build) =
        [o \in Ops |-> IF o \in S THEN [ops[o] EXCEPT !.state = "success"] ELSE ops[o]]
  BY DEF Confirmed
<1>2. \A o \in S : ops[o].state # "none"
  BY DEF Waiting
<1> QED
  BY <1>1, <1>2, EndedFollows

LEMMA GivenUpFollows ==
  ASSUME ops \in Ledgers, NEW s, NEW expected
  PROVE  Follows(ops, GivenUp(s, expected))
<1> DEFINE S == {o \in Ops : /\ Waiting(o, s)
                             /\ \/ expected \in {None, o}
                                \/ \A q \in Ops : Waiting(q, s) => q = o}
<1>1. GivenUp(s, expected) =
        [o \in Ops |-> IF o \in S THEN [ops[o] EXCEPT !.state = "failed"] ELSE ops[o]]
  BY DEF GivenUp
<1>2. \A o \in S : ops[o].state # "none"
  BY DEF Waiting
<1>3. S \in SUBSET Ops
  OBVIOUS
<1> HIDE DEF S
<1> QED
  BY <1>1, <1>2, <1>3, EndedFollows

\* What reconciliation and confirmation may change: the two databases.
Recorded ==
  /\ conf' \in Confs /\ confOld' \subseteq Confs
  /\ Follows(ops, ops') /\ opsOld' \subseteq Ledgers

LEMMA RecordedStep ==
  ASSUME IInv, Recorded, image' = image, Shrinks(env, env'), running' = running,
         worker' = worker, faults' \in 0 .. MaxFaults, hard' \in 0 .. Confirmations,
         timer' \in BOOLEAN, running # None,
         otad' \in {"down", "reconciled", "up", "promoted", "completed", "cleared",
                    "undone", "unrecorded"}
  PROVE  IInv'
<1>1. TypeOK'
  BY DEF IInv, TypeOK, Recorded, Follows, Shrinks
<1> QED
  BY <1>1, QuietStep DEF IInv, WorkerInv, Recorded

LEMMA ReconcilePendingRecords ==
  ASSUME TypeOK, running \in Slots, ReconcilePending
  PROVE  Recorded
<1> DEFINE tried == env.pending = running
           obs == IF tried /\ conf.obs = "none" THEN "young" ELSE conf.obs
           row == IF tried THEN Marked(conf.row, running, "pending_boot") ELSE conf.row
           c == [conf EXCEPT !.pending = env.pending, !.rolledBack = FALSE,
                             !.obs = obs, !.row = row]
<1>1. row \in [Slots -> Rows]
  BY MarkedTyped DEF TypeOK, Confs
<1>2. obs \in {"none", "young", "old"} /\ env.pending \in Slots \cup {None}
  BY DEF TypeOK, Confs, Envs
<1>3. c \in Confs
  <2> HIDE DEF obs, row
  <2> QED
    BY <1>1, <1>2 DEF TypeOK, Confs
<1>4. Conf(c)
  BY DEF ReconcilePending, TypeOK, Confs
<1>5. conf' \in Confs /\ confOld' \subseteq Confs
  BY <1>3, <1>4, ConfTyped DEF TypeOK
<1> QED
  BY <1>5, Unchanged DEF ReconcilePending, Recorded, TypeOK

LEMMA ReconcileSettledRecords ==
  ASSUME TypeOK, running \in Slots, ReconcileSettled
  PROVE  Recorded
<1> DEFINE undone == GivenUp(Other(running), conf.op)
           confirmed == Confirmed(running, None, conf.row[running].build)
<1>1. Follows(ops, undone) /\ Follows(ops, confirmed)
  BY GivenUpFollows, ConfirmedFollows DEF TypeOK
<1>2. PICK l : /\ Ledger(l) /\ l = [o \in Ops |-> l[o]]
               /\ \A o \in Ops : l[o] \in {undone[o], confirmed[o], ops[o]}
  BY DEF ReconcileSettled
<1>3. Follows(ops, l)
  <2> HIDE DEF undone, confirmed
  <2>1. \A o \in Ops : l[o] \in [state : {"none", "pending", "writing", "rebooting", "success", "failed"},
                                  target : Slots \cup {None}, digest : Envs]
    BY <1>1, <1>2 DEF Follows, Ledgers, TypeOK
  <2>2. l \in Ledgers
    BY <1>2, <2>1 DEF Ledgers
  <2> QED
    BY <1>1, <1>2, <2>2 DEF Follows
<1>4. [conf EXCEPT !.op = None, !.obs = "none"] \in Confs
  BY DEF TypeOK, Confs
<1>5. conf' \in Confs /\ confOld' \subseteq Confs
  BY <1>4, ConfTyped DEF ReconcileSettled, TypeOK
<1> QED
  BY <1>2, <1>3, <1>5 DEF Recorded, Ledger, TypeOK

LEMMA ReconcileRolledBackRecords ==
  ASSUME TypeOK, running \in Slots, ReconcileRolledBack
  PROVE  Recorded
<1> DEFINE row == Marked(conf.row, conf.pending, "rolled_back")
           c == [conf EXCEPT !.pending = None, !.op = None, !.obs = "none",
                             !.rolledBack = TRUE, !.row = row]
<1>1. conf.pending \in Slots
  BY DEF ReconcileRolledBack, GivesUp, TypeOK, Confs
<1>2. row \in [Slots -> Rows]
  BY <1>1, MarkedTyped DEF TypeOK, Confs
<1>3. c \in Confs
  <2> HIDE DEF row
  <2> QED
    BY <1>2 DEF TypeOK, Confs
<1>4. Conf(c)
  BY DEF ReconcileRolledBack, TypeOK, Confs
<1>5. conf' \in Confs /\ confOld' \subseteq Confs
  BY <1>3, <1>4, ConfTyped DEF TypeOK
<1>6. Follows(ops, ops') /\ opsOld' \subseteq Ledgers
  BY GivenUpFollows DEF ReconcileRolledBack, TypeOK, Ledger
<1> QED
  BY <1>5, <1>6 DEF Recorded

LEMMA ReconcileStep ==
  ASSUME IInv, Reconcile
  PROVE  IInv'
<1>1. TypeOK /\ running \in Slots
  BY DEF Reconcile, IInv, TypeOK
<1>2. Recorded
  BY <1>1, ReconcilePendingRecords, ReconcileSettledRecords, ReconcileRolledBackRecords, Unchanged
  DEF Reconcile, TypeOK, Recorded
<1> QED
  BY <1>1, <1>2, RecordedStep, Unchanged DEF Reconcile, TypeOK

LEMMA StartStep ==
  ASSUME IInv, Start
  PROVE  IInv'
<1>1. TypeOK /\ running # None
  BY DEF Start, IInv, WorkerInv
<1>2. Recorded
  BY <1>1, Unchanged DEF Start, TypeOK, Recorded
<1> QED
  BY <1>1, <1>2, RecordedStep, Unchanged DEF Start, TypeOK

-----------------------------------------------------------------------------
(* Confirmation and rollback of a candidate *)

LEMMA TrialRuns ==
  ASSUME IInv, Trial
  PROVE  TypeOK /\ running \in Slots /\ env.valid[running] /\ env.valid[env.active]
<1>1. running # None
  BY DEF IInv, WorkerInv, Trial
<1> QED
  BY <1>1 DEF IInv, TypeOK, Trial, Coherent

LEMMA WindowEndsStep ==
  ASSUME IInv, WindowEnds
  PROVE  IInv'
<1> DEFINE aged(c) == IF c.obs = "young" THEN [c EXCEPT !.obs = "old"] ELSE c
<1>1. \A c \in Confs : aged(c) \in Confs
  BY DEF Confs
<1>2. conf' \in Confs /\ confOld' \subseteq Confs
  BY <1>1 DEF WindowEnds, IInv, TypeOK
<1>3. TypeOK'
  BY <1>2 DEF WindowEnds, IInv, TypeOK
<1> QED
  BY <1>3, QuietStep, Unchanged DEF WindowEnds, IInv, WorkerInv

LEMMA CheckReadyStep ==
  ASSUME IInv, CheckReady
  PROVE  IInv'
<1>1. TypeOK /\ running # None
  BY DEF CheckReady, Trial, IInv, WorkerInv
<1>2. [conf EXCEPT !.obs = "young"] \in Confs
  BY <1>1 DEF TypeOK, Confs
<1>3. Recorded
  BY <1>1, <1>2, Unchanged, ConfTyped DEF CheckReady, TypeOK, Recorded
<1>4. hard' \in 0 .. Confirmations
  BY <1>1, ConstantsAssumption DEF CheckReady, TypeOK, ConstantsAssumption
<1> QED
  BY <1>1, <1>3, <1>4, RecordedStep, Unchanged DEF CheckReady, Trial, TypeOK

LEMMA CheckConfirmsStep ==
  ASSUME IInv, CheckConfirms
  PROVE  IInv'
<1>1. TypeOK /\ running \in Slots /\ running # None /\ env.valid[running]
  BY TrialRuns DEF CheckConfirms, Trial, IInv, WorkerInv
<1>2. Shrinks(env, Promoted)
  <2>1. 0 \in 0 .. RestartLimit
    BY ConstantsAssumption DEF ConstantsAssumption
  <2>2. Promoted \in Envs
    BY <1>1, <2>1 DEF TypeOK, Envs, Promoted
  <2> QED
    BY <1>1, <2>2 DEF Promoted, Shrinks, TypeOK, Envs
<1>3. Shrinks(env, env') /\ faults' \in 0 .. MaxFaults
  BY <1>1, <1>2, EnvStep, Unchanged DEF CheckConfirms, TypeOK, Shrinks
<1>4. Recorded
  BY <1>1, Unchanged DEF CheckConfirms, TypeOK, Recorded
<1> QED
  BY <1>1, <1>3, <1>4, RecordedStep DEF CheckConfirms, TypeOK

LEMMA ConfirmStep ==
  ASSUME IInv, Confirm
  PROVE  IInv'
<1>1. TypeOK /\ running \in Slots /\ running # None
  BY DEF Confirm, ConfirmLedger, ConfirmState, ConfirmRow, IInv, TypeOK, WorkerInv
<1>2. CASE ConfirmLedger
  <2>1. Recorded
    BY <1>1, <1>2, ConfirmedFollows DEF ConfirmLedger, TypeOK, Recorded, Ledger
  <2> QED
    BY <1>1, <1>2, <2>1, RecordedStep, Unchanged DEF ConfirmLedger, TypeOK
<1>3. CASE ConfirmState
  <2>1. [conf EXCEPT !.pending = None, !.op = None, !.obs = "none", !.rolledBack = FALSE] \in Confs
    BY <1>1 DEF TypeOK, Confs
  <2>2. Recorded
    BY <1>1, <1>3, <2>1, Unchanged, ConfTyped DEF ConfirmState, TypeOK, Recorded
  <2> QED
    BY <1>1, <1>3, <2>2, RecordedStep, Unchanged DEF ConfirmState, TypeOK
<1>4. CASE ConfirmRow
  <2>1. [conf EXCEPT !.row[running].state = "good"] \in Confs
    BY <1>1, RowTyped DEF TypeOK
  <2>2. Recorded
    BY <1>1, <1>4, <2>1, Unchanged, ConfTyped DEF ConfirmRow, TypeOK, Recorded
  <2>3. hard' \in 0 .. Confirmations
    BY <1>4, ConstantsAssumption DEF ConfirmRow, ConstantsAssumption
  <2> QED
    BY <1>1, <1>4, <2>2, <2>3, RecordedStep, Unchanged DEF ConfirmRow, TypeOK
<1> QED
  BY <1>2, <1>3, <1>4 DEF Confirm

LEMMA CheckFailsStep ==
  ASSUME IInv, CheckSoft \/ CheckHard
  PROVE  IInv'
<1>1. TypeOK /\ running # None
  BY DEF CheckSoft, CheckHard, Trial, IInv, WorkerInv
<1>2. Recorded
  BY <1>1, Unchanged DEF CheckSoft, CheckHard, TypeOK, Recorded
<1>3. hard' \in 0 .. Confirmations
  BY <1>1, ConstantsAssumption DEF CheckSoft, CheckHard, TypeOK, ConstantsAssumption
<1> QED
  BY <1>1, <1>2, <1>3, RecordedStep, Unchanged DEF CheckSoft, CheckHard, TypeOK

\* The active slot that is marked valid is valid already.
LEMMA CheckUndoesStep ==
  ASSUME IInv, CheckUndoes
  PROVE  IInv'
<1>1. TypeOK /\ running \in Slots /\ running # None /\ env.valid[env.active]
  BY TrialRuns DEF CheckUndoes, Trial, IInv, WorkerInv
<1>2. Shrinks(env, Undone)
  <2>1. 0 \in 0 .. RestartLimit
    BY ConstantsAssumption DEF ConstantsAssumption
  <2>2. Undone \in Envs
    BY <1>1, <2>1 DEF TypeOK, Envs, Undone
  <2> QED
    BY <1>1, <2>2 DEF Undone, Shrinks, TypeOK, Envs
<1>3. Shrinks(env, env') /\ faults' \in 0 .. MaxFaults
  BY <1>1, <1>2, EnvStep, Unchanged DEF CheckUndoes, TypeOK, Shrinks
<1>4. Recorded
  BY <1>1, Unchanged DEF CheckUndoes, TypeOK, Recorded
<1>5. hard' \in 0 .. Confirmations
  BY ConstantsAssumption DEF CheckUndoes, ConstantsAssumption
<1> QED
  BY <1>1, <1>3, <1>4, <1>5, RecordedStep DEF CheckUndoes, TypeOK

LEMMA UndoStep ==
  ASSUME IInv, Undo
  PROVE  IInv'
<1>1. TypeOK /\ running \in Slots /\ running # None
  BY DEF Undo, UndoLedger, UndoReboot, IInv, TypeOK, WorkerInv
<1>2. CASE UndoLedger
  <2> DEFINE row == Marked(conf.row, running, "rolled_back")
             c == [conf EXCEPT !.row = row]
  <2>1. row \in [Slots -> Rows]
    BY <1>1, MarkedTyped DEF TypeOK, Confs
  <2>2. c \in Confs
    <3> HIDE DEF row
    <3> QED
      BY <1>1, <2>1 DEF TypeOK, Confs
  <2>3. Conf(c)
    BY <1>1, <1>2 DEF UndoLedger, TypeOK, Confs
  <2>4. conf' \in Confs /\ confOld' \subseteq Confs
    BY <1>1, <2>2, <2>3, ConfTyped DEF TypeOK
  <2>5. Follows(ops, ops') /\ opsOld' \subseteq Ledgers
    BY <1>1, <1>2, GivenUpFollows DEF UndoLedger, TypeOK, Ledger
  <2> QED
    BY <1>1, <1>2, <2>4, <2>5, RecordedStep, Unchanged DEF UndoLedger, TypeOK, Recorded
<1>3. CASE UndoReboot
  <2>1. conf' \in Confs
    BY <1>1, <1>3 DEF UndoReboot, TypeOK, Confs
  <2>2. CASE Down /\ UNCHANGED faults
    BY <1>1, <1>3, <2>1, <2>2, DownStep, Unchanged DEF UndoReboot, TypeOK
  <2>3. CASE /\ Fault("reboot")
             /\ otad' = "up" /\ confOld' \subseteq Confs /\ opsOld' = {}
             /\ UNCHANGED <<running, timer, hard, worker>>
    <3>1. faults' \in 0 .. MaxFaults
      BY <1>1, <2>3, ConstantsAssumption DEF Fault, TypeOK, ConstantsAssumption
    <3>2. Recorded
      BY <1>1, <1>3, <2>1, <2>3, Unchanged DEF UndoReboot, TypeOK, Recorded
    <3> QED
      BY <1>1, <1>3, <2>3, <3>1, <3>2, RecordedStep, Unchanged DEF UndoReboot, TypeOK
  <2>4. [conf EXCEPT !.pending = None, !.op = None, !.obs = "none", !.rolledBack = TRUE] \in Confs
    BY <1>1 DEF TypeOK, Confs
  <2>5. confOld' \subseteq Confs
    BY <1>3, <2>4 DEF UndoReboot, Down
  <2> QED
    BY <1>3, <2>2, <2>3, <2>5 DEF UndoReboot
<1> QED
  BY <1>2, <1>3 DEF Undo

-----------------------------------------------------------------------------
(* Environment *)

LEMMA EnvironmentStep ==
  ASSUME IInv, UserReboot \/ PowerLoss \/ Hang \/ DaemonDies
  PROVE  IInv'
<1>1. TypeOK
  BY DEF IInv
<1>2. CASE UserReboot
  BY <1>1, <1>2, DownStep, Unchanged DEF UserReboot, TypeOK
<1>3. CASE PowerLoss \/ Hang
  BY <1>1, <1>3, StopStep, ConstantsAssumption
  DEF PowerLoss, Hang, Fault, TypeOK, ConstantsAssumption
<1>4. CASE DaemonDies
  <2>1. worker' \in Workers /\ worker'.pc = worker.pc /\ worker'.op = worker.op
    BY <1>1, <1>4 DEF DaemonDies, TypeOK, Workers
  <2>2. worker = Idle => worker' = Idle
    <3>1. Idle.child = FALSE /\ Idle = [x \in {"op", "pc", "child"} |-> Idle[x]]
      BY DEF Idle
    <3>2. [Idle EXCEPT !.child = FALSE] = Idle
      BY <3>1
    <3> QED
      BY <1>4, <3>2 DEF DaemonDies
  <2>3. faults' \in 0 .. MaxFaults /\ hard' \in 0 .. Confirmations
    BY <1>1, <1>4, ConstantsAssumption DEF DaemonDies, Fault, TypeOK, ConstantsAssumption
  <2>4. TypeOK'
    BY <1>1, <1>4, <2>1, <2>3 DEF DaemonDies, TypeOK
  <2> QED
    BY <1>1, <1>4, <2>1, <2>2, <2>4, QuietStep, Unchanged DEF DaemonDies, IInv, WorkerInv
<1> QED
  BY <1>2, <1>3, <1>4

-----------------------------------------------------------------------------
(* No torn image is selectable *)

\* The invariant is inductive: every step of the handlers, the worker, the
\* bootloader and the environment keeps it.
THEOREM Inductive == Spec => []IInv
<1>1. ASSUME IInv, [Next]_vars
      PROVE  IInv'
  <2>1. CASE UNCHANGED vars
    BY <1>1, <2>1, Unchanged, QuietStep DEF vars, IInv, TypeOK, WorkerInv, Target,
       TornNeverSelectable
  <2>2. CASE \E o \in Ops : Preflight(o) \/ Apply(o)
    BY <1>1, <2>2, PreflightStep, ApplyStep
  <2>3. CASE Rollback
    BY <1>1, <2>3, RollbackStep
  <2>4. CASE Worker
    BY <1>1, <2>4, WorkerCheckStep, WorkerPrepareStep, WorkerWriteStep, WorkerFinishStep,
       WorkerValidStep, WorkerPendingStep, WorkerRowsStep, WorkerLedgerStep, WorkerOpIdStep,
       WorkerRebootStep, WorkerClearStep, WorkerFailsStep DEF Worker
  <2>5. CASE WorkerRebootFails \/ WorkerDies
    BY <1>1, <2>5, WorkerRebootFailsStep, WorkerDiesStep
  <2>6. CASE Boot \/ Reconcile \/ Start
    BY <1>1, <2>6, BootStep, ReconcileStep, StartStep
  <2>7. CASE WindowEnds \/ CheckReady \/ CheckConfirms \/ Confirm
    BY <1>1, <2>7, WindowEndsStep, CheckReadyStep, CheckConfirmsStep, ConfirmStep
  <2>8. CASE CheckSoft \/ CheckHard \/ CheckUndoes \/ Undo
    BY <1>1, <2>8, CheckFailsStep, CheckUndoesStep, UndoStep
  <2>9. CASE UserReboot \/ PowerLoss \/ Hang \/ DaemonDies
    BY <1>1, <2>9, EnvironmentStep
  <2> QED
    BY <1>1, <2>1, <2>2, <2>3, <2>4, <2>5, <2>6, <2>7, <2>8, <2>9
    DEF Next, Unchecked, Check
<1> QED
  BY <1>1, InitIInv, PTL DEF Spec

\* Every store keeps its type, through any interruption.
THEOREM TypeCorrect == Spec => []TypeOK
BY Inductive, PTL DEF IInv

\* However the apply worker is interrupted, the bootloader never has a slot that
\* is not completely written to start.
THEOREM TornIsNotSelectable == Spec => []TornNeverSelectable
BY Inductive, PTL DEF IInv

-----------------------------------------------------------------------------
(* What an operation that waits for its reboot, and a success, stand for *)

\* The ledgers a power loss may leave.
Versions == opsOld \cup {ops}

NoneWaits(l) == \A o \in Ops : l[o].state # "rebooting"

\* The worker is past its check, and its operation does not wait for a reboot yet.
Preparing == {"prepare", "write", "finish", "valid", "pending", "rows", "ledger"}

\* In every version of the ledger an operation that waits has its own build in
\* its slot: a slot is written only while no version holds one that waits.
Flashed ==
  /\ \A l \in Versions, o \in Ops :
       l[o].state = "rebooting" => l[o].target \in Slots /\ image[l[o].target] = o
  /\ worker.pc \in {"check"} \cup Preparing => NoneWaits(ops)
  /\ worker.pc \in Preparing => \A l \in opsOld : NoneWaits(l)
  /\ worker.pc \in {"valid", "pending", "rows", "ledger"} => image[Target] = worker.op
  /\ worker.pc \notin {"idle", "check"} => Target = Other(running)

\* Between the promotion and its record nothing else is selected for the
\* operations that are about to be confirmed.
Promotes ==
  otad = "promoted" =>
    /\ env.active = running
    /\ env.pending = None \/ \A o \in Ops : ~Waiting(o, running)

SuccessStays == \A l \in opsOld, o \in Ops : l[o].state = "success" => ops[o].state = "success"

SlotInv == Flashed /\ Promotes /\ SuccessStays

\* Only operations of F fail and only those of S succeed; nothing else moves.
Ends(F, S) ==
  /\ opsOld' \subseteq opsOld \cup {ops}
  /\ \A o \in Ops :
       /\ ops'[o].target = ops[o].target
       /\ \/ ops'[o].state = ops[o].state
          \/ o \in F /\ ops'[o].state = "failed"
          \/ o \in S /\ ops'[o].state = "success"

LEMMA NothingEnds ==
  ASSUME ops' = ops, opsOld' \subseteq opsOld \cup {ops}
  PROVE  Ends({}, {})
BY DEF Ends

LEMMA UpdatedEnds ==
  ASSUME ops \in Ledgers, NEW o \in Ops, Ledger(Updated(ops, o, "failed"))
  PROVE  Ends({q \in {o} : ops[q].state # "success"}, {})
BY DEF Ends, Ledger, Updated, MayMove, Ledgers

LEMMA ConfirmedEnds ==
  ASSUME ops \in Ledgers, NEW s, NEW expected, NEW build, Ledger(Confirmed(s, expected, build))
  PROVE  Ends({}, {o \in Ops : Waiting(o, s)})
BY DEF Ends, Ledger, Confirmed, Ledgers

LEMMA GivenUpEnds ==
  ASSUME ops \in Ledgers, NEW s, NEW expected, Ledger(GivenUp(s, expected))
  PROVE  Ends({o \in Ops : Waiting(o, s)}, {})
BY DEF Ends, Ledger, GivenUp, Ledgers

LEMMA SettledEnds ==
  ASSUME ops \in Ledgers, ReconcileSettled
  PROVE  Ends({o \in Ops : Waiting(o, Other(running))}, {o \in Ops : Waiting(o, running)})
<1>1. \A o \in Ops : /\ GivenUp(Other(running), conf.op)[o] # ops[o] =>
                          /\ Waiting(o, Other(running))
                          /\ GivenUp(Other(running), conf.op)[o] = [ops[o] EXCEPT !.state = "failed"]
                     /\ LET k == Confirmed(running, None, conf.row[running].build)[o] IN
                        k # ops[o] => Waiting(o, running) /\ k = [ops[o] EXCEPT !.state = "success"]
  BY DEF GivenUp, Confirmed
<1>2. \A o \in Ops : \/ ops'[o] = ops[o]
                     \/ Waiting(o, Other(running)) /\ ops'[o] = [ops[o] EXCEPT !.state = "failed"]
                     \/ Waiting(o, running) /\ ops'[o] = [ops[o] EXCEPT !.state = "success"]
  BY <1>1 DEF ReconcileSettled, Ledger
<1> QED
  BY <1>2 DEF Ends, ReconcileSettled, Ledger, Ledgers

\* A step that writes no slot, selects nothing and starts no work.
LEMMA EndsKeeps ==
  ASSUME IInv, SlotInv, NEW F \in SUBSET Ops, NEW S \in SUBSET Ops, Ends(F, S),
         \A o \in F : ops[o].state # "success",
         image' = image, running' = running,
         env'.active = env.active, env'.pending \in {env.pending, None},
         otad' = "promoted" => otad = "promoted",
         worker' = Idle \/ (worker'.pc = worker.pc /\ worker'.op = worker.op)
  PROVE  SlotInv'
<1>1. SuccessStays'
  BY DEF SlotInv, SuccessStays, Ends
<1>2. Promotes'
  BY DEF SlotInv, Promotes, Ends, Waiting
<1>3. \A l \in Versions', o \in Ops :
        l[o].state = "rebooting" => l[o].target \in Slots /\ image[l[o].target] = o
  BY DEF SlotInv, Flashed, Ends, Versions
<1>4. worker.pc \in {"check"} \cup Preparing => NoneWaits(ops')
  BY DEF SlotInv, Flashed, Ends, NoneWaits
<1>5. worker.pc \in Preparing => \A l \in opsOld' : NoneWaits(l)
  BY DEF SlotInv, Flashed, Ends
<1>6. worker'.pc = "idle" \/ (worker'.pc = worker.pc /\ worker'.op = worker.op)
  BY IdleTyped
<1>7. worker'.pc # "idle" => Target' = Target
  BY <1>6 DEF IInv, WorkerInv, Target, Ends
<1>8. Flashed'
  BY <1>3, <1>4, <1>5, <1>6, <1>7 DEF SlotInv, Flashed, Preparing, NoneWaits
<1> QED
  BY <1>1, <1>2, <1>8 DEF SlotInv

\* The worker goes on; nothing moves in the ledger and no slot is written.
LEMMA GoesOnKeeps ==
  ASSUME IInv, SlotInv, worker.pc \notin {"idle", "check"},
         NEW pc \in Preparing \cup {"opid", "reboot", "clear", "fail"}, To(pc),
         pc \in Preparing => worker.pc \in Preparing,
         pc \in {"valid", "pending", "rows", "ledger"} =>
           worker.pc \in {"valid", "pending", "rows", "ledger"},
         ops' = ops, opsOld' = opsOld, image' = image, running' = running, otad' = otad,
         env'.active = env.active, env'.pending \in {env.pending, None} \/ worker.pc \in Preparing
  PROVE  SlotInv'
<1>1. worker'.pc = pc /\ worker'.op = worker.op /\ Target' = Target
  BY Moves DEF IInv, Preparing, Target
<1>2. SuccessStays'
  BY DEF SlotInv, SuccessStays
<1>3. Flashed'
  BY <1>1 DEF SlotInv, Flashed, Preparing, Versions
<1>4. Promotes'
  BY DEF SlotInv, Promotes, Flashed, NoneWaits, Waiting
<1> QED
  BY <1>2, <1>3, <1>4 DEF SlotInv

LEMMA Deselects ==
  ASSUME env \in Envs, NEW s
  PROVE  /\ Invalidated(s).active = env.active /\ Invalidated(s).pending = None
         /\ Deselected.active = env.active /\ Deselected.pending = None
BY DEF Invalidated, Deselected, Envs

\* The worker gives up: its operation fails.
LEMMA GivesUpKeeps ==
  ASSUME IInv, SlotInv, worker.op \in Ops, worker' = Idle,
         Ledger(Updated(ops, worker.op, "failed")), UNCHANGED <<image, running, otad>>,
         env'.active = env.active, env'.pending \in {env.pending, None}
  PROVE  SlotInv'
<1> DEFINE F == {q \in {worker.op} : ops[q].state # "success"}
<1>1. Ends(F, {})
  BY UpdatedEnds DEF IInv, TypeOK
<1>2. F \in SUBSET Ops /\ \A o \in F : ops[o].state # "success"
  OBVIOUS
<1> QED
  BY <1>1, <1>2, EndsKeeps

LEMMA DownKeeps ==
  ASSUME IInv, SlotInv, ops' \in Versions, opsOld' = {}, image' = image, worker' = Idle,
         otad' = "down"
  PROVE  SlotInv'
BY DEF SlotInv, Flashed, Promotes, SuccessStays, Versions, Preparing, Idle

-----------------------------------------------------------------------------
(* Every step keeps it. *)

LEMMA PreflightKeeps ==
  ASSUME IInv, SlotInv, NEW o \in Ops, Preflight(o)
  PROVE  SlotInv'
<1>1. /\ ops[o].state = "none" /\ ops'[o].state = "pending"
      /\ \A q \in Ops \ {o} : ops'[q] = ops[q]
      /\ opsOld' = opsOld \cup {ops}
      /\ UNCHANGED <<env, image, running, otad, worker>>
  BY DEF Preflight, Ledger, IInv, TypeOK, Ledgers
<1>2. worker.pc # "idle" => worker.op # o /\ Target' = Target
  BY <1>1 DEF IInv, WorkerInv, Target
<1>3. Flashed'
  BY <1>1, <1>2 DEF SlotInv, Flashed, Versions, NoneWaits, Preparing
<1>4. Promotes' /\ SuccessStays'
  BY <1>1 DEF SlotInv, Promotes, SuccessStays, Waiting
<1> QED
  BY <1>3, <1>4 DEF SlotInv

LEMMA ApplyKeeps ==
  ASSUME IInv, SlotInv, NEW o \in Ops, Apply(o)
  PROVE  SlotInv'
<1>1. /\ ops[o].state = "pending"
      /\ \A q \in Ops : ops[q].state # "rebooting"
      /\ opsOld' = opsOld \cup {ops}
      /\ UNCHANGED <<env, image, running, otad>>
  BY DEF Apply, Claimable, Busy, Ledger
<1>2. CASE worker = Idle /\ worker'.pc = "check" /\ ops' = [ops EXCEPT ![o].state = "writing"]
  <2>1. \A q \in Ops : ops'[q].target = ops[q].target /\ ops'[q].state # "rebooting"
                       /\ (ops[q].state = "success" => ops'[q].state = "success")
    BY <1>1, <1>2 DEF IInv, TypeOK, Ledgers
  <2> QED
    BY <1>1, <1>2, <2>1
    DEF SlotInv, Flashed, Promotes, SuccessStays, Waiting, Versions, NoneWaits, Preparing
<1>3. CASE worker' = worker /\ ops' = [ops EXCEPT ![o].state = "failed"]
  <2>1. Ends({o}, {})
    BY <1>1, <1>3 DEF Ends, IInv, TypeOK, Ledgers
  <2> QED
    BY <1>1, <1>3, <2>1, EndsKeeps
<1> QED
  BY <1>2, <1>3 DEF Apply, Ledger

LEMMA RollbackKeeps ==
  ASSUME IInv, SlotInv, Rollback
  PROVE  SlotInv'
<1> DEFINE busy == {o \in Ops : ops[o].state \in Busy}
<1>1. UNCHANGED <<image, running, otad, worker>>
  BY DEF Rollback
<1>2. env'.active = env.active /\ env'.pending \in {env.pending, None}
  BY Deselects DEF Rollback, EnvSet, EnvFails, IInv, TypeOK
<1>3. Ends(busy, {})
  BY DEF Rollback, Ends, Ledger, IInv, TypeOK, Ledgers
<1>4. \A o \in busy : ops[o].state # "success"
  BY DEF Busy
<1> QED
  BY <1>1, <1>2, <1>3, <1>4, EndsKeeps

LEMMA WorkerCheckKeeps ==
  ASSUME IInv, SlotInv, WorkerCheck
  PROVE  SlotInv'
<1>1. /\ TypeOK /\ worker.op \in Ops
      /\ worker.pc = "check" /\ UNCHANGED <<env, image, running, otad>>
  BY DEF WorkerCheck, At, IInv, WorkerInv
<1>2. CASE Target = Other(running) /\ To("prepare") /\ opsOld' = {} /\ ops' = ops
  <2>1. worker'.pc = "prepare" /\ Target' = Target
    BY <1>1, <1>2, Moves DEF Target
  <2> QED
    BY <1>1, <1>2, <2>1 DEF SlotInv, Flashed, Promotes, SuccessStays, Waiting, Versions, Preparing
<1>3. CASE worker' = Idle /\ Ledger(Updated(ops, worker.op, "failed"))
  BY <1>1, <1>3, GivesUpKeeps
<1> QED
  BY <1>2, <1>3 DEF WorkerCheck

LEMMA WorkerPrepareKeeps ==
  ASSUME IInv, SlotInv, WorkerPrepare
  PROVE  SlotInv'
<1>1. /\ TypeOK /\ worker.op \in Ops
      /\ worker.pc = "prepare" /\ UNCHANGED <<image, running, otad>>
      /\ env'.active = env.active /\ env'.pending \in {env.pending, None}
  BY DEF WorkerPrepare, At, IInv, WorkerInv, EnvSet, EnvFails, Prepared, Invalidated
<1>2. CASE To("write") /\ UNCHANGED <<ops, opsOld>>
  BY <1>1, <1>2, GoesOnKeeps DEF Preparing
<1>3. CASE worker' = Idle /\ Ledger(Updated(ops, worker.op, "failed"))
  BY <1>1, <1>3, GivesUpKeeps
<1> QED
  BY <1>2, <1>3 DEF WorkerPrepare

\* A slot is written.
LEMMA WritesKeeps ==
  ASSUME IInv, SlotInv, NEW build, NEW pc \in {"finish", "valid"},
         pc = "valid" => build = worker.op,
         worker.pc \in {"write", "finish"}, image' = [image EXCEPT ![Target] = build], To(pc),
         UNCHANGED <<env, running, otad, ops, opsOld>>
  PROVE  SlotInv'
<1>1. worker'.pc = pc /\ worker'.op = worker.op /\ Target' = Target
  BY Moves DEF IInv, Target
<1>2. Target \in Slots /\ image'[Target] = build
  BY DEF IInv, TypeOK, WorkerInv
<1>3. Flashed'
  BY <1>1, <1>2 DEF SlotInv, Flashed, Versions, NoneWaits, Preparing
<1>4. Promotes' /\ SuccessStays'
  BY DEF SlotInv, Promotes, SuccessStays, Waiting
<1> QED
  BY <1>3, <1>4 DEF SlotInv

LEMMA WorkerWriteKeeps ==
  ASSUME IInv, SlotInv, WorkerWrite \/ WorkerFinish
  PROVE  SlotInv'
<1>1. /\ worker.pc \in {"write", "finish"}
      /\ UNCHANGED <<env, running, otad, ops, opsOld>>
      /\ \/ image' = [image EXCEPT ![Target] = Torn] /\ To("finish")
         \/ image' = [image EXCEPT ![Target] = worker.op] /\ To("valid")
         \/ image' = image /\ To("clear")
  BY DEF WorkerWrite, WorkerFinish, At
<1>2. CASE image' = image /\ To("clear")
  BY <1>1, <1>2, GoesOnKeeps DEF Preparing
<1> QED
  BY <1>1, <1>2, WritesKeeps

LEMMA WorkerGoesOnKeeps ==
  ASSUME IInv, SlotInv, WorkerValid \/ WorkerPending \/ WorkerClear
  PROVE  SlotInv'
<1>1. UNCHANGED <<image, running, otad, ops, opsOld>>
  BY DEF WorkerValid, WorkerPending, WorkerClear
<1>2. CASE WorkerValid
  <2>1. worker.pc = "valid" /\ (To("pending") \/ To("clear"))
    BY <1>2 DEF WorkerValid, At
  <2>2. env'.active = env.active
    BY <1>2 DEF WorkerValid, EnvSet, EnvFails, IInv, TypeOK, Envs
  <2> QED
    BY <1>1, <2>1, <2>2, GoesOnKeeps DEF Preparing
<1>3. CASE WorkerPending
  <2>1. worker.pc = "pending" /\ (To("rows") \/ To("clear"))
    BY <1>3 DEF WorkerPending, At
  <2>2. env'.active = env.active
    BY <1>3 DEF WorkerPending, Selected, EnvSet, EnvFails, IInv, TypeOK, Envs
  <2> QED
    BY <1>1, <2>1, <2>2, GoesOnKeeps DEF Preparing
<1>4. CASE WorkerClear
  <2>1. worker.pc = "clear" /\ To("fail")
    BY <1>4 DEF WorkerClear, At
  <2>2. env'.active = env.active /\ env'.pending \in {env.pending, None}
    BY <1>4, Deselects DEF WorkerClear, EnvSet, EnvFails, IInv, TypeOK
  <2> QED
    BY <1>1, <2>1, <2>2, GoesOnKeeps DEF Preparing
<1> QED
  BY <1>2, <1>3, <1>4

LEMMA WorkerRowsKeeps ==
  ASSUME IInv, SlotInv, WorkerRows \/ WorkerOpId
  PROVE  SlotInv'
<1>1. UNCHANGED <<env, image, running, otad, ops, opsOld>>
  BY DEF WorkerRows, WorkerOpId
<1>2. \/ worker.pc = "rows" /\ To("ledger")
      \/ worker.pc = "opid" /\ To("reboot")
      \/ worker' = Idle
  BY DEF WorkerRows, WorkerOpId, At
<1>3. CASE worker' = Idle
  BY <1>1, <1>3, NothingEnds, EndsKeeps
<1>4. CASE worker.pc = "rows" /\ To("ledger")
  BY <1>1, <1>4, GoesOnKeeps DEF Preparing
<1>5. CASE worker.pc = "opid" /\ To("reboot")
  BY <1>1, <1>5, GoesOnKeeps DEF Preparing
<1> QED
  BY <1>2, <1>3, <1>4, <1>5

\* The operation waits for the reboot that tries its build.
LEMMA WorkerLedgerKeeps ==
  ASSUME IInv, SlotInv, WorkerLedger
  PROVE  SlotInv'
<1>1. /\ TypeOK /\ worker.op \in Ops /\ Target \in Slots
      /\ worker.pc = "ledger" /\ UNCHANGED <<env, image, running, otad>>
  BY DEF WorkerLedger, At, IInv, WorkerInv
<1>2. CASE UNCHANGED <<ops, opsOld>> /\ To("clear")
  BY <1>1, <1>2, GoesOnKeeps DEF Preparing
<1>3. CASE /\ MayMove(ops[worker.op].state, "rebooting")
           /\ Ledger(Updated(ops, worker.op, "rebooting")) /\ To("opid")
  <2>1. /\ ops[worker.op].state = "writing" /\ ops'[worker.op].target = Target
        /\ \A q \in Ops \ {worker.op} : ops'[q] = ops[q]
        /\ ops'[worker.op].state = "rebooting" /\ opsOld' = opsOld \cup {ops}
    BY <1>1, <1>3 DEF MayMove, Ledger, Updated, TypeOK, Ledgers, Target
  <2>2. worker'.pc = "opid" /\ worker'.op = worker.op /\ Target' = Target
    BY <1>1, <1>3, <2>1, Moves DEF Target
  <2>3. image[Target] = worker.op /\ Target = Other(running)
    BY <1>1 DEF SlotInv, Flashed
  <2>4. Flashed'
    BY <1>1, <2>1, <2>2, <2>3 DEF SlotInv, Flashed, Versions, Preparing
  <2>5. Promotes'
    <3>1. otad # "down" => running \in Slots
      BY <1>1 DEF IInv, WorkerInv, TypeOK
    <3> QED
      BY <1>1, <2>1, <2>3, <3>1, TwoSlots DEF SlotInv, Promotes, Waiting
  <2>6. SuccessStays'
    BY <2>1 DEF SlotInv, SuccessStays
  <2> QED
    BY <2>4, <2>5, <2>6 DEF SlotInv
<1> QED
  BY <1>2, <1>3 DEF WorkerLedger

LEMMA WorkerEndsKeeps ==
  ASSUME IInv, SlotInv, WorkerRebootFails \/ WorkerFails \/ WorkerDies
  PROVE  SlotInv'
<1>1. worker.op \in Ops /\ worker' = Idle /\ UNCHANGED <<image, running, otad>>
  BY DEF WorkerRebootFails, WorkerFails, WorkerDies, At, IInv, WorkerInv
<1>2. env'.active = env.active /\ env'.pending \in {env.pending, None}
  BY Deselects DEF WorkerRebootFails, WorkerFails, WorkerDies, IInv, TypeOK
<1>3. Ledger(Updated(ops, worker.op, "failed")) \/ UNCHANGED <<ops, opsOld>>
  BY DEF WorkerRebootFails, WorkerFails, WorkerDies
<1>4. CASE UNCHANGED <<ops, opsOld>>
  BY <1>1, <1>2, <1>4, NothingEnds, EndsKeeps
<1> QED
  BY <1>1, <1>2, <1>3, <1>4, GivesUpKeeps

LEMMA GoesDownKeeps ==
  ASSUME IInv, SlotInv, WorkerReboot \/ UserReboot \/ PowerLoss \/ Hang
  PROVE  SlotInv'
<1>1. /\ ops' \in Versions /\ opsOld' = {} /\ image' = image /\ worker' = Idle
      /\ otad' = "down"
  BY DEF WorkerReboot, UserReboot, PowerLoss, Hang, Stop, Down, Versions
<1> QED
  BY <1>1, DownKeeps

LEMMA BootKeeps ==
  ASSUME IInv, SlotInv, Boot
  PROVE  SlotInv'
<1>1. worker.pc = "idle" /\ otad = "down" /\ UNCHANGED <<image, ops, opsOld, otad, worker>>
  BY DEF Boot, IInv, WorkerInv
<1> QED
  BY <1>1 DEF SlotInv, Flashed, Promotes, SuccessStays, Versions, Preparing

LEMMA ReconcileKeeps ==
  ASSUME IInv, SlotInv, Reconcile
  PROVE  SlotInv'
<1>1. UNCHANGED <<env, image, running, worker>> /\ otad' = "reconciled"
  BY DEF Reconcile
<1>2. CASE ReconcileSettled
  <2> DEFINE F == {o \in Ops : Waiting(o, Other(running))}
             S == {o \in Ops : Waiting(o, running)}
  <2>1. Ends(F, S)
    BY <1>2, SettledEnds DEF IInv, TypeOK
  <2>2. F \in SUBSET Ops /\ S \in SUBSET Ops /\ \A o \in F : ops[o].state # "success"
    BY DEF Waiting
  <2> HIDE DEF F, S
  <2> QED
    BY <1>1, <2>1, <2>2, EndsKeeps
<1>3. CASE ReconcileRolledBack
  <2> DEFINE F == {o \in Ops : Waiting(o, conf.pending)}
  <2>1. Ends(F, {})
    BY <1>3, GivenUpEnds DEF ReconcileRolledBack, IInv, TypeOK
  <2>2. F \in SUBSET Ops /\ \A o \in F : ops[o].state # "success"
    BY DEF Waiting
  <2> HIDE DEF F
  <2> QED
    BY <1>1, <2>1, <2>2, EndsKeeps
<1>4. CASE UNCHANGED <<ops, opsOld>>
  BY <1>1, <1>4, NothingEnds, EndsKeeps
<1> QED
  BY <1>2, <1>3, <1>4 DEF Reconcile, ReconcilePending

\* Steps that do not touch the ledger and select nothing.
LEMMA QuietKeeps ==
  ASSUME IInv, SlotInv,
         \/ Start \/ WindowEnds \/ CheckReady \/ ConfirmState \/ ConfirmRow \/ CheckSoft
         \/ CheckHard \/ DaemonDies
  PROVE  SlotInv'
<1>1. /\ UNCHANGED <<env, image, running, ops>> /\ opsOld' \in {opsOld, {}}
      /\ worker'.pc = worker.pc /\ worker'.op = worker.op
      /\ otad' = "promoted" => otad = "promoted"
  BY DEF Start, WindowEnds, CheckReady, ConfirmState, ConfirmRow, CheckSoft, CheckHard, DaemonDies,
     IInv, TypeOK, Workers
<1> QED
  BY <1>1, NothingEnds, EndsKeeps

\* The slot that runs is promoted.
LEMMA CheckConfirmsKeeps ==
  ASSUME IInv, SlotInv, CheckConfirms
  PROVE  SlotInv'
<1>1. UNCHANGED <<image, running, worker, ops, opsOld>>
  BY DEF CheckConfirms
<1>2. Flashed' /\ SuccessStays'
  BY <1>1 DEF SlotInv, Flashed, SuccessStays, Versions, NoneWaits, Target
<1>3. Promotes'
  BY <1>1 DEF CheckConfirms, Trial, EnvSet, Promoted, Promotes
<1> QED
  BY <1>2, <1>3 DEF SlotInv

LEMMA ConfirmLedgerKeeps ==
  ASSUME IInv, SlotInv, ConfirmLedger
  PROVE  SlotInv'
<1>1. Ends({}, {o \in Ops : Waiting(o, running)})
  BY ConfirmedEnds DEF ConfirmLedger, IInv, TypeOK
<1>2. UNCHANGED <<env, image, running, worker>> /\ otad' = "completed"
  BY DEF ConfirmLedger
<1> QED
  BY <1>1, <1>2, EndsKeeps

LEMMA UndoKeeps ==
  ASSUME IInv, SlotInv, CheckUndoes \/ Undo
  PROVE  SlotInv'
<1>1. CASE CheckUndoes
  <2>1. /\ UNCHANGED <<image, running, worker, ops, opsOld>>
        /\ env'.active = env.active /\ env'.pending \in {env.pending, None}
        /\ otad' = "promoted" => otad = "promoted"
    BY <1>1 DEF CheckUndoes, EnvSet, EnvFails, Undone
  <2> QED
    BY <2>1, NothingEnds, EndsKeeps
<1>2. CASE UndoLedger
  <2> DEFINE F == {o \in Ops : Waiting(o, running)}
  <2>1. Ends(F, {})
    BY <1>2, GivenUpEnds DEF UndoLedger, IInv, TypeOK
  <2>2. F \in SUBSET Ops /\ \A o \in F : ops[o].state # "success"
    BY DEF Waiting
  <2>3. UNCHANGED <<env, image, running, worker>> /\ otad' = "unrecorded"
    BY <1>2 DEF UndoLedger
  <2> HIDE DEF F
  <2> QED
    BY <2>1, <2>2, <2>3, EndsKeeps
<1>3. CASE UndoReboot
  <2>1. UNCHANGED <<env, image, ops>> /\ opsOld' = {}
    BY <1>3 DEF UndoReboot, Down
  <2>2. CASE Down
    BY <2>1, <2>2, DownKeeps DEF Down, Versions
  <2>3. CASE UNCHANGED <<running, worker>> /\ otad' = "up"
    BY <2>1, <2>3, NothingEnds, EndsKeeps
  <2> QED
    BY <1>3, <2>2, <2>3 DEF UndoReboot
<1> QED
  BY <1>1, <1>2, <1>3 DEF Undo

LEMMA InitSlotInv == ASSUME Init PROVE SlotInv
<1>1. /\ \A o \in Ops : ops[o].state = "none"
      /\ opsOld = {} /\ otad = "up" /\ worker.pc = "idle"
  BY DEF Init, Idle
<1> QED
  BY <1>1 DEF SlotInv, Flashed, Promotes, SuccessStays, Versions, NoneWaits, Preparing

-----------------------------------------------------------------------------
(* A success is recorded where the build that runs is the one the bootloader  *)
(* starts.                                                                    *)

\* Only confirmation and reconciliation record a success.
LEMMA OtherwiseNoSuccess ==
  ASSUME IInv, SlotInv, Next, ~ConfirmLedger, ~Reconcile,
         NEW o \in Ops, ops'[o].state = "success"
  PROVE  ops[o].state = "success"
<1>1. TypeOK
  BY DEF IInv
<1>2. \A q, r \in Ops : \A to \in {"rebooting", "failed"} :
        Updated(ops, q, to)[r].state \in {ops[r].state, to}
  BY <1>1 DEF Updated, TypeOK, Ledgers
<1>3. CASE \E q \in Ops : Preflight(q) \/ Apply(q)
  BY <1>1, <1>3 DEF Preflight, Apply, Ledger, TypeOK, Ledgers
<1>4. CASE Rollback
  BY <1>1, <1>4 DEF Rollback, Ledger, TypeOK, Ledgers
<1>5. CASE \/ WorkerCheck \/ WorkerPrepare \/ WorkerLedger \/ WorkerRebootFails
           \/ WorkerFails \/ WorkerDies
  <2>1. worker.op \in Ops
    BY <1>5 DEF IInv, WorkerInv, WorkerCheck, WorkerPrepare, WorkerLedger, WorkerRebootFails,
       WorkerFails, WorkerDies, At
  <2>2. \/ ops' = ops
        \/ \E to \in {"rebooting", "failed"} : ops' = Updated(ops, worker.op, to)
    BY <1>5 DEF WorkerCheck, WorkerPrepare, WorkerLedger, WorkerRebootFails, WorkerFails,
       WorkerDies, Ledger
  <2> QED
    BY <1>2, <2>1, <2>2
<1>6. CASE PowerLoss \/ Hang
  BY <1>6 DEF PowerLoss, Hang, Stop, SlotInv, SuccessStays
<1>7. CASE UndoLedger
  BY <1>1, <1>7, GivenUpEnds DEF UndoLedger, Ends, TypeOK
<1>8. CASE ops' = ops
  BY <1>8
<1> QED
  BY <1>3, <1>4, <1>5, <1>6, <1>7, <1>8
  DEF Next, Unchecked, Check, Worker, Confirm, Undo, WorkerWrite, WorkerFinish, WorkerValid,
      WorkerPending, WorkerRows, WorkerOpId, WorkerReboot, WorkerClear, Boot, Start, WindowEnds, CheckReady,
      CheckConfirms, ConfirmState, ConfirmRow, CheckSoft, CheckHard, CheckUndoes, UndoReboot,
      UserReboot, DaemonDies

LEMMA SuccessStep ==
  ASSUME IInv, SlotInv, Next, NEW o \in Ops, ops'[o].state = "success", ops[o].state # "success"
  PROVE  env.active = ops[o].target /\ env.pending = None /\ image[env.active] = o
<1>1. ASSUME Waiting(o, running), env.active = running
      PROVE  image[env.active] = o /\ env.active = ops[o].target
  BY <1>1 DEF SlotInv, Flashed, Versions, Waiting
<1>2. CASE ConfirmLedger
  <2>1. Waiting(o, running)
    BY <1>2, ConfirmedEnds DEF ConfirmLedger, Ends, IInv, TypeOK
  <2> QED
    BY <1>1, <1>2, <2>1 DEF ConfirmLedger, SlotInv, Promotes
<1>3. CASE Reconcile
  <2>1. ReconcileSettled /\ Coherent(running)
    BY <1>3, GivenUpEnds DEF Reconcile, ReconcilePending, ReconcileRolledBack, Ends, IInv, TypeOK
  <2>2. Waiting(o, running)
    BY <2>1, SettledEnds DEF Ends, IInv, TypeOK
  <2> QED
    BY <1>1, <2>1, <2>2 DEF ReconcileSettled, Coherent
<1> QED
  BY <1>2, <1>3, OtherwiseNoSuccess

-----------------------------------------------------------------------------
(* Operations and slots agree *)

LEMMA SlotInvStep ==
  ASSUME IInv, SlotInv, [Next]_vars
  PROVE  SlotInv'
<1>1. CASE UNCHANGED vars
  BY <1>1 DEF vars, SlotInv, Flashed, Promotes, SuccessStays, Waiting, Versions, NoneWaits, Target
<1>2. CASE \E o \in Ops : Preflight(o) \/ Apply(o)
  BY <1>2, PreflightKeeps, ApplyKeeps
<1>3. CASE Rollback \/ Boot \/ Reconcile \/ CheckConfirms \/ ConfirmLedger
  BY <1>3, RollbackKeeps, BootKeeps, ReconcileKeeps, CheckConfirmsKeeps, ConfirmLedgerKeeps
<1>4. CASE Worker
  BY <1>4, WorkerCheckKeeps, WorkerPrepareKeeps, WorkerWriteKeeps, WorkerGoesOnKeeps,
     WorkerRowsKeeps, WorkerLedgerKeeps, WorkerEndsKeeps, GoesDownKeeps DEF Worker
<1>5. CASE WorkerRebootFails \/ WorkerDies
  BY <1>5, WorkerEndsKeeps
<1>6. CASE \/ Start \/ WindowEnds \/ CheckReady \/ ConfirmState \/ ConfirmRow \/ CheckSoft
           \/ CheckHard \/ DaemonDies
  BY <1>6, QuietKeeps
<1>7. CASE CheckUndoes \/ Undo
  BY <1>7, UndoKeeps
<1>8. CASE UserReboot \/ PowerLoss \/ Hang
  BY <1>8, GoesDownKeeps
<1> QED
  BY <1>1, <1>2, <1>3, <1>4, <1>5, <1>6, <1>7, <1>8 DEF Next, Unchecked, Check, Confirm

\* A slot is written only while no version of the ledger has an operation that
\* waits for its reboot, and what is promoted stays so until it is recorded.
THEOREM SlotsAgree == Spec => []SlotInv
<1> QED
  BY Inductive, InitSlotInv, SlotInvStep, PTL DEF Spec

\* An operation that waits for its reboot has its own build in the slot it chose,
\* whatever was prepared, interrupted or lost besides.
THEOREM WaitsForItsBuild == Spec => []RebootingIsWritten
<1>1. SlotInv => RebootingIsWritten
  BY DEF SlotInv, Flashed, Versions, RebootingIsWritten
<1> QED
  BY <1>1, SlotsAgree, PTL

\* A success is recorded only for the build that the bootloader starts from now on.
THEOREM SuccessIsTrue == Spec => SuccessIsPromoted
<1>1. IInv /\ SlotInv /\ [Next]_vars =>
        [\A o \in Ops : ops'[o].state = "success" /\ ops[o].state # "success" =>
           /\ env.active = ops[o].target /\ env.pending = None
           /\ image[env.active] = o]_vars
  BY SuccessStep
<1> QED
  BY <1>1, Inductive, SlotsAgree, PTL DEF Spec, SuccessIsPromoted

-----------------------------------------------------------------------------
(* When nothing fails but the power: the slot the bootloader falls back to     *)

OnlyPowerFails == FaultKinds \subseteq {"power"} /\ ~Rollbacks

\* There is a slot to fall back to, and a candidate is complete and belongs to
\* an operation that is not ended.
Selection ==
  /\ env.valid[env.active]
  /\ env.pending = None => env.tries = 0
  /\ env.pending # None =>
       /\ env.pending # env.active /\ env.valid[env.pending] /\ image[env.pending] \in Ops
       /\ \A l \in Versions : l[image[env.pending]].state \in Busy

\* The system runs from the active slot or from the candidate, except while a
\* rollback waits for its reboot.
Withdrawn == {"undone", "unrecorded"}
Placed ==
  running # None =>
    IF otad \in Withdrawn
    THEN env.pending = None /\ running # env.active /\ worker.pc = "idle"
    ELSE running \in {env.active, env.pending}

\* A worker runs beside the active slot; past its check the ledger has its
\* operation in every version, and no slot has its build before the slot is written.
Works ==
  /\ worker.pc # "idle" =>
       /\ running = env.active /\ otad \notin {"down", "reconciled"}
       /\ ops[worker.op].state \in Busy
       /\ env.pending \in {None, Target}
  /\ worker.pc \in {"check", "prepare", "write", "finish", "valid", "pending", "fail"} =>
       env.pending = None
  /\ worker.pc = "pending" => env.valid[Target]
  /\ worker.pc \notin {"idle", "check"} =>
       \A l \in opsOld : l[worker.op].state \in Busy /\ l[worker.op].target = Target
  /\ worker.pc \in {"check", "prepare", "write", "finish"} =>
       \A s \in Slots : image[s] # worker.op

\* Every version of the ledger knows which operation wrote a slot, and none has
\* failed that is in the active one.
Written ==
  \A l \in Versions, o \in Ops :
    /\ \A s \in Slots : image[s] = o => l[o].target = s /\ l[o].state \notin {"none", "pending"}
    /\ l[o].state = "failed" => image[env.active] # o

PowerInv == Selection /\ Placed /\ Works /\ Written

LEMMA NoOtherFault ==
  ASSUME OnlyPowerFails
  PROVE  /\ ~Fault("kill") /\ ~Fault("env") /\ ~Fault("daemon") /\ ~Fault("reboot")
         /\ \A e : ~EnvFails(e)
BY DEF OnlyPowerFails, Fault, EnvFails

\* Operations end that are not in the active slot when they fail, and that are
\* neither the candidate's nor the worker's.
LEMMA EndsKeepsPower ==
  ASSUME IInv, PowerInv, NEW F \in SUBSET Ops, NEW S \in SUBSET Ops, Ends(F, S),
         UNCHANGED <<env, image, running>>,
         \A o \in F : image[env.active] # o,
         env.pending # None => image[env.pending] \notin F \cup S,
         \/ worker'.pc = "idle"
         \/ /\ worker'.pc = worker.pc /\ worker'.op = worker.op
            /\ worker.pc # "idle" => /\ worker.op \notin F \cup S
                                     /\ otad' \notin {"down", "reconciled"},
         otad' \in Withdrawn <=> otad \in Withdrawn
  PROVE  PowerInv'
<1>1. Selection'
  BY DEF PowerInv, Selection, Ends, Versions
<1>2. Placed'
  BY DEF PowerInv, Placed
<1>3. worker'.pc # "idle" => worker.op \in Ops /\ Target' = Target
  BY DEF IInv, WorkerInv, Target, Ends
<1>4. Works'
  BY <1>3 DEF PowerInv, Works, Ends, Target
<1>5. Written'
  BY DEF PowerInv, Written, Ends, Versions
<1> QED
  BY <1>1, <1>2, <1>4, <1>5 DEF PowerInv

LEMMA QuietKeepsPower ==
  ASSUME IInv, PowerInv, OnlyPowerFails,
         \/ Start \/ WindowEnds \/ CheckReady \/ ConfirmState \/ ConfirmRow \/ CheckSoft
         \/ CheckHard \/ DaemonDies
  PROVE  PowerInv'
<1>1. /\ UNCHANGED <<env, image, running, worker, ops>> /\ opsOld' \in {opsOld, {}}
      /\ otad' \in Withdrawn <=> otad \in Withdrawn
      /\ otad' \in {"down", "reconciled"} => otad \in {"down", "reconciled"}
  BY NoOtherFault
  DEF Start, WindowEnds, CheckReady, ConfirmState, ConfirmRow, CheckSoft, CheckHard, DaemonDies,
      Withdrawn
<1>2. worker.pc # "idle" => otad' \notin {"down", "reconciled"}
  BY <1>1 DEF PowerInv, Works
<1> QED
  BY <1>1, <1>2, NothingEnds, EndsKeepsPower

LEMMA PreflightKeepsPower ==
  ASSUME IInv, PowerInv, NEW o \in Ops, Preflight(o)
  PROVE  PowerInv'
<1>1. /\ ops[o].state = "none" /\ ops'[o].state = "pending"
      /\ \A q \in Ops \ {o} : ops'[q] = ops[q]
      /\ opsOld' = opsOld \cup {ops}
      /\ UNCHANGED <<env, image, running, otad, worker>>
  BY DEF Preflight, Ledger, IInv, TypeOK, Ledgers
<1>2. \A s \in Slots : image[s] # o
  BY <1>1 DEF PowerInv, Written, Versions
<1>3. worker.pc # "idle" => worker.op \in Ops \ {o} /\ Target' = Target
  BY <1>1 DEF IInv, WorkerInv, Target
<1>4. env.active \in Slots /\ (env.pending # None => env.pending \in Slots)
  BY DEF IInv, TypeOK, Envs
<1>5. Selection'
  BY <1>1, <1>2, <1>4 DEF PowerInv, Selection, Versions
<1>6. Placed'
  BY <1>1 DEF PowerInv, Placed
<1>7. Works'
  BY <1>1, <1>3 DEF PowerInv, Works, Target
<1>8. Written'
  BY <1>1, <1>2 DEF PowerInv, Written, Versions
<1> QED
  BY <1>5, <1>6, <1>7, <1>8 DEF PowerInv

LEMMA ApplyKeepsPower ==
  ASSUME IInv, SlotInv, PowerInv, NEW o \in Ops, Apply(o)
  PROVE  PowerInv'
<1>1. /\ ops[o].state = "pending" /\ otad = "up"
      /\ \A q \in Ops : ops[q].state \notin Busy
      /\ opsOld' = opsOld \cup {ops}
      /\ UNCHANGED <<env, image, running, otad>>
  BY DEF Apply, Claimable, Ledger
<1>2. \A s \in Slots : image[s] # o
  BY <1>1 DEF PowerInv, Written, Versions
<1>3. env.active \in Slots /\ env.pending = None
  BY <1>1 DEF IInv, TypeOK, Envs, PowerInv, Selection, Versions
<1>4. CASE worker = Idle /\ worker' = [op |-> o, pc |-> "check", child |-> TRUE]
           /\ ops' = [ops EXCEPT ![o].state = "writing"]
  <2>1. \A q \in Ops : /\ ops'[q].target = ops[q].target
                       /\ ops'[q].state = IF q = o THEN "writing" ELSE ops[q].state
    BY <1>4 DEF IInv, TypeOK, Ledgers
  <2>2. running = env.active
    BY <1>1, <1>3 DEF IInv, WorkerInv, PowerInv, Placed, Withdrawn
  <2>3. Selection' /\ Placed'
    BY <1>1, <1>3, <2>2 DEF PowerInv, Selection, Placed, Withdrawn
  <2>4. Works'
    BY <1>1, <1>2, <1>3, <1>4, <2>1, <2>2 DEF Works, Busy
  <2>5. Written'
    BY <1>1, <1>2, <2>1 DEF PowerInv, Written, Versions
  <2> QED
    BY <2>3, <2>4, <2>5 DEF PowerInv
<1>5. CASE worker' = worker /\ ops' = [ops EXCEPT ![o].state = "failed"]
  <2>1. Ends({o}, {})
    BY <1>1, <1>5 DEF Ends, IInv, TypeOK, Ledgers
  <2>2. worker.pc = "idle"
    BY <1>1 DEF PowerInv, Works, IInv, WorkerInv
  <2> QED
    BY <1>1, <1>2, <1>3, <1>5, <2>1, <2>2, EndsKeepsPower
<1> QED
  BY <1>4, <1>5 DEF Apply, Ledger

-----------------------------------------------------------------------------
(* The worker *)

\* What is known of a worker past its check.
LEMMA PowerAtWork ==
  ASSUME IInv, SlotInv, PowerInv, worker.pc \notin {"idle", "check"}
  PROVE  /\ worker.op \in Ops /\ Target \in Slots /\ running = env.active
         /\ Target # env.active /\ env.active \in Slots
         /\ image[env.active] # worker.op
         /\ otad \notin {"down", "reconciled"} \cup Withdrawn
<1>1. worker.op \in Ops /\ Target \in Slots /\ running = env.active /\ env.active \in Slots
  BY DEF IInv, WorkerInv, TypeOK, Envs, PowerInv, Works
<1>2. Target # env.active
  BY <1>1, TwoSlots DEF SlotInv, Flashed
<1>3. image[env.active] # worker.op
  BY <1>1, <1>2 DEF PowerInv, Written, Versions, Target
<1>4. otad \notin {"down", "reconciled"} \cup Withdrawn
  BY <1>1 DEF PowerInv, Works, Placed, IInv, WorkerInv
<1> QED
  BY <1>1, <1>2, <1>3, <1>4

\* The worker goes on and changes no slot.
LEMMA GoesOnKeepsPower ==
  ASSUME IInv, PowerInv, worker.pc \notin {"idle", "check"},
         NEW pc \in {"ledger", "reboot", "clear"}, To(pc),
         UNCHANGED <<env, image, running, otad, ops, opsOld>>
  PROVE  PowerInv'
<1>1. worker'.pc = pc /\ worker'.op = worker.op /\ Target' = Target
  BY Moves DEF IInv, Target
<1>2. Selection' /\ Placed' /\ Written'
  BY <1>1 DEF PowerInv, Selection, Placed, Written, Versions, IInv, WorkerInv
<1>3. Works'
  BY <1>1 DEF PowerInv, Works
<1> QED
  BY <1>2, <1>3 DEF PowerInv

LEMMA WorkerCheckKeepsPower ==
  ASSUME IInv, SlotInv, PowerInv, WorkerCheck
  PROVE  PowerInv'
<1>1. /\ TypeOK /\ worker.op \in Ops /\ worker.pc = "check"
      /\ UNCHANGED <<env, image, running, otad>> /\ env.active \in Slots
      /\ env.pending = None /\ \A s \in Slots : image[s] # worker.op
  BY DEF WorkerCheck, At, IInv, WorkerInv, TypeOK, Envs, PowerInv, Works
<1>2. CASE Target = Other(running) /\ To("prepare") /\ opsOld' = {} /\ ops' = ops
  <2>1. worker'.pc = "prepare" /\ worker'.op = worker.op /\ Target' = Target
    BY <1>1, <1>2, Moves DEF Target
  <2>2. Selection' /\ Placed' /\ Written'
    BY <1>1, <1>2, <2>1 DEF PowerInv, Selection, Placed, Written, Versions
  <2>3. Works'
    BY <1>1, <1>2, <2>1 DEF PowerInv, Works
  <2> QED
    BY <2>2, <2>3 DEF PowerInv
<1>3. CASE worker' = Idle /\ Ledger(Updated(ops, worker.op, "failed"))
  <2> DEFINE F == {q \in {worker.op} : ops[q].state # "success"}
  <2>1. Ends(F, {}) /\ F \in SUBSET Ops /\ \A o \in F : image[env.active] # o
    BY <1>1, <1>3, UpdatedEnds DEF TypeOK
  <2> HIDE DEF F
  <2> QED
    BY <1>1, <1>3, <2>1, EndsKeepsPower DEF Idle
<1> QED
  BY <1>2, <1>3 DEF WorkerCheck

LEMMA WorkerPrepareKeepsPower ==
  ASSUME IInv, SlotInv, PowerInv, OnlyPowerFails, WorkerPrepare
  PROVE  PowerInv'
<1>1. /\ worker.pc = "prepare" /\ To("write")
      /\ env' = Invalidated(Target)
      /\ UNCHANGED <<image, running, otad, ops, opsOld>>
  BY NoOtherFault DEF WorkerPrepare, At, EnvSet, Prepared
<1>2. /\ env'.active = env.active /\ env'.pending = None /\ env'.tries = 0
      /\ env'.valid[env.active]
  BY <1>1, PowerAtWork DEF Invalidated, PowerInv, Selection, IInv, TypeOK, Envs
<1>3. worker'.pc = "write" /\ worker'.op = worker.op /\ Target' = Target
  BY <1>1, Moves DEF IInv, Target
<1>4. Selection' /\ Written'
  BY <1>1, <1>2 DEF PowerInv, Selection, Written, Versions
<1>5. Placed'
  BY <1>1, <1>2, PowerAtWork DEF Placed
<1>6. Works'
  BY <1>1, <1>2, <1>3 DEF PowerInv, Works
<1> QED
  BY <1>4, <1>5, <1>6 DEF PowerInv

LEMMA WritesKeepsPower ==
  ASSUME IInv, SlotInv, PowerInv, NEW build \in Ops \cup {Torn}, NEW pc \in {"finish", "valid"},
         build = IF pc = "valid" THEN worker.op ELSE Torn,
         worker.pc \in {"write", "finish"}, image' = [image EXCEPT ![Target] = build], To(pc),
         UNCHANGED <<env, running, otad, ops, opsOld>>
  PROVE  PowerInv'
<1>1. worker'.pc = pc /\ worker'.op = worker.op /\ Target' = Target
  BY Moves DEF IInv, Target
<1>2. \A s \in Slots : image'[s] = IF s = Target THEN build ELSE image[s]
  BY DEF IInv, TypeOK
<1>3. Torn \notin Ops
  BY ConstantsAssumption DEF ConstantsAssumption
<1>4. env.pending = None
  BY DEF PowerInv, Works
<1>5. Selection'
  BY <1>4 DEF PowerInv, Selection
<1>6. Placed'
  BY <1>1, PowerAtWork DEF PowerInv, Placed
<1>7. Works'
  BY <1>1, <1>2, <1>3, <1>4, PowerAtWork DEF PowerInv, Works
<1>8. Written'
  BY <1>1, <1>2, <1>3, PowerAtWork DEF PowerInv, Written, Works, Versions, Target, Busy
<1> QED
  BY <1>5, <1>6, <1>7, <1>8 DEF PowerInv

LEMMA WorkerWriteKeepsPower ==
  ASSUME IInv, SlotInv, PowerInv, WorkerWrite \/ WorkerFinish
  PROVE  PowerInv'
<1>1. /\ worker.pc \in {"write", "finish"}
      /\ UNCHANGED <<env, running, otad, ops, opsOld>>
      /\ \/ image' = [image EXCEPT ![Target] = Torn] /\ To("finish")
         \/ image' = [image EXCEPT ![Target] = worker.op] /\ To("valid")
         \/ image' = image /\ To("clear")
  BY DEF WorkerWrite, WorkerFinish, At
<1>2. CASE image' = image /\ To("clear")
  BY <1>1, <1>2, GoesOnKeepsPower
<1> QED
  BY <1>1, <1>2, WritesKeepsPower, PowerAtWork

LEMMA WorkerValidKeepsPower ==
  ASSUME IInv, SlotInv, PowerInv, OnlyPowerFails, WorkerValid
  PROVE  PowerInv'
<1>1. /\ worker.pc = "valid" /\ To("pending")
      /\ env' = [env EXCEPT !.valid[Target] = TRUE]
      /\ UNCHANGED <<image, running, otad, ops, opsOld>>
  BY NoOtherFault DEF WorkerValid, At, EnvSet
<1>2. /\ env'.active = env.active /\ env'.pending = env.pending /\ env'.tries = env.tries
      /\ env'.valid[env.active] /\ env'.valid[Target] /\ env.pending = None
  BY <1>1, PowerAtWork DEF PowerInv, Selection, Works, IInv, TypeOK, Envs
<1>3. worker'.pc = "pending" /\ worker'.op = worker.op /\ Target' = Target
  BY <1>1, Moves DEF IInv, Target
<1>4. Selection' /\ Written'
  BY <1>1, <1>2 DEF PowerInv, Selection, Written, Versions
<1>5. Placed'
  BY <1>1, <1>2, PowerAtWork DEF Placed
<1>6. Works'
  BY <1>1, <1>2, <1>3 DEF PowerInv, Works
<1> QED
  BY <1>4, <1>5, <1>6 DEF PowerInv

LEMMA WorkerPendingKeepsPower ==
  ASSUME IInv, SlotInv, PowerInv, OnlyPowerFails, WorkerPending
  PROVE  PowerInv'
<1>1. /\ worker.pc = "pending" /\ To("rows")
      /\ env' = Selected
      /\ UNCHANGED <<image, running, otad, ops, opsOld>>
  BY NoOtherFault DEF WorkerPending, At, EnvSet
<1>2. env'.active = env.active /\ env'.pending = Target /\ env'.valid = env.valid
  BY <1>1 DEF Selected, IInv, TypeOK, Envs
<1>3. worker'.pc = "rows" /\ worker'.op = worker.op /\ Target' = Target
  BY <1>1, Moves DEF IInv, Target
<1>4. image[Target] = worker.op
  BY <1>1 DEF SlotInv, Flashed
<1>5. Selection'
  BY <1>1, <1>2, <1>4, PowerAtWork, ConstantsAssumption
  DEF PowerInv, Selection, Works, Versions, ConstantsAssumption
<1>6. Placed'
  BY <1>1, <1>2, PowerAtWork DEF Placed
<1>7. Works'
  BY <1>1, <1>2, <1>3 DEF PowerInv, Works
<1>8. Written'
  BY <1>1, <1>2 DEF PowerInv, Written, Versions
<1> QED
  BY <1>5, <1>6, <1>7, <1>8 DEF PowerInv

LEMMA WorkerRowsKeepsPower ==
  ASSUME IInv, SlotInv, PowerInv, WorkerRows \/ WorkerOpId
  PROVE  PowerInv'
<1>1. UNCHANGED <<env, image, running, otad, ops, opsOld>>
  BY DEF WorkerRows, WorkerOpId
<1>2. \/ worker.pc \in {"rows", "opid"} /\ (To("ledger") \/ To("reboot"))
      \/ worker' = Idle
  BY DEF WorkerRows, WorkerOpId, At
<1>3. CASE worker' = Idle
  BY <1>1, <1>3, NothingEnds, EndsKeepsPower DEF Idle
<1> QED
  BY <1>1, <1>2, <1>3, GoesOnKeepsPower

LEMMA WorkerLedgerKeepsPower ==
  ASSUME IInv, SlotInv, PowerInv, WorkerLedger
  PROVE  PowerInv'
<1>1. /\ TypeOK /\ worker.op \in Ops
      /\ worker.pc = "ledger" /\ UNCHANGED <<env, image, running, otad>>
  BY DEF WorkerLedger, At, IInv, WorkerInv
<1>2. CASE UNCHANGED <<ops, opsOld>> /\ To("clear")
  BY <1>1, <1>2, GoesOnKeepsPower
<1>3. CASE /\ MayMove(ops[worker.op].state, "rebooting")
           /\ Ledger(Updated(ops, worker.op, "rebooting")) /\ To("opid")
  <2>1. /\ ops'[worker.op].target = Target /\ ops'[worker.op].state = "rebooting"
        /\ \A q \in Ops \ {worker.op} : ops'[q] = ops[q]
        /\ opsOld' = opsOld \cup {ops}
    BY <1>1, <1>3 DEF MayMove, Ledger, Updated, TypeOK, Ledgers, Target
  <2>2. worker'.pc = "opid" /\ worker'.op = worker.op /\ Target' = Target
    BY <1>1, <1>3, <2>1, Moves DEF Target
  <2>3. Selection'
    BY <1>1, <2>1 DEF PowerInv, Selection, Versions, Busy
  <2>4. Placed'
    BY <1>1, PowerAtWork DEF Placed
  <2>5. Works'
    BY <1>1, <2>1, <2>2 DEF PowerInv, Works, Busy, Target
  <2>6. Written'
    BY <1>1, <2>1 DEF PowerInv, Written, Versions, Target
  <2> QED
    BY <2>3, <2>4, <2>5, <2>6 DEF PowerInv
<1> QED
  BY <1>2, <1>3 DEF WorkerLedger

LEMMA WorkerClearKeepsPower ==
  ASSUME IInv, SlotInv, PowerInv, OnlyPowerFails, WorkerClear
  PROVE  PowerInv'
<1>1. /\ worker.pc = "clear" /\ To("fail")
      /\ env' = Invalidated(Target)
      /\ UNCHANGED <<image, running, otad, ops, opsOld>>
  BY NoOtherFault DEF WorkerClear, At, EnvSet
<1>2. /\ env'.active = env.active /\ env'.pending = None /\ env'.tries = 0
      /\ env'.valid[env.active]
  BY <1>1, PowerAtWork DEF Invalidated, PowerInv, Selection, IInv, TypeOK, Envs
<1>3. worker'.pc = "fail" /\ worker'.op = worker.op /\ Target' = Target
  BY <1>1, Moves DEF IInv, Target
<1>4. Selection' /\ Written'
  BY <1>1, <1>2 DEF PowerInv, Selection, Written, Versions
<1>5. Placed'
  BY <1>1, <1>2, PowerAtWork DEF Placed
<1>6. Works'
  BY <1>1, <1>2, <1>3 DEF PowerInv, Works
<1> QED
  BY <1>4, <1>5, <1>6 DEF PowerInv

LEMMA WorkerFailsKeepsPower ==
  ASSUME IInv, SlotInv, PowerInv, WorkerFails
  PROVE  PowerInv'
<1>1. /\ worker.pc = "fail" /\ worker' = Idle
      /\ Ledger(Updated(ops, worker.op, "failed"))
      /\ UNCHANGED <<env, image, running, otad>>
  BY DEF WorkerFails, At
<1> DEFINE F == {q \in {worker.op} : ops[q].state # "success"}
<1>2. Ends(F, {}) /\ F \in SUBSET Ops /\ \A o \in F : image[env.active] # o
  BY <1>1, UpdatedEnds, PowerAtWork DEF IInv, TypeOK
<1>3. env.pending = None
  BY <1>1 DEF PowerInv, Works
<1> HIDE DEF F
<1> QED
  BY <1>1, <1>2, <1>3, EndsKeepsPower DEF Idle

-----------------------------------------------------------------------------
(* Boot, reconciliation, confirmation and rollback *)

LEMMA DownKeepsPower ==
  ASSUME IInv, PowerInv, WorkerReboot \/ UserReboot \/ PowerLoss \/ Hang
  PROVE  PowerInv'
<1>1. /\ ops' \in Versions /\ opsOld' = {} /\ UNCHANGED <<env, image>> /\ worker'.pc = "idle"
      /\ running' = None
  BY DEF WorkerReboot, UserReboot, PowerLoss, Hang, Stop, Down, Versions, Idle
<1> QED
  BY <1>1 DEF PowerInv, Selection, Placed, Works, Written, Versions

LEMMA BootKeepsPower ==
  ASSUME IInv, PowerInv, Boot
  PROVE  PowerInv'
<1>1. worker.pc = "idle" /\ otad = "down" /\ UNCHANGED <<image, ops, opsOld, otad, worker>>
  BY DEF Boot, IInv, WorkerInv
<1>2. /\ env'.active = env.active /\ env'.valid = env.valid
      /\ env'.pending \in {env.pending, None}
      /\ env'.pending = None => env'.tries = 0
      /\ running' \in {env'.active, env'.pending}
  BY DEF Boot, Deselected, IInv, TypeOK, Envs
<1>3. Selection' /\ Written'
  BY <1>1, <1>2 DEF PowerInv, Selection, Written, Versions
<1>4. Placed'
  BY <1>1, <1>2 DEF Placed, Withdrawn
<1>5. Works'
  BY <1>1 DEF Works
<1> QED
  BY <1>3, <1>4, <1>5 DEF PowerInv

LEMMA ReconcileKeepsPower ==
  ASSUME IInv, PowerInv, Reconcile
  PROVE  PowerInv'
<1>1. /\ UNCHANGED <<env, image, running, worker>> /\ otad = "down" /\ otad' = "reconciled"
      /\ running \in Slots /\ env.active \in Slots
      /\ worker.pc = "idle" /\ (otad' \in Withdrawn <=> otad \in Withdrawn)
  BY DEF Reconcile, PowerInv, Works, Withdrawn, IInv, TypeOK, Envs
<1>2. \A o \in Ops, s \in Slots : s # env.active /\ Waiting(o, s) => image[env.active] # o
  BY <1>1 DEF PowerInv, Written, Versions, Waiting
<1>3. CASE ReconcileSettled /\ Coherent(running)
  <2> DEFINE F == {o \in Ops : Waiting(o, Other(running))}
             S == {o \in Ops : Waiting(o, running)}
  <2>1. Ends(F, S)
    BY <1>3, SettledEnds DEF IInv, TypeOK
  <2>2. env.pending = None /\ running = env.active
    BY <1>3 DEF ReconcileSettled, Coherent
  <2>3. F \in SUBSET Ops /\ S \in SUBSET Ops /\ \A o \in F : image[env.active] # o
    BY <1>1, <1>2, <2>2, TwoSlots
  <2> HIDE DEF F, S
  <2> QED
    BY <1>1, <2>1, <2>2, <2>3, EndsKeepsPower
<1>4. CASE ReconcileRolledBack /\ Coherent(running)
  <2> DEFINE F == {o \in Ops : Waiting(o, conf.pending)}
  <2>1. Ends(F, {})
    BY <1>4, GivenUpEnds DEF ReconcileRolledBack, IInv, TypeOK
  <2>2. env.pending = None /\ conf.pending # env.active /\ conf.pending \in Slots
    BY <1>4 DEF ReconcileRolledBack, GivesUp, Coherent, IInv, TypeOK, Confs
  <2>3. F \in SUBSET Ops /\ \A o \in F : image[env.active] # o
    BY <1>2, <2>2
  <2> HIDE DEF F
  <2> QED
    BY <1>1, <2>1, <2>2, <2>3, EndsKeepsPower
<1>5. CASE UNCHANGED <<ops, opsOld>>
  BY <1>1, <1>5, NothingEnds, EndsKeepsPower
<1> QED
  BY <1>3, <1>4, <1>5 DEF Reconcile, ReconcilePending

\* A candidate that is promoted is complete, and its operation has not failed.
LEMMA CheckConfirmsKeepsPower ==
  ASSUME IInv, SlotInv, PowerInv, OnlyPowerFails, CheckConfirms
  PROVE  PowerInv'
<1>1. /\ UNCHANGED <<image, running, worker, ops, opsOld>> /\ otad = "up" /\ otad' = "promoted"
      /\ running \in Slots
      /\ env'.active = running /\ env'.pending = None /\ env'.tries = 0
      /\ env'.valid = [env.valid EXCEPT ![running] = TRUE]
  <2>1. /\ UNCHANGED <<image, running, worker, ops, opsOld>> /\ Trial
        /\ env' = Promoted /\ otad' = "promoted"
    BY NoOtherFault DEF CheckConfirms, EnvSet
  <2> QED
    BY <2>1, TrialRuns DEF Trial, Promoted
<1>2. env'.valid[running] /\ (\A s \in Slots : env.valid[s] => env'.valid[s])
  BY <1>1 DEF IInv, TypeOK, Envs
<1>3. running \in {env.active, env.pending}
  BY <1>1 DEF PowerInv, Placed, Withdrawn, IInv, WorkerInv
<1>4. worker.pc # "idle" => running = env.active /\ (worker.pc # "check" => Target \in Slots)
  BY DEF PowerInv, Works, IInv, WorkerInv
<1>5. Selection' /\ Placed'
  BY <1>1, <1>2 DEF Selection, Placed, Withdrawn
<1>6. Works'
  BY <1>1, <1>2, <1>4 DEF PowerInv, Works, Target
<1>7. Written'
  BY <1>1, <1>3, ConstantsAssumption
  DEF PowerInv, Written, Selection, Versions, Busy, ConstantsAssumption
<1> QED
  BY <1>5, <1>6, <1>7 DEF PowerInv

LEMMA ConfirmLedgerKeepsPower ==
  ASSUME IInv, SlotInv, PowerInv, ConfirmLedger
  PROVE  PowerInv'
<1> DEFINE S == {o \in Ops : Waiting(o, running)}
<1>1. Ends({}, S) /\ S \in SUBSET Ops
  BY ConfirmedEnds DEF ConfirmLedger, IInv, TypeOK
<1>2. UNCHANGED <<env, image, running, worker>> /\ otad = "promoted" /\ otad' = "completed"
  BY DEF ConfirmLedger
<1>3. env.active = running /\ running \in Slots
  BY <1>2 DEF SlotInv, Promotes, IInv, TypeOK, Envs
<1>4. env.pending # None => image[env.pending] \notin S
  BY <1>3 DEF PowerInv, Selection, Written, Versions, Waiting, IInv, TypeOK, Envs
<1>5. worker.pc # "idle" => worker.op \notin S
  BY <1>3, PowerAtWork DEF SlotInv, Flashed, NoneWaits, Waiting, Target
<1> HIDE DEF S
<1> QED
  BY <1>1, <1>2, <1>4, <1>5, EndsKeepsPower DEF Withdrawn

LEMMA UndoKeepsPower ==
  ASSUME IInv, PowerInv, OnlyPowerFails, CheckUndoes \/ Undo
  PROVE  PowerInv'
<1>1. CASE CheckUndoes /\ MayUndo
  <2>1. /\ UNCHANGED <<image, running, worker, ops, opsOld>> /\ otad' = "undone"
        /\ env'.active = env.active /\ env'.pending = None /\ env'.tries = 0
        /\ env'.valid = [env.valid EXCEPT ![running] = FALSE, ![env.active] = TRUE]
        /\ running # env.active
    <3>1. /\ UNCHANGED <<image, running, worker, ops, opsOld>> /\ otad' = "undone"
          /\ env' = Undone
      BY <1>1, NoOtherFault DEF CheckUndoes, EnvSet
    <3> QED
      BY <1>1, <3>1 DEF Undone, MayUndo
  <2>2. env'.valid[env.active] /\ worker.pc = "idle"
    BY <2>1 DEF PowerInv, Works, IInv, TypeOK, Envs
  <2>3. Selection' /\ Placed'
    BY <2>1, <2>2 DEF Selection, Placed, Withdrawn
  <2>4. Works' /\ Written'
    BY <2>1, <2>2 DEF PowerInv, Works, Written, Versions
  <2> QED
    BY <2>3, <2>4 DEF PowerInv
<1>2. CASE CheckUndoes /\ ~MayUndo
  <2>1. UNCHANGED <<env, image, running, worker, ops, opsOld, otad>>
    BY <1>2 DEF CheckUndoes
  <2>2. worker.pc # "idle" => otad' \notin {"down", "reconciled"}
    BY <2>1 DEF PowerInv, Works
  <2> QED
    BY <2>1, <2>2, NothingEnds, EndsKeepsPower
<1>3. CASE UndoLedger
  <2> DEFINE F == {o \in Ops : Waiting(o, running)}
  <2>1. Ends(F, {}) /\ F \in SUBSET Ops
    BY <1>3, GivenUpEnds DEF UndoLedger, IInv, TypeOK
  <2>2. /\ UNCHANGED <<env, image, running, worker>>
        /\ otad \in Withdrawn /\ otad' \in Withdrawn /\ running # None
    BY <1>3 DEF UndoLedger, Withdrawn, IInv, WorkerInv
  <2>3. env.pending = None /\ running # env.active /\ worker.pc = "idle"
    BY <2>2 DEF PowerInv, Placed
  <2>4. \A o \in F : image[env.active] # o
    BY <2>3 DEF PowerInv, Written, Versions, Waiting, IInv, TypeOK, Envs
  <2> HIDE DEF F
  <2> QED
    BY <2>1, <2>2, <2>3, <2>4, EndsKeepsPower
<1>4. CASE UndoReboot
  <2>1. UNCHANGED <<env, image, ops>> /\ opsOld' = {} /\ running' = None /\ worker'.pc = "idle"
    BY <1>4, NoOtherFault DEF UndoReboot, Down, Idle
  <2> QED
    BY <2>1 DEF PowerInv, Selection, Placed, Works, Written, Versions
<1> QED
  BY <1>1, <1>2, <1>3, <1>4 DEF Undo

LEMMA InitPowerInv == ASSUME Init PROVE PowerInv
<1>1. PICK s \in Slots : /\ env = [active |-> s, pending |-> None, tries |-> 0,
                                   valid |-> [t \in Slots |-> t = s]]
                         /\ running = s
  BY DEF Init
<1>2. /\ \A o \in Ops : ops[o].state = "none"
      /\ opsOld = {} /\ otad = "up" /\ worker.pc = "idle"
      /\ \A t \in Slots : image[t] \notin Ops
  BY ConstantsAssumption DEF Init, Idle, ConstantsAssumption
<1> QED
  BY <1>1, <1>2 DEF PowerInv, Selection, Placed, Works, Written, Versions, Withdrawn

LEMMA PowerInvStep ==
  ASSUME IInv, SlotInv, PowerInv, OnlyPowerFails, [Next]_vars
  PROVE  PowerInv'
<1>1. CASE UNCHANGED vars
  BY <1>1 DEF vars, PowerInv, Selection, Placed, Works, Written, Versions, Target
<1>2. CASE \E o \in Ops : Preflight(o) \/ Apply(o)
  BY <1>2, PreflightKeepsPower, ApplyKeepsPower
<1>3. CASE Boot \/ Reconcile \/ CheckConfirms \/ ConfirmLedger \/ CheckUndoes \/ Undo
  BY <1>3, BootKeepsPower, ReconcileKeepsPower, CheckConfirmsKeepsPower, ConfirmLedgerKeepsPower,
     UndoKeepsPower
<1>4. CASE Worker
  BY <1>4, WorkerCheckKeepsPower, WorkerPrepareKeepsPower, WorkerWriteKeepsPower,
     WorkerValidKeepsPower, WorkerPendingKeepsPower, WorkerRowsKeepsPower, WorkerLedgerKeepsPower,
     WorkerClearKeepsPower, WorkerFailsKeepsPower, DownKeepsPower DEF Worker
<1>5. CASE \/ Start \/ WindowEnds \/ CheckReady \/ ConfirmState \/ ConfirmRow \/ CheckSoft
           \/ CheckHard \/ DaemonDies
  BY <1>5, QuietKeepsPower
<1>6. CASE UserReboot \/ PowerLoss \/ Hang
  BY <1>6, DownKeepsPower
<1>7. CASE Rollback \/ WorkerRebootFails \/ WorkerDies
  BY <1>7, NoOtherFault DEF Rollback, WorkerRebootFails, WorkerDies, OnlyPowerFails
<1> QED
  BY <1>1, <1>2, <1>3, <1>4, <1>5, <1>6, <1>7 DEF Next, Unchecked, Check, Confirm

\* Whatever number of power losses interrupt any number of updates.
THEOREM PowerInductive == OnlyPowerFails /\ Spec => []PowerInv
<1> SUFFICES ASSUME OnlyPowerFails PROVE Spec => []PowerInv
  OBVIOUS
<1> QED
  BY InitPowerInv, PowerInvStep, Inductive, SlotsAgree, PTL DEF Spec

\* A device never ends without a complete image in the slot it falls back to.
THEOREM FallbackIsBootable == OnlyPowerFails /\ Spec => []ActiveStaysBootable
<1>1. IInv /\ PowerInv => ActiveStaysBootable
  BY DEF IInv, TypeOK, Envs, TornNeverSelectable, PowerInv, Selection, ActiveStaysBootable, Bootable
<1> QED
  BY <1>1, Inductive, PowerInductive, PTL

\* What the bootloader starts is never the build of an operation recorded as failed.
THEOREM FailedIsWithdrawn == OnlyPowerFails /\ Spec => []FailedIsNotActive
<1>1. PowerInv => FailedIsNotActive
  BY DEF PowerInv, Written, Versions, FailedIsNotActive
<1> QED
  BY <1>1, PowerInductive, PTL

\* After any boot the daemon accepts the boot state it finds.
THEOREM BootIsCoherent == OnlyPowerFails /\ Spec => []ComesUpCoherent
<1>1. IInv /\ PowerInv => ComesUpCoherent
  BY DEF IInv, WorkerInv, PowerInv, Selection, Placed, Withdrawn, ComesUpCoherent, Coherent
<1> QED
  BY <1>1, Inductive, PowerInductive, PTL

==============================================================================
