# A verification project for DreamingOS

DreamingOS is an OpenWrt tree with one body of code of its own, under
`package/lester/`: a set of C daemons (`jmxd/src/*`), a kernel module and a web
frontend. This project models the parts of that code whose correctness depends
on the order in which things happen: threads, processes, power losses, lost
answers, retries. The rest of the tree is vendored OpenWrt and is left aside.

All paths below are relative to `package/lester/jmxd/src/` unless they say otherwise.

Contents: 1 Inventory, 2 Modules, 3 Runs, 4 Fairness, 5 Disagreements with the
code's own words, 6 Proofs, 7 Not modelled, 8 Plan.

## 1. Inventory

| Component | State | Operations | Interacts with | What is hard | What makes it correct | Module |
|---|---|---|---|---|---|---|
| Async query pool, `dw_async_query.c` | two queues, a pending counter, a wake pipe, threads, connection generation | init, submit, worker loop, wake callback, drain, connection lost, stop | ubus (deferred requests), uloop | worker/main interleavings, condition variable, full pipe, stop with work queued | every deferred request settled once, never on a foreign connection; no lost wakeup; stop ends and leaves nothing | AsyncQuery |
| Agent config journal, `apd/apd_config_job_journal.c` | one SQLite row per job | offer, staged, applying, applied, finish, ack, rebind, queries | wire step, recovery | power loss between two transactions, conflicting attempts | the rollback reference is durable before the first write; an outcome is recorded once | ConfigJob |
| Agent wire and execution, `apd/apd_transport.c`, `apd/apd_config_executor.c` | job in hand, previous configuration, session; the live UCI configuration | replay, poll, accept, apply, readback, restore, finish | controller over TLS; `uci`, `wifi` | lost answers, failing restores, journal refusals | what is reported is what is in effect | ConfigJob |
| Agent recovery, `apd/apd_config_recovery.c` | the journal | one pass at startup | executor | crash during recovery, failing rollback | no half-applied configuration stays unnoticed | ConfigJob |
| Controller config jobs, `ac/ac_db.c`, `ac/ac_transport.c` | job table, targets, applied revision | create, lease, accept, finish, recover, expire | agents; Wi-Fi transactions | requeue against a late finish, repeated finish | a job is carried out at most once; both sides agree on its outcome | ConfigJob |
| Wi-Fi transactions, `ac/ac_db.c` 6848-7345 | transaction and targets | apply to several access points, compensate | config jobs | peers failing at any stage | all or nothing, as far as rollbacks succeed | ConfigJob, seen from one access point |
| Radio jobs, `apd/apd_radio_job_journal.c`, `apd/apd_transport.c`, `ac/ac_db.c` | a second journal, the controller's job table, the session epoch on both | create, lease, accept, start, scan, cancel, finish, replay, reconcile, expire, recover | the config jobs' session | cancellation against completion, a job given up on one side only | one finish per job, and it is true of the radio | RadioJob |
| Guarded network transactions, `netconfig/040_nc_network_transaction.c`, `safeops/*.h` | the task, its journal of three snapshots, UCI files, rows, services, a lease | apply, recover, confirm, claim, roll back, publish | watchdogs, the administrator, anybody who edits a file | a crash anywhere, a call that outlives its caller, two watchdogs, manual edits | what is recorded is true of every part; the daemon can always undo its own work | NetworkTx, GuardedChange |
| Configuration changes of webd, `webd/jmx_app_api.c` 6775-7517, and `auto_rollback_scan`, `init/dreamingwrt_init.c` | `config_apply_tasks`, a snapshot file, the network file, the running network, the ports | apply, confirm, roll back; scan for expired tasks | each other through SQLite and one file | processes forked per request next to a supervisor, restoring before claiming | the first outcome stands and is true; a task whose request died is ended | ConfigApply |
| Cloud agent, `cloud/cloud_replay.c`, `cloud_handle_request` | table of served ids, clock | serve, refuse, forget | relay | duplicates, wrong clocks, a full table, restarts | a request is served once within its window | CloudReplay |
| Firmware updates, `otad/otad_firmware.c`, `otad_db.c`, `otad_topology.c` | bootloader environment, two databases, two slots, a worker | preflight, apply, boot, confirm, reconcile, roll back | bootloader, supervisor's readiness report | power loss among three stores, a killed worker | always a complete slot to start; a success is what runs | OtaSlots, OtaTrial |
| Hot updates, `otad/otad_hot.c` | files, staged and backed-up files, ledger | preflight, apply, undo | the running system | power loss or a failing step among renames | all new or all old, originals kept | OtaHot |
| Secret rotation and executor, certificates, enrollment, PKI | databases, key files | rotation, renewal | transport | partial rotation | old or new credential, never neither | |
| Configuration restore and migration | staged files, snapshots | restore, verify, roll back | all daemons | a restart in the middle | as hot updates | |
| Gateway shadow, core watchdog | pairing, leases, counters | takeover, restart | peers, init | split decisions | at most one active | |
| Data daemons (log, notify, metrics, flow, route, health, identity, auth, filtering, storage, NAS, IPTV, VM, ...) | SQLite tables | collection, formatting, commands | ubus | little ordering of their own | | |
| Kernel module, web frontend, OpenWrt base | | | | | | |

`PROJECT.json` lists each part with its status, and the hazards at their lines
with the properties that are about them.

How the modelled parts meet: the agent's session takes the radio jobs' step before
the config jobs' step, when it begins and in its loop (`apd_transport.c:4200-4215`,
`4293-4303`), and a failing step ends it, which is why one radio row the
controller refuses stops config jobs too (section 5). `config_apply_tasks` has
two generations of users: webd and the supervisor at this commit (ConfigApply),
and the transaction and lease protocol of `netconfig/040` with `safeops/`
(NetworkTx), which claims before it restores. The update daemon's two ways of
updating share one ledger table, in different kinds of rows that do not exclude
each other. The other pairs share nothing but the machine, so each module is
checked on its own.

## 2. Modules

### AsyncQueryService: what the pool promises

The contract of `dw_async_query.h` over requests alone. A request is refused or
deferred; a deferred one is settled exactly once, by a reply on the connection
it came on or silently when that connection is gone, and it is settled in the end.

### AsyncQuery: the pool

One action per section of code under `g_async.lock` and per system call that
matters between two sections. `queue`, `done`, `pending`, `running`,
`initialised`, `threads` are the fields of `g_async`; `wake` counts the bytes in
the pipe; `wpc`/`wjob` are where each worker is and what it holds; `mpc` is where
the main thread is. `SubmitOk`/`SubmitRefused` are `dw_async_query_submit`,
`WakeCb`, `Drain`, `DrainEnd` the wake callback, `StopBegin`, `StopJoined`,
`StopEnd` `dw_async_query_stop`, the `Worker...` actions `dw_async_worker`.
`pthread_cond_signal` releases one waiting worker or nobody, `SpuriousWakeup` is
what POSIX allows, a full pipe refuses the byte. Start-up failures (`pipe`,
`uloop_fd_add`, no thread created) are `PoolInit({})`; a start with fewer
threads than asked for is `PoolInit(T)`. A job is named by the request it
answers. Memory management of the JSON objects, the rejection counters and
the status document are left out.

### ConfigJob: configuration jobs end to end

One controller, one access point, and the jobs between them: `apply` (a Wi-Fi
configuration), `action` (a runtime frame sent through hostapd) and `rollback`
(the compensation of an applied job whose transaction failed elsewhere).

* Controller: `acState`, `gen`, `acAtt`, `acFin` are columns of
  `ac_config_jobs`; `acRev` is `ac_aps.applied_revision`, `prevRev` the
  `previous_revision` noted by the transaction; `created` is the order of
  `created_at`, a set of pairs, of which `First` takes the least (`ORDER BY ... LIMIT 1`).
  A transaction is named by the job it was created with, an apply or an action
  (`ac_db_wifi_transaction_apply`, called for actions at 14596 and 14912);
  `TransactionOf` is the one an ending job refreshes, a compensation that of its
  source. A job that ends applied makes its transaction's `desired_revision` the
  `applied_revision` (6748-6762), an action too, although it leaves the configuration
  as it is. `confOf` is a history variable: the configuration that a revision
  stands for, which for an action's is that of the revision before it
  (`ConfAfter`). Actions: `AcCreate`, `AcPeerFails`, `AcExpireAction`,
  `AcRestart`; the handlers `Lease`, `MarkRunning`, `Finish` run inside the
  agent's requests.
* Agent: `row` is `apd_config_job_journal`, `touched` its order by
  `updated_at`; `pc` follows `apd_config_wire_step` and `apd_config_execute`
  from one journal transaction or external command to the next. `Replay` ..
  `Accept` are the exchange, `Prepare` .. `StoreFinish` the execution, `Recover`
  .. `RecoverFinish` the startup recovery.
* World: `live` is the wireless configuration in effect, `Mixed` while it is
  partly written; `lastMut` the last job that wrote it; `session`; `budget` the
  faults still allowed.

Abstractions, and why they keep what matters:

* A request and its answer are one step, or the handler's effect with the
  answer lost (`AnswerLost`), or no effect (`Drop`, then `RequestFails`). The
  controller checks the session on every request, so a request of an old session
  that arrives late has no effect.
* `updated_at` and `created_at` have a resolution of one second and ties are
  broken by UUID; the model orders strictly.
* All candidates write the same sections, so the configuration before a job is
  the whole configuration.
* A command that reports success took effect; one that reports failure may have
  done all or part of its work.
* `AcRestart` stands for a restart that finds leases expired. One that finds
  none is a `Drop`.
* A failing random generator (`apd_v2_finish_id`) acts like the journal error of
  `StoreFinish`. The checks of formats and digests on both sides are taken as passed.
* A candidate that mixes runtime actions with UCI sections is refused by
  `apd_config_hostapd_actions_validate`, so an action never writes the configuration.
* The controller's `online` gate at job creation is not modelled: it is its
  possibly outdated view of the access point.

### GuardedChange: what a guarded change promises

A change is opened on the configuration of that moment, works on it, and is
reported kept, undone or unknown. Kept means that the configuration is the
change's target, undone that it is again what the change found; there is at most
one open change, and an older one does nothing once a younger one is open.

### NetworkTx: the guarded network transaction

A transaction changes rows of the configuration database and some UCI files,
reloads services, and waits for the administrator. `live` holds the value of
every part (part 0 the rows, the others the entries of `nc_tx_packages`),
`runtime` what the services have loaded. `state`, `expired`, `owner`,
`leaseOver` are columns of `config_apply_tasks`; `before`, `prepared`, `journal`
and `evidence` what `nc_tx` keeps with the task.

* Daemon (`dm`): `ApplyBegin` .. `ApplyReadback` follow `nc_tx_apply` from one
  COMMIT, rename or reload to the next, `ApplyRecover` its label `restore`,
  `Undo...` `nc_tx_restore_snapshot` for either handler, `RollbackStart` and
  `RollbackRefused` `nc_tx_rollback` with its test of the configuration
  against the journal (`RollbackAccepts`). Locks held across a step are
  `AppLocked` and `ConfigLocked`, derived from where the daemon is. The code
  releases the configuration database between the COMMIT or ROLLBACK of the apply
  and the BEGIN of its restore (733-735 to 774) and after the COMMIT at 533 while it reloads, where
  `ConfigLocked` still holds; no property depends on it.
* Watchdogs (`wd`): `WatcherScan`, `WatcherClaim`, `WatcherCall`,
  `WatcherTimeout`, `WatcherFinish` are the scan, the claim and the publication
  of `safeops/rollback_claim.h` and the call of `safeops/network_rollback_rpc.h`.
  A call stays in `calls` when its caller has given up or died.
* Others: `Confirm`, `DeadlinePasses`, `LeaseEnds`, `Edit` (somebody writes a
  part by hand), `DaemonCrash`, `WatcherCrash`, `PowerLoss`.

A part's value is the key of the task that wrote it: rendering is abstracted to
the set of files that change (`ApplyJournal(F)`). `Change!Spec` is the contract
under the mapping `Phase` of the task's state.

### ConfigApply: changes made by the web daemon, and the supervisor

webd forks a process for each request (`jmx_app_api.c:65773`), so `req` holds
one record per process; `sup` is the supervisor inside `auto_rollback_one`.
`Apply...` follow `jmx_config_apply` from the look for a pending task to the
answer, `Undo...` its failure path and `jmx_config_rollback`, `Confirm`
`jmx_config_confirm`, `Scan...` the supervisor. Copying a snapshot over
`/etc/config/network` truncates it first: the file is `Torn` between
`UndoOpen`/`ScanOpen` and the copy. `RequestDies` and `PowerLoss` may come in any step.
The timer of 7385-7387 belongs to the forked child and dies with it, so no
action of the model fires it. `unclaimed` records that a snapshot was copied by
somebody who could not have claimed the task: the two properties about the
network are stated for behaviours without it, and section 5 shows what happens
with it.

### CloudReplay: each request once

`Serve`/`Refuse` are `cloud_handle_request` with `cloud_replay_seen` and the
window test; `Swept` the sweep of outdated entries, `next` the index `g_next`. The relay may deliver
any frame any number of times, a sender's clock may be off by `MaxDrift`, which
the check chooses larger than the window. `forgotten` are ids that left the
table early, by eviction or restart: the code promises nothing about them, and
`OldestGoesFirst` says which they can be. The agent's clock does not step back.

### OtaSlots: firmware on two slots

`env` is the bootloader's environment block, `image` the contents of the slots;
`conf`/`ops` are the config and the ledger database, with the earlier versions
a power loss may bring back in `confOld`/`opsOld` until `otad_db_persist_now`. The `Worker...`
actions follow the apply worker from `otad_grubenv_prepare_target` to the reboot,
`Confirm...` `otad_confirm_boot`, `Reconcile...` `otad_reconcile_boot_state`,
`Undo...` the automatic rollback. A check of the candidate finds it ready, failing
softly or failing hard, by choice here (`CheckReady`, `CheckConfirms`, `CheckSoft`,
`CheckHard`, `CheckUndoes`) and by the state of its services in OtaTrial. `Boot` and `Hang` are external: the GRUB script
is not in the repository, and they do what the daemon's code expects of it.
Adjacent statements on the config database are one commit; a failing
`otad_db_persist_now` is not modelled; the observation window is `young` or `old`.
The reconciliation of a trial and of a rollback is flushed (3065, 3107, 3219), a
confirmation that it completes is not (`Flushes`).

### OtaTrial: the trial of a candidate

OtaSlots with the state of the candidate's services, `health`, and the signature of
the hard failure that `otad_confirm_timer_cb` counts. `health` changes at will
(`HealthChanges`): services come up, fail softly, or fail hard in one of several
ways. Every check is a check of OtaSlots that finds what there is (`FindsReady`,
`FindsSoft`, `FindsHard`); a hard failure is counted while its signature stays the
same (`Counted`). Every behaviour is one of OtaSlots, so what is proved there holds here.

### OtaHot: files replaced in place

`live`, `staged`, `backup` are a path, its `.dwrt-new` and its `.dwrt-old`; `pc` and
`todo` follow the loops of `hot_stage_and_install`,
file by file and rename by rename; `Undo` is `hot_deletions_rollback` and
`hot_rollback`. A failing step, a power loss, and refused calls whose results the
handler ignores are separate faults. The ignored calls are the `unlink`, the `rename` and
the removal of the staged file in the undo (932-936), the `rename` of a deletion's undo (946), and
the removal of a backup, old (`Stage`) or its own (`Discard`); any of those made on a file may fail
together, and `refused` remembers which. Files left under the process id of an earlier
daemon are not modelled.

### RadioJob: scans, cancellations and their reports

The controller's table (`acState`, `acFin`, `due`), the agent's journal (`row`,
`acked`, `older`: the order of `updated_at`), the sessions each row is bound to
(`bound`), and the agent's step (`pc`, `job`): it reconciles one open or finished row,
replays a finish, polls, accepts, starts, scans, stores, sends. `scans` counts
how often the radio was really scanned for a job. A job is leased once (nothing
puts it back to `queued`), so its attempt is left out. The transactions of one
reconcile are one step: of the controller's handler with its status check
(`ac_transport.c:2080-2090`, also in `Accept`), and of the agent's rebind and
`cancel_requested` (`apd_transport.c:2892`, `2900`). A stop between two of them leaves
what a lost answer, or a cancellation heard in the next session, leaves too. Rows of equal `updated_at` are ordered by job number.

### Proof modules, MC modules, mutated definitions

`...Proofs` hold theorems (section 6), `MC...` the instances for TLC (section 3).
Next to some definitions stands a variant that is a plausible bug in the same
code (`HasRoomOff`, `DrainEndEarly`, `RecoveryMatchesLax`, ...), named in its
comment. No specification uses them. `PROJECT.json` pairs each property with one
of them; with the variant in the place of the original TLC finds the property
violated, which shows that the property constrains that code.

## 3. Runs

| Run | Bounds | Shows | States |
|---|---|---|---|
| `pool` | 3 requests, 2 workers, `MaxPending` 2, pipe of 1 byte, 1 lost connection, 2 starts | no job is lost or duplicated, no wakeup lost (`PendingIsExact`, `ExactlyOneOwner`, `NoLostWakeup`, `NoSleepOnWork`); stop ends and leaves nothing (`StopTerminates`, `StopLeavesNothing`); the pool implements AsyncQueryService, liveness included (`ServiceSpec`) | 297 k |
| `job_crash` | 2 applies, 1 compensation and 1 action; 2 crashes, 1 journal error | `RollbackReferenceDurable`, `NoSilentHalfApply`, `OutcomeIsLive`, `ControllerKnowsLive` | 3.7 M |
| `job_requeue` | 1 action and 1 apply; one fault of every kind, requeue and oversize included | nothing is carried out twice (`ExecutedAtMostOnce`), both sides agree on every outcome (`FinishAgrees`) | 256 k |
| `job_live` | 1 apply and its compensation; 1 crash, 2 drops | `FinishAcked`, `RestartSettles` | |
| `job_requeue_reference` | 1 action and 1 apply; 1 drop, 1 requeue | violates `RollbackReferenceDurable` (section 5, 1) | |
| `tx` | 1 task, 2 watchdogs, 1 manual edit, 2 files and the rows, 2 faults | outcomes are true of every part and of the services (`ConfirmedIsLive`, `RolledBackIsBefore`), the daemon can always undo its own work (`AlwaysRecoverable`), nobody's edit is lost unseen (`DriftPreserved`), GuardedChange is implemented (`ChangeSpec`), every task ends (`EveryTaskEnds`) | 495 k |
| `apply` | 1 request process at a time, 2 tasks, 2 faults | `AppliedRollbackIsDone`, `ConfirmedIsInEffect`, `OutcomeFinal`, `EveryTaskEnds` | 618 k |
| `cloud_replay` | 3 requests, 2 slots, window 1, clocks off by up to 2, time up to 5 | `ExecutedOnce`, `OldestGoesFirst` | 525 k |
| `slots_power` | 2 updates, 2 power losses, 2 kinds of hard failure | `ActiveStaysBootable`, `FailedIsNotActive`, `ComesUpCoherent`, `TrialEnds` | 165 k |
| `slots_faults` | 2 updates, rollbacks, 2 faults of any kind | `TornNeverSelectable`, `RebootingIsWritten`, `SuccessIsPromoted` | 188 k |
| `hot` | 2 files, 2 contents, 2 packages, 2 operations, 2 faults | `AppliedIsNew`, `OriginalKept`, `LeftOnlyIfRefused` | 1.8 M |
| `radio` | 2 jobs on 2 radios; 1 crash, 1 controller restart, 2 drops, 1 journal error | `OutcomeAgrees`, `OutcomeIsTrue`, `FinishDelivered` | 268 k |

Each property is stated in words above its definition. Types are proved (section 6).

Why these bounds are enough to meet the cases:

* Pool: more requests than `MaxPending` makes `submit` saturate, a one-byte pipe
  makes `write` fail, two workers are the least for which a signal can go to the
  wrong one, two starts cross the `memset` of a second `init`.
* Jobs: two crashes reach a crash during recovery; a crash between a finish and its
  acknowledgement also loses the answer. Four jobs put two rows in the journal at
  once, which the orders of replay and recovery need, and let an action move the
  revision before, between and after two transactions. Lost connections and answers
  are in `job_requeue` and `job_live`, where two lose an answer and then its replay.
* `tx`: two files and the rows leave a transaction half written in three ways; two
  watchdogs are the least that can meet on a task; two faults reach a crash in
  the undo that a first crash made necessary, and a lease outlived by a call that is
  still being served. Two tasks are beyond TLC here; that an
  older task does nothing is part of what section 6 proves for any number.
* `apply`: two tasks make one snapshot contain the other's change; two faults let the
  request die in its own undo, or a step fail and the supervisor's copy after it. Requests
  overlap with the supervisor, not with each other: a rollback that is requested while the
  apply of the same task still runs copies its snapshot and is overwritten by the apply
  (`Workers = {w1, w2}` gives the trace of `AppliedRollbackIsDone`), and two
  applies race for the table (section 5, 6).
* `cloud_replay`: three ids for two slots fill the table; clocks are off by more
  than the window in both directions, and time passes twice the window.
* `slots_*`: the second update writes the slot the first one left; two power
  losses reach one in the reconciliation after the other. Two kinds of hard failure
  are the least that can take turns, and the limit of two confirmations the least that counts.
* `hot`: two files are the least that are not renamed at once; two packages meet
  what a first one left; a content may be created, replaced or deleted.
* `radio`: two jobs are the least for one row to be ahead of another.
  `MCRadioJob_three.cfg` has three jobs, two of them on one radio, and checks the
  safety properties (3.2 million states).

Symmetry (`cloud_replay`, `slots_faults`, `hot`) is used only where every
property checked is a safety property. Deadlock is checked in `radio` and
`cloud_replay`, whose agents always have a next step; elsewhere the system may
stop (a stopped pool, all tasks ended, no fault left) and the configuration says so.

## 4. Fairness

* Pool: weak fairness of each worker and of the main thread's own steps. Threads
  that are not blocked run, a query function returns, uloop dispatches a readable
  descriptor. Nothing is assumed about submissions or shutdown.
* Config jobs: weak fairness of the agent (its thread runs; it reconnects; procd
  restarts it) and strong fairness of `RecoverRestored` (a rollback retried at
  every start succeeds some time). `files/dreamingwrt-apd.init` has `respawn 3600
  5 5`, so procd gives up after five quick failures; the liveness results hold
  as long as it has not.
* Network transaction: the daemon's loop, the passing of time (a deadline, a
  lease) and each watchdog. Nothing about administrators and editors.
* ConfigApply: the supervisor's scan, a request that has begun and is not
  killed, and the passing of a task's deadline.
* Firmware: the device is switched on; the daemon's loop, its timer and worker
  run; the observation window ends; an image that is torn hangs when it is started, and
  the bootloader counts its try. Nothing is assumed of the candidate's services.
  `TrialEnds` is therefore about candidates that settle: services that stay up, or that go on
  failing hard in the same way. One that fails softly, or in changing ways, for
  ever is checked again for ever (`otad_schedule_nonfatal_retry` has no limit,
  `otad_firmware.c:3924-3928`): its trial need not end, and no run claims that it does.
* Radio jobs: the agent's loop only. Deadlines, users, restarts and faults are
  free to happen or not.

Faults are bounded by a budget in every module, and no fault is assumed to happen.

## 5. Disagreements with the code's own words

Where the code does something else than a comment, a message or a test of the
repository says, the model does what the code does; a property states the
words, and TLC shows the counterexample. The first one is also a run of
`PROJECT.json`; the others have a configuration each, to be checked by
`tlc -config <file>.cfg <module>`.

Config jobs:

1. `job_requeue_reference` (`MCConfigJob_v_reference.cfg`). `apd_transport.c:3862`
   and `:3995` treat only negative journal results as errors. After a controller
   restart has requeued an expired lease under a new attempt, every journal call
   of the agent answers CONFLICT, and the configuration is written without a
   durable rollback reference, against `apd_config_job_journal.h:6`. The same
   happens with INVALID for a reference longer than the journal accepts. The run
   `job_crash` shows that the promise holds when neither of the two happens.
2. `MCConfigJob_v_action.cfg`. An action that was started when the agent
   restarted is not reported as uncertain (`apd_transport.c:3766`):
   `apd_config_recovery.c:51` tries to roll back with the reference `[]`, fails,
   and the daemon does not start again.
3. `MCConfigJob_v_compensation.cfg`. A compensation that was offered or staged at
   a restart is finished as failed (`apd_config_recovery.c:46`), where
   `apd_config_recovery_fixture.c:147` expects it to be carried out.
4. `MCConfigJob_v_replay.cfg`. `apd_config_pending_finish_replay` (4206) sends
   one row once per session; with a second unacknowledged row the second waits
   for another session, against "finish replayed until acked"
   (`apd_config_job_journal.h:14`). Until then the controller leases nothing else
   to the access point.

The header also says of a row in state `applied` "readback; mismatch rolls
back"; recovery rolls it back without a readback.

Configuration changes of webd:

5. `MCConfigApply_v_claim.cfg`. `auto_rollback_one` (`dreamingwrt_init.c:1650`)
   copies the snapshot and only then asks, by the WHERE clause of its UPDATE,
   whether the task is still pending: a confirmation in between makes the task
   confirmed over the old file. `safeops/rollback_claim.h:10` says "Claim before
   touching live configuration."
6. `MCConfigApply_v_pending.cfg`. `jmx_config_apply` looks for a pending task and
   inserts its own in separate implicit transactions (7255, 7283-7308): two
   requests leave two pending tasks, each with a snapshot taken without the
   other's change. `safeops/revision_sequence.h:15-16` says "READY leaves BEGIN
   IMMEDIATE open so the caller can insert the task and commit atomically".
7. `MCConfigApply_v_stages.cfg`. `auto_rollback_one` (1654) records a complete
   rollback after copying the file, though the network was not reloaded and the
   ports were not restored; `jmx_config_rollback` (7490-7494) does so when the reload
   failed. `jmxd/tests/safeops_rollback_fixture.c:201-203` expects `rollback_applied` only when
   every stage succeeded.

Firmware:

8. `MCOtaSlots_v_busy.cfg`. Nothing moves an operation out of `writing` when its
   worker did not survive a power loss (`otad_db.c:1349` has no caller): every
   later apply is refused with "another firmware write or reboot is active"
   (`otad_firmware.c:2848`), where none is.
9. `MCOtaSlots_v_active.cfg`. A worker killed after selecting its slot (2602)
   leaves the candidate selected and its operation failed. The device boots it,
   on trial; the next preflight takes the other slot, the environment's active
   one, and overwrites it. `otad_main.c:2` says "Slot writes are restricted to
   verified inactive A/B slots."
10. `MCOtaSlots_v_failed.cfg`. In the same situation a failed operation's build is
    promoted at the next confirmation, though 2707 says that its worker "exited
    before reaching reboot state".

Hot updates:

11. `MCOtaHot_v_writing.cfg`. `hot_apply_operation` (`otad_hot.c:1438`) ends with
    `writing` to `success`, which `otad_operation_transition_ok`
    (`otad_db.c:377-394`) refuses; the row stays `writing` and the unique index
    refuses every later hot update with "another hot-update apply is already
    writing" (1404).
12. `MCOtaHot_v_restored.cfg`. The undo ignores the results of its calls (933-936),
    and the answer is "the previous files were restored" (1305) whatever they did.
13. `MCOtaHot_v_atomic.cfg`. The target is renamed to its backup (1005) before the
    staged file is renamed into place (1014): in between, and after a power loss
    there, the file does not exist. `otad_status.c:302` says that the writer
    "stages, replaces atomically".

Radio jobs, about which no text of the repository says otherwise, but which limit what
`FinishDelivered` can promise:

14. `MCRadioJob_v_wedge.cfg`. A job whose deadline passed at the controller, or
    that was cancelled before its acceptance was known there, has a row that is
    refused in every reconcile (`ac_transport.c:2163`), and the session ends
    before it polls (`apd_transport.c:2608-2612`): the access point gets no work
    any more. The bug does not need a fault, only a deadline.
15. `MCRadioJob_v_zombie.cfg`. A job whose answer to accept or start was lost stays
    leased or running: every reconcile extends its deadline and nothing makes the
    agent carry it out.

## 6. Proofs

All theorems hold for every value of the constants that satisfies the module's
assumption, any number of faults included, and the condition named below where one is.
Each proof module has one lemma per action of the component and, under it, a step per
conjunct that the action can disturb.

**AsyncQueryProofs** (any requests, any finite non-empty set of workers, any
bounds): `TypeCorrect`, `WakeupNotLost`, `QueuedWorkIsAttended`,
`JobsHaveOneOwner`, `NothingLeftAfterStop`, `PendingCountsJobs`, `CountersAddUp`,
and `PoolImplementsService`, the safety part of the refinement. The inductive
invariant is built in layers. `TypeInv` is `TypeOK` with `HoldsJob`, that a
worker in `fn(in)` holds a job: without it a push could put `None` on the done
queue. `Phases` says how far init and stop have got: no threads when not
initialised, not running while joining, every worker gone while the last drain
runs, and a worker has exited only if the queue is empty. It is what makes
`NoSleepOnWork` and `StopLeavesNothing` inductive: the first needs a live worker
in a running pool, the second that the joins imply an empty queue. `PoolInv`
adds `ExactlyOneOwner`. A drained request must be `deferred` for the step to be a
`Settle` of the contract, which is what ownership gives, so `PoolImplementsService` rests
on `PoolInv`. `PendingIsExact` needs only `TypeInv` and the cardinality lemmas
for one worker entering or leaving the busy set.

**NetworkTxProofs** (any tasks, watchdogs, files, edits): `TypeCorrect`,
`Confirmed`, `RolledBack`, `Recoverable`, `DriftIsPreserved`, `OutcomesAreFinal`,
and `ImplementsChange`: every behaviour of the transaction is one of
GuardedChange. The properties relate the configuration to what is recorded, but
are not inductive: between two writes the files are partly one snapshot and
partly another. The invariant `Inv` therefore says of the youngest task how far it
has come, in every place at once: `Ledger` (only the youngest task is active, and a
task is journaled with its row), `Known` (watchdogs and calls are about tasks that
exist), `Hand` (what the daemon has in hand is the youngest task, still pending once an
apply has taken its second lock), `Progress` (which journal goes with which state,
and that a watchdog was told of success only after a restore began), `Config` (while
nobody edits: every part is old or new, and for each place of the daemon which parts
are which) and `Drift` (what an edit cannot have changed unseen). A call that
outlived its caller is harmless because `RollbackStart` requires the task to be
claimed and the configuration to match the journal.

**ConfigApplyProofs** (any number of tasks, requests at once, and faults):
`TypeCorrect`, the torn file included, and `FirstOutcomeStands`: a request
past its insertion names its own task, and every write to a row's state has `pending`
as its condition. What a task says of the file, the network and the ports
(`AppliedRollbackIsDone`, `ConfirmedIsInEffect`) is checked by TLC only, for one request
process at a time next to the supervisor: webd forks a process per request, and with
requests that overlap neither holds (section 3, `apply`; section 5, 6), so there is no
theorem to prove.

**CloudReplayProofs** (any table size, any window, any clock error):
`OnceForEveryWindow`, `SlotsAreUnique` and `OldestIsEvicted`, which rests on the lemma
`ServeTakesOldest` about the search for a slot. The first property alone is not inductive;
`Remembered` adds that an executed request that was not forgotten is in the table,
recorded late enough, or past its window. A slot is reused when it is older than
*twice* the window: the sender's clock may be ahead by one, and the entry counts
from the agent's.

**OtaSlotsProofs** (any number of operations). For any faults: `TypeCorrect`,
`TornIsNotSelectable`, `WaitsForItsBuild` and `SuccessIsTrue`. Validity and selection are
only given by the worker and by promotion of the slot that runs; everything else
(rollback, undo, reconcile, bootloader) only shrinks them. The invariant adds that the
worker keeps its target unselectable from the preparation to the verified image, and that
a worker runs only for an operation of the ledger in a running system, so that a reboot
cannot leave one behind. A power loss brings back any version of the ledger since the last
flush, so what the ledger says has to hold of all of them: `SlotInv` adds `Flashed` (an
operation that waits in any version has its build in its slot, and a slot is written only
while none waits), `Promotes` (between a promotion and its record no other operation is
confirmed by it) and `SuccessStays`.
As long as nothing fails but the power, and nobody rolls back by hand
(`OnlyPowerFails`): `FallbackIsBootable`, `FailedIsWithdrawn`, `BootIsCoherent`. The
condition is needed: section 5, 9 and 10 show what a killed worker does to the first two. The
invariant `PowerInv` says what the environment may select (`Selection`: a candidate is
complete and its operation is open in every version of the ledger), which slot runs
(`Placed`), that the worker stays beside the active slot (`Works`), and that every
version of the ledger knows which operation wrote a slot (`Written`).

**OtaHotProofs** (any packages, files, operations): `TypeCorrect`,
`AppliedIsTrue`, `OriginalNotLost`, `OnlyRefusedIsLeft`. The invariant says of each
place of the handler what each file is: untouched, set aside, replaced, gone or
back, by whether it is still in `todo`, in `installed` or in `had`. Every call that is
refused without notice is in `refused`, and the invariant carries what follows from it
through the undo.

**ConfigJobProofs** (any jobs and kinds of jobs). For any faults: `TypeCorrect`,
`JournalsAgree` and `CarriedOutOnce`. `Ledger` ties the two rows of a job by the
attempt: the row never has a younger one than the controller, its finish never
changes, and what is acknowledged is what the controller has. `Once` says that a job
that was carried out is running or has ended at the controller, and `Hand` that a job
being polled, offered or accepted is neither; only a lease can be requeued, so the second
lease of a job never finds it carried out. `Refs` keeps types of references apart: an
action's `[]` is no configuration to restore.
As long as no lease is requeued and no reference is too long (`OrderlyFaults`), for any
crashes, lost messages and journal errors: `ReferenceIsDurable`, `HalfAppliedIsKnown`,
`OutcomesAreLive`. The condition is needed: section 5, 1 is what happens without it. The
second invariant says that a job is leased once and the row is that of the attempt in
hand (`Single`), what state the row is in for each place of the agent (`Placed`), and
what may be said of the last job that wrote the configuration (`Written`): its row is
still to be recovered, or its finish is true of the configuration, or a failed
rollback is on record. A job may find a half-written configuration as its reference, and a
success of its rollback then restores that; `Written` therefore follows `Mixed` through
the references.
Under the same condition `RevisionIsLive`: while every job started from the revision that
was noted for it (`AsNoted`, the hypothesis of `ControllerKnowsLive`), the controller's
`applied_revision` stands for the configuration in effect (`confOf[acRev]`) once the last
writer has ended in "applied" or "rolled_back", actions in between included. The hypothesis is needed: two jobs that are queued together both
note the revision before the first, and the compensation of the second then writes down
the wrong one. The third invariant, `RInv`, follows the noted revisions through
transactions that overlap. A job *stands* when it is applied and its compensation has not
begun (`Stands`). `Chain`: no two jobs that stand started from the same configuration, and
none from the one in effect, the one the running job would return to, or the applied
revision; so a compensation returns to what its source alone started from. `Behind`: a
waiting job that noted what a compensation returns to was created before it, and the
queue is served in order. `Agreed`: a waiting job that may still start as noted finds
the revision equal to the configuration, and so does a running one with its reference.
`Latest` says that a success that is not recorded yet is the last writer's, and
`Referring` that only jobs that were applied are referred to, and that the
revision of an action stands for what an apply wrote or for the first configuration. The three that speak of
revisions hold only under `AsNoted`, which no step can restore once it is lost.

**RadioJobProofs** (any jobs and radios, any faults): `TypeCorrect`,
`NoDisagreement`, `TrueOfTheRadio`. `Ledger` says which pairs of the two rows of a job
are possible, `Radio` how often the radio was scanned for each pair, `Hand` what
the job in hand is in each place of the agent. The cancellation of a running job
against its completion is decided by the agent alone, which `Ledger` expresses: a
finish of the controller always has its row.

Only model-checked are liveness (`StopTerminates`, the fairness part of `ServiceSpec`,
`FinishAcked`, `RestartSettles`, `EveryTaskEnds`, `TrialEnds`, `FinishDelivered`), which is
beyond the prover, and `AppliedRollbackIsDone` and `ConfirmedIsInEffect`, which hold only
of requests that do not overlap. Every other invariant and action property of the passing runs
is a theorem, some under the conditions named above.

## 7. Not modelled

The repository is an OpenWrt tree of millions of lines; nearly all of them are
vendored drivers, firmware tables and build files, and most of `jmxd` is SQL,
JSON and command formatting. The models cover the parts of `jmxd` in which an
order of events decides, which is a small share of the lines.

* `netconfig/040_nc_network_transaction.c` is at this commit included by its test
  (`tests/network_transaction_fixture.c`) and declared in `jmx_netconfig_db.h:688`,
  but not included by the built `jmx_netconfig_db.c`; the confirmation and the scan
  that call it (`webd/api/api_config_apply.c`) are not in the tree. NetworkTx takes
  `Confirm` and `WatcherScan` from `tests/safeops_rollback_fixture.c` (249-300,
  329-348), and they are marked external.
* Controller: several access points in one Wi-Fi transaction, consistency modes; enrollment, PKI, certificates, discovery, roaming.
* Radio jobs: `ac_db_radio_job_progress` and `radio_jobs_reconcile_expired`,
  which have no caller; pruning; idempotent creation; the online gate; truncation of a result.
* ConfigApply: the rollback timer (7175-7230), which dies with its process.
* OtaSlots: the "degraded" branch of the reconciliation (3154-3191), which no
  state reaches; single-slot devices; two workers; release signatures. A manual rollback
  does not free a stuck `writing` row when the inactive slot is invalid, and the
  model has that behaviour.
* CloudReplay: a clock that steps back; the tunnel's reconnects and cryptography.
* Secret executor, configuration restore, gateway shadow, watchdog: candidates
  (section 8). Data daemons, kernel module, frontend, base system: no protocol of
  their own, out of reach, or not this project's code.

## 8. Plan

Done: AsyncQuery with contract and proofs; ConfigJob; NetworkTx with its contract and
proofs; ConfigApply; CloudReplay; OtaSlots and OtaTrial; OtaHot; RadioJob, each component with proofs.

Next, in this order:

1. WifiTransaction: several access points, both consistency modes, overlapping
   transactions, with ConfigJob's controller as its interface.
2. Configuration restore, secret executor, gateway shadow, watchdog.

Not planned: cryptography, parsing and formatting, SQL schemas, the kernel
module, the frontend and the vendored base system.
