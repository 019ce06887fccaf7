------------------------------ MODULE NetworkTx ------------------------------
(***************************************************************************)
(* The guarded network transaction of                                       *)
(* jmxd/src/netconfig/040_nc_network_transaction.c and the lease protocol   *)
(* of jmxd/src/safeops/rollback_claim.h that undoes it.                     *)
(*                                                                          *)
(* A transaction changes the rows of one resource in the configuration      *)
(* database and some of the UCI files, reloads the services, and waits for  *)
(* the administrator to confirm.  Three processes take part: the network    *)
(* daemon, which runs one handler (apply or rollback) at a time; watchdogs, *)
(* which claim an expired task, ask the daemon to roll it back and publish  *)
(* the result; and anybody who edits a configuration file by hand.  The     *)
(* task database and the UCI files survive a crash; so does the journal,    *)
(* which lives in the task database.                                        *)
(*                                                                          *)
(* A step of the daemon is what it does between two points where the disk,  *)
(* the services or the task database change; it may die between any two.    *)
(***************************************************************************)
EXTENDS Integers, FiniteSets

CONSTANTS Keys,        \* idempotency keys; the task of a key writes its value
          Watchers,    \* processes that undo expired tasks
          Edits,       \* values that somebody writes by hand, once each
          Orig,        \* the value of every part at the start
          None,        \* nobody, nothing
          NumFiles,    \* entries of nc_tx_packages
          MaxFaults    \* bound: crashes, failing writes, outlived leases

ASSUME ConstantsAssumption ==
  /\ NumFiles \in Nat \ {0}
  /\ MaxFaults \in Nat
  /\ None \notin Keys \cup Watchers
  /\ Keys \cap Edits = {}

VARIABLES
  live,      \* the committed rows and the files, by part
  runtime,   \* what the services have loaded, by file
  state,     \* config_apply_tasks.state
  before,    \* the journal's "before"
  prepared,  \* the journal's "prepared"
  journal,   \* what the vault entry of the task holds
  evidence,  \* applied_digest and readback_json are stored
  expired,   \* rollback_deadline has passed
  owner,     \* rollback_owner
  leaseOver, \* rollback_claimed_at is SAFEOPS_ROLLBACK_LEASE_SECONDS old
  dm,        \* the daemon
  wd,        \* the watchdogs
  calls,     \* network_transaction_rollback calls the daemon has not answered
  last,      \* the youngest task
  edited,    \* a part was edited since the youngest task was inserted
  synced,    \* the services had loaded the files when it was inserted
  raced,     \* parts edited under the daemon's hands
  unused,    \* edits not made yet
  faults     \* faults so far

taskVars == <<state, before, prepared, journal, evidence, expired, owner, leaseOver>>
obsVars  == <<last, edited, synced, raced>>
vars == <<live, runtime, taskVars, dm, wd, calls, obsVars, unused, faults>>

Rows  == 0
Files == 1 .. NumFiles
Parts == {Rows} \cup Files
Val   == {Orig} \cup Keys \cup Edits

FilesOf(snapshot) == [f \in Files |-> snapshot[f]]

States   == {"none", "pending", "rolling_back", "confirmed", "rolled_back", "rollback_failed"}
Active   == {"pending", "rolling_back"}
Terminal == {"confirmed", "rolled_back", "rollback_failed"}

\* "persisted" and "journaled": between a COMMIT of the task database and the
\* next nc_tx_lock_pending.  "write" to "readback": publishing.  "recover":
\* label restore of nc_tx_apply.  "undo" to "undo_reload": in
\* nc_tx_restore_snapshot, for nc_tx_apply or for nc_tx_rollback.
DaemonPCs == {"idle", "persisted", "journaled", "write", "reload", "commit", "readback",
              "recover", "undo", "undo_commit", "undo_reload"}
Daemon  == [pc : DaemonPCs, mode : {"apply", "rollback"}, key : Keys \cup {None},
            i : 1 .. NumFiles + 1, call : Watchers \cup {None}]
IdleDaemon == [pc |-> "idle", mode |-> "apply", key |-> None, i |-> 1, call |-> None]

\* "seen": the row has been read; "claimed": the lease is held; "waiting": the
\* call is out; "replied": its result is known.
WatcherPCs == {"idle", "seen", "claimed", "waiting", "replied"}
Watcher == [pc : WatcherPCs, key : Keys \cup {None}, seen : BOOLEAN, ok : BOOLEAN]
IdleWatcher == [pc |-> "idle", key |-> None, seen |-> FALSE, ok |-> FALSE]

TypeOK ==
  /\ live \in [Parts -> Val]
  /\ runtime \in [Files -> Val]
  /\ state \in [Keys -> States]
  /\ before \in [Keys -> [Parts -> Val]]
  /\ prepared \in [Keys -> [Parts -> Val]]
  /\ journal \in [Keys -> {"none", "snapshot", "prepared", "restoring"}]
  /\ evidence \in [Keys -> BOOLEAN]
  /\ expired \in [Keys -> BOOLEAN]
  /\ owner \in [Keys -> Watchers \cup {None}]
  /\ leaseOver \in [Keys -> BOOLEAN]
  /\ dm \in Daemon
  /\ wd \in [Watchers -> Watcher]
  /\ calls \in SUBSET [w : Watchers \cup {None}, key : Keys]
  /\ last \in Keys \cup {None}
  /\ edited \in BOOLEAN /\ synced \in BOOLEAN
  /\ raced \in SUBSET Parts
  /\ unused \in SUBSET Edits
  /\ faults \in Nat

Init ==
  /\ live = [p \in Parts |-> Orig]
  /\ runtime = [f \in Files |-> Orig]
  /\ state = [k \in Keys |-> "none"]
  /\ before = [k \in Keys |-> [p \in Parts |-> Orig]]
  /\ prepared = [k \in Keys |-> [p \in Parts |-> Orig]]
  /\ journal = [k \in Keys |-> "none"]
  /\ evidence = [k \in Keys |-> FALSE]
  /\ expired = [k \in Keys |-> FALSE]
  /\ owner = [k \in Keys |-> None]
  /\ leaseOver = [k \in Keys |-> FALSE]
  /\ dm = IdleDaemon
  /\ wd = [w \in Watchers |-> IdleWatcher]
  /\ calls = {}
  /\ last = None
  /\ edited = FALSE /\ synced = TRUE
  /\ raced = {}
  /\ unused = Edits
  /\ faults = 0

-----------------------------------------------------------------------------
(* Locks and checks *)

\* nc_tx_apply holds BEGIN IMMEDIATE on the task database from the second
\* nc_tx_lock_pending to its last COMMIT; nc_tx_rollback commits before it
\* restores.
AppLocked == dm.mode = "apply" /\ dm.pc \notin {"idle", "persisted", "journaled"}

\* Both handlers hold BEGIN IMMEDIATE on the configuration database.
ConfigLocked == dm.pc # "idle"

\* The daemon is replacing files, so that an edit can be overwritten unseen.
Replacing == dm.pc \in {"write", "reload", "commit", "readback", "recover", "undo",
                        "undo_commit", "undo_reload"}

\* The SELECT of nc_tx_lock_pending.
LockPending(k) == state[k] = "pending" /\ ~expired[k]

\* nc_tx_recovery_matches: every part is the recorded one before or after.
RecoveryMatchesLax(k) == \A f \in Files : live[f] \in {before[k][f], prepared[k][f]}
RecoveryMatches(k) == \A p \in Parts : live[p] \in {before[k][p], prepared[k][p]}

\* What nc_tx_rollback requires of the configuration before it touches it.
\* A task with evidence has applied_digest, the digest of the prepared
\* configuration; without it the digest of the snapshot is expected, unless
\* the journal tells how far an interrupted writer can have come.
RollbackAcceptsExact(k) ==
  IF evidence[k] THEN live = prepared[k] ELSE live = before[k]
RollbackAccepts(k) ==
  LET recovering == journal[k] \in {"prepared", "restoring"}
                    /\ (~evidence[k] \/ journal[k] = "restoring")
  IN  IF recovering THEN RecoveryMatches(k)
      ELSE IF evidence[k] THEN live = prepared[k] ELSE live = before[k]

-----------------------------------------------------------------------------
(* nc_tx_apply *)

\* Up to the first COMMIT: no task with this key (a replay), no active task
\* (safeops_revision_begin), then the row and the vault entry with the
\* snapshot are committed together.  A refused request changes nothing.
ApplyBegin(k) ==
  /\ dm.pc = "idle"
  /\ state[k] = "none"
  /\ \A j \in Keys : state[j] \notin Active
  /\ state' = [state EXCEPT ![k] = "pending"]
  /\ before' = [before EXCEPT ![k] = live]
  /\ journal' = [journal EXCEPT ![k] = "snapshot"]
  /\ dm' = [IdleDaemon EXCEPT !.pc = "persisted", !.key = k]
  /\ last' = k
  /\ edited' = FALSE
  /\ synced' = (runtime = FilesOf(live))
  /\ raced' = {}
  /\ UNCHANGED <<live, runtime, prepared, evidence, expired, owner, leaseOver, wd, calls,
                 unused, faults>>

\* The task is no longer pending or its deadline has passed: nothing is done.
\* Also when the task database cannot be locked or written.
ApplyGivesUp ==
  /\ dm.pc \in {"persisted", "journaled"}
  /\ dm' = IdleDaemon
  /\ UNCHANGED <<live, runtime, taskVars, wd, calls, obsVars, unused, faults>>

\* The setters and renderers fail before anything is published.
ApplyPreparationFails ==
  LET k == dm.key IN
  /\ dm.pc = "persisted"
  /\ LockPending(k)
  /\ state' = [state EXCEPT ![k] = "rolled_back"]
  /\ dm' = IdleDaemon
  /\ UNCHANGED <<live, runtime, before, prepared, journal, evidence, expired, owner,
                 leaseOver, wd, calls, obsVars, unused, faults>>

\* A file is not the one of the snapshot any more: label preparation_failed.
ApplyFindsDrift ==
  LET k == dm.key IN
  /\ dm.pc = "persisted"
  /\ LockPending(k)
  /\ FilesOf(live) # FilesOf(before[k])
  /\ state' = [state EXCEPT ![k] = "rollback_failed"]
  /\ dm' = IdleDaemon
  /\ UNCHANGED <<live, runtime, before, prepared, journal, evidence, expired, owner,
                 leaseOver, wd, calls, obsVars, unused, faults>>

\* The rows are set in the open transaction, the files of F rendered, and the
\* journal with both images is committed.
ApplyJournal(F) ==
  LET k == dm.key IN
  /\ dm.pc = "persisted"
  /\ LockPending(k)
  /\ FilesOf(live) = FilesOf(before[k])
  /\ prepared' = [prepared EXCEPT ![k] =
                    [p \in Parts |-> IF p \in F \cup {Rows} THEN k ELSE before[k][p]]]
  /\ journal' = [journal EXCEPT ![k] = "prepared"]
  /\ dm' = [dm EXCEPT !.pc = "journaled"]
  /\ UNCHANGED <<live, runtime, state, before, evidence, expired, owner, leaseOver, wd, calls,
                 obsVars, unused, faults>>

\* The second nc_tx_lock_pending, and the last look at the files.
ApplyLock ==
  /\ dm.pc = "journaled"
  /\ LockPending(dm.key)
  /\ dm' = [dm EXCEPT !.pc = IF FilesOf(live) = FilesOf(before[dm.key])
                             THEN "write" ELSE "recover"]
  /\ UNCHANGED <<live, runtime, taskVars, wd, calls, obsVars, unused, faults>>

\* nc_tx_write_files: each file is renamed into place; one that does not
\* change is skipped.
ApplyWrite ==
  LET k == dm.key
      f == dm.i IN
  /\ dm.pc = "write"
  /\ f \in Files
  /\ live' = IF prepared[k][f] = before[k][f] THEN live
             ELSE [live EXCEPT ![f] = prepared[k][f]]
  /\ dm' = [dm EXCEPT !.i = f + 1, !.pc = IF f = NumFiles THEN "reload" ELSE "write"]
  /\ UNCHANGED <<runtime, taskVars, wd, calls, obsVars, unused, faults>>

ApplyReload ==
  /\ dm.pc = "reload"
  /\ runtime' = FilesOf(live)
  /\ dm' = [dm EXCEPT !.pc = "commit"]
  /\ UNCHANGED <<live, taskVars, wd, calls, obsVars, unused, faults>>

ApplyCommit ==
  /\ dm.pc = "commit"
  /\ live' = [live EXCEPT ![Rows] = prepared[dm.key][Rows]]
  /\ dm' = [dm EXCEPT !.pc = "readback"]
  /\ UNCHANGED <<runtime, taskVars, wd, calls, obsVars, unused, faults>>

\* The configuration read back is the prepared one: its digest is stored and
\* the task stays pending, now open to confirmation.
ApplyReadback ==
  /\ dm.pc = "readback"
  /\ live = prepared[dm.key]
  /\ evidence' = [evidence EXCEPT ![dm.key] = TRUE]
  /\ dm' = IdleDaemon
  /\ UNCHANGED <<live, runtime, state, before, prepared, journal, expired, owner, leaseOver,
                 wd, calls, obsVars, unused, faults>>

\* A rename, the reload, the COMMIT or the readback fails.  A failed reload
\* may or may not have loaded the files.
ApplyFails ==
  /\ dm.pc \in {"write", "reload", "commit", "readback"}
  /\ runtime' \in IF dm.pc = "reload" THEN {runtime, FilesOf(live)} ELSE {runtime}
  /\ dm' = [dm EXCEPT !.pc = "recover"]
  /\ UNCHANGED <<live, taskVars, wd, calls, obsVars, unused, faults>>

\* nc_tx_store_evidence with a final state, and COMMIT; neither result is
\* looked at, so the row may also stay as it is.
Store(k, outcome) ==
  \/ state' = [state EXCEPT ![k] = outcome] /\ UNCHANGED faults
  \/ faults < MaxFaults /\ faults' = faults + 1 /\ UNCHANGED state

\* Label restore: the snapshot is put back unless somebody else wrote a part.
ApplyRecover ==
  /\ dm.pc = "recover"
  /\ IF RecoveryMatches(dm.key)
     THEN /\ dm' = [dm EXCEPT !.pc = "undo", !.i = 1]
          /\ UNCHANGED <<state, faults>>
     ELSE /\ dm' = IdleDaemon
          /\ Store(dm.key, "rollback_failed")
  /\ UNCHANGED <<live, runtime, before, prepared, journal, evidence, expired, owner, leaseOver,
                 wd, calls, obsVars, unused>>

-----------------------------------------------------------------------------
(* nc_tx_restore_snapshot and what its two callers do with the result *)

\* The handler of a call has ended: its caller, if it still waits, is answered.
Answer(w, ok) ==
  wd' = IF w \in Watchers /\ wd[w].pc = "waiting"
        THEN [wd EXCEPT ![w].pc = "replied", ![w].ok = ok] ELSE wd

\* nc_tx_apply stores the outcome itself; nc_tx_rollback answers its caller.
UndoEnds(ok) ==
  /\ dm' = IdleDaemon
  /\ IF dm.mode = "apply"
     THEN /\ Store(dm.key, IF ok THEN "rolled_back" ELSE "rollback_failed")
          /\ UNCHANGED wd
     ELSE /\ Answer(dm.call, ok)
          /\ UNCHANGED <<state, faults>>

\* Every file of the snapshot is renamed into place, changed or not.
UndoWrite ==
  LET f == dm.i IN
  /\ dm.pc = "undo"
  /\ f \in Files
  /\ live' = [live EXCEPT ![f] = before[dm.key][f]]
  /\ dm' = [dm EXCEPT !.i = f + 1, !.pc = IF f = NumFiles THEN "undo_commit" ELSE "undo"]
  /\ UNCHANGED <<runtime, taskVars, wd, calls, obsVars, unused, faults>>

UndoCommitFilesOnly ==
  /\ dm.pc = "undo_commit"
  /\ dm' = [dm EXCEPT !.pc = "undo_reload"]
  /\ UNCHANGED <<live, runtime, taskVars, wd, calls, obsVars, unused, faults>>
UndoCommit ==
  /\ dm.pc = "undo_commit"
  /\ live' = [live EXCEPT ![Rows] = before[dm.key][Rows]]
  /\ dm' = [dm EXCEPT !.pc = "undo_reload"]
  /\ UNCHANGED <<runtime, taskVars, wd, calls, obsVars, unused, faults>>

UndoReload ==
  /\ dm.pc = "undo_reload"
  /\ runtime' = FilesOf(live)
  /\ UndoEnds(TRUE)
  /\ UNCHANGED <<live, before, prepared, journal, evidence, expired, owner, leaseOver, calls,
                 obsVars, unused>>

UndoFails ==
  /\ dm.pc \in {"undo", "undo_commit", "undo_reload"}
  /\ runtime' \in IF dm.pc = "undo_reload" THEN {runtime, FilesOf(live)} ELSE {runtime}
  /\ UndoEnds(FALSE)
  /\ UNCHANGED <<live, before, prepared, journal, evidence, expired, owner, leaseOver, calls,
                 obsVars, unused>>

-----------------------------------------------------------------------------
(* nc_tx_rollback *)

\* The task must be claimed and the configuration must be what the journal
\* says; then the intent to restore is committed before the first file moves.
RollbackStart(c) ==
  LET k == c.key IN
  /\ dm.pc = "idle"
  /\ c \in calls
  /\ state[k] = "rolling_back"
  /\ RollbackAccepts(k)
  /\ calls' = calls \ {c}
  /\ prepared' = IF journal[k] = "snapshot" THEN [prepared EXCEPT ![k] = live] ELSE prepared
  /\ journal' = [journal EXCEPT ![k] = "restoring"]
  /\ dm' = [pc |-> "undo", mode |-> "rollback", key |-> k, i |-> 1, call |-> c.w]
  /\ UNCHANGED <<live, runtime, state, before, evidence, expired, owner, leaseOver, wd,
                 obsVars, unused, faults>>

\* Not claimed, drift, or a failing vault or database: nothing is touched.
RollbackRefused(c) ==
  /\ dm.pc = "idle"
  /\ c \in calls
  /\ calls' = calls \ {c}
  /\ Answer(c.w, FALSE)
  /\ UNCHANGED <<live, runtime, taskVars, dm, obsVars, unused, faults>>

-----------------------------------------------------------------------------
(* The watchdogs: safeops_rollback_claim, safeops_network_rollback_rpc and  *)
(* safeops_rollback_finish.  Their caller reads the row first and hands the  *)
(* digest it saw to the claim.                                               *)

\* A task is due when its deadline has passed, or when the lease of whoever
\* was rolling it back has.
DuePendingOnly(k) == state[k] = "pending" /\ expired[k]
Due(k) == \/ state[k] = "pending" /\ expired[k]
          \/ state[k] = "rolling_back" /\ leaseOver[k]

WatcherScan(w, k) ==
  /\ wd[w].pc = "idle"
  /\ Due(k)
  /\ wd' = [wd EXCEPT ![w] = [pc |-> "seen", key |-> k, seen |-> evidence[k], ok |-> FALSE]]
  /\ UNCHANGED <<live, runtime, taskVars, dm, calls, obsVars, unused, faults>>

\* The WHERE clause of safeops_rollback_claim.
Claimable(w, k) ==
  /\ evidence[k] = wd[w].seen
  /\ state[k] = "pending" \/ (state[k] = "rolling_back" /\ leaseOver[k])

WatcherClaim(w) ==
  LET k == wd[w].key IN
  /\ wd[w].pc = "seen"
  /\ ~AppLocked
  /\ Claimable(w, k)
  /\ state' = [state EXCEPT ![k] = "rolling_back"]
  /\ owner' = [owner EXCEPT ![k] = w]
  /\ leaseOver' = [leaseOver EXCEPT ![k] = FALSE]
  /\ wd' = [wd EXCEPT ![w].pc = "claimed"]
  /\ UNCHANGED <<live, runtime, before, prepared, journal, evidence, expired, dm, calls,
                 obsVars, unused, faults>>

\* No row was changed, or the task database stayed locked for a second.
WatcherClaimLost(w) ==
  /\ wd[w].pc = "seen"
  /\ AppLocked \/ ~Claimable(w, wd[w].key)
  /\ wd' = [wd EXCEPT ![w] = IdleWatcher]
  /\ UNCHANGED <<live, runtime, taskVars, dm, calls, obsVars, unused, faults>>

WatcherCall(w) ==
  /\ wd[w].pc = "claimed"
  /\ calls' = calls \cup {[w |-> w, key |-> wd[w].key]}
  /\ wd' = [wd EXCEPT ![w].pc = "waiting"]
  /\ UNCHANGED <<live, runtime, taskVars, dm, obsVars, unused, faults>>

\* The calls a watchdog no longer waits for stay with the daemon.
Orphaned(w) == {IF c.w = w THEN [c EXCEPT !.w = None] ELSE c : c \in calls}
DisownedDaemon(w) == IF dm.call = w THEN [dm EXCEPT !.call = None] ELSE dm

\* ubus -t 45 gives up; the daemon may still be working on it.
WatcherTimeout(w) ==
  /\ wd[w].pc = "waiting"
  /\ wd' = [wd EXCEPT ![w].pc = "replied", ![w].ok = FALSE]
  /\ calls' = Orphaned(w)
  /\ dm' = DisownedDaemon(w)
  /\ UNCHANGED <<live, runtime, taskVars, obsVars, unused, faults>>

\* Only the current owner of the lease publishes; the UPDATE may fail.
FinishOwned(w, k) == state[k] = "rolling_back" /\ owner[k] = w

WatcherFinish(w) ==
  LET k == wd[w].key IN
  /\ wd[w].pc = "replied"
  /\ ~AppLocked
  /\ IF FinishOwned(w, k)
     THEN Store(k, IF wd[w].ok THEN "rolled_back" ELSE "rollback_failed")
     ELSE UNCHANGED <<state, faults>>
  /\ wd' = [wd EXCEPT ![w] = IdleWatcher]
  /\ UNCHANGED <<live, runtime, before, prepared, journal, evidence, expired, owner, leaseOver,
                 dm, calls, obsVars, unused>>

\* The owner is alive and still has to publish.
OwnerBusy(k) == \E w \in Watchers : owner[k] = w /\ wd[w].key = k
                                     /\ wd[w].pc \in {"claimed", "waiting", "replied"}

\* SAFEOPS_ROLLBACK_LEASE_SECONDS (120) pass without a result.  The call gives
\* up after 45 seconds, so only a stalled owner outlives its lease.
LeaseEnds(k) ==
  /\ state[k] = "rolling_back"
  /\ ~leaseOver[k]
  /\ IF OwnerBusy(k) THEN faults < MaxFaults /\ faults' = faults + 1 ELSE UNCHANGED faults
  /\ leaseOver' = [leaseOver EXCEPT ![k] = TRUE]
  /\ UNCHANGED <<live, runtime, state, before, prepared, journal, evidence, expired, owner, dm,
                 wd, calls, obsVars, unused>>

-----------------------------------------------------------------------------
(* The administrator, the clock, other writers and failures *)

\* jmx_config_confirm refuses without evidence and after the deadline.
ConfirmGuardPendingOnly(k) == state[k] = "pending"
ConfirmGuard(k) == state[k] = "pending" /\ ~expired[k] /\ evidence[k]

Confirm(k) ==
  /\ ~AppLocked
  /\ ConfirmGuard(k)
  /\ state' = [state EXCEPT ![k] = "confirmed"]
  /\ UNCHANGED <<live, runtime, before, prepared, journal, evidence, expired, owner, leaseOver,
                 dm, wd, calls, obsVars, unused, faults>>

DeadlinePasses(k) ==
  /\ state[k] = "pending"
  /\ ~expired[k]
  /\ expired' = [expired EXCEPT ![k] = TRUE]
  /\ UNCHANGED <<live, runtime, state, before, prepared, journal, evidence, owner, leaseOver,
                 dm, wd, calls, obsVars, unused, faults>>

\* Somebody replaces a file, at any time, or changes the rows while no
\* handler holds the configuration database.
Edit(p, e) ==
  /\ e \in unused
  /\ p = Rows => ~ConfigLocked
  /\ live' = [live EXCEPT ![p] = e]
  /\ unused' = unused \ {e}
  /\ edited' = TRUE
  /\ raced' = IF Replacing THEN raced \cup {p} ELSE raced
  /\ UNCHANGED <<runtime, taskVars, dm, wd, calls, last, synced, faults>>

\* The daemon dies: its open transactions are rolled back, every waiting
\* caller gets an error.
DaemonCrash ==
  /\ faults < MaxFaults
  /\ faults' = faults + 1
  /\ dm # IdleDaemon \/ calls # {}
  /\ dm' = IdleDaemon
  /\ calls' = {}
  /\ wd' = [w \in Watchers |-> IF wd[w].pc = "waiting"
                               THEN [wd[w] EXCEPT !.pc = "replied", !.ok = FALSE] ELSE wd[w]]
  /\ UNCHANGED <<live, runtime, taskVars, obsVars, unused>>

WatcherCrash(w) ==
  /\ faults < MaxFaults
  /\ faults' = faults + 1
  /\ wd[w].pc # "idle"
  /\ wd' = [wd EXCEPT ![w] = IdleWatcher]
  /\ calls' = Orphaned(w)
  /\ dm' = DisownedDaemon(w)
  /\ UNCHANGED <<live, runtime, taskVars, obsVars, unused>>

\* Everybody dies; at the next boot the services load the files.
PowerLoss ==
  /\ faults < MaxFaults
  /\ faults' = faults + 1
  /\ dm' = IdleDaemon
  /\ calls' = {}
  /\ wd' = [w \in Watchers |-> IdleWatcher]
  /\ runtime' = FilesOf(live)
  /\ UNCHANGED <<live, taskVars, obsVars, unused>>

-----------------------------------------------------------------------------

ApplyStep == \/ ApplyGivesUp \/ ApplyPreparationFails \/ ApplyFindsDrift
             \/ \E F \in SUBSET Files : ApplyJournal(F)
             \/ ApplyLock \/ ApplyWrite \/ ApplyReload \/ ApplyCommit \/ ApplyReadback
             \/ ApplyFails \/ ApplyRecover
UndoStep == UndoWrite \/ UndoCommit \/ UndoReload \/ UndoFails
RollbackStep == \E c \in calls : RollbackStart(c) \/ RollbackRefused(c)
DaemonStep == ApplyStep \/ UndoStep \/ RollbackStep

WatcherStep(w) == \/ \E k \in Keys : WatcherScan(w, k)
                  \/ WatcherClaim(w) \/ WatcherClaimLost(w) \/ WatcherCall(w)
                  \/ WatcherTimeout(w) \/ WatcherFinish(w)

Time == \E k \in Keys : DeadlinePasses(k) \/ LeaseEnds(k)

Next == \/ \E k \in Keys : ApplyBegin(k) \/ Confirm(k)
        \/ DaemonStep
        \/ \E w \in Watchers : WatcherStep(w) \/ WatcherCrash(w)
        \/ Time
        \/ \E p \in Parts, e \in Edits : Edit(p, e)
        \/ DaemonCrash \/ PowerLoss

Spec == Init /\ [][Next]_vars

\* The daemon's loop and the watchdogs keep running, and time passes.
FairSpec == /\ Spec
            /\ WF_vars(DaemonStep)
            /\ WF_vars(Time)
            /\ \A w \in Watchers : WF_vars(WatcherStep(w))

-----------------------------------------------------------------------------
(* What the transaction promises: GuardedChange *)

Phase(st) == CASE st = "none" -> "none"
               [] st \in Active -> "open"
               [] st = "confirmed" -> "kept"
               [] st = "rolled_back" -> "undone"
               [] st = "rollback_failed" -> "unknown"

Change == INSTANCE GuardedChange WITH
            Configs <- [Parts -> Val],
            config  <- live,
            phase   <- [k \in Keys |-> Phase(state[k])],
            base    <- before,
            target  <- prepared,
            latest  <- last,
            touched <- edited

\* The transaction implements GuardedChange: its code changes the
\* configuration only on behalf of the youngest task and only before that
\* task is reported kept or undone, and the report is true.
ChangeSpec == Change!Spec

-----------------------------------------------------------------------------
(* Properties *)

\* A configuration the administrator confirmed is the one that was prepared,
\* in the database, in every file and in the services, unless somebody edited
\* a part since.
ConfirmedIsLive ==
  (last # None /\ ~edited /\ state[last] = "confirmed")
    => live = prepared[last] /\ (synced => runtime = FilesOf(prepared[last]))

\* A task reported as rolled back has left every part and the services as they
\* were before it, whoever rolled it back and after whatever crashes.
RolledBackIsBefore ==
  (last # None /\ ~edited /\ state[last] = "rolled_back")
    => live = before[last] /\ (synced => runtime = FilesOf(before[last]))

\* Wherever the daemon died, it left a configuration that nc_tx_rollback
\* recognises as its own work: an unfinished task never becomes one that no
\* watchdog can undo.
AlwaysRecoverable ==
  (last # None /\ ~edited /\ state[last] \in Active /\ dm.pc = "idle")
    => RollbackAccepts(last)

\* What somebody wrote is only overwritten by a task that was told of it (it
\* is part of its snapshot), or that was already replacing files.
DriftPreserved ==
  [][\A p \in Parts :
       (live[p] \in Edits /\ live'[p] # live[p] /\ live'[p] \notin Edits)
         => p \in raced \/ before[dm.key][p] = live[p]]_vars

\* An outcome is final: no late writer, watchdog or confirmation changes it.
OutcomeFinal ==
  [][\A k \in Keys : state[k] \in Terminal => state'[k] = state[k]]_vars

\* Every task gets an outcome.
EveryTaskEnds ==
  \A k \in Keys : (state[k] \in Active) ~> (state[k] \in Terminal)
=============================================================================
