--------------------------- MODULE NetworkTxProofs ---------------------------
(* Proofs about NetworkTx, for any tasks, watchdogs, edits, files and faults: *)
(* types, what each outcome claims, that a change can always be undone, that   *)
(* drift is preserved, and that the transaction implements GuardedChange.      *)
EXTENDS NetworkTx, TLAPS

\* Only the youngest task is active, and a task is journaled with its row.
Ledger ==
  /\ \A k \in Keys :
       /\ state[k] \in Active => k = last
       /\ state[k] = "none" <=> journal[k] = "none"
       /\ evidence[k] => journal[k] \in {"prepared", "restoring"}
  /\ last # None => state[last] # "none"

\* Watchdogs and calls are about tasks that exist.
Known ==
  /\ \A w \in Watchers : wd[w].pc # "idle" => /\ wd[w].key \in Keys
                                              /\ state[wd[w].key] # "none"
  /\ \A c \in calls : state[c.key] # "none"

Publishing == {"write", "reload", "commit", "readback", "recover"}
Undoing    == {"undo", "undo_commit", "undo_reload"}

\* What the daemon has in hand: the youngest task, still pending once an apply
\* has taken its second lock.
Hand ==
  dm.pc # "idle" =>
    /\ dm.key = last /\ last \in Keys
    /\ dm.mode = "apply" =>
         /\ ~evidence[last]
         /\ journal[last] = IF dm.pc = "persisted" THEN "snapshot" ELSE "prepared"
         /\ dm.pc \in Publishing \cup Undoing => state[last] = "pending"
    /\ dm.mode = "rollback" => dm.pc \in Undoing /\ journal[last] = "restoring"
    /\ dm.pc \in {"persisted", "journaled", "write", "undo"} => dm.i \in Files

\* How far the youngest task has come, in the task database and elsewhere.
Progress ==
  last # None =>
    /\ journal[last] = "restoring" => /\ dm.pc = "idle" \/ dm.mode = "rollback"
                                      /\ state[last] \notin {"none", "pending", "confirmed"}
    /\ state[last] = "confirmed" => evidence[last] /\ dm.pc = "idle"
    /\ \A w \in Watchers :
         (wd[w].pc = "replied" /\ wd[w].key = last /\ wd[w].ok) => journal[last] = "restoring"

Restored == live = before[last] /\ runtime = FilesOf(before[last])

\* The configuration, as long as nobody edited it.
Config ==
  (last # None /\ ~edited) =>
    /\ RecoveryMatches(last)
    /\ journal[last] = "snapshot" => /\ live = before[last]
                                     /\ synced => runtime = FilesOf(before[last])
    /\ (evidence[last] /\ journal[last] # "restoring") => /\ live = prepared[last]
                                                          /\ runtime = FilesOf(prepared[last])
    /\ dm.pc \in {"commit", "readback"} => runtime = FilesOf(live)
    /\ dm.pc = "undo" => \A f \in Files : f < dm.i => live[f] = before[last][f]
    /\ dm.pc = "undo_commit" => \A f \in Files : live[f] = before[last][f]
    /\ dm.pc = "undo_reload" => live = before[last]
    /\ \A w \in Watchers :
         (wd[w].pc = "replied" /\ wd[w].key = last /\ wd[w].ok) => Restored
    /\ state[last] = "rolled_back" => /\ live = before[last]
                                      /\ synced => runtime = FilesOf(before[last])

\* What an edit cannot have changed unseen.
Drift ==
  /\ \A k \in Keys, p \in Parts :
       journal[k] \in {"prepared", "restoring"} => prepared[k][p] \in {before[k][p], k}
  /\ (dm.pc # "idle" /\ dm.mode = "apply" /\ dm.pc \notin {"readback", "recover"} \cup Undoing)
       => live[Rows] = before[last][Rows]
  /\ dm.pc \in {"write", "reload", "commit"} \cup Undoing =>
       \A p \in Parts \ raced : live[p] \in {before[last][p], prepared[last][p]}

Inv == TypeOK /\ Ledger /\ Known /\ Hand /\ Progress /\ Config /\ Drift

-----------------------------------------------------------------------------
(* Updates of the records *)

LEMMA Numbers == 1 \in Files /\ Files \subseteq 1 .. NumFiles + 1
                 /\ \A f \in Files : f + 1 \in 1 .. NumFiles + 1
                                     /\ (f # NumFiles => f + 1 \in Files)
BY ConstantsAssumption DEF Files

LEMMA PartsAre == Rows \notin Files /\ Files \subseteq Parts /\ Rows \in Parts
BY DEF Rows, Files, Parts

LEMMA IdleTyped == IdleDaemon \in Daemon /\ IdleWatcher \in Watcher
BY Numbers DEF IdleDaemon, Daemon, DaemonPCs, IdleWatcher, Watcher, WatcherPCs

LEMMA DaemonMoves ==
  ASSUME NEW d \in Daemon, NEW pc \in DaemonPCs
  PROVE  /\ [d EXCEPT !.pc = pc] \in Daemon
         /\ \A i \in 1 .. NumFiles + 1 : [d EXCEPT !.i = i, !.pc = pc] \in Daemon
         /\ \A i \in 1 .. NumFiles + 1 : [d EXCEPT !.pc = pc, !.i = i] \in Daemon
         /\ [d EXCEPT !.call = None] \in Daemon
BY DEF Daemon

LEMMA WatcherMoves ==
  ASSUME NEW r \in Watcher, NEW pc \in WatcherPCs, NEW ok \in BOOLEAN
  PROVE  [r EXCEPT !.pc = pc] \in Watcher /\ [r EXCEPT !.pc = pc, !.ok = ok] \in Watcher
BY DEF Watcher

-----------------------------------------------------------------------------
(* Types *)

\* What the record of the daemon is after it moved on, and after it is done.
LEMMA DaemonTyped ==
  ASSUME Inv
  PROVE  /\ dm \in Daemon /\ IdleDaemon \in Daemon
         /\ \A pc \in DaemonPCs : [dm EXCEPT !.pc = pc] \in Daemon
         /\ \A pc \in DaemonPCs, i \in 1 .. NumFiles + 1 :
              [dm EXCEPT !.i = i, !.pc = pc] \in Daemon /\ [dm EXCEPT !.pc = pc, !.i = i] \in Daemon
         /\ \A w : DisownedDaemon(w) \in Daemon
<1>1. dm \in Daemon
  BY DEF Inv, TypeOK
<1>2. \A w : DisownedDaemon(w) \in Daemon
  BY <1>1, DaemonMoves, Zenon DEF DisownedDaemon, DaemonPCs
<1> QED BY <1>1, <1>2, DaemonMoves, IdleTyped

\* A watchdog that moves on, one that starts over, and one that is answered.
LEMMA WatchersTyped ==
  ASSUME Inv
  PROVE  /\ \A w \in Watchers, pc \in WatcherPCs : [wd EXCEPT ![w].pc = pc] \in [Watchers -> Watcher]
         /\ \A w \in Watchers, pc \in WatcherPCs, ok \in BOOLEAN :
              [wd EXCEPT ![w].pc = pc, ![w].ok = ok] \in [Watchers -> Watcher]
         /\ \A w \in Watchers, r \in Watcher : [wd EXCEPT ![w] = r] \in [Watchers -> Watcher]
<1> USE DEF Inv, TypeOK
<1>1. ASSUME NEW w \in Watchers, NEW pc \in WatcherPCs
      PROVE  [wd EXCEPT ![w].pc = pc] \in [Watchers -> Watcher]
  <2> DEFINE r == [wd[w] EXCEPT !.pc = pc]
  <2>1. r \in Watcher
    BY WatcherMoves
  <2>2. [wd EXCEPT ![w].pc = pc] = [wd EXCEPT ![w] = r]
    OBVIOUS
  <2> HIDE DEF r
  <2> QED BY <2>1, <2>2
<1>2. ASSUME NEW w \in Watchers, NEW pc \in WatcherPCs, NEW ok \in BOOLEAN
      PROVE  [wd EXCEPT ![w].pc = pc, ![w].ok = ok] \in [Watchers -> Watcher]
  <2> DEFINE r == [wd[w] EXCEPT !.pc = pc, !.ok = ok]
  <2>1. r \in Watcher
    BY WatcherMoves
  <2>2. [wd EXCEPT ![w].pc = pc, ![w].ok = ok] = [wd EXCEPT ![w] = r]
    OBVIOUS
  <2> HIDE DEF r
  <2> QED BY <2>1, <2>2
<1>3. ASSUME NEW w \in Watchers, NEW r \in Watcher
      PROVE  [wd EXCEPT ![w] = r] \in [Watchers -> Watcher]
  OBVIOUS
<1> QED BY <1>1, <1>2, <1>3

LEMMA AnswerTyped ==
  ASSUME Inv, NEW w, NEW ok \in BOOLEAN, Answer(w, ok)
  PROVE  wd' \in [Watchers -> Watcher]
<1>1. CASE w \in Watchers /\ wd[w].pc = "waiting"
  <2>1. "replied" \in WatcherPCs
    BY DEF WatcherPCs
  <2> QED BY <1>1, <2>1, WatchersTyped DEF Answer
<1>2. CASE ~(w \in Watchers /\ wd[w].pc = "waiting")
  BY <1>2 DEF Answer, Inv, TypeOK
<1> QED BY <1>1, <1>2

LEMMA OrphanedTyped ==
  ASSUME Inv, NEW w
  PROVE  Orphaned(w) \in SUBSET [w : Watchers \cup {None}, key : Keys]
<1> SUFFICES ASSUME NEW c \in calls
             PROVE  (IF c.w = w THEN [c EXCEPT !.w = None] ELSE c)
                      \in [w : Watchers \cup {None}, key : Keys]
  BY DEF Orphaned
<1>1. c \in [w : Watchers \cup {None}, key : Keys]
  BY DEF Inv, TypeOK
<1> QED BY <1>1

LEMMA StoreTyped ==
  ASSUME Inv, NEW k \in Keys, NEW outcome \in States, Store(k, outcome)
  PROVE  state' \in [Keys -> States] /\ faults' \in Nat
<1>1. state \in [Keys -> States] /\ faults \in Nat
  BY DEF Inv, TypeOK
<1>2. CASE state' = [state EXCEPT ![k] = outcome] /\ UNCHANGED faults
  BY <1>1, <1>2
<1>3. CASE faults < MaxFaults /\ faults' = faults + 1 /\ UNCHANGED state
  BY <1>1, <1>3
<1> QED BY <1>2, <1>3 DEF Store

LEMMA InitInv == Init => Inv
<1> SUFFICES ASSUME Init PROVE Inv
  OBVIOUS
<1>1. TypeOK
  BY IdleTyped DEF Init, TypeOK, Val, States
<1>2. Ledger
  BY DEF Init, Ledger, Active
<1>3. Known
  BY DEF Init, Known, IdleWatcher
<1>4. dm.pc = "idle" /\ last = None
  BY DEF Init, IdleDaemon
<1>5. Drift
  BY <1>4 DEF Init, Drift, Undoing
<1> QED
  BY <1>1, <1>2, <1>3, <1>4, <1>5 DEF Inv, Hand, Progress, Config

\* The daemon's task, its file and its journal are where they should be.
LEMMA InHand ==
  ASSUME Inv, dm.pc # "idle"
  PROVE  /\ dm.key \in Keys /\ dm.key = last /\ last # None
         /\ dm.mode \in {"apply", "rollback"}
         /\ dm.i \in 1 .. NumFiles + 1 /\ dm.call \in Watchers \cup {None}
BY ConstantsAssumption DEF Inv, TypeOK, Daemon, Hand

LEMMA UndoEndsTyped ==
  ASSUME Inv, NEW ok \in BOOLEAN, dm.pc # "idle", UndoEnds(ok)
  PROVE  /\ dm' \in Daemon /\ state' \in [Keys -> States] /\ faults' \in Nat
         /\ wd' \in [Watchers -> Watcher]
<1>1. dm' \in Daemon
  BY IdleTyped DEF UndoEnds
<1>2. CASE dm.mode = "apply"
  <2>1. PICK outcome \in {"rolled_back", "rollback_failed"} : Store(dm.key, outcome)
    BY <1>2, Zenon DEF UndoEnds
  <2>2. state' \in [Keys -> States] /\ faults' \in Nat
    BY <2>1, StoreTyped, InHand DEF States
  <2>3. wd' = wd
    BY <1>2 DEF UndoEnds
  <2> QED BY <1>1, <2>2, <2>3 DEF Inv, TypeOK
<1>3. CASE dm.mode # "apply"
  <2>1. Answer(dm.call, ok) /\ UNCHANGED <<state, faults>>
    BY <1>3 DEF UndoEnds
  <2> QED BY <1>1, <2>1, AnswerTyped DEF Inv, TypeOK
<1> QED BY <1>2, <1>3

LEMMA ApplyTyped ==
  ASSUME Inv, (\E k \in Keys : ApplyBegin(k)) \/ ApplyStep
  PROVE  TypeOK'
<1> USE DEF Inv, TypeOK, taskVars, obsVars
<1>1. ASSUME NEW k \in Keys, ApplyBegin(k) PROVE TypeOK'
  <2>1. dm' \in Daemon
    BY <1>1, Numbers DEF ApplyBegin, IdleDaemon, Daemon, DaemonPCs
  <2>2. state' \in [Keys -> States]
    BY <1>1 DEF ApplyBegin, States
  <2> QED BY <1>1, <2>1, <2>2 DEF ApplyBegin
<1>2. ASSUME ApplyGivesUp PROVE TypeOK'
  BY <1>2, IdleTyped DEF ApplyGivesUp
<1>3. ASSUME ApplyPreparationFails \/ ApplyFindsDrift PROVE TypeOK'
  BY <1>3, IdleTyped DEF ApplyPreparationFails, ApplyFindsDrift, States
<1>4. ASSUME NEW F \in SUBSET Files, ApplyJournal(F) PROVE TypeOK'
  <2>1. dm.key \in Keys
    BY <1>4, InHand DEF ApplyJournal
  <2>2. [p \in Parts |-> IF p \in F \cup {Rows} THEN dm.key ELSE before[dm.key][p]] \in [Parts -> Val]
    BY <2>1 DEF Val
  <2>3. prepared' \in [Keys -> [Parts -> Val]]
    BY <1>4, <2>1, <2>2 DEF ApplyJournal
  <2>4. dm' \in Daemon
    BY <1>4, DaemonTyped DEF ApplyJournal, DaemonPCs
  <2> QED BY <1>4, <2>3, <2>4 DEF ApplyJournal
<1>5. ASSUME ApplyLock PROVE TypeOK'
  <2>1. dm' \in Daemon
    BY <1>5, DaemonTyped DEF ApplyLock, DaemonPCs
  <2> QED BY <1>5, <2>1 DEF ApplyLock
<1>6. ASSUME ApplyWrite PROVE TypeOK'
  <2>1. dm.i + 1 \in 1 .. NumFiles + 1 /\ dm.i \in Parts /\ dm.key \in Keys
    BY <1>6, Numbers, PartsAre, InHand DEF ApplyWrite
  <2>2. dm' \in Daemon
    BY <1>6, <2>1, DaemonTyped DEF ApplyWrite, DaemonPCs
  <2>3. live' \in [Parts -> Val]
    BY <1>6, <2>1 DEF ApplyWrite
  <2> QED BY <1>6, <2>2, <2>3 DEF ApplyWrite
<1>7. ASSUME ApplyReload PROVE TypeOK'
  <2>1. dm' \in Daemon
    BY <1>7, DaemonTyped DEF ApplyReload, DaemonPCs
  <2>2. runtime' \in [Files -> Val]
    BY <1>7, PartsAre DEF ApplyReload, FilesOf
  <2> QED BY <1>7, <2>1, <2>2 DEF ApplyReload
<1>8. ASSUME ApplyCommit PROVE TypeOK'
  <2>1. dm' \in Daemon
    BY <1>8, DaemonTyped DEF ApplyCommit, DaemonPCs
  <2>2. live' \in [Parts -> Val]
    BY <1>8, PartsAre, InHand DEF ApplyCommit
  <2> QED BY <1>8, <2>1, <2>2 DEF ApplyCommit
<1>9. ASSUME ApplyReadback PROVE TypeOK'
  BY <1>9, IdleTyped DEF ApplyReadback
<1>10. ASSUME ApplyFails PROVE TypeOK'
  <2>1. dm' \in Daemon
    BY <1>10, DaemonTyped DEF ApplyFails, DaemonPCs
  <2>2. runtime' \in [Files -> Val]
    BY <1>10, PartsAre DEF ApplyFails, FilesOf
  <2> QED BY <1>10, <2>1, <2>2 DEF ApplyFails
<1>11. ASSUME ApplyRecover PROVE TypeOK'
  <2>1. dm.key \in Keys
    BY <1>11, InHand DEF ApplyRecover
  <2>2. CASE RecoveryMatches(dm.key)
    <3>1. dm' = [dm EXCEPT !.pc = "undo", !.i = 1]
      BY <1>11, <2>2 DEF ApplyRecover
    <3>2. 1 \in 1 .. NumFiles + 1 /\ "undo" \in DaemonPCs
      BY Numbers DEF DaemonPCs
    <3>3. dm' \in Daemon
      BY <3>1, <3>2, DaemonTyped
    <3> QED BY <1>11, <2>2, <3>3 DEF ApplyRecover
  <2>3. CASE ~RecoveryMatches(dm.key)
    <3>1. state' \in [Keys -> States] /\ faults' \in Nat
      BY <1>11, <2>1, <2>3, StoreTyped DEF ApplyRecover, States
    <3> QED BY <1>11, <2>3, <3>1, IdleTyped DEF ApplyRecover
  <2> QED BY <2>2, <2>3
<1> QED
  BY <1>1, <1>2, <1>3, <1>4, <1>5, <1>6, <1>7, <1>8, <1>9, <1>10, <1>11 DEF ApplyStep

LEMMA UndoTyped ==
  ASSUME Inv, UndoStep \/ RollbackStep
  PROVE  TypeOK'
<1> USE DEF Inv, TypeOK, taskVars, obsVars
<1>1. ASSUME UndoWrite PROVE TypeOK'
  <2>1. dm.i + 1 \in 1 .. NumFiles + 1 /\ dm.i \in Parts /\ dm.key \in Keys
    BY <1>1, Numbers, PartsAre, InHand DEF UndoWrite
  <2>2. dm' \in Daemon
    BY <1>1, <2>1, DaemonTyped DEF UndoWrite, DaemonPCs
  <2>3. live' \in [Parts -> Val]
    BY <1>1, <2>1 DEF UndoWrite
  <2> QED BY <1>1, <2>2, <2>3 DEF UndoWrite
<1>2. ASSUME UndoCommit PROVE TypeOK'
  <2>1. dm' \in Daemon
    BY <1>2, DaemonTyped DEF UndoCommit, DaemonPCs
  <2>2. live' \in [Parts -> Val]
    BY <1>2, PartsAre, InHand DEF UndoCommit
  <2> QED BY <1>2, <2>1, <2>2 DEF UndoCommit
<1>3. ASSUME UndoReload PROVE TypeOK'
  <2>1. runtime' \in [Files -> Val]
    BY <1>3, PartsAre DEF UndoReload, FilesOf
  <2>2. /\ dm' \in Daemon /\ state' \in [Keys -> States] /\ faults' \in Nat
        /\ wd' \in [Watchers -> Watcher]
    BY <1>3, UndoEndsTyped DEF UndoReload
  <2> QED BY <1>3, <2>1, <2>2 DEF UndoReload
<1>4. ASSUME UndoFails PROVE TypeOK'
  <2>1. runtime' \in [Files -> Val]
    BY <1>4, PartsAre DEF UndoFails, FilesOf
  <2>2. /\ dm' \in Daemon /\ state' \in [Keys -> States] /\ faults' \in Nat
        /\ wd' \in [Watchers -> Watcher]
    BY <1>4, UndoEndsTyped DEF UndoFails
  <2> QED BY <1>4, <2>1, <2>2 DEF UndoFails
<1>5. ASSUME NEW c \in calls, RollbackStart(c) PROVE TypeOK'
  <2>1. c.key \in Keys /\ c.w \in Watchers \cup {None}
    OBVIOUS
  <2>2. dm' \in Daemon
    BY <1>5, <2>1, Numbers DEF RollbackStart, Daemon, DaemonPCs
  <2>3. prepared' \in [Keys -> [Parts -> Val]]
    BY <1>5, <2>1 DEF RollbackStart
  <2> QED BY <1>5, <2>1, <2>2, <2>3 DEF RollbackStart
<1>6. ASSUME NEW c \in calls, RollbackRefused(c) PROVE TypeOK'
  <2>1. wd' \in [Watchers -> Watcher]
    BY <1>6, AnswerTyped DEF RollbackRefused
  <2> QED BY <1>6, <2>1 DEF RollbackRefused
<1> QED
  BY <1>1, <1>2, <1>3, <1>4, <1>5, <1>6 DEF UndoStep, RollbackStep

LEMMA OthersTyped ==
  ASSUME Inv,
         \/ \E k \in Keys : Confirm(k)
         \/ \E w \in Watchers : WatcherStep(w) \/ WatcherCrash(w)
         \/ Time \/ (\E p \in Parts, e \in Edits : Edit(p, e)) \/ DaemonCrash \/ PowerLoss
  PROVE  TypeOK'
<1> USE DEF Inv, TypeOK, taskVars, obsVars
<1>1. ASSUME NEW k \in Keys, Confirm(k) PROVE TypeOK'
  BY <1>1 DEF Confirm, States
<1>2. ASSUME NEW w \in Watchers, NEW k \in Keys, WatcherScan(w, k) PROVE TypeOK'
  <2>1. [pc |-> "seen", key |-> k, seen |-> evidence[k], ok |-> FALSE] \in Watcher
    BY DEF Watcher, WatcherPCs
  <2>2. wd' \in [Watchers -> Watcher]
    BY <1>2, <2>1, WatchersTyped DEF WatcherScan
  <2> QED BY <1>2, <2>2 DEF WatcherScan
<1>3. ASSUME NEW w \in Watchers, WatcherClaim(w) PROVE TypeOK'
  <2>1. wd' \in [Watchers -> Watcher]
    BY <1>3, WatchersTyped DEF WatcherClaim, WatcherPCs
  <2>2. state' \in [Keys -> States]
    BY <1>3 DEF WatcherClaim, States
  <2> QED BY <1>3, <2>1, <2>2 DEF WatcherClaim
<1>4. ASSUME NEW w \in Watchers, WatcherClaimLost(w) PROVE TypeOK'
  <2>1. wd' \in [Watchers -> Watcher]
    BY <1>4, WatchersTyped, IdleTyped DEF WatcherClaimLost
  <2> QED BY <1>4, <2>1 DEF WatcherClaimLost
<1>5. ASSUME NEW w \in Watchers, WatcherCall(w) PROVE TypeOK'
  <2>1. wd' \in [Watchers -> Watcher]
    BY <1>5, WatchersTyped DEF WatcherCall, WatcherPCs
  <2>2. wd[w].key \in Keys
    BY <1>5 DEF WatcherCall, Known
  <2>3. calls' \in SUBSET [w : Watchers \cup {None}, key : Keys]
    BY <1>5, <2>2 DEF WatcherCall
  <2> QED BY <1>5, <2>1, <2>3 DEF WatcherCall
<1>6. ASSUME NEW w \in Watchers, WatcherTimeout(w) PROVE TypeOK'
  <2>1. wd' \in [Watchers -> Watcher]
    BY <1>6, WatchersTyped DEF WatcherTimeout, WatcherPCs
  <2>2. dm' \in Daemon /\ calls' \in SUBSET [w : Watchers \cup {None}, key : Keys]
    BY <1>6, DaemonTyped, OrphanedTyped DEF WatcherTimeout
  <2> QED BY <1>6, <2>1, <2>2 DEF WatcherTimeout
<1>7. ASSUME NEW w \in Watchers, WatcherFinish(w) PROVE TypeOK'
  <2>1. wd' \in [Watchers -> Watcher]
    BY <1>7, WatchersTyped, IdleTyped DEF WatcherFinish
  <2>2. wd[w].key \in Keys
    BY <1>7 DEF WatcherFinish, Known
  <2>3. state' \in [Keys -> States] /\ faults' \in Nat
    <3>1. CASE FinishOwned(w, wd[w].key)
      <4>1. PICK outcome \in {"rolled_back", "rollback_failed"} : Store(wd[w].key, outcome)
        BY <1>7, <3>1, Zenon DEF WatcherFinish
      <4> QED BY <4>1, <2>2, StoreTyped DEF States
    <3>2. CASE ~FinishOwned(w, wd[w].key)
      BY <1>7, <3>2 DEF WatcherFinish
    <3> QED BY <3>1, <3>2
  <2> QED BY <1>7, <2>1, <2>3 DEF WatcherFinish
<1>8. ASSUME NEW w \in Watchers, WatcherCrash(w) PROVE TypeOK'
  <2>1. wd' \in [Watchers -> Watcher]
    BY <1>8, WatchersTyped, IdleTyped DEF WatcherCrash
  <2>2. dm' \in Daemon /\ calls' \in SUBSET [w : Watchers \cup {None}, key : Keys]
    BY <1>8, DaemonTyped, OrphanedTyped DEF WatcherCrash
  <2> QED BY <1>8, <2>1, <2>2 DEF WatcherCrash
<1>9. ASSUME NEW k \in Keys, DeadlinePasses(k) \/ LeaseEnds(k) PROVE TypeOK'
  <2>1. CASE DeadlinePasses(k)
    BY <2>1 DEF DeadlinePasses
  <2>2. CASE LeaseEnds(k)
    <3>1. faults' \in Nat
      BY <2>2 DEF LeaseEnds
    <3> QED BY <2>2, <3>1 DEF LeaseEnds
  <2> QED BY <1>9, <2>1, <2>2
<1>10. ASSUME NEW p \in Parts, NEW e \in Edits, Edit(p, e) PROVE TypeOK'
  BY <1>10 DEF Edit, Val
<1>11. ASSUME DaemonCrash PROVE TypeOK'
  <2>1. wd' \in [Watchers -> Watcher]
    <3>1. ASSUME NEW w \in Watchers
          PROVE  (IF wd[w].pc = "waiting"
                  THEN [wd[w] EXCEPT !.pc = "replied", !.ok = FALSE] ELSE wd[w]) \in Watcher
      <4>1. "replied" \in WatcherPCs /\ wd[w] \in Watcher
        BY DEF WatcherPCs
      <4> QED BY <4>1, WatcherMoves, Zenon
    <3> QED BY <1>11, <3>1 DEF DaemonCrash
  <2>2. dm' \in Daemon /\ faults' \in Nat /\ calls' = {}
    <3>1. faults' = faults + 1 /\ dm' = IdleDaemon /\ calls' = {}
      BY <1>11, Zenon DEF DaemonCrash
    <3> QED BY <3>1, IdleTyped
  <2>3. UNCHANGED <<live, runtime, taskVars, obsVars, unused>>
    BY <1>11 DEF DaemonCrash
  <2> QED BY <2>1, <2>2, <2>3
<1>12. ASSUME PowerLoss PROVE TypeOK'
  <2>1. wd' \in [Watchers -> Watcher]
    BY <1>12, IdleTyped DEF PowerLoss
  <2>2. runtime' \in [Files -> Val]
    BY <1>12, PartsAre DEF PowerLoss, FilesOf
  <2> QED BY <1>12, <2>1, <2>2, IdleTyped DEF PowerLoss
<1> QED
  BY <1>1, <1>2, <1>3, <1>4, <1>5, <1>6, <1>7, <1>8, <1>9, <1>10, <1>11, <1>12
     DEF WatcherStep, Time

LEMMA TypeStep == Inv /\ [Next]_vars => TypeOK'
<1>1. ASSUME Inv, UNCHANGED vars PROVE TypeOK'
  BY <1>1 DEF vars, taskVars, obsVars, Inv, TypeOK
<1> QED
  BY <1>1, ApplyTyped, UndoTyped, OthersTyped DEF Next, DaemonStep

-----------------------------------------------------------------------------
(* Every action keeps the invariant *)

\* What the answer to a call changes for the watchdogs.
LEMMA Answered ==
  ASSUME Inv, NEW w, NEW ok \in BOOLEAN, Answer(w, ok)
  PROVE  \A v \in Watchers :
           /\ wd'[v].key = wd[v].key
           /\ wd'[v].pc # "idle" <=> wd[v].pc # "idle"
           /\ (wd'[v].pc = "replied" /\ wd'[v].ok) => ok \/ (wd[v].pc = "replied" /\ wd[v].ok)
<1>1. CASE w \in Watchers /\ wd[w].pc = "waiting"
  <2>1. wd' = [wd EXCEPT ![w].pc = "replied", ![w].ok = ok]
    BY <1>1, Zenon DEF Answer
  <2>2. wd \in [Watchers -> Watcher]
    BY DEF Inv, TypeOK
  <2> QED BY <1>1, <2>1, <2>2 DEF Watcher
<1>2. CASE ~(w \in Watchers /\ wd[w].pc = "waiting")
  BY <1>2 DEF Answer
<1> QED BY <1>1, <1>2

\* The end of nc_tx_restore_snapshot: an apply publishes the outcome itself.
LEMMA UndoEnded ==
  ASSUME Inv, NEW ok \in BOOLEAN, dm.pc \in Undoing, UndoEnds(ok)
  PROVE  /\ dm' = IdleDaemon /\ dm'.pc = "idle"
         /\ \A v \in Watchers :
              /\ wd'[v].key = wd[v].key
              /\ wd'[v].pc # "idle" <=> wd[v].pc # "idle"
              /\ (wd'[v].pc = "replied" /\ wd'[v].ok) => ok \/ (wd[v].pc = "replied" /\ wd[v].ok)
         /\ \A k \in Keys : \/ state'[k] = state[k]
                            \/ /\ k = last /\ dm.mode = "apply" /\ state[k] = "pending"
                               /\ state'[k] = IF ok THEN "rolled_back" ELSE "rollback_failed"
<1>1. dm' = IdleDaemon /\ dm'.pc = "idle"
  BY DEF UndoEnds, IdleDaemon
<1>2. dm.key = last /\ last \in Keys /\ state \in [Keys -> States]
  BY DEF Inv, TypeOK, Hand, Undoing
<1>3. CASE dm.mode = "apply"
  <2>1. Store(last, IF ok THEN "rolled_back" ELSE "rollback_failed") /\ wd' = wd
    BY <1>2, <1>3, Zenon DEF UndoEnds
  <2>2. state[last] = "pending"
    BY <1>3 DEF Inv, Hand, Undoing
  <2> QED BY <1>1, <1>2, <1>3, <2>1, <2>2 DEF Store
<1>4. CASE dm.mode # "apply"
  <2>1. Answer(dm.call, ok) /\ state' = state
    BY <1>4, Zenon DEF UndoEnds
  <2> QED BY <1>1, <2>1, Answered
<1> QED BY <1>3, <1>4

\* A new task: no watchdog and no call can know it yet.
LEMMA BeginKeeps ==
  ASSUME Inv, TypeOK', NEW k \in Keys, ApplyBegin(k)
  PROVE  Inv'
<1> USE DEF Inv, taskVars, obsVars
<1>1. /\ dm'.pc = "persisted" /\ dm'.mode = "apply" /\ dm'.key = k /\ dm'.i = 1
      /\ last' = k /\ live' = before'[k] /\ ~evidence'[k] /\ journal'[k] = "snapshot"
      /\ state'[k] = "pending" /\ synced' = (runtime' = FilesOf(before'[k])) /\ wd' = wd
  <2>1. /\ dm' = [IdleDaemon EXCEPT !.pc = "persisted", !.key = k]
        /\ last' = k /\ live' = live /\ evidence' = evidence /\ wd' = wd /\ runtime' = runtime
        /\ synced' = (runtime = FilesOf(live)) /\ state[k] = "none"
        /\ before' = [before EXCEPT ![k] = live] /\ journal' = [journal EXCEPT ![k] = "snapshot"]
        /\ state' = [state EXCEPT ![k] = "pending"]
    BY Zenon DEF ApplyBegin
  <2>2. dm'.pc = "persisted" /\ dm'.mode = "apply" /\ dm'.key = k /\ dm'.i = 1
    BY <2>1 DEF IdleDaemon
  <2>3. before'[k] = live /\ journal'[k] = "snapshot" /\ state'[k] = "pending"
    BY <2>1 DEF TypeOK
  <2>4. ~evidence[k]
    BY <2>1 DEF Ledger
  <2> QED BY <2>1, <2>2, <2>3, <2>4
<1>2. \A v \in Watchers : wd[v].pc = "replied" => wd[v].key # k
  BY Zenon DEF ApplyBegin, Known
<1>3. Known'
  BY DEF ApplyBegin, Known
<1>4. Ledger'
  BY DEF ApplyBegin, Ledger, TypeOK
<1>5. Hand'
  BY <1>1, Numbers DEF Hand, Publishing, Undoing
<1>6. Progress'
  BY <1>1, <1>2 DEF Progress
<1>7. Config'
  BY <1>1, <1>2 DEF Config, RecoveryMatches
<1>8. Drift'
  BY DEF ApplyBegin, Drift, TypeOK
<1> QED BY <1>3, <1>4, <1>5, <1>6, <1>7, <1>8

\* The daemon leaves the task as it is.
LEMMA GivesUpKeeps ==
  ASSUME Inv, TypeOK', ApplyGivesUp
  PROVE  Inv'
<1> USE DEF Inv, taskVars, obsVars
<1>1. Ledger' /\ Known'
  BY DEF ApplyGivesUp, Ledger, Known
<1>2. Hand'
  BY DEF ApplyGivesUp, IdleDaemon, Hand
<1>3. Progress'
  BY DEF ApplyGivesUp, IdleDaemon, Progress
<1>4. Config'
  BY DEF ApplyGivesUp, IdleDaemon, Config, Restored, RecoveryMatches
<1>5. Drift'
  BY DEF ApplyGivesUp, IdleDaemon, Drift, Undoing
<1> QED BY <1>1, <1>2, <1>3, <1>4, <1>5

\* Nothing has been published, so the snapshot is what is live.
LEMMA PreparationFailsKeeps ==
  ASSUME Inv, TypeOK', ApplyPreparationFails
  PROVE  Inv'
<1> USE DEF Inv, taskVars, obsVars
<1>1. Known'
  BY DEF ApplyPreparationFails, Known
<1>2. Ledger'
  BY DEF ApplyPreparationFails, Ledger, Hand, TypeOK, Daemon
<1>3. Hand'
  BY DEF ApplyPreparationFails, IdleDaemon, Hand
<1>4. Progress'
  BY DEF ApplyPreparationFails, IdleDaemon, Progress
<1>5. Config'
  BY DEF ApplyPreparationFails, IdleDaemon, Config, Hand, Restored, RecoveryMatches, Undoing,
        TypeOK, Daemon
<1>6. Drift'
  BY DEF ApplyPreparationFails, IdleDaemon, Drift, Undoing
<1> QED BY <1>1, <1>2, <1>3, <1>4, <1>5, <1>6

\* A task that found another file is given up.
LEMMA FindsDriftKeeps ==
  ASSUME Inv, TypeOK', ApplyFindsDrift
  PROVE  Inv'
<1> USE DEF Inv, taskVars, obsVars
<1>1. Known'
  BY DEF ApplyFindsDrift, Known
<1>2. Ledger'
  BY DEF ApplyFindsDrift, Ledger, Hand, TypeOK, Daemon
<1>3. Hand'
  BY DEF ApplyFindsDrift, IdleDaemon, Hand
<1>4. Progress'
  BY DEF ApplyFindsDrift, IdleDaemon, Progress
<1>5. Config'
  BY DEF ApplyFindsDrift, IdleDaemon, Config, Restored, RecoveryMatches
<1>6. Drift'
  BY DEF ApplyFindsDrift, IdleDaemon, Drift, Undoing
<1> QED BY <1>1, <1>2, <1>3, <1>4, <1>5, <1>6

\* Both images are in the journal; live is still the older one.
LEMMA JournalKeeps ==
  ASSUME Inv, TypeOK', NEW F \in SUBSET Files, ApplyJournal(F)
  PROVE  Inv'
<1> USE DEF Inv, taskVars, obsVars
<1>1. Known'
  BY DEF ApplyJournal, Known
<1>2. Ledger'
  BY DEF ApplyJournal, LockPending, Ledger
<1>3. Hand'
  BY DEF ApplyJournal, LockPending, Hand, Undoing, TypeOK
<1>4. Progress'
  BY DEF ApplyJournal, LockPending, Progress
<1>5. Config'
  BY DEF ApplyJournal, Config, Hand, Restored, RecoveryMatches, Undoing, TypeOK, Daemon
<1>6. Drift'
  BY DEF ApplyJournal, Drift, Undoing, TypeOK
<1> QED BY <1>1, <1>2, <1>3, <1>4, <1>5, <1>6

\* From here on the task stays pending, the task database being locked.
LEMMA LockKeeps ==
  ASSUME Inv, TypeOK', ApplyLock
  PROVE  Inv'
<1> USE DEF Inv, taskVars, obsVars
<1>1. Ledger' /\ Known' /\ Progress'
  BY DEF ApplyLock, Ledger, Known, Progress
<1>2. Hand'
  BY DEF ApplyLock, LockPending, Hand, Undoing
<1>3. Config'
  BY DEF ApplyLock, Config, Restored, RecoveryMatches
<1>4. Drift'
  <2>1. /\ dm.key = last /\ dm.mode = "apply" /\ dm.pc = "journaled"
        /\ dm'.pc = (IF FilesOf(live) = FilesOf(before[last]) THEN "write" ELSE "recover")
        /\ dm'.mode = "apply"
    BY DEF ApplyLock, Hand, Undoing, TypeOK, Daemon
  <2>2. UNCHANGED <<live, before, prepared, journal, last, raced>>
    BY Zenon DEF ApplyLock, taskVars, obsVars
  <2>3. live[Rows] = before[last][Rows]
    BY <2>1 DEF Drift, Undoing
  <2>4. ASSUME FilesOf(live) = FilesOf(before[last])
        PROVE  \A p \in Parts : live[p] = before[last][p]
    <3>1. \A f \in Files : FilesOf(live)[f] = live[f] /\ FilesOf(before[last])[f] = before[last][f]
      BY DEF FilesOf
    <3> QED BY <2>3, <2>4, <3>1 DEF Parts
  <2> QED BY <2>1, <2>2, <2>3, <2>4 DEF Drift, Undoing
<1> QED BY <1>1, <1>2, <1>3, <1>4

\* A file of the prepared image.
LEMMA WriteKeeps ==
  ASSUME Inv, TypeOK', ApplyWrite
  PROVE  Inv'
<1> USE DEF Inv, taskVars, obsVars
<1>1. Ledger' /\ Known' /\ Progress'
  BY DEF ApplyWrite, Ledger, Known, Progress
<1>2. Hand'
  <2>1. /\ dm.pc = "write" /\ dm.i \in Files /\ UNCHANGED <<state, journal, evidence, last>>
        /\ dm'.pc = (IF dm.i = NumFiles THEN "reload" ELSE "write") /\ dm'.i = dm.i + 1
        /\ dm'.mode = dm.mode /\ dm'.key = dm.key
    BY DEF ApplyWrite, TypeOK, Daemon, taskVars, obsVars
  <2> QED BY <2>1, Numbers DEF Hand, Publishing, Undoing
<1>3. Config'
  BY DEF ApplyWrite, Config, Hand, Progress, RecoveryMatches, Publishing, Undoing, TypeOK, Daemon
<1>4. Drift'
  BY PartsAre DEF ApplyWrite, Drift, Hand, Undoing
<1> QED BY <1>1, <1>2, <1>3, <1>4

\* The services load what is live.
LEMMA ReloadKeeps ==
  ASSUME Inv, TypeOK', ApplyReload
  PROVE  Inv'
<1> USE DEF Inv, taskVars, obsVars
<1>1. Ledger' /\ Known' /\ Progress'
  BY DEF ApplyReload, Ledger, Known, Progress
<1>2. Hand'
  BY DEF ApplyReload, Hand, Publishing, Undoing
<1>3. Config'
  BY DEF ApplyReload, Config, Restored, RecoveryMatches
<1>4. Drift'
  BY DEF ApplyReload, Drift, Undoing
<1> QED BY <1>1, <1>2, <1>3, <1>4

\* The rows of the prepared image.
LEMMA CommitKeeps ==
  ASSUME Inv, TypeOK', ApplyCommit
  PROVE  Inv'
<1> USE DEF Inv, taskVars, obsVars
<1>1. Ledger' /\ Known' /\ Progress'
  BY DEF ApplyCommit, Ledger, Known, Progress
<1>2. Hand'
  BY DEF ApplyCommit, Hand, Publishing, Undoing
<1>3. Config'
  BY PartsAre DEF ApplyCommit, FilesOf, Config, Hand, Progress, RecoveryMatches, Publishing,
        Undoing, TypeOK, Daemon
<1>4. Drift'
  BY DEF ApplyCommit, Drift, Undoing
<1> QED BY <1>1, <1>2, <1>3, <1>4

\* Only a configuration equal to the prepared one gets its evidence.
LEMMA ReadbackKeeps ==
  ASSUME Inv, TypeOK', ApplyReadback
  PROVE  Inv'
<1> USE DEF Inv, taskVars, obsVars
<1>1. Known'
  BY DEF ApplyReadback, Known
<1>2. Ledger'
  BY DEF ApplyReadback, Ledger, Hand, TypeOK, Daemon
<1>3. Hand'
  BY DEF ApplyReadback, IdleDaemon, Hand
<1>4. Progress'
  BY DEF ApplyReadback, IdleDaemon, Progress
<1>5. Config'
  BY DEF ApplyReadback, IdleDaemon, Config, Restored, RecoveryMatches
<1>6. Drift'
  BY DEF ApplyReadback, IdleDaemon, Drift, Undoing
<1> QED BY <1>1, <1>2, <1>3, <1>4, <1>5, <1>6

\* Publishing stops anywhere.
LEMMA FailsKeeps ==
  ASSUME Inv, TypeOK', ApplyFails
  PROVE  Inv'
<1> USE DEF Inv, taskVars, obsVars
<1>1. Ledger' /\ Known' /\ Progress'
  BY DEF ApplyFails, Ledger, Known, Progress
<1>2. Hand'
  BY DEF ApplyFails, Hand, Publishing, Undoing
<1>3. Config'
  BY DEF ApplyFails, Config, Restored, RecoveryMatches
<1>4. Drift'
  BY DEF ApplyFails, Drift, Undoing
<1> QED BY <1>1, <1>2, <1>3, <1>4

\* The way back is taken when every part is an image of the journal.
LEMMA RecoverKeeps ==
  ASSUME Inv, TypeOK', ApplyRecover
  PROVE  Inv'
<1> USE DEF Inv, taskVars, obsVars
<1>1. /\ dm.pc = "recover" /\ dm.key = last /\ last \in Keys /\ state[last] = "pending"
      /\ journal[last] = "prepared" /\ ~evidence[last] /\ dm.mode = "apply" /\ last # None
  BY ConstantsAssumption DEF ApplyRecover, Hand, Publishing, Undoing, TypeOK, Daemon, Progress
<1>2. UNCHANGED <<live, runtime, before, prepared, journal, evidence, last, edited, synced, raced, wd>>
  BY Zenon DEF ApplyRecover, obsVars
<1>3. Ledger'
  BY DEF ApplyRecover, Store, Ledger, Hand, TypeOK, Daemon
<1>4. Known'
  BY DEF ApplyRecover, Store, Known, TypeOK
<1>5. Hand'
  <2>3. CASE RecoveryMatches(last)
    <3>1. dm' = [dm EXCEPT !.pc = "undo", !.i = 1] /\ state' = state
      BY <1>1, <2>3, Zenon DEF ApplyRecover
    <3>2. dm'.pc = "undo" /\ dm'.i = 1 /\ dm'.key = last /\ dm'.mode = "apply"
      BY <1>1, <3>1 DEF TypeOK, Daemon
    <3> QED BY <1>1, <1>2, <2>3, <3>1, <3>2, Numbers DEF Hand, Publishing, Undoing
  <2>4. CASE ~RecoveryMatches(last)
    <3>1. dm' = IdleDaemon /\ Store(last, "rollback_failed")
      BY <1>1, <2>4, Zenon DEF ApplyRecover
    <3>2. dm'.pc = "idle"
      BY <3>1 DEF IdleDaemon
    <3>3. state'[last] \in {"pending", "rollback_failed"}
      BY <1>1, <3>1 DEF Store, TypeOK
    <3> QED BY <1>1, <1>2, <3>2, <3>3 DEF Hand
  <2> QED BY <2>3, <2>4
<1>6. Progress'
  BY DEF ApplyRecover, Store, Progress, Hand, Undoing, TypeOK
<1>7. Config'
  <2>3. CASE RecoveryMatches(last)
    <3>1. dm' = [dm EXCEPT !.pc = "undo", !.i = 1] /\ state' = state
      BY <1>1, <2>3, Zenon DEF ApplyRecover
    <3>2. dm'.pc = "undo" /\ dm'.i = 1 /\ dm'.key = last /\ dm'.mode = "apply"
      BY <1>1, <3>1 DEF TypeOK, Daemon
    <3> QED BY <1>1, <1>2, <2>3, <3>1, <3>2, Numbers DEF Config, RecoveryMatches, Files, Restored
  <2>4. CASE ~RecoveryMatches(last)
    <3>1. dm' = IdleDaemon /\ Store(last, "rollback_failed")
      BY <1>1, <2>4, Zenon DEF ApplyRecover
    <3>2. dm'.pc = "idle"
      BY <3>1 DEF IdleDaemon
    <3>3. state'[last] \in {"pending", "rollback_failed"}
      BY <1>1, <3>1 DEF Store, TypeOK
    <3> QED BY <1>1, <1>2, <3>2, <3>3 DEF Config, RecoveryMatches, Restored
  <2> QED BY <2>3, <2>4
<1>8. Drift'
  <2>3. CASE RecoveryMatches(last)
    <3>1. dm' = [dm EXCEPT !.pc = "undo", !.i = 1] /\ state' = state
      BY <1>1, <2>3, Zenon DEF ApplyRecover
    <3>2. dm'.pc = "undo" /\ dm'.i = 1 /\ dm'.key = last /\ dm'.mode = "apply"
      BY <1>1, <3>1 DEF TypeOK, Daemon
    <3> QED BY <1>1, <1>2, <2>3, <3>1, <3>2, Numbers DEF Drift, RecoveryMatches, Undoing
  <2>4. CASE ~RecoveryMatches(last)
    <3>1. dm' = IdleDaemon /\ Store(last, "rollback_failed")
      BY <1>1, <2>4, Zenon DEF ApplyRecover
    <3>2. dm'.pc = "idle"
      BY <3>1 DEF IdleDaemon
    <3>3. state'[last] \in {"pending", "rollback_failed"}
      BY <1>1, <3>1 DEF Store, TypeOK
    <3> QED BY <1>1, <1>2, <3>2, <3>3 DEF Drift, Undoing
  <2> QED BY <2>3, <2>4
<1> QED BY <1>3, <1>4, <1>5, <1>6, <1>7, <1>8

\* A file of the snapshot; of a task already rolled back it is live.
LEMMA UndoWriteKeeps ==
  ASSUME Inv, TypeOK', UndoWrite
  PROVE  Inv'
<1> USE DEF Inv, taskVars, obsVars
<1>1. Ledger' /\ Known' /\ Progress'
  BY DEF UndoWrite, Ledger, Known, Progress
<1>2. Hand'
  <2>1. /\ dm.pc = "undo" /\ dm.i \in Files /\ UNCHANGED <<state, journal, evidence, last>>
        /\ dm'.pc = (IF dm.i = NumFiles THEN "undo_commit" ELSE "undo") /\ dm'.i = dm.i + 1
        /\ dm'.mode = dm.mode /\ dm'.key = dm.key
    BY DEF UndoWrite, TypeOK, Daemon, taskVars, obsVars
  <2> QED BY <2>1, Numbers DEF Hand, Publishing, Undoing
<1>3. Config'
  <2>1. /\ dm.pc = "undo" /\ dm.key = last /\ last \in Keys /\ last # None /\ dm.i \in Files
    BY ConstantsAssumption DEF UndoWrite, Hand
  <2>2. UNCHANGED <<runtime, state, before, prepared, journal, evidence, last, edited, synced, wd>>
    BY Zenon DEF UndoWrite, taskVars, obsVars
  <2>3. /\ live' = [live EXCEPT ![dm.i] = before[last][dm.i]]
        /\ dm'.i = dm.i + 1 /\ dm'.pc = IF dm.i = NumFiles THEN "undo_commit" ELSE "undo"
    BY <2>1 DEF UndoWrite, TypeOK, Daemon
  <2>4. journal[last] \in {"prepared", "restoring"} /\ ~(evidence[last] /\ journal[last] # "restoring")
    BY <2>1 DEF Hand, TypeOK, Daemon, Undoing
  <2>5. /\ \A p \in Parts \ {dm.i} : live'[p] = live[p]
        /\ live'[dm.i] = before[last][dm.i]
        /\ live = before[last] => live' = before[last]
    BY <2>1, <2>3, PartsAre DEF TypeOK
  <2>6. \A f \in Files : f < dm.i + 1 => f < dm.i \/ f = dm.i
    BY <2>1 DEF Files
  <2>7. dm.i = NumFiles => \A f \in Files : f < dm.i \/ f = dm.i
    BY <2>1 DEF Files
  <2> SUFFICES ASSUME ~edited
               PROVE  Config'
    BY <2>2 DEF Config
  <2>8. RecoveryMatches(last)'
    BY <2>1, <2>2, <2>5 DEF Config, RecoveryMatches
  <2>9. \A f \in Files : f < dm.i => live[f] = before[last][f]
    BY <2>1 DEF Config
  <2>10. (\A f \in Files : f < dm'.i => live'[f] = before[last][f])
         /\ (dm'.pc = "undo_commit" => \A f \in Files : live'[f] = before[last][f])
    BY <2>3, <2>5, <2>6, <2>7, <2>9, PartsAre
  <2>11. dm'.pc \in {"undo", "undo_commit"}
    BY <2>3
  <2> HIDE <2>3
  <2> QED BY <2>1, <2>2, <2>4, <2>5, <2>8, <2>10, <2>11 DEF Config, Restored
<1>4. Drift'
  BY DEF UndoWrite, Drift, Hand, Undoing
<1> QED BY <1>1, <1>2, <1>3, <1>4

\* The rows of the snapshot: the last part.
LEMMA UndoCommitKeeps ==
  ASSUME Inv, TypeOK', UndoCommit
  PROVE  Inv'
<1> USE DEF Inv, taskVars, obsVars
<1>1. Ledger' /\ Known' /\ Progress'
  BY DEF UndoCommit, Ledger, Known, Progress
<1>2. Hand'
  BY DEF UndoCommit, Hand, Undoing
<1>3. Config'
  <2>1. /\ dm.pc = "undo_commit" /\ dm.key = last /\ last \in Keys /\ last # None
    BY ConstantsAssumption DEF UndoCommit, Hand
  <2>2. UNCHANGED <<runtime, state, before, prepared, journal, evidence, last, edited, synced, wd>>
    BY Zenon DEF UndoCommit, taskVars, obsVars
  <2>3. live' = [live EXCEPT ![Rows] = before[last][Rows]] /\ dm'.pc = "undo_reload"
    BY <2>1 DEF UndoCommit, TypeOK, Daemon
  <2>4. journal[last] \in {"prepared", "restoring"} /\ ~(evidence[last] /\ journal[last] # "restoring")
    BY <2>1 DEF Hand, TypeOK, Daemon, Undoing
  <2> SUFFICES ASSUME ~edited
               PROVE  Config'
    BY <2>2 DEF Config
  <2>5. \A f \in Files : live[f] = before[last][f]
    BY <2>1 DEF Config
  <2>6. live' = before[last]
    <3>1. live \in [Parts -> Val] /\ before[last] \in [Parts -> Val]
      BY <2>1 DEF TypeOK
    <3>2. \A p \in Parts : live'[p] = before[last][p]
      BY <2>3, <2>5, <3>1, PartsAre DEF Parts
    <3>3. live' \in [Parts -> Val]
      BY <2>3, <3>1, PartsAre
    <3> QED BY <3>1, <3>2, <3>3  <2> QED BY <2>1, <2>2, <2>3, <2>4, <2>6 DEF Config,
          RecoveryMatches, Restored
<1>4. Drift'
  BY DEF UndoCommit, Drift, Hand, Undoing
<1> QED BY <1>1, <1>2, <1>3, <1>4

\* Only now is the caller told that the snapshot is restored.
LEMMA UndoReloadKeeps ==
  ASSUME Inv, TypeOK', UndoReload
  PROVE  Inv'
<1> USE DEF Inv, taskVars, obsVars
<1>1. Ledger'
  BY DEF UndoReload, UndoEnds, Answer, Store, Ledger, Hand, TypeOK
<1>2. Known'
  <2>1. dm.pc \in Undoing /\ UndoEnds(TRUE) /\ calls' = calls
    BY DEF UndoReload, Undoing
  <2>2. \A k \in Keys : state[k] # "none" => state'[k] # "none"
    BY <2>1, UndoEnded
  <2>3. \A v \in Watchers : wd'[v].key = wd[v].key /\ (wd'[v].pc # "idle" => wd[v].pc # "idle")
    BY <2>1, UndoEnded, Zenon
  <2>4. \A d \in calls : d.key \in Keys
    BY DEF TypeOK
  <2> QED BY <2>1, <2>2, <2>3, <2>4 DEF Known
<1>3. Hand'
  BY DEF UndoReload, UndoEnds, IdleDaemon, Hand
<1>4. Progress'
  BY DEF UndoReload, UndoEnds, Store, IdleDaemon, Progress, Hand, TypeOK, Daemon
<1>5. Config'
  BY DEF UndoReload, Config, Restored, RecoveryMatches
<1>6. Drift'
  BY DEF UndoReload, UndoEnds, IdleDaemon, Drift, Undoing
<1> QED BY <1>1, <1>2, <1>3, <1>4, <1>5, <1>6

\* The restore stops anywhere.
LEMMA UndoFailsKeeps ==
  ASSUME Inv, TypeOK', UndoFails
  PROVE  Inv'
<1> USE DEF Inv, taskVars, obsVars
<1>1. Ledger'
  BY DEF UndoFails, UndoEnds, Answer, Store, Ledger, Hand, TypeOK
<1>2. Known'
  <2>1. dm.pc \in Undoing /\ UndoEnds(FALSE) /\ calls' = calls
    BY DEF UndoFails, Undoing
  <2>2. \A k \in Keys : state[k] # "none" => state'[k] # "none"
    BY <2>1, UndoEnded
  <2>3. \A v \in Watchers : wd'[v].key = wd[v].key /\ (wd'[v].pc # "idle" => wd[v].pc # "idle")
    BY <2>1, UndoEnded, Zenon
  <2>4. \A d \in calls : d.key \in Keys
    BY DEF TypeOK
  <2> QED BY <2>1, <2>2, <2>3, <2>4 DEF Known
<1>3. Hand'
  BY DEF UndoFails, UndoEnds, IdleDaemon, Hand
<1>4. Progress'
  BY DEF UndoFails, UndoEnds, Store, IdleDaemon, Progress, Hand, TypeOK, Daemon
<1>5. Config'
  <2>1. /\ dm.pc \in Undoing /\ last \in Keys /\ last # None
        /\ UNCHANGED <<live, before, prepared, journal, evidence, last, edited, synced>>
    BY ConstantsAssumption DEF UndoFails, Undoing, Hand, obsVars
  <2>2. /\ dm'.pc = "idle"
        /\ \A v \in Watchers : (wd'[v].pc = "replied" /\ wd'[v].ok) =>
                                (wd[v].pc = "replied" /\ wd[v].ok) /\ wd'[v].key = wd[v].key
        /\ state'[last] = state[last] \/ state'[last] = "rollback_failed"
    BY <2>1, UndoEnded DEF UndoFails
  <2>3. journal[last] \in {"prepared", "restoring"} /\ ~(evidence[last] /\ journal[last] # "restoring")
    BY <2>1 DEF Hand, TypeOK, Daemon, Undoing
  <2> SUFFICES ASSUME ~edited
               PROVE  Config'
    BY <2>1 DEF Config
  <2>4. runtime' = runtime \/ (dm.pc = "undo_reload" /\ runtime' = FilesOf(live))
    BY DEF UndoFails
  <2>5. dm.pc = "undo_reload" => live = before[last]
    BY <2>1 DEF Config
  <2> QED BY <2>1, <2>2, <2>3, <2>4, <2>5 DEF Config, RecoveryMatches, Restored
<1>6. Drift'
  BY DEF UndoFails, UndoEnds, IdleDaemon, Drift, Undoing
<1> QED BY <1>1, <1>2, <1>3, <1>4, <1>5, <1>6

\* A rollback of the youngest task, from a configuration the journal knows.
LEMMA RollbackStartKeeps ==
  ASSUME Inv, TypeOK', NEW c \in calls, RollbackStart(c)
  PROVE  Inv'
<1> USE DEF Inv, taskVars, obsVars
<1>1. /\ c.key = last /\ last \in Keys /\ last # None /\ state[last] = "rolling_back"
      /\ RollbackAccepts(last) /\ journal[last] # "none"
  BY ConstantsAssumption DEF RollbackStart, Ledger, Active, TypeOK
<1>2. /\ dm' = [pc |-> "undo", mode |-> "rollback", key |-> last, i |-> 1, call |-> c.w]
      /\ prepared' = (IF journal[last] = "snapshot" THEN [prepared EXCEPT ![last] = live] ELSE prepared)
      /\ journal' = [journal EXCEPT ![last] = "restoring"]
      /\ UNCHANGED <<live, runtime, state, before, evidence, wd, last, edited, synced, raced>>
  BY <1>1, Zenon DEF RollbackStart, obsVars
<1>3. dm'.pc = "undo" /\ dm'.mode = "rollback" /\ dm'.key = last /\ dm'.i = 1 /\ journal'[last] = "restoring"
  BY <1>1, <1>2 DEF TypeOK
<1>4. Ledger' /\ Known'
  BY DEF RollbackStart, Ledger, Known
<1>5. Hand'
  BY <1>1, <1>2, <1>3, Numbers DEF Hand, Undoing
<1>6. Progress'
  BY DEF RollbackStart, Progress, Ledger, Active, TypeOK
<1>7. Config'
  <2>4. \A p \in Parts : live[p] \in {before[last][p], prepared'[last][p]}
    BY <1>1, <1>2 DEF RollbackAccepts, RecoveryMatches, TypeOK
  <2>5. \A f \in Files : ~(f < 1)
    BY DEF Files
  <2> QED BY <1>1, <1>2, <1>3, <2>4, <2>5 DEF Config, RecoveryMatches, Restored
<1>8. Drift'
  <2>4. \A k \in Keys \ {last} : prepared'[k] = prepared[k] /\ journal'[k] = journal[k]
    BY <1>1, <1>2 DEF TypeOK
  <2>5. \A p \in Parts : live[p] \in {before[last][p], prepared'[last][p]}
    BY <1>1, <1>2 DEF RollbackAccepts, RecoveryMatches, TypeOK
  <2>6. \A p \in Parts : prepared'[last][p] \in {before[last][p], last}
    <3>1. CASE journal[last] = "snapshot"
      <4>1. ~evidence[last] /\ live = before[last]
        BY <1>1, <3>1 DEF Ledger, RollbackAccepts
      <4> QED BY <1>1, <1>2, <3>1, <4>1 DEF TypeOK
    <3>2. CASE journal[last] # "snapshot"
      <4>1. journal[last] \in {"prepared", "restoring"}
        BY <1>1, <3>2 DEF TypeOK
      <4> QED BY <1>1, <1>2, <3>2, <4>1 DEF Drift
    <3> QED BY <3>1, <3>2
  <2> QED BY <1>2, <1>3, <2>4, <2>5, <2>6 DEF Drift, Undoing
<1> QED BY <1>4, <1>5, <1>6, <1>7, <1>8

\* Nothing is touched, the caller is told.
LEMMA RollbackRefusedKeeps ==
  ASSUME Inv, TypeOK', NEW c \in calls, RollbackRefused(c)
  PROVE  Inv'
<1> USE DEF Inv, taskVars, obsVars
<1>1. Ledger' /\ Hand' /\ Drift'
  BY DEF RollbackRefused, Ledger, Hand, Drift
<1>2. Known'
  BY DEF RollbackRefused, Answer, Known, TypeOK
<1>3. Progress'
  BY DEF RollbackRefused, Answer, Progress, TypeOK
<1>4. Config'
  BY DEF RollbackRefused, Answer, Config, Restored, RecoveryMatches, TypeOK
<1> QED BY <1>1, <1>2, <1>3, <1>4

\* A watchdog reads a row that exists.
LEMMA ScanKeeps ==
  ASSUME Inv, TypeOK', NEW w \in Watchers, NEW k \in Keys, WatcherScan(w, k)
  PROVE  Inv'
<1> USE DEF Inv, taskVars, obsVars
<1>1. Ledger' /\ Hand' /\ Progress' /\ Drift'
  BY DEF WatcherScan, Ledger, Hand, Progress, Drift
<1>2. Known'
  BY DEF WatcherScan, Due, Known
<1>3. Config'
  BY DEF WatcherScan, Config, Restored, RecoveryMatches
<1> QED BY <1>1, <1>2, <1>3

\* A claim waits for the task database, so no apply is publishing.
LEMMA ClaimKeeps ==
  ASSUME Inv, TypeOK', NEW w \in Watchers, WatcherClaim(w)
  PROVE  Inv'
<1> USE DEF Inv, taskVars, obsVars
<1>1. Known' /\ Progress' /\ Drift'
  BY DEF WatcherClaim, Known, Progress, Drift
<1>2. Ledger'
  BY DEF WatcherClaim, Claimable, Ledger, Active
<1>3. Hand'
  <2>1. /\ ~AppLocked /\ UNCHANGED <<dm, last, evidence, journal>>
        /\ state' = [state EXCEPT ![wd[w].key] = "rolling_back"]
    BY Zenon DEF WatcherClaim, obsVars
  <2>2. (dm.pc # "idle" /\ dm.mode = "apply") => dm.pc \in {"persisted", "journaled"}
    BY <2>1 DEF AppLocked
  <2> QED BY <2>1, <2>2 DEF Hand, Publishing, Undoing
<1>4. Config'
  BY DEF WatcherClaim, Config, Restored, RecoveryMatches
<1> QED BY <1>1, <1>2, <1>3, <1>4

\* The watchdog starts over.
LEMMA ClaimLostKeeps ==
  ASSUME Inv, TypeOK', NEW w \in Watchers, WatcherClaimLost(w)
  PROVE  Inv'
<1> USE DEF Inv, taskVars, obsVars
<1>1. Ledger' /\ Hand' /\ Drift'
  BY DEF WatcherClaimLost, Ledger, Hand, Drift
<1>2. Known'
  BY DEF WatcherClaimLost, IdleWatcher, Known
<1>3. Progress'
  BY DEF WatcherClaimLost, IdleWatcher, Progress
<1>4. Config'
  BY DEF WatcherClaimLost, IdleWatcher, Config, Restored, RecoveryMatches
<1> QED BY <1>1, <1>2, <1>3, <1>4

\* The call names the task that was claimed.
LEMMA CallKeeps ==
  ASSUME Inv, TypeOK', NEW w \in Watchers, WatcherCall(w)
  PROVE  Inv'
<1> USE DEF Inv, taskVars, obsVars
<1>1. Ledger' /\ Known' /\ Hand' /\ Progress' /\ Drift'
  BY DEF WatcherCall, Ledger, Known, Hand, Progress, Drift
<1>2. Config'
  BY DEF WatcherCall, Config, Restored, RecoveryMatches
<1> QED BY <1>1, <1>2

\* The daemon may still be working on the call.
LEMMA TimeoutKeeps ==
  ASSUME Inv, TypeOK', NEW w \in Watchers, WatcherTimeout(w)
  PROVE  Inv'
<1> USE DEF Inv, taskVars, obsVars
<1>1. Ledger'
  BY DEF WatcherTimeout, Ledger
<1>2. Known'
  <2>1. state' = state /\ calls' = Orphaned(w) /\ wd' = [wd EXCEPT ![w].pc = "replied", ![w].ok = FALSE]
        /\ wd[w].pc = "waiting"
    BY Zenon DEF WatcherTimeout
  <2>2. \A d \in Orphaned(w) : state[d.key] # "none"
    <3>1. ASSUME NEW c \in calls
          PROVE  state[(IF c.w = w THEN [c EXCEPT !.w = None] ELSE c).key] # "none"
      BY DEF Known, TypeOK
    <3> QED BY <3>1 DEF Orphaned
  <2>3. \A v \in Watchers : wd'[v].key = wd[v].key /\ (wd'[v].pc # "idle" => wd[v].pc # "idle")
    BY <2>1 DEF TypeOK, Watcher
  <2> QED BY <2>1, <2>2, <2>3 DEF Known
<1>3. Hand'
  BY DEF WatcherTimeout, DisownedDaemon, Hand
<1>4. Progress'
  BY DEF WatcherTimeout, DisownedDaemon, Progress, TypeOK
<1>5. Config'
  BY DEF WatcherTimeout, DisownedDaemon, Config, Restored, RecoveryMatches, TypeOK
<1>6. Drift'
  BY DEF WatcherTimeout, DisownedDaemon, Drift
<1> QED BY <1>1, <1>2, <1>3, <1>4, <1>5, <1>6

\* Only the owner publishes, and only what it was told.
LEMMA FinishKeeps ==
  ASSUME Inv, TypeOK', NEW w \in Watchers, WatcherFinish(w)
  PROVE  Inv'
<1> USE DEF Inv, taskVars, obsVars
<1>1. Drift'
  BY DEF WatcherFinish, Drift
<1>2. Ledger'
  BY DEF WatcherFinish, FinishOwned, Store, Ledger, Active, TypeOK
<1>3. Known'
  BY DEF WatcherFinish, Store, IdleWatcher, Known, TypeOK
<1>4. Hand'
  BY DEF WatcherFinish, AppLocked, Hand, Publishing, Undoing
<1>5. Progress'
  BY DEF WatcherFinish, Store, IdleWatcher, Progress, TypeOK
<1>6. Config'
  BY DEF WatcherFinish, Store, IdleWatcher, Config, Restored, RecoveryMatches, TypeOK
<1> QED BY <1>1, <1>2, <1>3, <1>4, <1>5, <1>6

\* Evidence is needed, and no publishing apply holds the task database.
LEMMA ConfirmKeeps ==
  ASSUME Inv, TypeOK', NEW k \in Keys, Confirm(k)
  PROVE  Inv'
<1> USE DEF Inv, taskVars, obsVars
<1>1. Known' /\ Drift'
  BY DEF Confirm, Known, Drift
<1>2. Ledger'
  BY DEF Confirm, ConfirmGuard, Ledger, Active
<1>3. Hand'
  BY DEF Confirm, ConfirmGuard, Hand
<1>4. Progress'
  BY DEF Confirm, ConfirmGuard, Progress, Hand, TypeOK, Daemon
<1>5. Config'
  BY DEF Confirm, Config, Restored, RecoveryMatches
<1> QED BY <1>1, <1>2, <1>3, <1>4, <1>5

\* Time changes no part of the argument.
LEMMA DeadlineKeeps ==
  ASSUME Inv, TypeOK', NEW k \in Keys, DeadlinePasses(k)
  PROVE  Inv'
<1> USE DEF Inv, taskVars, obsVars
<1>1. Ledger' /\ Known' /\ Hand' /\ Progress' /\ Drift'
  BY DEF DeadlinePasses, Ledger, Known, Hand, Progress, Drift
<1>2. Config'
  BY DEF DeadlinePasses, Config, Restored, RecoveryMatches
<1> QED BY <1>1, <1>2

\* Nor does the age of a lease.
LEMMA LeaseKeeps ==
  ASSUME Inv, TypeOK', NEW k \in Keys, LeaseEnds(k)
  PROVE  Inv'
<1> USE DEF Inv, taskVars, obsVars
<1>1. Ledger' /\ Known' /\ Hand' /\ Progress' /\ Drift'
  BY DEF LeaseEnds, Ledger, Known, Hand, Progress, Drift
<1>2. Config'
  BY DEF LeaseEnds, Config, Restored, RecoveryMatches
<1> QED BY <1>1, <1>2

\* An edit is remembered, and marks the part when it is being replaced.
LEMMA EditKeeps ==
  ASSUME Inv, TypeOK', NEW p \in Parts, NEW e \in Edits, Edit(p, e)
  PROVE  Inv'
<1> USE DEF Inv, taskVars, obsVars
<1>1. Ledger' /\ Known' /\ Hand' /\ Progress' /\ Config'
  BY DEF Edit, Ledger, Known, Hand, Progress, Config
<1>2. Drift'
  BY DEF Edit, Replacing, ConfigLocked, Drift, Undoing
<1> QED BY <1>1, <1>2

\* The daemon forgets what it was doing; whoever waited is told a failure.
LEMMA DaemonCrashKeeps ==
  ASSUME Inv, TypeOK', DaemonCrash
  PROVE  Inv'
<1> USE DEF Inv, taskVars, obsVars
<1>1. /\ UNCHANGED <<live, runtime, state, before, prepared, journal, evidence, last, edited, synced>>
      /\ dm' = IdleDaemon /\ calls' = {}
  BY Zenon DEF DaemonCrash, taskVars, obsVars
<1>2. dm'.pc = "idle"
  BY <1>1 DEF IdleDaemon
<1>3. ASSUME NEW v \in Watchers
      PROVE  /\ wd'[v].key = wd[v].key /\ (wd'[v].pc # "idle" => wd[v].pc # "idle")
             /\ (wd'[v].pc = "replied" /\ wd'[v].ok) => (wd[v].pc = "replied" /\ wd[v].ok)
  <2>1. wd'[v] = IF wd[v].pc = "waiting"
                 THEN [wd[v] EXCEPT !.pc = "replied", !.ok = FALSE] ELSE wd[v]
    BY Zenon DEF DaemonCrash
  <2>2. wd[v] \in Watcher
    BY DEF TypeOK
  <2> QED BY <2>1, <2>2 DEF Watcher
<1>4. Ledger'
  BY <1>1 DEF Ledger
<1>5. Known'
  BY <1>1, <1>2, <1>3 DEF Known
<1>6. Hand'
  BY <1>1, <1>2 DEF Hand
<1>7. Progress'
  BY <1>1, <1>2, <1>3 DEF Progress
<1>8. Config'
  BY <1>1, <1>2, <1>3 DEF Config, RecoveryMatches, Restored
<1>9. Drift'
  BY <1>1, <1>2 DEF Drift, Undoing
<1> QED BY <1>4, <1>5, <1>6, <1>7, <1>8, <1>9

\* A watchdog dies, its call stays.
LEMMA WatcherCrashKeeps ==
  ASSUME Inv, TypeOK', NEW w \in Watchers, WatcherCrash(w)
  PROVE  Inv'
<1> USE DEF Inv, taskVars, obsVars
<1>1. Ledger'
  BY DEF WatcherCrash, Ledger
<1>2. Known'
  BY DEF WatcherCrash, IdleWatcher, Orphaned, Known, TypeOK, Daemon, Watcher
<1>3. Hand'
  BY DEF WatcherCrash, DisownedDaemon, Hand
<1>4. Progress'
  BY DEF WatcherCrash, IdleWatcher, DisownedDaemon, Progress
<1>5. Config'
  BY DEF WatcherCrash, IdleWatcher, DisownedDaemon, Config, Restored, RecoveryMatches
<1>6. Drift'
  BY DEF WatcherCrash, DisownedDaemon, Drift
<1> QED BY <1>1, <1>2, <1>3, <1>4, <1>5, <1>6

\* Everybody forgets, and the services load what is live.
LEMMA PowerLossKeeps ==
  ASSUME Inv, TypeOK', PowerLoss
  PROVE  Inv'
<1> USE DEF Inv, taskVars, obsVars
<1>1. Ledger'
  BY DEF PowerLoss, Ledger
<1>2. Known'
  BY DEF PowerLoss, IdleWatcher, Known
<1>3. Hand'
  BY DEF PowerLoss, IdleDaemon, Hand
<1>4. Progress'
  BY DEF PowerLoss, IdleDaemon, IdleWatcher, Progress
<1>5. Config'
  BY DEF PowerLoss, IdleDaemon, IdleWatcher, Config, RecoveryMatches
<1>6. Drift'
  BY DEF PowerLoss, IdleDaemon, Drift, Undoing
<1> QED BY <1>1, <1>2, <1>3, <1>4, <1>5, <1>6

LEMMA InvStep == Inv /\ [Next]_vars => Inv'
<1>1. ASSUME Inv, UNCHANGED vars PROVE Inv'
  <2>1. TypeOK'
    BY <1>1, TypeStep
  <2>2. Ledger' /\ Known' /\ Hand' /\ Progress' /\ Config' /\ Drift'
    BY <1>1 DEF vars, taskVars, obsVars, Inv, Ledger, Known, Hand, Progress, Config, Restored,
                RecoveryMatches, Drift
  <2> QED BY <2>1, <2>2 DEF Inv
<1>2. ASSUME Inv, Next PROVE Inv'
  <2>1. TypeOK'
    BY <1>2, TypeStep
  <2>2. ASSUME NEW k \in Keys, ApplyBegin(k) \/ Confirm(k) PROVE Inv'
    BY <1>2, <2>1, <2>2, BeginKeeps, ConfirmKeeps
  <2>3. CASE ApplyStep
    BY <1>2, <2>1, <2>3, GivesUpKeeps, PreparationFailsKeeps, FindsDriftKeeps, JournalKeeps,
       LockKeeps, WriteKeeps, ReloadKeeps, CommitKeeps, ReadbackKeeps, FailsKeeps, RecoverKeeps
       DEF ApplyStep
  <2>4. CASE UndoStep \/ RollbackStep
    BY <1>2, <2>1, <2>4, UndoWriteKeeps, UndoCommitKeeps, UndoReloadKeeps, UndoFailsKeeps,
       RollbackStartKeeps, RollbackRefusedKeeps DEF UndoStep, RollbackStep
  <2>5. ASSUME NEW w \in Watchers, WatcherStep(w) \/ WatcherCrash(w) PROVE Inv'
    BY <1>2, <2>1, <2>5, ScanKeeps, ClaimKeeps, ClaimLostKeeps, CallKeeps, TimeoutKeeps,
       FinishKeeps, WatcherCrashKeeps DEF WatcherStep
  <2>6. CASE Time
    BY <1>2, <2>1, <2>6, DeadlineKeeps, LeaseKeeps DEF Time
  <2>7. CASE (\E p \in Parts, e \in Edits : Edit(p, e)) \/ DaemonCrash \/ PowerLoss
    BY <1>2, <2>1, <2>7, EditKeeps, DaemonCrashKeeps, PowerLossKeeps
  <2> QED BY <1>2, <2>2, <2>3, <2>4, <2>5, <2>6, <2>7 DEF Next, DaemonStep
<1> QED BY <1>1, <1>2

-----------------------------------------------------------------------------
(* What the transaction guarantees *)

\* The reason for all that follows holds in every state.
THEOREM Inductive == Spec => []Inv
<1>1. Init => Inv
  BY InitInv
<1>2. Inv /\ [Next]_vars => Inv'
  BY InvStep
<1> QED BY <1>1, <1>2, PTL DEF Spec

\* Every variable of the transaction keeps its type.
THEOREM TypeCorrect == Spec => []TypeOK
<1>1. Inv => TypeOK
  BY DEF Inv
<1> QED BY <1>1, Inductive, PTL

\* A confirmed configuration is the prepared one, in the database, in the
\* files and in the services: jmx_config_confirm needs the evidence of the
\* readback, and nothing is restored behind a pending task.
THEOREM Confirmed == Spec => []ConfirmedIsLive
<1>1. Inv => ConfirmedIsLive
  BY DEF Inv, Config, Progress, ConfirmedIsLive
<1> QED BY <1>1, Inductive, PTL

\* A task reported as rolled back has restored every part and the services,
\* whoever published the report.
THEOREM RolledBack == Spec => []RolledBackIsBefore
<1>1. Inv => RolledBackIsBefore
  BY DEF Inv, Config, RolledBackIsBefore
<1> QED BY <1>1, Inductive, PTL

\* After every crash nc_tx_rollback recognises its own work.
THEOREM Recoverable == Spec => []AlwaysRecoverable
<1>1. ASSUME Inv, last # None, ~edited, state[last] \in Active, dm.pc = "idle"
      PROVE  RollbackAccepts(last)
  <2>1. last \in Keys
    BY <1>1 DEF Inv, TypeOK
  <2>2. journal[last] \in {"snapshot", "prepared", "restoring"}
    BY <1>1, <2>1 DEF Inv, TypeOK, Ledger, Active
  <2>3. journal[last] = "snapshot" => ~evidence[last]
    BY <1>1, <2>1 DEF Inv, Ledger
  <2>4. /\ RecoveryMatches(last)
        /\ journal[last] = "snapshot" => live = before[last]
        /\ (evidence[last] /\ journal[last] # "restoring") => live = prepared[last]
    BY <1>1 DEF Inv, Config
  <2> QED BY <2>2, <2>3, <2>4 DEF RollbackAccepts
<1>2. Inv => AlwaysRecoverable
  BY <1>1 DEF AlwaysRecoverable
<1> QED BY <1>2, Inductive, PTL

\* What somebody wrote is only overwritten by a task that has it in its
\* snapshot, or that was already replacing files.
THEOREM DriftIsPreserved == Spec => DriftPreserved
<1> DEFINE Keeps == \A p \in Parts :
                      (live[p] \in Edits /\ live'[p] # live[p] /\ live'[p] \notin Edits)
                        => p \in raced \/ before[dm.key][p] = live[p]
<1>1. ASSUME Inv, Next PROVE Keeps
  <2>1. ASSUME NEW p \in Parts, live[p] \in Edits, p \notin raced, last \in Keys,
               dm.key = last, dm.pc \in {"write", "reload", "commit"} \cup Undoing
        PROVE  before[last][p] = live[p]
    <3>1. journal[last] \in {"prepared", "restoring"}
      BY <1>1, <2>1 DEF Inv, TypeOK, Hand, Daemon, Undoing
    <3>2. prepared[last][p] \in {before[last][p], last} /\ live[p] \in {before[last][p], prepared[last][p]}
      BY <1>1, <2>1, <3>1 DEF Inv, Drift
    <3> QED BY <2>1, <3>2, ConstantsAssumption
  <2>2. CASE ApplyWrite \/ ApplyCommit \/ UndoWrite \/ UndoCommit
    <3>1. last \in Keys /\ dm.key = last /\ dm.pc \in {"write", "reload", "commit"} \cup Undoing
      BY <1>1, <2>2 DEF ApplyWrite, ApplyCommit, UndoWrite, UndoCommit, Undoing, Inv, Hand
    <3> QED BY <2>1, <3>1
  <2>3. CASE \E q \in Parts, e \in Edits : Edit(q, e)
    BY <1>1, <2>3 DEF Edit, Inv, TypeOK
  <2>4. CASE live' = live
    BY <2>4
  <2>5. \/ ApplyWrite \/ ApplyCommit \/ UndoWrite \/ UndoCommit
        \/ (\E q \in Parts, e \in Edits : Edit(q, e)) \/ live' = live
    BY <1>1, Zenon
       DEF Next, DaemonStep, ApplyStep, UndoStep, RollbackStep, WatcherStep, Time, ApplyBegin, Confirm,
           ApplyGivesUp, ApplyPreparationFails, ApplyFindsDrift, ApplyJournal, ApplyLock,
           ApplyReload, ApplyReadback, ApplyFails, ApplyRecover, UndoReload, UndoFails,
           RollbackStart, RollbackRefused, WatcherScan, WatcherClaim, WatcherClaimLost,
           WatcherCall, WatcherTimeout, WatcherFinish, WatcherCrash, DeadlinePasses, LeaseEnds,
           DaemonCrash, PowerLoss
  <2> QED BY <2>2, <2>3, <2>4, <2>5
<1>2. ASSUME UNCHANGED vars PROVE Keeps
  BY <1>2 DEF vars
<1>3. Inv /\ [Next]_vars => Keeps
  BY <1>1, <1>2
<1> QED BY <1>3, Inductive, PTL DEF Spec, DriftPreserved

\* An outcome is final: a handler, a watchdog or a confirmation that comes too
\* late finds the task settled.
THEOREM OutcomesAreFinal == Spec => OutcomeFinal
<1> DEFINE Stays == \A k \in Keys : state[k] \in Terminal => state'[k] = state[k]
<1>1. ASSUME Inv, Next PROVE Stays
  <2> USE <1>1 DEF Inv, TypeOK
  <2>1. CASE state' = state
    BY <2>1
  <2>2. ASSUME NEW k \in Keys, ApplyBegin(k) \/ Confirm(k) PROVE Stays
    BY <2>2 DEF ApplyBegin, Confirm, ConfirmGuard, Terminal
  <2>3. CASE ApplyPreparationFails \/ ApplyFindsDrift
    BY <2>3, InHand DEF ApplyPreparationFails, ApplyFindsDrift, LockPending, Terminal
  <2>4. CASE ApplyRecover
    <3>1. dm.key \in Keys /\ state[dm.key] = "pending"
      BY <2>4, InHand DEF ApplyRecover, Hand, Publishing, Undoing, Daemon
    <3>2. state' = state \/ state' = [state EXCEPT ![dm.key] = "rollback_failed"]
      BY <2>4 DEF ApplyRecover, Store
    <3> QED BY <3>1, <3>2 DEF Terminal
  <2>5. CASE UndoReload \/ UndoFails
    <3>1. dm.pc \in Undoing /\ \E ok \in BOOLEAN : UndoEnds(ok)
      BY <2>5 DEF UndoReload, UndoFails, Undoing
    <3> QED BY <3>1, UndoEnded DEF Terminal
  <2>6. ASSUME NEW w \in Watchers, WatcherClaim(w) PROVE Stays
    BY <2>6 DEF WatcherClaim, Claimable, Known, Terminal
  <2>7. ASSUME NEW w \in Watchers, WatcherFinish(w) PROVE Stays
    <3>1. wd[w].key \in Keys
      BY <2>7 DEF WatcherFinish, Known
    <3>2. CASE FinishOwned(w, wd[w].key)
      <4>1. PICK st \in {"rolled_back", "rollback_failed"} : Store(wd[w].key, st)
        BY <2>7, <3>2, Zenon DEF WatcherFinish
      <4> QED BY <3>1, <3>2, <4>1 DEF FinishOwned, Store, Terminal
    <3>3. CASE ~FinishOwned(w, wd[w].key)
      BY <2>7, <3>3 DEF WatcherFinish
    <3> QED BY <3>2, <3>3
  <2>8. \/ state' = state
        \/ (\E k \in Keys : ApplyBegin(k) \/ Confirm(k))
        \/ ApplyPreparationFails \/ ApplyFindsDrift \/ ApplyRecover \/ UndoReload \/ UndoFails
        \/ (\E w \in Watchers : WatcherClaim(w) \/ WatcherFinish(w))
    BY <1>1, Zenon
       DEF Next, DaemonStep, ApplyStep, UndoStep, RollbackStep, WatcherStep, Time, taskVars,
           ApplyGivesUp, ApplyJournal, ApplyLock, ApplyWrite, ApplyReload, ApplyCommit,
           ApplyReadback, ApplyFails, UndoWrite, UndoCommit, RollbackStart, RollbackRefused,
           WatcherScan, WatcherClaimLost, WatcherCall, WatcherTimeout, WatcherCrash,
           DeadlinePasses, LeaseEnds, Edit, DaemonCrash, PowerLoss
  <2> QED BY <2>1, <2>2, <2>3, <2>4, <2>5, <2>6, <2>7, <2>8
<1>2. ASSUME UNCHANGED vars PROVE Stays
  BY <1>2 DEF vars, taskVars
<1>3. Inv /\ [Next]_vars => Stays
  BY <1>1, <1>2
<1> QED BY <1>3, Inductive, PTL DEF Spec, OutcomeFinal

-----------------------------------------------------------------------------
(* The transaction implements GuardedChange *)

\* What a stutter of GuardedChange is here.
LEMMA Stutters ==
  ASSUME UNCHANGED <<live, before, prepared, last, edited>>,
         \A k \in Keys : Phase(state'[k]) = Phase(state[k])
  PROVE  [Change!Next]_(Change!vars)
<1>1. [k \in Keys |-> Phase(state'[k])] = [k \in Keys |-> Phase(state[k])]
  OBVIOUS
<1> QED BY <1>1 DEF Change!vars

\* A step that stores an outcome of a task.
LEMMA Reports ==
  ASSUME Inv, NEW k \in Keys, NEW st \in Terminal, state[k] \in Active,
         state' = [state EXCEPT ![k] = st],
         UNCHANGED <<live, before, prepared, last, edited>>,
         st = "confirmed" => edited \/ live = prepared[k],
         st = "rolled_back" => edited \/ live = before[k]
  PROVE  [Change!Next]_(Change!vars)
<1>1. /\ Phase(state[k]) = "open" /\ Phase(st) \in {"kept", "undone", "unknown"}
      /\ Phase(st) = "kept" => st = "confirmed"
      /\ Phase(st) = "undone" => st = "rolled_back"
  BY DEF Phase, Active, Terminal
<1>2. [j \in Keys |-> Phase(state'[j])]
        = [[j \in Keys |-> Phase(state[j])] EXCEPT ![k] = Phase(st)]
  BY DEF Inv, TypeOK
<1>3. Change!Report(k, Phase(st))
  BY <1>1, <1>2 DEF Change!Report
<1> QED BY <1>1, <1>3 DEF Change!Next

\* An outcome that may not have reached the disk.
LEMMA Stores ==
  ASSUME Inv, NEW k \in Keys, NEW st \in Terminal, state[k] \in Active, Store(k, st),
         UNCHANGED <<live, before, prepared, last, edited>>,
         st = "confirmed" => edited \/ live = prepared[k],
         st = "rolled_back" => edited \/ live = before[k]
  PROVE  [Change!Next]_(Change!vars)
<1>1. CASE state' = state
  BY <1>1, Stutters
<1>2. CASE state' = [state EXCEPT ![k] = st]
  BY <1>2, Reports
<1> QED BY <1>1, <1>2 DEF Store

\* A step of the daemon on the configuration.  It works for an open or an
\* unknown change, or after somebody else wrote, or it changes nothing.
LEMMA Works ==
  ASSUME Inv, dm.pc # "idle", live' \in [Parts -> Val],
         UNCHANGED <<state, before, prepared, last, edited>>,
         state[last] = "pending" \/ (live = before[last] => live' = live)
  PROVE  [Change!Next]_(Change!vars)
<1>1. last \in Keys /\ last # None
  BY ConstantsAssumption DEF Inv, Hand
<1>2. [k \in Keys |-> Phase(state'[k])] = [k \in Keys |-> Phase(state[k])]
  OBVIOUS
<1>3. CASE edited
  <2>1. Change!Touch
    BY <1>2, <1>3 DEF Change!Touch
  <2> QED BY <2>1 DEF Change!Next
<1>4. CASE Phase(state[last]) \in {"open", "unknown"}
  <2>1. Change!Work(last)
    BY <1>1, <1>2, <1>4 DEF Change!Work
  <2> QED BY <1>1, <2>1 DEF Change!Next
<1>5. CASE ~edited /\ Phase(state[last]) \notin {"open", "unknown"}
  <2>1. state[last] = "rolled_back"
    BY <1>1, <1>5 DEF Inv, TypeOK, Ledger, Progress, Phase, States, Active
  <2>2. live = before[last]
    BY <1>1, <1>5, <2>1 DEF Inv, Config
  <2>3. live' = live
    BY <2>1, <2>2
  <2> QED BY <2>3, Stutters
<1> QED BY <1>3, <1>4, <1>5

\* The target is fixed: by the journal, or by a rollback that starts from the
\* snapshot.
LEMMA Targets ==
  ASSUME Inv, NEW k \in Keys, k = last, state[k] \in Active,
         prepared' \in [Keys -> [Parts -> Val]],
         \A j \in Keys \ {k} : prepared'[j] = prepared[j],
         UNCHANGED <<live, state, before, last, edited>>
  PROVE  [Change!Next]_(Change!vars)
<1>1. [j \in Keys |-> Phase(state'[j])] = [j \in Keys |-> Phase(state[j])]
  OBVIOUS
<1>2. Phase(state[k]) = "open"
  BY DEF Phase, Active
<1>3. Change!Work(k)
  BY <1>1, <1>2 DEF Change!Work
<1> QED BY <1>3 DEF Change!Next

LEMMA ChangeInit == Init => Change!Init
<1> SUFFICES ASSUME Init PROVE Change!Init
  OBVIOUS
<1>1. live \in [Parts -> Val] /\ before \in [Keys -> [Parts -> Val]]
      /\ prepared \in [Keys -> [Parts -> Val]]
  BY DEF Init, Val
<1>2. [k \in Keys |-> Phase(state[k])] = [k \in Keys |-> "none"]
  <2>1. \A k \in Keys : state[k] = "none"
    BY DEF Init
  <2>2. Phase("none") = "none"
    BY DEF Phase, Active
  <2> QED BY <2>1, <2>2
<1> QED BY <1>1, <1>2 DEF Init, Change!Init

LEMMA ChangeApply ==
  ASSUME Inv, TypeOK', (\E k \in Keys : ApplyBegin(k)) \/ ApplyStep
  PROVE  [Change!Next]_(Change!vars)
<1> USE DEF taskVars, obsVars
<1>1. ASSUME NEW k \in Keys, ApplyBegin(k) PROVE [Change!Next]_(Change!vars)
  <2>1. /\ Phase(state[k]) = "none"
        /\ \A j \in Keys : Phase(state[j]) # "open"
    BY <1>1 DEF ApplyBegin, Phase, Active, Inv, TypeOK, States
  <2>2. state' = [state EXCEPT ![k] = "pending"]
    BY <1>1 DEF ApplyBegin
  <2>3. [j \in Keys |-> Phase(state'[j])]
          = [[j \in Keys |-> Phase(state[j])] EXCEPT ![k] = "open"]
    <3>1. Phase("pending") = "open"
      BY DEF Phase, Active
    <3>2. \A j \in Keys : state'[j] = IF j = k THEN "pending" ELSE state[j]
      BY <2>2 DEF Inv, TypeOK
    <3> QED BY <3>1, <3>2
  <2>4. Change!Open(k)
    BY <1>1, <2>1, <2>3 DEF ApplyBegin, Change!Open
  <2> QED BY <2>4 DEF Change!Next
<1>2. ASSUME ApplyGivesUp \/ ApplyLock \/ ApplyReload \/ ApplyReadback \/ ApplyFails
      PROVE  [Change!Next]_(Change!vars)
  BY <1>2, Stutters DEF ApplyGivesUp, ApplyLock, ApplyReload, ApplyReadback, ApplyFails
<1>3. ASSUME ApplyPreparationFails \/ ApplyFindsDrift PROVE [Change!Next]_(Change!vars)
  <2>1. dm.key \in Keys /\ dm.key = last /\ last # None /\ state[dm.key] \in Active
    BY <1>3, InHand DEF ApplyPreparationFails, ApplyFindsDrift, LockPending, Active
  <2>2. edited \/ live = before[dm.key]
    BY <1>3, <2>1 DEF ApplyPreparationFails, ApplyFindsDrift, Inv, Hand, Config, Undoing,
                        TypeOK, Daemon
  <2> QED BY <1>3, <2>1, <2>2, Reports DEF ApplyPreparationFails, ApplyFindsDrift, Terminal
<1>4. ASSUME NEW F \in SUBSET Files, ApplyJournal(F) PROVE [Change!Next]_(Change!vars)
  <2>1. dm.key \in Keys /\ dm.key = last /\ state[dm.key] \in Active
    BY <1>4, InHand DEF ApplyJournal, LockPending, Active
  <2>2. prepared' \in [Keys -> [Parts -> Val]]
    BY DEF TypeOK
  <2>3. \A j \in Keys \ {dm.key} : prepared'[j] = prepared[j]
    BY <1>4 DEF ApplyJournal, Inv, TypeOK
  <2> QED BY <1>4, <2>1, <2>2, <2>3, Targets DEF ApplyJournal
<1>5. ASSUME ApplyWrite \/ ApplyCommit PROVE [Change!Next]_(Change!vars)
  <2>1. dm.pc # "idle" /\ state[last] = "pending"
    BY <1>5 DEF ApplyWrite, ApplyCommit, Inv, Hand, Publishing, Undoing, TypeOK, Daemon
  <2>2. live' \in [Parts -> Val]
    BY DEF TypeOK
  <2> QED BY <1>5, <2>1, <2>2, Works DEF ApplyWrite, ApplyCommit
<1>6. ASSUME ApplyRecover PROVE [Change!Next]_(Change!vars)
  <2>1. dm.key \in Keys /\ state[dm.key] \in Active
    BY <1>6, InHand DEF ApplyRecover, Inv, Hand, Publishing, Undoing, TypeOK, Daemon, Active
  <2>2. CASE RecoveryMatches(dm.key)
    BY <1>6, <2>2, Stutters DEF ApplyRecover
  <2>3. CASE ~RecoveryMatches(dm.key)
    BY <1>6, <2>1, <2>3, Stores DEF ApplyRecover, Terminal
  <2> QED BY <2>2, <2>3
<1> QED
  BY <1>1, <1>2, <1>3, <1>4, <1>5, <1>6 DEF ApplyStep

LEMMA ChangeUndo ==
  ASSUME Inv, TypeOK', UndoStep \/ RollbackStep
  PROVE  [Change!Next]_(Change!vars)
<1> USE DEF taskVars, obsVars
<1>1. ASSUME UndoWrite \/ UndoCommit PROVE [Change!Next]_(Change!vars)
  <2>1. dm.pc # "idle" /\ live' \in [Parts -> Val]
    BY <1>1 DEF UndoWrite, UndoCommit, TypeOK
  <2>2. dm.key = last
    BY <2>1, InHand
  <2>3. live = before[last] => live' = live
    BY <1>1, <2>2 DEF UndoWrite, UndoCommit, Inv, TypeOK
  <2> QED BY <1>1, <2>1, <2>3, Works DEF UndoWrite, UndoCommit
<1>2. ASSUME NEW ok \in BOOLEAN, dm.pc \in Undoing, UndoEnds(ok),
             ok => dm.pc = "undo_reload",
             UNCHANGED <<live, before, prepared, last, edited>>
      PROVE  [Change!Next]_(Change!vars)
  <2>1. dm.key \in Keys /\ dm.key = last /\ last # None
    BY <1>2, InHand DEF Undoing
  <2>2. CASE dm.mode = "apply"
    <3>1. PICK st \in {"rolled_back", "rollback_failed"} :
            Store(last, st) /\ st = IF ok THEN "rolled_back" ELSE "rollback_failed"
      BY <1>2, <2>1, <2>2, Zenon DEF UndoEnds
    <3>2. state[last] \in Active
      BY <1>2, <2>2 DEF Inv, Hand, Undoing, Active
    <3>3. st = "rolled_back" => edited \/ live = before[last]
      BY <1>2, <2>1, <3>1 DEF Inv, Config
    <3> QED BY <1>2, <2>1, <3>1, <3>2, <3>3, Stores DEF Terminal
  <2>3. CASE dm.mode # "apply"
    BY <1>2, <2>3, Stutters DEF UndoEnds
  <2> QED BY <2>2, <2>3
<1>3. ASSUME UndoReload \/ UndoFails PROVE [Change!Next]_(Change!vars)
  BY <1>2, <1>3 DEF UndoReload, UndoFails, Undoing
<1>4. ASSUME NEW c \in calls, RollbackStart(c) PROVE [Change!Next]_(Change!vars)
  <2>1. c.key \in Keys /\ state[c.key] \in Active /\ c.key = last
    BY <1>4 DEF RollbackStart, Inv, TypeOK, Ledger, Active
  <2>2. prepared' \in [Keys -> [Parts -> Val]]
    BY DEF TypeOK
  <2>3. \A j \in Keys \ {c.key} : prepared'[j] = prepared[j]
    BY <1>4 DEF RollbackStart, Inv, TypeOK
  <2> QED BY <1>4, <2>1, <2>2, <2>3, Targets DEF RollbackStart
<1>5. ASSUME NEW c \in calls, RollbackRefused(c) PROVE [Change!Next]_(Change!vars)
  BY <1>5, Stutters DEF RollbackRefused
<1> QED
  BY <1>1, <1>3, <1>4, <1>5 DEF UndoStep, RollbackStep

LEMMA ChangeOthers ==
  ASSUME Inv, TypeOK',
         \/ \E k \in Keys : Confirm(k)
         \/ \E w \in Watchers : WatcherStep(w) \/ WatcherCrash(w)
         \/ Time \/ (\E p \in Parts, e \in Edits : Edit(p, e)) \/ DaemonCrash \/ PowerLoss
  PROVE  [Change!Next]_(Change!vars)
<1> USE DEF taskVars, obsVars
<1>1. ASSUME NEW k \in Keys, Confirm(k) PROVE [Change!Next]_(Change!vars)
  <2>1. state[k] = "pending" /\ k = last /\ last # None /\ evidence[k]
    BY <1>1, ConstantsAssumption DEF Confirm, ConfirmGuard, Inv, Ledger, Active
  <2>2. journal[last] # "restoring"
    BY <2>1 DEF Inv, Progress
  <2>3. edited \/ live = prepared[k]
    BY <2>1, <2>2 DEF Inv, Config
  <2> QED BY <1>1, <2>1, <2>3, Reports DEF Confirm, Terminal, Active
<1>2. ASSUME NEW w \in Watchers, NEW k \in Keys, WatcherScan(w, k)
      PROVE  [Change!Next]_(Change!vars)
  BY <1>2, Stutters DEF WatcherScan
<1>3. ASSUME NEW w \in Watchers, WatcherClaim(w) PROVE [Change!Next]_(Change!vars)
  <2>1. wd[w].key \in Keys
    BY <1>3 DEF WatcherClaim, Inv, Known
  <2>2. \A k \in Keys : Phase(state'[k]) = Phase(state[k])
    BY <1>3, <2>1 DEF WatcherClaim, Claimable, Phase, Active, Inv, TypeOK
  <2> QED BY <1>3, <2>2, Stutters DEF WatcherClaim
<1>4. ASSUME NEW w \in Watchers, WatcherClaimLost(w) \/ WatcherCall(w) \/ WatcherTimeout(w)
      PROVE  [Change!Next]_(Change!vars)
  BY <1>4, Stutters DEF WatcherClaimLost, WatcherCall, WatcherTimeout
<1>5. ASSUME NEW w \in Watchers, WatcherFinish(w) PROVE [Change!Next]_(Change!vars)
  <2> DEFINE k == wd[w].key
  <2>1. k \in Keys
    BY <1>5 DEF WatcherFinish, Inv, Known
  <2>2. CASE FinishOwned(w, k)
    <3>1. PICK st \in {"rolled_back", "rollback_failed"} :
            Store(k, st) /\ st = IF wd[w].ok THEN "rolled_back" ELSE "rollback_failed"
      BY <1>5, <2>2, Zenon DEF WatcherFinish
    <3>2. state[k] \in Active /\ k = last /\ last # None
      BY <2>1, <2>2, ConstantsAssumption DEF FinishOwned, Active, Inv, Ledger
    <3>3. st = "rolled_back" => edited \/ live = before[k]
      BY <1>5, <3>1, <3>2 DEF WatcherFinish, Inv, Config, Restored
    <3> QED BY <1>5, <2>1, <3>1, <3>2, <3>3, Stores DEF WatcherFinish, Terminal
  <2>3. CASE ~FinishOwned(w, k)
    BY <1>5, <2>3, Stutters DEF WatcherFinish
  <2> QED BY <2>2, <2>3
<1>6. ASSUME NEW p \in Parts, NEW e \in Edits, Edit(p, e) PROVE [Change!Next]_(Change!vars)
  <2>1. [k \in Keys |-> Phase(state'[k])] = [k \in Keys |-> Phase(state[k])]
    BY <1>6 DEF Edit
  <2>2. live' \in [Parts -> Val]
    BY DEF TypeOK
  <2>3. Change!Touch
    BY <1>6, <2>1, <2>2 DEF Edit, Change!Touch
  <2> QED BY <2>3 DEF Change!Next
<1>7. ASSUME \/ \E w \in Watchers : WatcherCrash(w)
             \/ Time \/ DaemonCrash \/ PowerLoss
      PROVE  [Change!Next]_(Change!vars)
  BY <1>7, Stutters DEF WatcherCrash, Time, DeadlinePasses, LeaseEnds, DaemonCrash, PowerLoss
<1> QED
  BY <1>1, <1>2, <1>3, <1>4, <1>5, <1>6, <1>7 DEF WatcherStep

\* The code changes the configuration only on behalf of the youngest task and
\* before it is reported kept or undone, and each report is true: for every
\* number of tasks, watchdogs, files, edits and faults.
THEOREM ImplementsChange == Spec => ChangeSpec
<1>1. Init => Change!Init
  BY ChangeInit
<1>2. Inv /\ Inv' /\ [Next]_vars => [Change!Next]_(Change!vars)
  <2>1. ASSUME Inv, Inv', UNCHANGED vars PROVE [Change!Next]_(Change!vars)
    BY <2>1, Stutters DEF vars, taskVars, obsVars
  <2> QED
    BY <2>1, ChangeApply, ChangeUndo, ChangeOthers DEF Next, DaemonStep, Inv
<1>3. Spec => []Inv
  BY Inductive
<1> QED BY <1>1, <1>2, <1>3, PTL DEF Spec, ChangeSpec, Change!Spec
==============================================================================
