-------------------------------- MODULE OtaHot --------------------------------
(***************************************************************************)
(* Hot updates: the update daemon replaces and deletes single files of the   *)
(* running system, without a slot and without a reboot                       *)
(* (jmxd/src/otad/otad_hot.c, with the operation ledger of otad_db.c).        *)
(*                                                                          *)
(* A package takes one release to the next; the handler stages every new     *)
(* file beside its target, renames old and new one after the other, then     *)
(* moves the deleted files away, and undoes all of it when a step fails.     *)
(* The handler runs to its end in the daemon's loop: it is interleaved only  *)
(* with a power loss.                                                        *)
(***************************************************************************)
EXTENDS Naturals

CONSTANTS Files,       \* paths a package may touch
          Contents,    \* what a file may hold
          None,        \* no file; no operation
          Packages,    \* bound: package i takes release i to release i + 1
          Ops,         \* operations of the ledger
          FaultKinds,  \* subset of {"step", "ignored", "power"}
          MaxFaults    \* bound: how many faults happen

ASSUME ConstantsAssumption ==
  /\ None \notin Contents \cup Ops
  /\ Packages \in Nat \ {0}
  /\ FaultKinds \subseteq {"step", "ignored", "power"}
  /\ MaxFaults \in Nat

VARIABLES rel,        \* rel[i]: the files of release i
          live,       \* the targets
          staged,     \* the .dwrt-new files
          backup,     \* the .dwrt-old files
          had,        \* files[i].had_original, deletions[i].moved
          installed,  \* files[i].installed
          pc,         \* where the handler is
          todo,       \* files its loop has still to visit
          pkg,        \* the package it applies, or applied last
          op,         \* its operation; None for a package named by path
          reply,      \* its last answer
          ledger,     \* ota_operations of kind hot_update
          refused,    \* history: which calls with an ignored result failed, on which file
          faults      \* faults so far

disk == <<live, staged, backup>>
vars == <<rel, live, staged, backup, had, installed, pc, todo, pkg, op, reply, ledger,
          refused, faults>>

Trees == [Files -> Contents \cup {None}]
NoFiles == [f \in Files |-> None]

\* The calls whose result the handler does not look at: unlink of the target,
\* rename of the backup to the target, unlink of the staged file and of the backup.
Calls == {"unlink", "rename", "staged", "backup"}

\* What package i replaces and creates, and what it deletes.
Writes(i)  == {f \in Files : rel[i + 1][f] \notin {None, rel[i][f]}}
Deletes(i) == {f \in Files : rel[i + 1][f] = None /\ rel[i][f] # None}

\* The file of the install loop that was set aside last.
InHand(f) == f \in Writes(pkg) \ (todo \cup installed)

TypeOK ==
  /\ rel \in [1 .. Packages + 1 -> Trees]
  /\ live \in Trees /\ staged \in Trees /\ backup \in Trees
  /\ had \subseteq Files /\ installed \subseteq Files /\ todo \subseteq Files
  /\ pc \in {"idle", "stage", "install", "replace", "delete", "discard",
             "undoDelete", "undo", "down"}
  /\ pc = "replace" => \E f \in Files : InHand(f)
  /\ pkg \in 1 .. Packages
  /\ op \in Ops \cup {None}
  /\ reply \in {"none", "applied", "restored"}
  /\ ledger \in [Ops -> [state : {"none", "pending", "writing", "success", "failed"},
                         pkg : 1 .. Packages]]
  /\ refused \subseteq Files \X Calls
  /\ faults \in 0 .. MaxFaults

Init ==
  /\ rel \in [1 .. Packages + 1 -> Trees]
  /\ live = rel[1] /\ staged = NoFiles /\ backup = NoFiles
  /\ had = {} /\ installed = {} /\ todo = {}
  /\ pc = "idle" /\ pkg = 1 /\ op = None /\ reply = "none"
  /\ ledger = [o \in Ops |-> [state |-> "none", pkg |-> 1]]
  /\ refused = {} /\ faults = 0

Fault(kind) ==
  /\ kind \in FaultKinds
  /\ faults < MaxFaults
  /\ faults' = faults + 1

\* The calls of R, made on f, fail; none or one fault.
Refuses(f, R) ==
  /\ IF R = {} THEN UNCHANGED faults ELSE Fault("ignored")
  /\ refused' = refused \cup {f} \X R

\* hot_targets_verify_base and hot_deletions_verify_base.
BaseMatches(i) == \A f \in Writes(i) \cup Deletes(i) : live[f] = rel[i][f]

\* otad_operation_transition_ok, for the states a hot update asks for.
MayMove(from, to) == \/ from = "pending" /\ to \in {"writing", "failed"}
                     \/ from = "writing" /\ to = "failed"

Moved(o, to) ==
  IF o # None /\ MayMove(ledger[o].state, to) THEN [ledger EXCEPT ![o].state = to] ELSE ledger

-----------------------------------------------------------------------------
(* The requests *)

\* hot_verify_upload: a package that passes gets an operation.
Preflight(o, i) ==
  /\ pc = "idle" /\ ledger[o].state = "none"
  /\ BaseMatches(i)
  /\ ledger' = [ledger EXCEPT ![o] = [state |-> "pending", pkg |-> i]]
  /\ UNCHANGED <<rel, disk, had, installed, pc, todo, pkg, op, reply, refused, faults>>

\* otad_operation_claim_hot_apply: the unique index lets one be writing.
Claimable(o) == ledger[o].state = "pending" /\ \A q \in Ops : ledger[q].state # "writing"

Begin(i, o, l) ==
  IF BaseMatches(i) /\ Writes(i) \cup Deletes(i) # {}
  THEN /\ pc' = "stage" /\ todo' = Writes(i)
       /\ pkg' = i /\ op' = o /\ reply' = "none"
       /\ had' = {} /\ installed' = {} /\ refused' = {}
       /\ ledger' = l
  ELSE /\ o # None
       /\ ledger' = [l EXCEPT ![o].state = "failed"]
       /\ UNCHANGED <<pc, todo, pkg, op, reply, had, installed, refused>>

\* otad_update_apply: by operation, or by a path.
ApplyOperation(o) ==
  /\ pc = "idle" /\ Claimable(o)
  /\ Begin(ledger[o].pkg, o, [ledger EXCEPT ![o].state = "writing"])
  /\ UNCHANGED <<rel, disk, faults>>

ApplyPath(i) ==
  /\ pc = "idle"
  /\ Begin(i, None, ledger)
  /\ UNCHANGED <<rel, disk, faults>>

-----------------------------------------------------------------------------
(* hot_stage_and_install *)

\* A step of the handler fails while it stages: only the files it has named so far
\* are undone, the one it was at with anything or nothing copied.
StageFails ==
  /\ pc = "stage" /\ Fault("step")
  /\ pc' = "undo"
  /\ \/ todo' = Writes(pkg) \ todo /\ UNCHANGED <<staged, backup>>
     \/ \E f \in todo, c \in Contents \cup {None} :
          /\ todo' = (Writes(pkg) \ todo) \cup {f}
          /\ staged' = [staged EXCEPT ![f] = c]
          /\ backup' = [backup EXCEPT ![f] = None]
  /\ UNCHANGED <<rel, live, had, installed, pkg, op, reply, ledger, refused>>

\* A later step fails.
StepFails ==
  /\ pc \in {"install", "replace", "delete"}
  /\ Fault("step")
  /\ pc' = "undoDelete"
  /\ todo' = Deletes(pkg)
  /\ UNCHANGED <<rel, disk, had, installed, pkg, op, reply, ledger, refused>>

\* The loop over the files goes on with f, or the next loop starts.
Visits(f) == f \in todo /\ todo' = todo \ {f}
NextLoop(from, to, files) ==
  /\ pc = from /\ todo = {}
  /\ pc' = to /\ todo' = files
  /\ UNCHANGED <<rel, disk, had, installed, pkg, op, reply, ledger, refused, faults>>

Stage(f) ==
  /\ pc = "stage" /\ Visits(f)
  /\ staged' = [staged EXCEPT ![f] = rel[pkg + 1][f]]
  /\ \/ backup' = [backup EXCEPT ![f] = None] /\ Refuses(f, {})
     \/ UNCHANGED backup /\ Refuses(f, {"backup"})
  /\ UNCHANGED <<rel, live, had, installed, pc, pkg, op, reply, ledger>>

\* Renamed, not removed.
AsideLost(f) == backup
Aside(f) == [backup EXCEPT ![f] = live[f]]

\* The original, if any, is moved away; pc = "replace" until its successor is in place.
SetAside(f) ==
  /\ pc = "install" /\ f \in todo
  /\ pc' = "replace" /\ todo' = todo \ {f}
  /\ IF live[f] # None
     THEN /\ backup' = Aside(f)
          /\ live' = [live EXCEPT ![f] = None]
          /\ had' = had \cup {f}
     ELSE UNCHANGED <<backup, live, had>>
  /\ UNCHANGED <<rel, staged, installed, pkg, op, reply, ledger, refused, faults>>

Replace(f) ==
  /\ pc = "replace" /\ InHand(f)
  /\ live' = [live EXCEPT ![f] = staged[f]]
  /\ staged' = [staged EXCEPT ![f] = None]
  /\ installed' = installed \cup {f}
  /\ pc' = "install"
  /\ UNCHANGED <<rel, backup, had, todo, pkg, op, reply, ledger, refused, faults>>

Delete(f) ==
  /\ pc = "delete" /\ Visits(f)
  /\ live[f] # None
  /\ backup' = Aside(f)
  /\ live' = [live EXCEPT ![f] = None]
  /\ had' = had \cup {f}
  /\ UNCHANGED <<rel, staged, installed, pc, pkg, op, reply, ledger, refused, faults>>

\* The handler ends: it answers, and its operation is updated.
Answer(r, state) ==
  /\ pc' = "idle" /\ todo' = {}
  /\ reply' = r
  /\ ledger' = Moved(op, state)

\* What was set aside is removed.
DiscardedNew == {f \in installed : f \notin had}
Discarded == had

Discard(f) ==
  /\ pc = "discard" /\ Visits(f)
  /\ \/ backup' = [backup EXCEPT ![f] = None] /\ Refuses(f, {})
     \/ UNCHANGED backup /\ Refuses(f, {"backup"})
  /\ UNCHANGED <<rel, live, staged, had, installed, pc, pkg, op, reply, ledger>>

DiscardEnds ==
  /\ pc = "discard" /\ todo = {}
  /\ Answer("applied", "success")
  /\ UNCHANGED <<rel, disk, had, installed, pkg, op, refused, faults>>

Install ==
  \/ NextLoop("stage", "install", Writes(pkg))
  \/ NextLoop("install", "delete", Deletes(pkg))
  \/ NextLoop("delete", "discard", Discarded)
  \/ \E f \in Files : Stage(f) \/ SetAside(f) \/ Replace(f) \/ Delete(f) \/ Discard(f)
  \/ DiscardEnds

\* hot_deletions_rollback, then hot_rollback: no result is looked at.
UndoDelete(f) ==
  /\ pc = "undoDelete" /\ Visits(f)
  /\ \/ /\ f \in had /\ Refuses(f, {})
        /\ live' = [live EXCEPT ![f] = backup[f]]
        /\ backup' = [backup EXCEPT ![f] = None]
     \/ f \in had /\ Refuses(f, {"rename"}) /\ UNCHANGED <<live, backup>>
     \/ f \notin had /\ Refuses(f, {}) /\ UNCHANGED <<live, backup>>
  /\ UNCHANGED <<rel, staged, had, installed, pc, pkg, op, reply, ledger>>

\* The calls hot_rollback makes on f, some of which are refused.
CallsOn(f) ==
  {c \in {"unlink", "rename", "staged"} : /\ c = "unlink" => f \in installed
                                         /\ c = "rename" => f \in had}

\* Whether the original comes back; the rename replaces a target that is still there.
Restores(f, R) == f \in had /\ "rename" \notin R

\* The target once the calls but those of R have been made, without the rename.
RemovedNothing(f, R) == live[f]
Removed(f, R) == IF f \in installed /\ "unlink" \notin R THEN None ELSE live[f]

UndoWrite(f) ==
  /\ pc = "undo" /\ Visits(f)
  /\ \E R \in SUBSET CallsOn(f) :
       /\ Refuses(f, R)
       /\ staged' = [staged EXCEPT ![f] = IF "staged" \in R THEN @ ELSE None]
       /\ IF Restores(f, R)
          THEN /\ live' = [live EXCEPT ![f] = backup[f]]
               /\ backup' = [backup EXCEPT ![f] = None]
          ELSE /\ live' = [live EXCEPT ![f] = Removed(f, R)]
               /\ UNCHANGED backup
  /\ UNCHANGED <<rel, had, installed, pc, pkg, op, reply, ledger>>

UndoEnds ==
  /\ pc = "undo" /\ todo = {}
  /\ Answer("restored", "failed")
  /\ UNCHANGED <<rel, disk, had, installed, pkg, op, refused, faults>>

Undo ==
  \/ NextLoop("undoDelete", "undo", Writes(pkg))
  \/ \E f \in Files : UndoDelete(f) \/ UndoWrite(f)
  \/ UndoEnds

\* The power goes; nothing resumes the handler when the daemon starts again.  When
\* no handler runs it changes nothing.
PowerLoss ==
  /\ pc \notin {"idle", "down"}
  /\ Fault("power")
  /\ pc' = "down" /\ todo' = {}
  /\ UNCHANGED <<rel, disk, had, installed, pkg, op, reply, ledger, refused>>

Restart ==
  /\ pc = "down"
  /\ pc' = "idle" /\ reply' = "none"
  /\ UNCHANGED <<rel, disk, had, installed, todo, pkg, op, ledger, refused, faults>>

Next ==
  \/ \E o \in Ops : ApplyOperation(o) \/ \E i \in 1 .. Packages : Preflight(o, i)
  \/ \E i \in 1 .. Packages : ApplyPath(i)
  \/ Install \/ StageFails \/ StepFails \/ Undo
  \/ PowerLoss \/ Restart

Spec == Init /\ [][Next]_vars

-----------------------------------------------------------------------------
(* Properties *)

Touched == Writes(pkg) \cup Deletes(pkg)

\* "applied" means that every file of the package is there or gone, and nothing is
\* left beside it but an original whose removal was refused (hot_stage_and_install
\* returning 0).
AppliedIsNew ==
  reply = "applied" =>
    /\ \A f \in Touched : /\ live[f] = rel[pkg + 1][f]
                          /\ backup[f] = None \/ <<f, "backup">> \in refused
    /\ \A f \in Writes(pkg) : staged[f] = None

\* Until the whole package is in place the original of every file it touches is
\* still on the disk, as the target or beside it, wherever a step or its undoing
\* failed or the power went; and so it is after every undo.
OriginalKept ==
  LET Kept    == \A f \in Touched : rel[pkg][f] \in {None, live[f], backup[f]}
      InPlace == \A f \in Touched : live[f] = rel[pkg + 1][f]
  IN  /\ pc # "idle" => InPlace \/ Kept
      /\ reply = "restored" => Kept

\* After an undo a file is not what it was only if the very call that brings it
\* back was refused: the rename of its backup or, for a file that is new, its
\* removal.  What the package installed is left only if its removal was refused as
\* well, and a staged file likewise once the handler had begun to install
\* (hot_rollback after hot_deletions_rollback, which ignore every result).
LeftOnlyIfRefused ==
  reply = "restored" =>
    /\ \A f \in Touched :
         /\ live[f] # rel[pkg][f] =>
              <<f, IF rel[pkg][f] = None THEN "unlink" ELSE "rename">> \in refused
         /\ live[f] \notin {None, rel[pkg][f]} => <<f, "unlink">> \in refused
    /\ had \cup installed # {} =>
         \A f \in Writes(pkg) : staged[f] = None \/ <<f, "staged">> \in refused

\* "hot-update apply failed and the previous files were restored" (otad_hot.c:1305).
RestoredIsBase ==
  reply = "restored" => \A f \in Touched : live[f] = rel[pkg][f]

\* "its writer stages, replaces atomically" (otad_status.c:302): a file that is
\* replaced holds its old or its new content at every moment.
ReplacedAtomically ==
  \A f \in Writes(pkg) : pc = "replace" /\ rel[pkg][f] # None => live[f] # None

\* "another hot-update apply is already writing" (otad_hot.c:1404): one is.
WritingMeansActive == pc = "idle" => \A o \in Ops : ledger[o].state # "writing"
=============================================================================
