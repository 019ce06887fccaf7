----------------------------- MODULE OtaHotProofs -----------------------------
(* Proofs about OtaHot, for every set of files and contents, any number of     *)
(* packages and operations, and every kind and number of faults.               *)
EXTENDS OtaHot, TLAPS

Types ==
  /\ rel \in [1 .. Packages + 1 -> Trees]
  /\ live \in Trees /\ staged \in Trees /\ backup \in Trees
  /\ had \subseteq Files /\ installed \subseteq Files /\ todo \subseteq Files
  /\ pc \in {"idle", "stage", "install", "replace", "delete", "discard",
             "undoDelete", "undo", "down"}
  /\ pkg \in 1 .. Packages
  /\ op \in Ops \cup {None}
  /\ reply \in {"none", "applied", "restored"}
  /\ ledger \in [Ops -> [state : {"none", "pending", "writing", "success", "failed"},
                         pkg : 1 .. Packages]]
  /\ refused \subseteq Files \X Calls
  /\ faults \in 0 .. MaxFaults

\* Where a file of the package has got to.
Untouched(f) == live[f] = rel[pkg][f] /\ f \notin had /\ f \notin installed
Clean(f)     == backup[f] = None \/ <<f, "backup">> \in refused
Fresh(f)     == staged[f] = rel[pkg + 1][f] /\ Clean(f)
Saved(f)     == /\ f \in had <=> rel[pkg][f] # None
                /\ IF f \in had THEN backup[f] = rel[pkg][f] ELSE Clean(f)
Taken(f)     == Saved(f) /\ live[f] = None /\ f \notin installed
Put(f)       == Saved(f) /\ live[f] = rel[pkg + 1][f] /\ f \in installed /\ staged[f] = None
Gone(f)      == f \in had /\ f \notin installed /\ backup[f] = rel[pkg][f] /\ live[f] = None
Back(f) ==
  \/ live[f] = rel[pkg][f]
  \/ rel[pkg][f] = None /\ <<f, "unlink">> \in refused
  \/ /\ backup[f] = rel[pkg][f] /\ rel[pkg][f] # None /\ <<f, "rename">> \in refused
     /\ live[f] = None \/ <<f, "unlink">> \in refused
Tidy(f)      == had \cup installed # {} => staged[f] = None \/ <<f, "staged">> \in refused

W == Writes(pkg)
D == Deletes(pkg)

\* What each place of the handler has reached.
InStage ==
  /\ todo \subseteq W /\ \A f \in W \cup D : Untouched(f)
  /\ had = {} /\ installed = {}
  /\ \A f \in W \ todo : Fresh(f)
InInstall ==
  /\ todo \subseteq W /\ \A f \in D : Untouched(f)
  /\ \A f \in todo : Untouched(f) /\ Fresh(f)
  /\ \A f \in W \ todo : Put(f)
InReplace ==
  /\ todo \subseteq W /\ \A f \in D : Untouched(f)
  /\ \A f \in todo : Untouched(f) /\ Fresh(f)
  /\ \E g \in W \ todo : /\ Taken(g) /\ staged[g] = rel[pkg + 1][g]
                         /\ \A f \in W \ todo : f = g \/ Put(f)
InDelete ==
  /\ todo \subseteq D /\ \A f \in W : Put(f)
  /\ \A f \in todo : Untouched(f)
  /\ \A f \in D \ todo : Gone(f)
InDiscard ==
  /\ \A f \in W \cup D : live[f] = rel[pkg + 1][f] /\ (f \in todo \/ Clean(f))
  /\ \A f \in W : staged[f] = None
InUndoDelete ==
  /\ todo \subseteq D /\ \A f \in W : Untouched(f) \/ Taken(f) \/ Put(f)
  /\ \A f \in todo : Untouched(f) \/ Gone(f)
  /\ \A f \in D \ todo : Back(f)
InUndo ==
  /\ todo \subseteq W /\ \A f \in D : Back(f)
  /\ \A f \in todo : Untouched(f) \/ Taken(f) \/ Put(f)
  /\ \A f \in W \ todo : Back(f) /\ Tidy(f)
Kept == \A f \in W \cup D : rel[pkg][f] \in {None, live[f], backup[f]}
InPlace == \A f \in W \cup D : live[f] = rel[pkg + 1][f]
Restored == (\A f \in W \cup D : Back(f)) /\ (\A f \in W : Tidy(f))
Applied ==
  /\ \A f \in W \cup D : live[f] = rel[pkg + 1][f] /\ Clean(f)
  /\ \A f \in W : staged[f] = None

Place ==
  /\ pc = "stage" => InStage
  /\ pc = "install" => InInstall
  /\ pc = "replace" => InReplace
  /\ pc = "delete" => InDelete
  /\ pc = "discard" => InDiscard
  /\ pc = "undoDelete" => InUndoDelete
  /\ pc = "undo" => InUndo
  /\ pc = "down" => InPlace \/ Kept
  /\ pc = "idle" /\ reply = "restored" => Restored
  /\ pc = "idle" /\ reply = "applied" => Applied
  /\ pc # "idle" => reply = "none"

Inv == Types /\ Place

-----------------------------------------------------------------------------

LEMMA Packaged ==
  ASSUME Types
  PROVE  /\ rel[pkg] \in Trees /\ rel[pkg + 1] \in Trees
         /\ W \subseteq Files /\ D \subseteq Files /\ W \cap D = {}
         /\ \A f \in D : rel[pkg + 1][f] = None /\ rel[pkg][f] # None
         /\ \A f \in W : rel[pkg + 1][f] # None
<1>1. pkg \in 1 .. Packages + 1 /\ pkg + 1 \in 1 .. Packages + 1
  BY ConstantsAssumption DEF ConstantsAssumption, Types
<1> QED
  BY <1>1 DEF Types, W, D, Writes, Deletes

LEMMA InitInv == Init => Inv
<1> SUFFICES ASSUME Init PROVE Inv
  OBVIOUS
<1>1. rel[1] \in Trees
  BY ConstantsAssumption DEF Init, ConstantsAssumption
<1>2. 1 \in 1 .. Packages /\ 0 \in 0 .. MaxFaults
  BY ConstantsAssumption DEF ConstantsAssumption
<1>3. NoFiles \in Trees
  BY DEF NoFiles, Trees
<1> QED
  BY <1>1, <1>2, <1>3 DEF Init, Inv, Types, Place

LEMMA MovedTyped ==
  ASSUME Types, NEW to \in {"success", "failed"}
  PROVE  Moved(op, to) \in [Ops -> [state : {"none", "pending", "writing", "success", "failed"},
                                    pkg : 1 .. Packages]]
BY DEF Types, Moved

LEMMA FaultCounted ==
  ASSUME Types, NEW kind, Fault(kind)
  PROVE  faults' \in 0 .. MaxFaults
BY ConstantsAssumption DEF Fault, Types, ConstantsAssumption

\* A refused call is on record with its file.
LEMMA RefusalNoted ==
  ASSUME Types, NEW f \in Files, NEW R \in SUBSET Calls, Refuses(f, R)
  PROVE  /\ faults' \in 0 .. MaxFaults
         /\ refused' \subseteq Files \X Calls /\ refused \subseteq refused'
         /\ \A c \in R : <<f, c>> \in refused'
<1>1. faults' \in 0 .. MaxFaults
  BY FaultCounted DEF Refuses, Types
<1> QED
  BY <1>1 DEF Refuses, Types

\* Outside Begin the package stays the one at hand.
LEMMA SamePackage ==
  ASSUME UNCHANGED <<rel, pkg>>
  PROVE  W' = W /\ D' = D
BY DEF W, D, Writes, Deletes

\* The requests touch no file; a new package starts from its base.
LEMMA PreflightStep ==
  ASSUME Inv, NEW o \in Ops, NEW i \in 1 .. Packages, Preflight(o, i)
  PROVE  Inv'
<1>1. Types'
  BY DEF Inv, Types, Preflight, disk
<1>2. Place'
  BY SamePackage DEF Inv, Place, Preflight, disk, Restored, Applied, Back, Clean, Tidy
<1> QED
  BY <1>1, <1>2 DEF Inv

LEMMA BeginStep ==
  ASSUME Inv, NEW i \in 1 .. Packages, NEW o \in Ops \cup {None},
         NEW l \in [Ops -> [state : {"none", "pending", "writing", "success", "failed"},
                            pkg : 1 .. Packages]],
         pc = "idle", Begin(i, o, l), UNCHANGED <<rel, disk, faults>>
  PROVE  Inv'
<1>1. CASE BaseMatches(i) /\ Writes(i) \cup Deletes(i) # {}
  <2>1. W' = Writes(i) /\ D' = Deletes(i) /\ W' \subseteq Files
    BY <1>1 DEF Begin, W, D, Writes, Deletes
  <2>2. Types'
    BY <1>1, <2>1 DEF Inv, Types, Begin, disk
  <2>3. InStage'
    BY <1>1, <2>1 DEF Begin, BaseMatches, InStage, Untouched, disk
  <2> QED
    BY <1>1, <2>2, <2>3 DEF Inv, Place, Begin
<1>2. CASE ~(BaseMatches(i) /\ Writes(i) \cup Deletes(i) # {})
  <2>1. o \in Ops /\ ledger' = [l EXCEPT ![o].state = "failed"]
    BY <1>2 DEF Begin
  <2>2. Types'
    BY <1>2, <2>1 DEF Inv, Types, Begin, disk
  <2>3. Place'
    BY <1>2, SamePackage DEF Inv, Place, Begin, disk, Restored, Applied, Back, Clean, Tidy
  <2> QED
    BY <2>2, <2>3 DEF Inv
<1> QED
  BY <1>1, <1>2

LEMMA RequestStep ==
  ASSUME Inv,
         \/ \E o \in Ops : ApplyOperation(o) \/ \E i \in 1 .. Packages : Preflight(o, i)
         \/ \E i \in 1 .. Packages : ApplyPath(i)
  PROVE  Inv'
<1>1. ASSUME NEW o \in Ops, ApplyOperation(o) PROVE Inv'
  <2> DEFINE l == [ledger EXCEPT ![o].state = "writing"]
  <2>1. ledger[o].pkg \in 1 .. Packages
        /\ l \in [Ops -> [state : {"none", "pending", "writing", "success", "failed"},
                          pkg : 1 .. Packages]]
    BY DEF Inv, Types
  <2>2. pc = "idle" /\ Begin(ledger[o].pkg, o, l) /\ UNCHANGED <<rel, disk, faults>>
    BY <1>1 DEF ApplyOperation
  <2> HIDE DEF l
  <2> QED
    BY <2>1, <2>2, BeginStep
<1>2. ASSUME NEW i \in 1 .. Packages, ApplyPath(i) PROVE Inv'
  <2>1. ledger \in [Ops -> [state : {"none", "pending", "writing", "success", "failed"},
                            pkg : 1 .. Packages]]
    BY DEF Inv, Types
  <2>2. pc = "idle" /\ Begin(i, None, ledger) /\ UNCHANGED <<rel, disk, faults>>
    BY <1>2 DEF ApplyPath
  <2> QED
    BY <2>1, <2>2, BeginStep
<1> QED
  BY <1>1, <1>2, PreflightStep

-----------------------------------------------------------------------------
(* hot_stage_and_install *)

LEMMA StageStep ==
  ASSUME Inv, NEW f \in Files, Stage(f)
  PROVE  Inv'
<1>0. /\ faults' \in 0 .. MaxFaults /\ refused' \subseteq Files \X Calls
      /\ refused \subseteq refused'
      /\ backup' = [backup EXCEPT ![f] = None] \/ (backup' = backup /\ <<f, "backup">> \in refused')
  <2>1. {} \in SUBSET Calls /\ {"backup"} \in SUBSET Calls
    BY DEF Calls
  <2>2. CASE backup' = [backup EXCEPT ![f] = None] /\ Refuses(f, {})
    BY <2>1, <2>2, RefusalNoted DEF Inv
  <2>3. CASE UNCHANGED backup /\ Refuses(f, {"backup"})
    BY <2>1, <2>3, RefusalNoted DEF Inv
  <2> QED
    BY <2>2, <2>3 DEF Stage
<1>1. Types'
  <2>1. rel[pkg + 1][f] \in Contents \cup {None} /\ staged \in Trees /\ backup \in Trees
    BY Packaged DEF Inv, Types, Trees
  <2>2. staged' \in Trees /\ backup' \in Trees
    BY <2>1 DEF Stage, Trees
  <2> QED
    BY <2>2, <1>0 DEF Inv, Types, Stage, Visits
<1>2. InStage'
  <2>1. W' = W /\ D' = D /\ InStage
    BY SamePackage DEF Stage, Inv, Place
  <2>2. \A g \in W \cup D : Untouched(g)'
    BY <2>1 DEF Stage, InStage, Untouched
  <2>3. \A g \in W \ todo' : Fresh(g)'
    BY <1>0, <2>1, Packaged DEF Stage, Visits, InStage, Fresh, Clean, Inv, Types, Trees
  <2> QED
    BY <2>1, <2>2, <2>3 DEF InStage, Stage, Visits
<1> QED
  BY <1>1, <1>2 DEF Inv, Place, Stage

LEMMA SetAsideStep ==
  ASSUME Inv, NEW f \in Files, SetAside(f)
  PROVE  Inv'
<1>1. /\ W' = W /\ D' = D /\ InInstall /\ f \in todo /\ f \in W /\ f \notin D
      /\ live \in Trees /\ backup \in Trees
  BY SamePackage, Packaged DEF SetAside, Inv, Types, Place, InInstall
<1>2. Types'
  <2>1. live' \in Trees /\ backup' \in Trees
    BY <1>1 DEF SetAside, Aside, Trees
  <2> QED
    BY <2>1 DEF Inv, Types, SetAside
<1>3. \A g \in (W \cup D) \ {f} : /\ live'[g] = live[g] /\ backup'[g] = backup[g]
                                  /\ g \in had' <=> g \in had
  BY <1>1, Packaged DEF SetAside, Aside, Inv, Trees
<1>4. (\A g \in D : Untouched(g)') /\ (\A g \in todo' : Untouched(g)' /\ Fresh(g)')
  BY <1>1, <1>3 DEF InInstall, Untouched, Fresh, Clean, SetAside
<1>5. \A g \in W \ todo' : g = f \/ Put(g)'
  BY <1>1, <1>3 DEF InInstall, Put, Saved, Clean, SetAside
<1>6. Taken(f)' /\ staged'[f] = rel'[pkg' + 1][f]
  <2>1. live[f] = rel[pkg][f] /\ f \notin had /\ f \notin installed
        /\ staged[f] = rel[pkg + 1][f] /\ Clean(f)
    BY <1>1 DEF InInstall, Untouched, Fresh, Clean
  <2> QED
    BY <1>1, <2>1 DEF SetAside, Aside, Taken, Saved, Clean, Trees
<1>7. InReplace'
  BY <1>1, <1>4, <1>5, <1>6 DEF InReplace, InInstall, SetAside
<1> QED
  BY <1>2, <1>7 DEF Inv, Place, SetAside

LEMMA ReplaceStep ==
  ASSUME Inv, NEW f \in Files, Replace(f)
  PROVE  Inv'
<1>1. W' = W /\ D' = D /\ InReplace /\ f \in W \ todo /\ f \notin installed /\ f \notin D
  BY SamePackage, Packaged DEF Replace, InHand, Inv, Place, W, D
<1>2. Types'
  BY DEF Inv, Types, Replace, Trees
<1>3. /\ Taken(f) /\ staged[f] = rel[pkg + 1][f]
      /\ \A g \in W \ todo : g = f \/ Put(g)
  BY <1>1 DEF InReplace, Put
<1>4. Put(f)'
  BY <1>3 DEF Replace, Put, Taken, Saved, Clean, Inv, Types, Trees
<1>5. \A g \in W \ todo' : Put(g)'
  BY <1>3, <1>4, Packaged DEF Replace, Put, Saved, Clean, Inv, Types, Trees
<1>6. (\A g \in D : Untouched(g)') /\ (\A g \in todo' : Untouched(g)' /\ Fresh(g)')
  BY <1>1, Packaged DEF InReplace, Replace, Untouched, Fresh, Clean, Inv, Types, Trees
<1> QED
  BY <1>1, <1>2, <1>5, <1>6 DEF Inv, Place, Replace, InInstall, InReplace

LEMMA DeleteStep ==
  ASSUME Inv, NEW f \in Files, Delete(f)
  PROVE  Inv'
<1>1. W' = W /\ D' = D /\ InDelete /\ f \in todo /\ f \in D /\ f \notin W
  BY SamePackage, Packaged DEF Delete, Visits, Inv, Place, InDelete
<1>2. Types'
  BY DEF Inv, Types, Delete, Visits, Aside, Trees
<1>3. \A g \in W : Put(g)'
  BY <1>1, Packaged DEF InDelete, Delete, Aside, Put, Saved, Clean, Inv, Types, Trees
<1>4. \A g \in todo' : Untouched(g)'
  BY <1>1, Packaged DEF InDelete, Delete, Visits, Untouched, Inv, Types, Trees
<1>5. Gone(f)'
  BY <1>1 DEF InDelete, Untouched, Gone, Delete, Aside, Inv, Types, Trees
<1>6. \A g \in D \ todo' : Gone(g)'
  BY <1>1, <1>5, Packaged DEF InDelete, Delete, Visits, Aside, Gone, Inv, Types, Trees
<1> QED
  BY <1>1, <1>2, <1>3, <1>4, <1>6 DEF Inv, Place, Delete, Visits, InDelete

\* From one loop to the next, and to the undoing of all of them.
LEMMA NextLoopStep ==
  ASSUME Inv,
         \/ NextLoop("stage", "install", Writes(pkg))
         \/ NextLoop("install", "delete", Deletes(pkg))
         \/ NextLoop("delete", "discard", Discarded)
         \/ NextLoop("undoDelete", "undo", Writes(pkg))
  PROVE  Inv'
<1>1. W' = W /\ D' = D /\ Types'
  BY SamePackage, Packaged DEF NextLoop, disk, Inv, Types, W, D, Discarded
<1>2. Place'
  <2> USE <1>1, Packaged DEF NextLoop, disk, Inv, Place, W, D
  <2>1. CASE NextLoop("stage", "install", Writes(pkg))
    BY <2>1 DEF InStage, InInstall, Untouched, Fresh, Clean
  <2>2. CASE NextLoop("install", "delete", Deletes(pkg))
    BY <2>2 DEF InInstall, InDelete, Untouched, Put, Saved, Clean
  <2>3. CASE NextLoop("delete", "discard", Discarded)
    BY <2>3 DEF InDelete, InDiscard, Put, Saved, Clean, Gone, Discarded
  <2>4. CASE NextLoop("undoDelete", "undo", Writes(pkg))
    BY <2>4 DEF InUndoDelete, InUndo, Untouched, Taken, Put, Saved, Clean, Back
  <2> QED
    BY <2>1, <2>2, <2>3, <2>4
<1> QED
  BY <1>1, <1>2 DEF Inv

LEMMA StepFailsStep ==
  ASSUME Inv, StepFails
  PROVE  Inv'
<1>1. W' = W /\ D' = D /\ Types'
  BY SamePackage, Packaged, ConstantsAssumption
     DEF StepFails, Fault, disk, Inv, Types, D, ConstantsAssumption
<1>2. /\ \A f \in W : Untouched(f) \/ Taken(f) \/ Put(f)
      /\ \A f \in D : Untouched(f) \/ Gone(f)
  <2>2. CASE pc = "install"
    BY <2>2 DEF Inv, Place, InInstall
  <2>3. CASE pc = "replace"
    BY <2>3 DEF Inv, Place, InReplace
  <2>4. CASE pc = "delete"
    BY <2>4 DEF Inv, Place, InDelete
  <2> QED
    BY <2>2, <2>3, <2>4 DEF StepFails
<1>3. InUndoDelete'
  BY <1>1, <1>2 DEF StepFails, disk, InUndoDelete, Untouched, Taken, Put, Saved, Clean, Gone, D
<1>4. reply = "none"
  BY DEF StepFails, Inv, Place
<1> QED
  BY <1>1, <1>3, <1>4 DEF StepFails, Inv, Place

\* While it stages nothing has been moved yet.
LEMMA StageFailsStep ==
  ASSUME Inv, StageFails
  PROVE  Inv'
<1>1. W' = W /\ D' = D /\ InStage /\ reply = "none"
  BY SamePackage DEF StageFails, Inv, Place
<1>2. Types'
  <2>1. faults' \in 0 .. MaxFaults
    BY FaultCounted DEF StageFails, Inv
  <2>2. W \subseteq Files /\ todo \subseteq W
    BY <1>1, Packaged DEF Inv, InStage
  <2>3. staged' \in Trees /\ backup' \in Trees
    BY DEF StageFails, Inv, Types, Trees
  <2>4. todo' \subseteq W
    BY <2>2 DEF StageFails, W
  <2> QED
    BY <2>1, <2>2, <2>3, <2>4 DEF StageFails, Inv, Types
<1>3. \A f \in W \cup D : Untouched(f)' /\ Untouched(f)
  BY <1>1 DEF InStage, Untouched, StageFails
<1>4. todo' \subseteq W /\ had' = {} /\ installed' = {}
  BY <1>1 DEF StageFails, InStage, W
<1>5. InUndo'
  BY <1>1, <1>3, <1>4 DEF InUndo, Untouched, Back, Tidy
<1> QED
  BY <1>1, <1>2, <1>5 DEF StageFails, Inv, Place

LEMMA DiscardStep ==
  ASSUME Inv, NEW f \in Files, Discard(f)
  PROVE  Inv'
<1>1. W' = W /\ D' = D /\ InDiscard /\ reply = "none"
  BY SamePackage DEF Discard, Inv, Place
<1>2. /\ faults' \in 0 .. MaxFaults /\ refused' \subseteq Files \X Calls
      /\ refused \subseteq refused'
      /\ backup' = [backup EXCEPT ![f] = None] \/ (backup' = backup /\ <<f, "backup">> \in refused')
  <2>1. {} \in SUBSET Calls /\ {"backup"} \in SUBSET Calls
    BY DEF Calls
  <2>2. CASE backup' = [backup EXCEPT ![f] = None] /\ Refuses(f, {})
    BY <2>1, <2>2, RefusalNoted DEF Inv
  <2>3. CASE UNCHANGED backup /\ Refuses(f, {"backup"})
    BY <2>1, <2>3, RefusalNoted DEF Inv
  <2> QED
    BY <2>2, <2>3 DEF Discard
<1>3. Types'
  BY <1>2 DEF Discard, Visits, Inv, Types, Trees
<1>4. \A g \in W \cup D : g \in todo' \/ Clean(g)'
  BY <1>1, <1>2, Packaged DEF InDiscard, Clean, Discard, Visits, Inv, Types, Trees
<1>5. InDiscard'
  BY <1>1, <1>4 DEF InDiscard, Discard
<1> QED
  BY <1>1, <1>3, <1>5 DEF Inv, Place, Discard

LEMMA DiscardEndsStep ==
  ASSUME Inv, DiscardEnds
  PROVE  Inv'
<1>1. W' = W /\ D' = D /\ InDiscard /\ todo = {}
  BY SamePackage DEF DiscardEnds, Inv, Place
<1>2. Types'
  BY MovedTyped DEF DiscardEnds, Answer, disk, Inv, Types
<1>3. Applied'
  BY <1>1 DEF InDiscard, Clean, Applied, DiscardEnds, disk
<1> QED
  BY <1>2, <1>3 DEF Inv, Place, DiscardEnds, Answer

-----------------------------------------------------------------------------
(* hot_deletions_rollback and hot_rollback *)

LEMMA UndoDeleteStep ==
  ASSUME Inv, NEW f \in Files, UndoDelete(f)
  PROVE  Inv'
<1>1. W' = W /\ D' = D /\ InUndoDelete /\ f \in todo /\ f \in D /\ f \notin W
  BY SamePackage, Packaged DEF UndoDelete, Visits, Inv, Place, InUndoDelete
<1>0. /\ faults' \in 0 .. MaxFaults /\ refused' \subseteq Files \X Calls
      /\ refused \subseteq refused'
      /\ \/ /\ f \in had /\ live' = [live EXCEPT ![f] = backup[f]]
            /\ backup' = [backup EXCEPT ![f] = None]
         \/ f \in had /\ <<f, "rename">> \in refused' /\ UNCHANGED <<live, backup>>
         \/ f \notin had /\ UNCHANGED <<live, backup>>
  <2>1. {} \in SUBSET Calls /\ {"rename"} \in SUBSET Calls
    BY DEF Calls
  <2>2. CASE Refuses(f, {"rename"})
    BY <2>1, <2>2, RefusalNoted DEF UndoDelete, Inv
  <2>3. CASE Refuses(f, {})
    BY <2>1, <2>3, RefusalNoted DEF UndoDelete, Inv
  <2> QED
    BY <2>2, <2>3 DEF UndoDelete
<1>2. Types'
  <2>2. live' \in Trees /\ backup' \in Trees
    BY <1>0 DEF Inv, Types, Trees
  <2> QED
    BY <1>0, <2>2 DEF UndoDelete, Visits, Inv, Types
<1>3. \A g \in (W \cup D) \ {f} : live'[g] = live[g] /\ backup'[g] = backup[g]
  <2>1. live \in Trees /\ backup \in Trees /\ W \cup D \subseteq Files
    BY Packaged DEF Inv, Types
  <2> QED
    BY <1>0, <2>1 DEF Trees
<1>4. Back(f)'
  BY <1>0, <1>1, Packaged DEF InUndoDelete, Untouched, Gone, Back, UndoDelete, Inv, Types, Trees
<1>5. /\ \A g \in W : Untouched(g)' \/ Taken(g)' \/ Put(g)'
      /\ \A g \in todo' : Untouched(g)' \/ Gone(g)'
  BY <1>0, <1>1, <1>3 DEF InUndoDelete, Untouched, Taken, Put, Saved, Clean, Gone, UndoDelete, Visits
<1>6. \A g \in D \ todo' : Back(g)'
  BY <1>0, <1>1, <1>3, <1>4 DEF InUndoDelete, Back, UndoDelete, Visits
<1> QED
  BY <1>1, <1>2, <1>5, <1>6 DEF Inv, Place, InUndoDelete, UndoDelete, Visits

LEMMA UndoWriteStep ==
  ASSUME Inv, NEW f \in Files, UndoWrite(f)
  PROVE  Inv'
<1>1. W' = W /\ D' = D /\ InUndo /\ f \in todo /\ f \in W /\ f \notin D
  BY SamePackage, Packaged DEF UndoWrite, Visits, Inv, Place, InUndo
<1>2. PICK R \in SUBSET CallsOn(f) :
        /\ Refuses(f, R)
        /\ staged' = [staged EXCEPT ![f] = IF "staged" \in R THEN staged[f] ELSE None]
        /\ IF Restores(f, R)
           THEN /\ live' = [live EXCEPT ![f] = backup[f]]
                /\ backup' = [backup EXCEPT ![f] = None]
           ELSE /\ live' = [live EXCEPT ![f] = Removed(f, R)]
                /\ UNCHANGED backup
  BY DEF UndoWrite
<1>3. R \in SUBSET Calls
  BY DEF CallsOn, Calls
<1>4. /\ faults' \in 0 .. MaxFaults /\ refused' \subseteq Files \X Calls
      /\ refused \subseteq refused' /\ \A c \in R : <<f, c>> \in refused'
  BY <1>2, <1>3, RefusalNoted DEF Inv
<1>5. live \in Trees /\ backup \in Trees /\ staged \in Trees /\ W \cup D \subseteq Files
  BY Packaged DEF Inv, Types
<1>6. Types'
  <2>1. live' \in Trees /\ backup' \in Trees /\ staged' \in Trees
    BY <1>2, <1>5 DEF Removed, Trees
  <2> QED
    BY <1>4, <2>1 DEF UndoWrite, Visits, Inv, Types
<1>7. \A g \in (W \cup D) \ {f} :
        live'[g] = live[g] /\ backup'[g] = backup[g] /\ staged'[g] = staged[g]
  BY <1>2, <1>5 DEF Trees
<1>8. Back(f)' /\ Tidy(f)'
  <2>1. Untouched(f) \/ Taken(f) \/ Put(f)
    BY <1>1 DEF InUndo
  <2>2. UNCHANGED <<rel, pkg, had, installed>>
    BY DEF UndoWrite
  <2>3. Tidy(f)'
    BY <1>2, <1>4, <1>5 DEF Tidy, Trees
  <2>4. CASE Restores(f, R)
    <3>1. live'[f] = backup[f] /\ f \in had
      BY <1>2, <1>5, <2>4 DEF Restores, Trees
    <3> QED
      BY <2>1, <2>2, <2>3, <3>1 DEF Untouched, Taken, Put, Saved, Back
  <2>5. CASE ~Restores(f, R)
    <3>1. live'[f] = Removed(f, R) /\ backup'[f] = backup[f]
      BY <1>2, <1>5, <2>5 DEF Trees
    <3>2. f \in had => <<f, "rename">> \in refused'
      BY <1>4, <2>5 DEF Restores
    <3>3. f \in installed => Removed(f, R) = None \/ <<f, "unlink">> \in refused'
      BY <1>4 DEF Removed
    <3>4. f \notin installed => Removed(f, R) = live[f]
      BY DEF Removed
    <3> QED
      BY <2>1, <2>2, <2>3, <3>1, <3>2, <3>3, <3>4 DEF Untouched, Taken, Put, Saved, Back
  <2> QED
    BY <2>4, <2>5
<1>9. (\A g \in D : Back(g)') /\ (\A g \in W \ todo' : Back(g)' /\ Tidy(g)')
  BY <1>1, <1>4, <1>7, <1>8 DEF InUndo, Back, Tidy, UndoWrite, Visits
<1>10. \A g \in todo' : Untouched(g)' \/ Taken(g)' \/ Put(g)'
  BY <1>1, <1>4, <1>7 DEF InUndo, Untouched, Taken, Put, Saved, Clean, UndoWrite, Visits
<1> QED
  BY <1>1, <1>6, <1>9, <1>10 DEF Inv, Place, InUndo, UndoWrite, Visits

LEMMA UndoEndsStep ==
  ASSUME Inv, UndoEnds
  PROVE  Inv'
<1>1. W' = W /\ D' = D /\ InUndo /\ todo = {}
  BY SamePackage DEF UndoEnds, Inv, Place
<1>2. Types'
  BY MovedTyped DEF UndoEnds, Answer, disk, Inv, Types
<1>3. Restored'
  BY <1>1 DEF InUndo, Restored, Back, Tidy, UndoEnds, disk
<1> QED
  BY <1>2, <1>3 DEF Inv, Place, UndoEnds, Answer

-----------------------------------------------------------------------------

\* Wherever the handler is, the original of each file is on the disk, or the whole
\* package is in place.
LEMMA OriginalsKept ==
  Inv => (pc # "idle" => InPlace \/ Kept) /\ (reply = "restored" => Kept)
<1> SUFFICES ASSUME Inv
             PROVE  (pc # "idle" => InPlace \/ Kept) /\ (reply = "restored" => Kept)
  OBVIOUS
<1> USE DEF Inv, Types, Place, Kept, Untouched, Taken, Put, Saved, Gone, Back
<1>1. CASE pc \in {"stage", "install", "replace"}
  BY <1>1 DEF InStage, InInstall, InReplace
<1>2. CASE pc = "delete"
  BY <1>2 DEF InDelete
<1>3. CASE pc = "discard"
  BY <1>3 DEF InDiscard, InPlace
<1>4. CASE pc \in {"undoDelete", "undo"}
  BY <1>4 DEF InUndoDelete, InUndo
<1>5. CASE pc \in {"down", "idle"}
  BY <1>5 DEF Restored
<1> QED
  BY <1>1, <1>2, <1>3, <1>4, <1>5

LEMMA PowerStep ==
  ASSUME Inv, PowerLoss \/ Restart
  PROVE  Inv'
<1>1. CASE PowerLoss
  <2>1. Types'
    BY <1>1, ConstantsAssumption DEF PowerLoss, Fault, disk, Inv, Types, ConstantsAssumption
  <2>2. (InPlace \/ Kept) /\ reply = "none"
    BY <1>1, OriginalsKept DEF PowerLoss, Inv, Place
  <2>3. (InPlace \/ Kept)'
    BY <1>1, <2>2, SamePackage DEF PowerLoss, disk, Kept, InPlace
  <2> QED
    BY <1>1, <2>1, <2>2, <2>3 DEF PowerLoss, Inv, Place
<1>2. CASE Restart
  BY <1>2 DEF Restart, disk, Inv, Types, Place
<1> QED
  BY <1>1, <1>2

\* The strengthening: at every place of the handler each file of the package is
\* untouched, set aside, replaced, deleted or brought back, with its original in
\* the one place where the undoing looks for it (hot_stage_and_install, hot_rollback).
THEOREM Inductive == Spec => []Inv
<1>1. Inv /\ [Next]_vars => Inv'
  <2> SUFFICES ASSUME Inv, [Next]_vars PROVE Inv'
    OBVIOUS
  <2>1. CASE UNCHANGED vars
    <3>1. W' = W /\ D' = D
      BY <2>1, SamePackage DEF vars
    <3>2. Types'
      BY <2>1 DEF vars, Inv, Types
    <3>3. UNCHANGED <<InStage, InInstall, InReplace, InDelete, InDiscard>>
      BY <2>1, <3>1 DEF vars, InStage, InInstall, InReplace, InDelete, InDiscard, Untouched,
                        Fresh, Clean, Saved, Taken, Put, Gone
    <3>4. UNCHANGED <<InUndoDelete, InUndo, Kept, InPlace, Restored, Applied>>
      BY <2>1, <3>1 DEF vars, InUndoDelete, InUndo, Kept, InPlace, Restored, Applied, Untouched,
                        Clean, Saved, Taken, Put, Gone, Back, Tidy
    <3>5. Place'
      BY <2>1, <3>3, <3>4 DEF vars, Inv, Place
    <3> QED
      BY <3>2, <3>5 DEF Inv
  <2>2. CASE Install
    BY <2>2, StageStep, SetAsideStep, ReplaceStep, DeleteStep, DiscardStep, DiscardEndsStep,
       NextLoopStep
       DEF Install
  <2>3. CASE Undo
    BY <2>3, UndoDeleteStep, UndoWriteStep, UndoEndsStep, NextLoopStep DEF Undo
  <2> QED
    BY <2>1, <2>2, <2>3, RequestStep, StageFailsStep, StepFailsStep, PowerStep DEF Next
<1> QED
  BY InitInv, <1>1, PTL DEF Spec

\* Every variable keeps its type, and a file is in hand between its two renames.
THEOREM TypeCorrect == Spec => []TypeOK
<1>1. Inv => TypeOK
  BY DEF Inv, Types, TypeOK, Place, InReplace, InHand, Taken, W, Writes
<1> QED
  BY Inductive, <1>1, PTL

\* An answer "applied" is true of every file the package touches
\* (hot_stage_and_install returning 0).
THEOREM AppliedIsTrue == Spec => []AppliedIsNew
<1>1. Inv => AppliedIsNew
  BY DEF Inv, Types, Place, Applied, Clean, AppliedIsNew, Touched, W, D
<1> QED
  BY Inductive, <1>1, PTL

\* Until a package is in place the original of every file it touches is on the
\* disk (the renames of hot_stage_and_install and their undoing).
THEOREM OriginalNotLost == Spec => []OriginalKept
<1>1. Inv => OriginalKept
  BY OriginalsKept DEF Kept, InPlace, OriginalKept, Touched, W, D
<1> QED
  BY Inductive, <1>1, PTL

\* After an undo a file differs from what it was only by a call that was refused on
\* that very file, whichever calls of hot_rollback and hot_deletions_rollback fail.
THEOREM OnlyRefusedIsLeft == Spec => []LeftOnlyIfRefused
<1>1. Inv => LeftOnlyIfRefused
  BY DEF Inv, Types, Place, Restored, Back, Tidy, LeftOnlyIfRefused, Touched, W, D
<1> QED
  BY Inductive, <1>1, PTL
=============================================================================
