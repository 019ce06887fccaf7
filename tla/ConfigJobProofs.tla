-------------------------- MODULE ConfigJobProofs --------------------------
(* Proofs about ConfigJob, for any number of jobs and any faults: types, that  *)
(* nothing is carried out twice, and that the two journals agree.  As long as  *)
(* no lease is requeued and no reference is refused: the reference of the      *)
(* configuration being written is durable, a half-written configuration is     *)
(* not silent, an outcome is what is in effect, and the controller's revision  *)
(* stands for the configuration in effect.                                     *)
EXTENDS ConfigJob, TLAPS

\* Where the agent has a job in hand.
Doing     == {"execute", "markapplying", "apply", "applying", "markapplied", "readback",
              "restore", "restoring", "finish"}
Reporting == {"send", "ack", "replaysend", "replayack"}
InHand    == {"offer", "stage", "accept", "recroll", "recfin"} \cup Doing \cup Reporting

\* A job that was accepted, or has ended with a finish.
Begun == {"running"} \cup Outcomes

\* The two rows of a job.
Ledger ==
  \A j \in Jobs :
    /\ acFin[j] # NoFinish => acState[j] \in Outcomes
    /\ row[j].att <= gen[j]
    /\ row[j].fin # NoFinish <=> row[j].state \in Terminal
    /\ row[j].acked => row[j].fin # NoFinish
    /\ (acFin[j] # NoFinish /\ row[j].att = acAtt[j]) => row[j].fin = acFin[j]
    /\ row[j].acked => acFin[j] = row[j].fin \/ acState[j] = "expired"

\* What was carried out was accepted.
Once ==
  \A j \in Jobs : execs[j] <= 1 /\ (execs[j] = 1 => acState[j] \in Begun)

\* The job in hand: leased and not begun, then running, then finished; and its
\* row, as far as it is a row of the same attempt.
Hand ==
  /\ pc \in InHand => cur \in Jobs
  /\ pc \in {"offer", "stage", "accept"} => /\ acState[cur] \notin Begun
                                            /\ att <= gen[cur]
  /\ pc \in Doing \cup {"send"} => acState[cur] = "running"
  /\ pc \in {"execute", "markapplying", "apply"} => execs[cur] = 0
  /\ pc \in {"stage", "accept", "send", "replaysend"} \cup Doing => row[cur].state # "none"
  /\ (pc \in {"offer", "stage", "accept"} \cup Doing /\ row[cur].att = att)
       => row[cur].fin = NoFinish
  /\ pc \in {"finish"} \cup Reporting => fin \in Finishes
  /\ (pc \in {"send", "replaysend"} /\ row[cur].att = att) => row[cur].fin = fin
  /\ pc \in {"ack", "replayack"} => acFin[cur] = fin \/ acState[cur] = "expired"

\* A reference is a configuration, except that of an action.
Refs ==
  /\ \A j \in Jobs : row[j].prev \in IF Kind[j] = "action" THEN {NoPrev, EmptyPrev}
                                                           ELSE Configs \cup {NoPrev}
  /\ pc \in {"markapplying", "apply", "applying", "markapplied"} =>
       prev \in IF Kind[cur] = "action" THEN {EmptyPrev} ELSE Configs
  /\ pc \in {"readback", "restore", "restoring", "recroll"} => prev \in Configs
  /\ pc = "readback" => Kind[cur] = "apply"
  /\ pc \in {"restore", "restoring"} => Kind[cur] # "action"

Inv == TypeOK /\ Ledger /\ Once /\ Hand /\ Refs

-----------------------------------------------------------------------------
(* What the operators of the controller and of the journal do *)

\* The updates of a row.
LEMMA RowUpdates ==
  ASSUME NEW r \in Rows
  PROVE  /\ \A s \in Open, q \in Configs \cup {NoPrev, EmptyPrev} :
              [r EXCEPT !.state = s, !.prev = q] \in Rows
         /\ \A s \in Terminal, f \in Finishes : [r EXCEPT !.state = s, !.fin = f] \in Rows
         /\ [r EXCEPT !.acked = TRUE] \in Rows
<1>1. \A s \in Open, q \in Configs \cup {NoPrev, EmptyPrev} :
        [r EXCEPT !.state = s, !.prev = q] \in Rows
  BY DEF Rows
<1>2. \A s \in Terminal, f \in Finishes : [r EXCEPT !.state = s, !.fin = f] \in Rows
  BY DEF Rows
<1>3. [r EXCEPT !.acked = TRUE] \in Rows
  BY DEF Rows
<1> QED BY <1>1, <1>2, <1>3

\* Jobs that have left the queue keep their state.
LEMMA RefreshEffect ==
  ASSUME NEW st \in [Jobs -> AcStates], NEW failed, Refresh(st, failed), created \subseteq Jobs \X Jobs
  PROVE  /\ acState' \in [Jobs -> AcStates] /\ created' \subseteq Jobs \X Jobs
         /\ \A k \in Jobs : \/ acState'[k] = st[k]
                            \/ st[k] = "queued" /\ acState'[k] = "cancelled"
                            \/ st[k] = "absent" /\ acState'[k] = "queued"
  BY DEF Refresh, RefreshedState, Created, AcStates

LEMMA OutcomeOf ==
  ASSUME NEW j, NEW f \in Finishes
  PROVE  TerminalFor(j, f) \in {f.out, "failed"} /\ TerminalFor(j, f) \in Outcomes
  BY DEF TerminalFor, Finishes, Outcomes

\* A finish is recorded for a job that is leased or running, or changes nothing.
LEMMA FinishEffect ==
  ASSUME TypeOK, NEW j \in Jobs, NEW a, NEW f \in Finishes, Finish(j, a, f)
  PROVE  /\ acState' \in [Jobs -> AcStates] /\ created' \subseteq Jobs \X Jobs
         /\ acFin' \in [Jobs -> Finishes \cup {NoFinish}]
         /\ acRev' \in Jobs \cup {Base}
         /\ confOf' \in [Jobs \cup {Base} -> Jobs \cup {Base}]
         /\ UNCHANGED <<gen, acAtt, prevRev, peerFailed>>
         /\ \/ /\ acFin[j] = NoFinish /\ acState[j] \in {"leased", "running"} /\ acAtt[j] = a
               /\ acFin' = [acFin EXCEPT ![j] = f]
               /\ acState'[j] = TerminalFor(j, f)
               /\ \A k \in Jobs \ {j} : \/ acState'[k] = acState[k]
                                        \/ acState[k] = "queued" /\ acState'[k] = "cancelled"
                                        \/ acState[k] = "absent" /\ acState'[k] = "queued"
            \/ UNCHANGED acVars
<1>1. CASE FinishRecords(j, a, f)
  <2> DEFINE t == TerminalFor(j, f)
             st == [acState EXCEPT ![j] = t]
  <2>1. st \in [Jobs -> AcStates]
    BY OutcomeOf DEF TypeOK, AcStates
  <2>2. Refresh(st, peerFailed \cap TransactionOf(j)) /\ acFin' = [acFin EXCEPT ![j] = f] /\ acRev' = RevisionAfter(j, t)
        /\ confOf' = ConfAfter(j, t) /\ UNCHANGED <<gen, acAtt, prevRev, peerFailed>>
    BY <1>1 DEF Finish
  <2> HIDE DEF st
  <2>3. /\ acState' \in [Jobs -> AcStates] /\ created' \subseteq Jobs \X Jobs
        /\ \A k \in Jobs : \/ acState'[k] = st[k]
                           \/ st[k] = "queued" /\ acState'[k] = "cancelled"
                           \/ st[k] = "absent" /\ acState'[k] = "queued"
    BY <2>1, <2>2, RefreshEffect DEF TypeOK
  <2>4. t \in Outcomes
    BY OutcomeOf
  <2>5. /\ acState'[j] = t
        /\ \A k \in Jobs \ {j} : \/ acState'[k] = acState[k]
                                 \/ acState[k] = "queued" /\ acState'[k] = "cancelled"
                                 \/ acState[k] = "absent" /\ acState'[k] = "queued"
    BY <2>3, <2>4 DEF st, TypeOK, Outcomes
  <2>6. acFin' \in [Jobs -> Finishes \cup {NoFinish}]
    BY <2>2 DEF TypeOK
  <2>7. acRev' \in Jobs \cup {Base}
    BY <2>2, JobsAssumption DEF RevisionAfter, TypeOK, JobsAssumption, Compensations
  <2>8. confOf' \in [Jobs \cup {Base} -> Jobs \cup {Base}]
    BY <2>2 DEF ConfAfter, TypeOK
  <2> QED BY <1>1, <2>2, <2>3, <2>5, <2>6, <2>7, <2>8 DEF FinishRecords
<1>2. CASE ~FinishRecords(j, a, f)
  BY <1>2 DEF Finish, acVars, TypeOK
<1> QED BY <1>1, <1>2

LEMMA TransitionEffect ==
  ASSUME TypeOK, NEW j \in Jobs, NEW a, NEW from, NEW to \in Open,
         NEW p \in Configs \cup {NoPrev, EmptyPrev}, Transition(j, a, from, to, p)
  PROVE  /\ row' \in [Jobs -> Rows] /\ touched' \subseteq Jobs \X Jobs
         /\ \A k \in Jobs \ {j} : row'[k] = row[k]
         /\ row'[j].att = row[j].att /\ row'[j].fin = row[j].fin /\ row'[j].acked = row[j].acked
         /\ \/ /\ Matches(j, a) /\ row[j].state = from
               /\ row'[j].state = to /\ row'[j].prev = IF p = NoPrev THEN row[j].prev ELSE p
            \/ ~(Matches(j, a) /\ row[j].state = from) /\ row' = row
<1>1. CASE Transitions(j, a, from)
  <2>1. row' = [row EXCEPT ![j] = [row[j] EXCEPT !.state = to, !.prev = IF p = NoPrev THEN @ ELSE p]]
        /\ touched' = Touch(j)
    BY <1>1 DEF Transition, Write
  <2>2. [row[j] EXCEPT !.state = to, !.prev = IF p = NoPrev THEN @ ELSE p] \in Rows
    <3>1. row[j] \in Rows
      BY DEF TypeOK
    <3>2. row[j].prev \in Configs \cup {NoPrev, EmptyPrev}
      BY <3>1 DEF Rows
    <3> QED BY <3>1, <3>2, RowUpdates
  <2>3. touched' \subseteq Jobs \X Jobs
    BY <2>1 DEF Touch, TypeOK
  <2> QED BY <1>1, <2>1, <2>2, <2>3 DEF TypeOK, Rows, Transitions
<1>2. CASE ~Transitions(j, a, from)
  BY <1>2 DEF Transition, Transitions, rowVars, TypeOK
<1> QED BY <1>1, <1>2

LEMMA OfferEffect ==
  ASSUME TypeOK, NEW j \in Jobs, NEW a \in Nat, OfferStore(j, a)
  PROVE  /\ row' \in [Jobs -> Rows] /\ touched' \subseteq Jobs \X Jobs
         /\ \A k \in Jobs \ {j} : row'[k] = row[k]
         /\ \/ /\ row[j].state = "none"
               /\ row'[j].state = "offered" /\ row'[j].att = a /\ row'[j].fin = NoFinish
               /\ row'[j].prev = NoPrev /\ ~row'[j].acked
            \/ row[j].state # "none" /\ row' = row
<1>1. CASE row[j].state = "none"
  <2>1. row' = [row EXCEPT ![j] = [NoRow EXCEPT !.state = "offered", !.att = a]]
        /\ touched' = Touch(j)
    BY <1>1 DEF OfferStore, Write
  <2>2. [NoRow EXCEPT !.state = "offered", !.att = a] \in Rows
    BY DEF NoRow, Rows, Open
  <2>3. touched' \subseteq Jobs \X Jobs
    BY <2>1 DEF Touch, TypeOK
  <2> QED BY <1>1, <2>1, <2>2, <2>3 DEF TypeOK, NoRow
<1>2. CASE row[j].state # "none"
  BY <1>2 DEF OfferStore, rowVars, TypeOK
<1> QED BY <1>1, <1>2

LEMMA FinishStoreEffect ==
  ASSUME TypeOK, NEW j \in Jobs, NEW a, NEW f \in Finishes, FinishStore(j, a, f)
  PROVE  /\ row' \in [Jobs -> Rows] /\ touched' \subseteq Jobs \X Jobs
         /\ \A k \in Jobs \ {j} : row'[k] = row[k]
         /\ row'[j].att = row[j].att /\ row'[j].prev = row[j].prev /\ row'[j].acked = row[j].acked
         /\ \/ /\ Matches(j, a) /\ row[j].fin = NoFinish
               /\ row'[j].fin = f /\ row'[j].state \in Terminal
            \/ ~(Matches(j, a) /\ row[j].fin = NoFinish) /\ row' = row
<1>1. CASE Matches(j, a) /\ row[j].fin = NoFinish
  <2> DEFINE s == IF f.out = "applied" THEN "completed" ELSE f.out
  <2>1. s \in Terminal
    BY DEF Finishes, Outcomes, Terminal
  <2>2. row' = [row EXCEPT ![j] = [row[j] EXCEPT !.state = s, !.fin = f]] /\ touched' = Touch(j)
    BY <1>1 DEF FinishStore, Write
  <2> HIDE DEF s
  <2>3. [row[j] EXCEPT !.state = s, !.fin = f] \in Rows
    <3>1. row[j] \in Rows
      BY DEF TypeOK
    <3> QED BY <2>1, <3>1, RowUpdates
  <2>4. touched' \subseteq Jobs \X Jobs
    BY <2>2 DEF Touch, TypeOK
  <2> QED BY <1>1, <2>1, <2>2, <2>3, <2>4 DEF TypeOK, Rows
<1>2. CASE ~(Matches(j, a) /\ row[j].fin = NoFinish)
  BY <1>2 DEF FinishStore, rowVars, TypeOK
<1> QED BY <1>1, <1>2

LEMMA FinishAckEffect ==
  ASSUME TypeOK, NEW j \in Jobs, NEW a, NEW f, FinishAck(j, a, f)
  PROVE  /\ row' \in [Jobs -> Rows] /\ touched' \subseteq Jobs \X Jobs
         /\ \A k \in Jobs : /\ row'[k].att = row[k].att /\ row'[k].prev = row[k].prev
                            /\ row'[k].fin = row[k].fin /\ row'[k].state = row[k].state
                            /\ row'[k].acked => \/ row[k].acked
                                                \/ k = j /\ row[k].fin = f /\ f # NoFinish
<1>1. CASE Matches(j, a) /\ row[j].fin = f /\ f # NoFinish /\ ~row[j].acked
  <2>1. row' = [row EXCEPT ![j] = [row[j] EXCEPT !.acked = TRUE]] /\ touched' = Touch(j)
    BY <1>1 DEF FinishAck, Write
  <2>2. [row[j] EXCEPT !.acked = TRUE] \in Rows
    <3>1. row[j] \in Rows
      BY DEF TypeOK
    <3> QED BY <3>1, RowUpdates
  <2>3. touched' \subseteq Jobs \X Jobs
    BY <2>1 DEF Touch, TypeOK
  <2> QED BY <1>1, <2>1, <2>2, <2>3 DEF TypeOK, Rows
<1>2. CASE ~(Matches(j, a) /\ row[j].fin = f /\ f # NoFinish /\ ~row[j].acked)
  BY <1>2 DEF FinishAck, rowVars, TypeOK
<1> QED BY <1>1, <1>2

\* A step that moves the row in hand on, or no row at all; no row ends.
Moves ==
  /\ row' \in [Jobs -> Rows] /\ touched' \subseteq Jobs \X Jobs
  /\ \A k \in Jobs :
       /\ row'[k].att = row[k].att /\ row'[k].fin = row[k].fin /\ row'[k].acked = row[k].acked
       /\ row'[k].state \in Terminal <=> row[k].state \in Terminal
       /\ row'[k].state = "none" <=> row[k].state = "none"
       /\ row'[k].prev # row[k].prev => k = cur /\ row'[k].prev = prev /\ pc = "markapplying"

LEMMA Moved ==
  ASSUME TypeOK, cur \in Jobs, NEW from \in Open, NEW to \in Open, NEW p \in {NoPrev, prev},
         Transition(cur, att, from, to, p), p # NoPrev => pc = "markapplying"
  PROVE  Moves
<1>1. p \in Configs \cup {NoPrev, EmptyPrev}
  BY DEF TypeOK
<1>2. Open \cap Terminal = {} /\ "none" \notin Open
  BY DEF Open, Terminal
<1> QED BY <1>1, <1>2, TransitionEffect DEF Moves

LEMMA NotMoved == TypeOK /\ UNCHANGED rowVars => Moves
  BY DEF TypeOK, rowVars, Moves

\* The faults that are counted.
LEMMA Spent ==
  ASSUME TypeOK, NEW k \in {"crash", "drop", "journal", "requeue", "oversize"}, Spend(k)
  PROVE  budget' \in [FaultKinds -> Nat]
<1>1. k \in FaultKinds
  BY DEF FaultKinds
<1> QED BY <1>1 DEF Spend, TypeOK

\* The finishes, drawn or not.
Drafts == [id : Nat, out : Outcomes \cup {"none"}, err : Errors, rb : BOOLEAN]

LEMMA Finishing ==
  /\ Finishes \subseteq Drafts /\ NoFinish \in Drafts /\ NoFinish \notin Finishes
  /\ \A n \in Nat, out \in Outcomes, err \in Errors, rb \in BOOLEAN :
       [id |-> n + 1, out |-> out, err |-> err, rb |-> rb] \in Finishes
  BY DEF Finishes, Drafts, NoFinish, Errors

\* A finish that is stored closes the row of its attempt, and nothing else.
LEMMA RowFinished ==
  ASSUME TypeOK, Ledger, NEW j \in Jobs, NEW a, NEW f \in Finishes, FinishStore(j, a, f),
         acState' = acState /\ gen' = gen /\ acAtt' = acAtt /\ acFin' = acFin
  PROVE  Ledger'
<1>1. /\ \A k \in Jobs \ {j} : row'[k] = row[k]
      /\ row'[j].att = row[j].att /\ row'[j].prev = row[j].prev /\ row'[j].acked = row[j].acked
      /\ \/ /\ Matches(j, a) /\ row[j].fin = NoFinish
            /\ row'[j].fin = f /\ row'[j].state \in Terminal
         \/ row' = row
  BY FinishStoreEffect
<1>2. f # NoFinish
  BY Finishing
<1>3. CASE row' = row
  BY <1>3 DEF Ledger
<1>4. CASE Matches(j, a) /\ row[j].fin = NoFinish /\ row'[j].fin = f /\ row'[j].state \in Terminal
  BY <1>1, <1>2, <1>4 DEF Ledger
<1> QED BY <1>1, <1>3, <1>4

\* What the recovery does with a row.
LEMMA RecoverRowEffect ==
  ASSUME TypeOK, Refs, NEW j \in Jobs, RecoverRow(j), row[j].state \in Open
  PROVE  /\ \/ UNCHANGED rowVars
            \/ \E f \in Finishes : FinishStore(j, row[j].att, f)
         /\ nextFin' \in Nat /\ budget' \in [FaultKinds -> Nat]
         /\ \/ UNCHANGED <<pc, localVars>> /\ UNCHANGED execVars
            \/ Rest("off") /\ UNCHANGED execVars
            \/ /\ pc' = "recroll" /\ cur' = j /\ att' = row[j].att /\ fin' = fin
               /\ prev' = row[j].prev /\ prev' \in Configs
               /\ live' = Mixed /\ lastMut' = j /\ execs' = execs
<1>1. CASE row[j].state \in {"offered", "staged"}
  <2> DEFINE f == [id |-> nextFin + 1, out |-> "failed", err |-> "interrupted", rb |-> FALSE]
  <2>1. f \in Finishes
    BY DEF Finishes, Outcomes, Errors, TypeOK
  <2>2. /\ UNCHANGED execVars
        /\ \/ FinishStore(j, row[j].att, f) /\ nextFin' = nextFin + 1 /\ NoFault /\ UNCHANGED <<pc, localVars>>
           \/ JournalError /\ Rest("off") /\ UNCHANGED nextFin
    BY <1>1 DEF RecoverRow
  <2> HIDE DEF f
  <2>3. CASE JournalError /\ Rest("off") /\ UNCHANGED nextFin
    <3>1. budget' \in [FaultKinds -> Nat]
      BY <2>3, Spent DEF JournalError
    <3> QED BY <2>2, <2>3, <3>1 DEF JournalError, TypeOK
  <2>4. CASE FinishStore(j, row[j].att, f) /\ nextFin' = nextFin + 1 /\ NoFault /\ UNCHANGED <<pc, localVars>>
    BY <2>1, <2>2, <2>4 DEF NoFault, TypeOK
  <2> QED BY <2>2, <2>3, <2>4
<1>2. CASE row[j].state \notin {"offered", "staged"}
  <2>1. /\ UNCHANGED <<rowVars, nextFin, execs, budget>>
        /\ IF row[j].prev \in {NoPrev, EmptyPrev}
             THEN Rest("off") /\ UNCHANGED <<live, lastMut>>
             ELSE /\ live' = Mixed /\ lastMut' = j
                  /\ pc' = "recroll" /\ cur' = j /\ att' = row[j].att
                  /\ prev' = row[j].prev /\ UNCHANGED fin
    BY <1>2 DEF RecoverRow
  <2>2. row[j].prev \in Configs \cup {NoPrev, EmptyPrev}
    BY DEF Refs
  <2> QED BY <2>1, <2>2 DEF TypeOK, execVars
<1> QED BY <1>1, <1>2

\* Create: a new job has not begun.
LEMMA CreatePreserves ==
  ASSUME Inv, NEW j \in Jobs, AcCreate(j)
  PROVE  Inv'
<1> USE DEF Inv, acVars, rowVars, localVars, execVars
<1>1. TypeOK'
  BY DEF AcCreate, Created, AcStates, TypeOK
<1>2. Ledger'
  BY DEF AcCreate, Ledger, Outcomes
<1>3. Once'
  BY DEF AcCreate, Once, Outcomes, Begun
<1>4. Hand'
  BY DEF AcCreate, Hand, Outcomes, Begun
<1>5. Refs'
  BY DEF AcCreate, Refs
<1> QED BY <1>1, <1>2, <1>3, <1>4, <1>5

\* PeerFails: a job that is queued or absent may change, no other.
LEMMA PeerFailsPreserves ==
  ASSUME Inv, NEW j \in Jobs, AcPeerFails(j)
  PROVE  Inv'
<1> USE DEF Inv, acVars, rowVars, localVars, execVars
<1>1. TypeOK'
  BY RefreshEffect DEF AcPeerFails, TypeOK
<1>2. Ledger'
  BY JobsAssumption, RefreshEffect DEF AcPeerFails, Ledger, Outcomes, TypeOK, JobsAssumption
<1>3. Once'
  BY RefreshEffect DEF AcPeerFails, Once, Outcomes, Begun, TypeOK
<1>4. Hand'
  BY JobsAssumption, RefreshEffect
  DEF AcPeerFails, Hand, Outcomes, Begun, InHand, Reporting, TypeOK, JobsAssumption
<1>5. Refs'
  BY DEF AcPeerFails, Refs
<1> QED BY <1>1, <1>2, <1>3, <1>4, <1>5

\* ExpireAction: an expired action has not ended with a finish.
LEMMA ExpireActionPreserves ==
  ASSUME Inv, NEW j \in Jobs, AcExpireAction(j)
  PROVE  Inv'
<1> USE DEF Inv, acVars, rowVars, localVars, execVars
<1>1. TypeOK'
  BY DEF AcExpireAction, AcStates, TypeOK
<1>2. Ledger'
  BY DEF AcExpireAction, Ledger, Outcomes
<1>3. Once'
  BY DEF AcExpireAction, Once, Outcomes, Begun
<1>4. Hand'
  BY DEF AcExpireAction, Hand, Outcomes, Begun
<1>5. Refs'
  BY DEF AcExpireAction, Refs
<1> QED BY <1>1, <1>2, <1>3, <1>4, <1>5

\* Restart: a job that is requeued has not begun.
LEMMA RestartPreserves ==
  ASSUME Inv, AcRestart
  PROVE  Inv'
<1> USE DEF Inv, acVars, rowVars, localVars, execVars
<1>1. TypeOK'
  <2>1. budget' \in [FaultKinds -> Nat]
    BY Spent DEF AcRestart
  <2>2. fin' \in Drafts
    BY DEF AcRestart, TypeOK, Drafts
  <2>3. row' \in [Jobs -> Rows] /\ touched' \subseteq Jobs \X Jobs
    BY DEF AcRestart, TypeOK
  <2>4. /\ acState' \in [Jobs -> AcStates] /\ gen' \in [Jobs -> Nat] /\ acAtt' \in [Jobs -> Nat]
        /\ acFin' \in [Jobs -> Finishes \cup {NoFinish}]
        /\ acRev' \in Jobs \cup {Base} /\ prevRev' \in [Jobs -> Jobs \cup {Base}]
        /\ confOf' \in [Jobs \cup {Base} -> Jobs \cup {Base}]
        /\ created' \subseteq Jobs \X Jobs /\ peerFailed' \in SUBSET Jobs
    BY DEF AcRestart, AcStates, TypeOK
  <2>5. /\ pc' \in PCs /\ cur' \in Jobs \cup {0} /\ att' \in Nat
        /\ prev' \in Configs \cup {NoPrev, EmptyPrev}
    BY DEF AcRestart, TypeOK
  <2>6. /\ nextFin' \in Nat /\ session' \in BOOLEAN
        /\ live' \in Configs /\ execs' \in [Jobs -> Nat] /\ lastMut' \in Jobs \cup {0}
    BY DEF AcRestart, TypeOK
  <2> QED BY <2>1, <2>2, <2>3, <2>4, <2>5, <2>6 DEF TypeOK, Drafts
<1>2. Ledger'
  BY DEF AcRestart, Requeued, Ledger, Outcomes
<1>3. Once'
  BY DEF AcRestart, Requeued, Once, Outcomes, Begun
<1>4. Hand'
  BY DEF AcRestart, Requeued, Hand, Outcomes, Begun, InHand, Reporting
<1>5. Refs'
  BY DEF AcRestart, Refs
<1> QED BY <1>1, <1>2, <1>3, <1>4, <1>5

\* Drop: nothing but the session and the faults.
LEMMA DropPreserves ==
  ASSUME Inv, Drop
  PROVE  Inv'
<1> USE DEF Inv, acVars, rowVars, localVars, execVars
<1>1. TypeOK'
  <2>1. budget' \in [FaultKinds -> Nat]
    BY Spent DEF Drop
  <2>2. fin' \in Drafts
    BY DEF Drop, TypeOK, Drafts
  <2>3. row' \in [Jobs -> Rows] /\ touched' \subseteq Jobs \X Jobs
    BY DEF Drop, TypeOK
  <2>4. /\ acState' \in [Jobs -> AcStates] /\ gen' \in [Jobs -> Nat] /\ acAtt' \in [Jobs -> Nat]
        /\ acFin' \in [Jobs -> Finishes \cup {NoFinish}]
        /\ acRev' \in Jobs \cup {Base} /\ prevRev' \in [Jobs -> Jobs \cup {Base}]
        /\ confOf' \in [Jobs \cup {Base} -> Jobs \cup {Base}]
        /\ created' \subseteq Jobs \X Jobs /\ peerFailed' \in SUBSET Jobs
    BY DEF Drop, TypeOK
  <2>5. /\ pc' \in PCs /\ cur' \in Jobs \cup {0} /\ att' \in Nat
        /\ prev' \in Configs \cup {NoPrev, EmptyPrev}
    BY DEF Drop, TypeOK
  <2>6. /\ nextFin' \in Nat /\ session' \in BOOLEAN
        /\ live' \in Configs /\ execs' \in [Jobs -> Nat] /\ lastMut' \in Jobs \cup {0}
    BY DEF Drop, TypeOK
  <2> QED BY <2>1, <2>2, <2>3, <2>4, <2>5, <2>6 DEF TypeOK, Drafts
<1>2. Ledger'
  BY DEF Drop, Ledger
<1>3. Once'
  BY DEF Drop, Once
<1>4. Hand'
  BY DEF Drop, Hand
<1>5. Refs'
  BY DEF Drop, Refs
<1> QED BY <1>1, <1>2, <1>3, <1>4, <1>5

\* Crash: nothing is in hand after a power loss.
LEMMA CrashPreserves ==
  ASSUME Inv, Crash
  PROVE  Inv'
<1> USE DEF Inv, acVars, rowVars, localVars, execVars
<1>1. TypeOK'
  <2>1. budget' \in [FaultKinds -> Nat]
    BY Spent DEF Crash
  <2>2. fin' \in Drafts
    BY Finishing DEF Crash, Rest
  <2>3. row' \in [Jobs -> Rows] /\ touched' \subseteq Jobs \X Jobs
    BY DEF Crash, TypeOK
  <2>4. /\ acState' \in [Jobs -> AcStates] /\ gen' \in [Jobs -> Nat] /\ acAtt' \in [Jobs -> Nat]
        /\ acFin' \in [Jobs -> Finishes \cup {NoFinish}]
        /\ acRev' \in Jobs \cup {Base} /\ prevRev' \in [Jobs -> Jobs \cup {Base}]
        /\ confOf' \in [Jobs \cup {Base} -> Jobs \cup {Base}]
        /\ created' \subseteq Jobs \X Jobs /\ peerFailed' \in SUBSET Jobs
    BY DEF Crash, TypeOK
  <2>5. /\ pc' \in PCs /\ cur' \in Jobs \cup {0} /\ att' \in Nat
        /\ prev' \in Configs \cup {NoPrev, EmptyPrev}
    BY DEF Crash, Rest, PCs
  <2>6. /\ nextFin' \in Nat /\ session' \in BOOLEAN
        /\ live' \in Configs /\ execs' \in [Jobs -> Nat] /\ lastMut' \in Jobs \cup {0}
    BY DEF Crash, TypeOK
  <2> QED BY <2>1, <2>2, <2>3, <2>4, <2>5, <2>6 DEF TypeOK, Drafts
<1>2. Ledger'
  BY DEF Crash, Ledger
<1>3. Once'
  BY DEF Crash, Once
<1>4. Hand'
  BY DEF Crash, Rest, Hand, InHand, Doing, Reporting
<1>5. Refs'
  BY DEF Crash, Rest, Refs
<1> QED BY <1>1, <1>2, <1>3, <1>4, <1>5

\* Connect: nothing is in hand.
LEMMA ConnectPreserves ==
  ASSUME Inv, Connect
  PROVE  Inv'
<1> USE DEF Inv, acVars, rowVars, localVars, execVars
<1>1. TypeOK'
  BY DEF Connect, TypeOK, PCs
<1>2. Ledger'
  BY DEF Connect, Ledger
<1>3. Once'
  BY DEF Connect, Once
<1>4. Hand'
  BY DEF Connect, Hand, InHand, Doing, Reporting
<1>5. Refs'
  BY DEF Connect, Refs
<1> QED BY <1>1, <1>2, <1>3, <1>4, <1>5

\* RequestFails: nothing is in hand.
LEMMA RequestFailsPreserves ==
  ASSUME Inv, RequestFails
  PROVE  Inv'
<1> USE DEF Inv, acVars, rowVars, localVars, execVars
<1>1. TypeOK'
  <2>1. budget' \in [FaultKinds -> Nat]
    BY DEF RequestFails, TypeOK
  <2>2. fin' \in Drafts
    BY Finishing DEF RequestFails, CloseSession, Rest
  <2>3. row' \in [Jobs -> Rows] /\ touched' \subseteq Jobs \X Jobs
    BY DEF RequestFails, TypeOK
  <2>4. /\ acState' \in [Jobs -> AcStates] /\ gen' \in [Jobs -> Nat] /\ acAtt' \in [Jobs -> Nat]
        /\ acFin' \in [Jobs -> Finishes \cup {NoFinish}]
        /\ acRev' \in Jobs \cup {Base} /\ prevRev' \in [Jobs -> Jobs \cup {Base}]
        /\ confOf' \in [Jobs \cup {Base} -> Jobs \cup {Base}]
        /\ created' \subseteq Jobs \X Jobs /\ peerFailed' \in SUBSET Jobs
    BY DEF RequestFails, TypeOK
  <2>5. /\ pc' \in PCs /\ cur' \in Jobs \cup {0} /\ att' \in Nat
        /\ prev' \in Configs \cup {NoPrev, EmptyPrev}
    BY DEF RequestFails, CloseSession, Rest, PCs
  <2>6. /\ nextFin' \in Nat /\ session' \in BOOLEAN
        /\ live' \in Configs /\ execs' \in [Jobs -> Nat] /\ lastMut' \in Jobs \cup {0}
    BY DEF RequestFails, CloseSession, TypeOK
  <2> QED BY <2>1, <2>2, <2>3, <2>4, <2>5, <2>6 DEF TypeOK, Drafts
<1>2. Ledger'
  BY DEF RequestFails, Ledger
<1>3. Once'
  BY DEF RequestFails, Once
<1>4. Hand'
  BY DEF RequestFails, CloseSession, Rest, Hand, InHand, Doing, Reporting
<1>5. Refs'
  BY DEF RequestFails, CloseSession, Rest, Refs
<1> QED BY <1>1, <1>2, <1>3, <1>4, <1>5

\* Poll: the attempt is newer than any before it.
LEMMA PollPreserves ==
  ASSUME Inv, Poll
  PROVE  Inv'
<1> USE DEF Inv, acVars, rowVars, localVars, execVars
<1>1. PICK j \in Jobs : /\ acState[j] = "queued" /\ Lease(j) /\ UNCHANGED <<rowVars, nextFin, execVars>>
                     /\ \/ /\ pc' = "offer" /\ cur' = j /\ att' = gen'[j]
                           /\ NoFault /\ UNCHANGED <<session, prev, fin>>
                        \/ AnswerLost
  BY DEF Poll, Leasable, First, Queued
<1>2. /\ acState' \in [Jobs -> AcStates] /\ acState'[j] = "leased" /\ gen' \in [Jobs -> Nat]
      /\ gen'[j] = gen[j] + 1 /\ acAtt' \in [Jobs -> Nat] /\ acAtt'[j] = gen'[j]
      /\ \A k \in Jobs \ {j} : acState'[k] = acState[k] /\ gen'[k] = gen[k] /\ acAtt'[k] = acAtt[k]
      /\ UNCHANGED <<acFin, acRev, prevRev, confOf, created, peerFailed>>
  BY <1>1 DEF Lease, TypeOK, AcStates
<1>3. TypeOK'
  <2>1. budget' \in [FaultKinds -> Nat]
    BY <1>1, Spent DEF AnswerLost, NoFault, TypeOK
  <2>2. fin' \in Drafts
    BY <1>1, Finishing DEF AnswerLost, CloseSession, Rest, TypeOK, Drafts
  <2>3. row' \in [Jobs -> Rows] /\ touched' \subseteq Jobs \X Jobs
    BY <1>1 DEF TypeOK
  <2>4. /\ acState' \in [Jobs -> AcStates] /\ gen' \in [Jobs -> Nat] /\ acAtt' \in [Jobs -> Nat]
        /\ acFin' \in [Jobs -> Finishes \cup {NoFinish}]
        /\ acRev' \in Jobs \cup {Base} /\ prevRev' \in [Jobs -> Jobs \cup {Base}]
        /\ confOf' \in [Jobs \cup {Base} -> Jobs \cup {Base}]
        /\ created' \subseteq Jobs \X Jobs /\ peerFailed' \in SUBSET Jobs
    BY <1>2 DEF TypeOK
  <2>5. /\ pc' \in PCs /\ cur' \in Jobs \cup {0} /\ att' \in Nat
        /\ prev' \in Configs \cup {NoPrev, EmptyPrev}
    BY <1>1, <1>2 DEF AnswerLost, CloseSession, Rest, TypeOK, PCs
  <2>6. /\ nextFin' \in Nat /\ session' \in BOOLEAN
        /\ live' \in Configs /\ execs' \in [Jobs -> Nat] /\ lastMut' \in Jobs \cup {0}
    BY <1>1 DEF AnswerLost, CloseSession, TypeOK
  <2> QED BY <2>1, <2>2, <2>3, <2>4, <2>5, <2>6 DEF TypeOK, Drafts
<1>4. Ledger'
  BY <1>1, <1>2 DEF AnswerLost, CloseSession, Ledger, Outcomes, Terminal, Rows, TypeOK
<1>5. Once'
  BY <1>1, <1>2 DEF Once, Outcomes, Begun
<1>6. Hand'
  BY <1>1, <1>2
  DEF AnswerLost, CloseSession, Rest, Hand, Ledger, Outcomes, Begun, InHand, Doing, Reporting,
      TypeOK
<1>7. Refs'
  BY <1>1 DEF AnswerLost, CloseSession, Rest, Refs
<1> QED BY <1>3, <1>4, <1>5, <1>6, <1>7

\* Offer: the row is new, or that of an attempt before.
LEMMA OfferPreserves ==
  ASSUME Inv, Offer
  PROVE  Inv'
<1> USE DEF Inv, acVars, rowVars, localVars, execVars
<1>1. TypeOK'
  <2>1. budget' \in [FaultKinds -> Nat]
    BY Spent DEF Offer, NoFault, JournalError, TypeOK
  <2>2. fin' \in Drafts
    BY Finishing DEF Offer, CloseSession, Rest, TypeOK, Drafts
  <2>3. row' \in [Jobs -> Rows] /\ touched' \subseteq Jobs \X Jobs
    BY OfferEffect DEF Offer, JournalError, TypeOK, Hand, InHand
  <2>4. /\ acState' \in [Jobs -> AcStates] /\ gen' \in [Jobs -> Nat] /\ acAtt' \in [Jobs -> Nat]
        /\ acFin' \in [Jobs -> Finishes \cup {NoFinish}]
        /\ acRev' \in Jobs \cup {Base} /\ prevRev' \in [Jobs -> Jobs \cup {Base}]
        /\ confOf' \in [Jobs \cup {Base} -> Jobs \cup {Base}]
        /\ created' \subseteq Jobs \X Jobs /\ peerFailed' \in SUBSET Jobs
    BY DEF Offer, TypeOK
  <2>5. /\ pc' \in PCs /\ cur' \in Jobs \cup {0} /\ att' \in Nat
        /\ prev' \in Configs \cup {NoPrev, EmptyPrev}
    BY DEF Offer, CloseSession, Rest, TypeOK, PCs
  <2>6. /\ nextFin' \in Nat /\ session' \in BOOLEAN
        /\ live' \in Configs /\ execs' \in [Jobs -> Nat] /\ lastMut' \in Jobs \cup {0}
    BY DEF Offer, CloseSession, TypeOK
  <2> QED BY <2>1, <2>2, <2>3, <2>4, <2>5, <2>6 DEF TypeOK, Drafts
<1>2. Ledger'
  BY Spent, Finishing, OfferEffect
  DEF Offer, JournalError, Ledger, Hand, Outcomes, Errors, Begun, Open, Terminal, InHand, Doing,
      Reporting, Rows, TypeOK
<1>3. Once'
  BY DEF Offer, Once
<1>4. Hand'
  BY OfferEffect DEF Offer, CloseSession, Rest, Hand, InHand, Doing, Reporting, TypeOK
<1>5. Refs'
  BY Spent, Finishing, OfferEffect
  DEF Offer, JournalError, CloseSession, Rest, Refs, Hand, Begun, InHand, Doing, TypeOK
<1> QED BY <1>1, <1>2, <1>3, <1>4, <1>5

\* MarkStaged: the row moves, or stays.
LEMMA MarkStagedPreserves ==
  ASSUME Inv, MarkStaged
  PROVE  Inv'
<1> USE DEF Inv, acVars, rowVars, localVars, execVars
<1>1. Moves
  BY Moved, NotMoved DEF MarkStaged, JournalError, Hand, InHand, Open
<1>2. TypeOK'
  <2>1. budget' \in [FaultKinds -> Nat]
    BY Spent DEF MarkStaged, NoFault, JournalError, TypeOK
  <2>2. fin' \in Drafts
    BY Finishing DEF MarkStaged, CloseSession, Rest, TypeOK, Drafts
  <2>3. row' \in [Jobs -> Rows] /\ touched' \subseteq Jobs \X Jobs
    BY <1>1 DEF Moves
  <2>4. /\ acState' \in [Jobs -> AcStates] /\ gen' \in [Jobs -> Nat] /\ acAtt' \in [Jobs -> Nat]
        /\ acFin' \in [Jobs -> Finishes \cup {NoFinish}]
        /\ acRev' \in Jobs \cup {Base} /\ prevRev' \in [Jobs -> Jobs \cup {Base}]
        /\ confOf' \in [Jobs \cup {Base} -> Jobs \cup {Base}]
        /\ created' \subseteq Jobs \X Jobs /\ peerFailed' \in SUBSET Jobs
    BY DEF MarkStaged, TypeOK
  <2>5. /\ pc' \in PCs /\ cur' \in Jobs \cup {0} /\ att' \in Nat
        /\ prev' \in Configs \cup {NoPrev, EmptyPrev}
    BY DEF MarkStaged, CloseSession, Rest, TypeOK, PCs
  <2>6. /\ nextFin' \in Nat /\ session' \in BOOLEAN
        /\ live' \in Configs /\ execs' \in [Jobs -> Nat] /\ lastMut' \in Jobs \cup {0}
    BY DEF MarkStaged, CloseSession, TypeOK
  <2> QED BY <2>1, <2>2, <2>3, <2>4, <2>5, <2>6 DEF TypeOK, Drafts
<1>3. Ledger'
  BY <1>1 DEF MarkStaged, Moves, Ledger
<1>4. Once'
  BY DEF MarkStaged, Once
<1>5. Hand'
  BY <1>1 DEF MarkStaged, CloseSession, Rest, Moves, Hand, InHand, Doing, Reporting
<1>6. Refs'
  BY <1>1 DEF MarkStaged, CloseSession, Rest, Moves, Refs
<1> QED BY <1>2, <1>3, <1>4, <1>5, <1>6

\* Accept: the job has not begun.
LEMMA AcceptPreserves ==
  ASSUME Inv, Accept
  PROVE  Inv'
<1> USE DEF Inv, acVars, rowVars, localVars, execVars
<1>1. cur \in Jobs
  BY DEF Accept, Hand, InHand
<1>2. /\ acState' \in [Jobs -> AcStates] /\ UNCHANGED <<gen, acAtt, acFin, acRev, prevRev, confOf, created, peerFailed>>
      /\ \A k \in Jobs \ {cur} : acState'[k] = acState[k]
      /\ \/ acState[cur] \in {"leased", "running"} /\ acState'[cur] = "running" /\ (Answered("execute") \/ AnswerLost)
         \/ acState'[cur] = acState[cur] /\ CloseSession /\ NoFault
      /\ pc = "accept" /\ UNCHANGED <<rowVars, nextFin, execVars>>
  BY <1>1 DEF Accept, AcceptOk, MarkRunning, TypeOK, AcStates
<1>3. TypeOK'
  <2>1. budget' \in [FaultKinds -> Nat]
    BY <1>2, Spent DEF Answered, AnswerLost, NoFault, TypeOK
  <2>2. fin' \in Drafts
    BY <1>2, Finishing DEF Answered, AnswerLost, CloseSession, Rest, TypeOK, Drafts
  <2>3. row' \in [Jobs -> Rows] /\ touched' \subseteq Jobs \X Jobs
    BY <1>2 DEF TypeOK
  <2>4. /\ acState' \in [Jobs -> AcStates] /\ gen' \in [Jobs -> Nat] /\ acAtt' \in [Jobs -> Nat]
        /\ acFin' \in [Jobs -> Finishes \cup {NoFinish}]
        /\ acRev' \in Jobs \cup {Base} /\ prevRev' \in [Jobs -> Jobs \cup {Base}]
        /\ confOf' \in [Jobs \cup {Base} -> Jobs \cup {Base}]
        /\ created' \subseteq Jobs \X Jobs /\ peerFailed' \in SUBSET Jobs
    BY <1>2 DEF TypeOK
  <2>5. /\ pc' \in PCs /\ cur' \in Jobs \cup {0} /\ att' \in Nat
        /\ prev' \in Configs \cup {NoPrev, EmptyPrev}
    BY <1>2 DEF Answered, AnswerLost, CloseSession, Rest, TypeOK, PCs
  <2>6. /\ nextFin' \in Nat /\ session' \in BOOLEAN
        /\ live' \in Configs /\ execs' \in [Jobs -> Nat] /\ lastMut' \in Jobs \cup {0}
    BY <1>2 DEF Answered, AnswerLost, CloseSession, TypeOK
  <2> QED BY <2>1, <2>2, <2>3, <2>4, <2>5, <2>6 DEF TypeOK, Drafts
<1>4. Ledger'
  BY <1>2 DEF Ledger, Hand, Begun
<1>5. Once'
  BY <1>2 DEF Once, Hand
<1>6. Hand'
  BY <1>1, <1>2, JobsAssumption
  DEF Answered, AnswerLost, NoFault, CloseSession, Rest, Hand, Once, InHand, Doing, Reporting,
      Rows, TypeOK, JobsAssumption
<1>7. Refs'
  BY <1>2 DEF Answered, AnswerLost, CloseSession, Rest, Refs
<1> QED BY <1>3, <1>4, <1>5, <1>6, <1>7

\* Prepare: the reference is a configuration.
LEMMA PreparePreserves ==
  ASSUME Inv, Prepare
  PROVE  Inv'
<1> USE DEF Inv, acVars, rowVars, localVars, execVars
<1>1. TypeOK'
  <2>1. budget' \in [FaultKinds -> Nat]
    BY DEF Prepare, TypeOK
  <2>2. fin' \in Drafts
    BY Finishing DEF Prepare, Report, TypeOK, Drafts, Errors, Outcomes
  <2>3. row' \in [Jobs -> Rows] /\ touched' \subseteq Jobs \X Jobs
    BY DEF Prepare, TypeOK
  <2>4. /\ acState' \in [Jobs -> AcStates] /\ gen' \in [Jobs -> Nat] /\ acAtt' \in [Jobs -> Nat]
        /\ acFin' \in [Jobs -> Finishes \cup {NoFinish}]
        /\ acRev' \in Jobs \cup {Base} /\ prevRev' \in [Jobs -> Jobs \cup {Base}]
        /\ confOf' \in [Jobs \cup {Base} -> Jobs \cup {Base}]
        /\ created' \subseteq Jobs \X Jobs /\ peerFailed' \in SUBSET Jobs
    BY DEF Prepare, TypeOK
  <2>5. /\ pc' \in PCs /\ cur' \in Jobs \cup {0} /\ att' \in Nat
        /\ prev' \in Configs \cup {NoPrev, EmptyPrev}
    BY JobsAssumption
    DEF Prepare, PreviousOf, Reference, Report, Compensations, TypeOK, PCs, Hand, InHand, Doing,
        Rows, JobsAssumption
  <2>6. /\ nextFin' \in Nat /\ session' \in BOOLEAN
        /\ live' \in Configs /\ execs' \in [Jobs -> Nat] /\ lastMut' \in Jobs \cup {0}
    BY DEF Prepare, TypeOK
  <2> QED BY <2>1, <2>2, <2>3, <2>4, <2>5, <2>6 DEF TypeOK, Drafts
<1>2. Ledger'
  BY DEF Prepare, Ledger
<1>3. Once'
  BY DEF Prepare, Once
<1>4. Hand'
  BY <1>1, Finishing DEF Prepare, Report, Hand, InHand, Doing, Reporting, TypeOK
<1>5. Refs'
  <2>1. CASE pc' = "markapplying"
    <3>1. cur \in Jobs /\ prev' = PreviousOf(cur) /\ prev' # NoPrev
      BY <2>1 DEF Prepare, Report, Hand, InHand, Doing
    <3>2. prev' \in IF Kind[cur] = "action" THEN {EmptyPrev} ELSE Configs
      <4>1. CASE Kind[cur] = "rollback"
        <5>1. SourceOf[cur] \in Jobs /\ Kind[SourceOf[cur]] = "apply"
          BY <3>1, <4>1, JobsAssumption DEF JobsAssumption, Compensations
        <5> QED BY <3>1, <4>1, <5>1 DEF PreviousOf, Reference, Refs
      <4>2. CASE Kind[cur] # "rollback"
        BY <3>1, <4>2, JobsAssumption DEF PreviousOf, JobsAssumption, TypeOK
      <4> QED BY <4>1, <4>2
    <3> QED BY <2>1, <3>1, <3>2 DEF Prepare, Refs
  <2>2. CASE pc' # "markapplying"
    BY <2>2 DEF Prepare, Report, Refs
  <2> QED BY <2>1, <2>2
<1> QED BY <1>1, <1>2, <1>3, <1>4, <1>5

\* MarkApplying: the row moves, or stays.
LEMMA MarkApplyingPreserves ==
  ASSUME Inv, MarkApplying
  PROVE  Inv'
<1> USE DEF Inv, acVars, rowVars, localVars, execVars
<1>1. Moves
  BY Moved, NotMoved DEF MarkApplying, JournalError, Hand, InHand, Doing, Open
<1>2. TypeOK'
  <2>1. budget' \in [FaultKinds -> Nat]
    BY Spent DEF MarkApplying, NoFault, JournalError, TypeOK
  <2>2. fin' \in Drafts
    BY Finishing DEF MarkApplying, Report, TypeOK, Drafts, Errors, Outcomes
  <2>3. row' \in [Jobs -> Rows] /\ touched' \subseteq Jobs \X Jobs
    BY <1>1 DEF Moves
  <2>4. /\ acState' \in [Jobs -> AcStates] /\ gen' \in [Jobs -> Nat] /\ acAtt' \in [Jobs -> Nat]
        /\ acFin' \in [Jobs -> Finishes \cup {NoFinish}]
        /\ acRev' \in Jobs \cup {Base} /\ prevRev' \in [Jobs -> Jobs \cup {Base}]
        /\ confOf' \in [Jobs \cup {Base} -> Jobs \cup {Base}]
        /\ created' \subseteq Jobs \X Jobs /\ peerFailed' \in SUBSET Jobs
    BY DEF MarkApplying, TypeOK
  <2>5. /\ pc' \in PCs /\ cur' \in Jobs \cup {0} /\ att' \in Nat
        /\ prev' \in Configs \cup {NoPrev, EmptyPrev}
    BY DEF MarkApplying, Report, TypeOK, PCs
  <2>6. /\ nextFin' \in Nat /\ session' \in BOOLEAN
        /\ live' \in Configs /\ execs' \in [Jobs -> Nat] /\ lastMut' \in Jobs \cup {0}
    BY DEF MarkApplying, TypeOK
  <2> QED BY <2>1, <2>2, <2>3, <2>4, <2>5, <2>6 DEF TypeOK, Drafts
<1>3. Ledger'
  BY <1>1 DEF MarkApplying, Moves, Ledger
<1>4. Once'
  BY DEF MarkApplying, Once
<1>5. Hand'
  BY <1>1, <1>2, Finishing DEF MarkApplying, Report, Moves, Hand, InHand, Doing, Reporting, TypeOK
<1>6. Refs'
  BY <1>1 DEF MarkApplying, Report, Moves, Refs
<1> QED BY <1>2, <1>3, <1>4, <1>5, <1>6

\* ApplyBegin: the first time.
LEMMA ApplyBeginPreserves ==
  ASSUME Inv, ApplyBegin
  PROVE  Inv'
<1> USE DEF Inv, acVars, rowVars, localVars, execVars
<1>1. TypeOK'
  BY DEF ApplyBegin, TypeOK, PCs, Hand, InHand, Doing, Configs
<1>2. Ledger'
  BY DEF ApplyBegin, Ledger
<1>3. Once'
  BY DEF ApplyBegin, Once, Hand, Begun, Doing
<1>4. Hand'
  BY DEF ApplyBegin, Hand, InHand, Doing, Reporting
<1>5. Refs'
  BY DEF ApplyBegin, Refs
<1> QED BY <1>1, <1>2, <1>3, <1>4, <1>5

\* ApplyEnd: the row stays.
LEMMA ApplyEndPreserves ==
  ASSUME Inv, ApplyEnd
  PROVE  Inv'
<1> USE DEF Inv, acVars, rowVars, localVars, execVars
<1>1. TypeOK'
  <2>1. budget' \in [FaultKinds -> Nat]
    BY DEF ApplyEnd, TypeOK
  <2>2. fin' \in Drafts
    BY Finishing DEF ApplyEnd, Report, TypeOK, Drafts, Errors, Outcomes
  <2>3. row' \in [Jobs -> Rows] /\ touched' \subseteq Jobs \X Jobs
    BY DEF ApplyEnd, TypeOK
  <2>4. /\ acState' \in [Jobs -> AcStates] /\ gen' \in [Jobs -> Nat] /\ acAtt' \in [Jobs -> Nat]
        /\ acFin' \in [Jobs -> Finishes \cup {NoFinish}]
        /\ acRev' \in Jobs \cup {Base} /\ prevRev' \in [Jobs -> Jobs \cup {Base}]
        /\ confOf' \in [Jobs \cup {Base} -> Jobs \cup {Base}]
        /\ created' \subseteq Jobs \X Jobs /\ peerFailed' \in SUBSET Jobs
    BY DEF ApplyEnd, TypeOK
  <2>5. /\ pc' \in PCs /\ cur' \in Jobs \cup {0} /\ att' \in Nat
        /\ prev' \in Configs \cup {NoPrev, EmptyPrev}
    BY DEF ApplyEnd, Report, TypeOK, PCs
  <2>6. /\ nextFin' \in Nat /\ session' \in BOOLEAN
        /\ live' \in Configs /\ execs' \in [Jobs -> Nat] /\ lastMut' \in Jobs \cup {0}
    BY DEF ApplyEnd, TypeOK, Hand, Refs, InHand, Doing, Configs
  <2> QED BY <2>1, <2>2, <2>3, <2>4, <2>5, <2>6 DEF TypeOK, Drafts
<1>2. Ledger'
  BY DEF ApplyEnd, Ledger
<1>3. Once'
  BY DEF ApplyEnd, Once
<1>4. Hand'
  BY <1>1, Finishing DEF ApplyEnd, Report, Hand, InHand, Doing, Reporting, TypeOK
<1>5. Refs'
  BY DEF ApplyEnd, Report, Refs
<1> QED BY <1>1, <1>2, <1>3, <1>4, <1>5

\* MarkApplied: the row moves, or stays.
LEMMA MarkAppliedPreserves ==
  ASSUME Inv, MarkApplied
  PROVE  Inv'
<1> USE DEF Inv, acVars, rowVars, localVars, execVars
<1>1. Moves
  BY Moved, NotMoved DEF MarkApplied, JournalError, Hand, InHand, Doing, Open
<1>2. TypeOK'
  <2>1. budget' \in [FaultKinds -> Nat]
    BY Spent DEF MarkApplied, NoFault, JournalError, TypeOK
  <2>2. fin' \in Drafts
    BY Finishing DEF MarkApplied, Report, TypeOK, Drafts, Errors, Outcomes, Rows
  <2>3. row' \in [Jobs -> Rows] /\ touched' \subseteq Jobs \X Jobs
    BY <1>1 DEF Moves
  <2>4. /\ acState' \in [Jobs -> AcStates] /\ gen' \in [Jobs -> Nat] /\ acAtt' \in [Jobs -> Nat]
        /\ acFin' \in [Jobs -> Finishes \cup {NoFinish}]
        /\ acRev' \in Jobs \cup {Base} /\ prevRev' \in [Jobs -> Jobs \cup {Base}]
        /\ confOf' \in [Jobs \cup {Base} -> Jobs \cup {Base}]
        /\ created' \subseteq Jobs \X Jobs /\ peerFailed' \in SUBSET Jobs
    BY DEF MarkApplied, TypeOK
  <2>5. /\ pc' \in PCs /\ cur' \in Jobs \cup {0} /\ att' \in Nat
        /\ prev' \in Configs \cup {NoPrev, EmptyPrev}
    BY DEF MarkApplied, Report, TypeOK, PCs
  <2>6. /\ nextFin' \in Nat /\ session' \in BOOLEAN
        /\ live' \in Configs /\ execs' \in [Jobs -> Nat] /\ lastMut' \in Jobs \cup {0}
    BY DEF MarkApplied, TypeOK
  <2> QED BY <2>1, <2>2, <2>3, <2>4, <2>5, <2>6 DEF TypeOK, Drafts
<1>3. Ledger'
  BY <1>1 DEF MarkApplied, Moves, Ledger
<1>4. Once'
  BY DEF MarkApplied, Once
<1>5. Hand'
  BY <1>1, <1>2, Finishing DEF MarkApplied, Report, Moves, Hand, InHand, Doing, Reporting, TypeOK
<1>6. Refs'
  BY <1>1 DEF MarkApplied, Report, Moves, Refs
<1> QED BY <1>2, <1>3, <1>4, <1>5, <1>6

\* Readback: the row stays.
LEMMA ReadbackPreserves ==
  ASSUME Inv, Readback
  PROVE  Inv'
<1> USE DEF Inv, acVars, rowVars, localVars, execVars
<1>1. TypeOK'
  <2>1. budget' \in [FaultKinds -> Nat]
    BY DEF Readback, TypeOK
  <2>2. fin' \in Drafts
    BY Finishing DEF Readback, Report, TypeOK, Drafts, Errors, Outcomes
  <2>3. row' \in [Jobs -> Rows] /\ touched' \subseteq Jobs \X Jobs
    BY DEF Readback, TypeOK
  <2>4. /\ acState' \in [Jobs -> AcStates] /\ gen' \in [Jobs -> Nat] /\ acAtt' \in [Jobs -> Nat]
        /\ acFin' \in [Jobs -> Finishes \cup {NoFinish}]
        /\ acRev' \in Jobs \cup {Base} /\ prevRev' \in [Jobs -> Jobs \cup {Base}]
        /\ confOf' \in [Jobs \cup {Base} -> Jobs \cup {Base}]
        /\ created' \subseteq Jobs \X Jobs /\ peerFailed' \in SUBSET Jobs
    BY DEF Readback, TypeOK
  <2>5. /\ pc' \in PCs /\ cur' \in Jobs \cup {0} /\ att' \in Nat
        /\ prev' \in Configs \cup {NoPrev, EmptyPrev}
    BY DEF Readback, Report, TypeOK, PCs
  <2>6. /\ nextFin' \in Nat /\ session' \in BOOLEAN
        /\ live' \in Configs /\ execs' \in [Jobs -> Nat] /\ lastMut' \in Jobs \cup {0}
    BY DEF Readback, TypeOK
  <2> QED BY <2>1, <2>2, <2>3, <2>4, <2>5, <2>6 DEF TypeOK, Drafts
<1>2. Ledger'
  BY DEF Readback, Ledger
<1>3. Once'
  BY DEF Readback, Once
<1>4. Hand'
  BY <1>1, Finishing DEF Readback, Report, Hand, InHand, Doing, Reporting, TypeOK
<1>5. Refs'
  BY DEF Readback, Report, Refs
<1> QED BY <1>1, <1>2, <1>3, <1>4, <1>5

\* RestoreBegin: the row stays.
LEMMA RestoreBeginPreserves ==
  ASSUME Inv, RestoreBegin
  PROVE  Inv'
<1> USE DEF Inv, acVars, rowVars, localVars, execVars
<1>1. TypeOK'
  BY DEF RestoreBegin, TypeOK, PCs, Configs
<1>2. Ledger'
  BY DEF RestoreBegin, Ledger
<1>3. Once'
  BY DEF RestoreBegin, Once
<1>4. Hand'
  BY DEF RestoreBegin, Hand, InHand, Doing, Reporting
<1>5. Refs'
  BY DEF RestoreBegin, Refs
<1> QED BY <1>1, <1>2, <1>3, <1>4, <1>5

\* RestoreEnd: the row stays.
LEMMA RestoreEndPreserves ==
  ASSUME Inv, RestoreEnd
  PROVE  Inv'
<1> USE DEF Inv, acVars, rowVars, localVars, execVars
<1>1. TypeOK'
  <2>1. budget' \in [FaultKinds -> Nat]
    BY DEF RestoreEnd, TypeOK
  <2>2. fin' \in Drafts
    BY Finishing DEF RestoreEnd, Report, TypeOK, Errors, Outcomes
  <2>3. row' \in [Jobs -> Rows] /\ touched' \subseteq Jobs \X Jobs
    BY DEF RestoreEnd, TypeOK
  <2>4. /\ acState' \in [Jobs -> AcStates] /\ gen' \in [Jobs -> Nat] /\ acAtt' \in [Jobs -> Nat]
        /\ acFin' \in [Jobs -> Finishes \cup {NoFinish}]
        /\ acRev' \in Jobs \cup {Base} /\ prevRev' \in [Jobs -> Jobs \cup {Base}]
        /\ confOf' \in [Jobs \cup {Base} -> Jobs \cup {Base}]
        /\ created' \subseteq Jobs \X Jobs /\ peerFailed' \in SUBSET Jobs
    BY DEF RestoreEnd, TypeOK
  <2>5. /\ pc' \in PCs /\ cur' \in Jobs \cup {0} /\ att' \in Nat
        /\ prev' \in Configs \cup {NoPrev, EmptyPrev}
    BY DEF RestoreEnd, Report, TypeOK, PCs
  <2>6. /\ nextFin' \in Nat /\ session' \in BOOLEAN
        /\ live' \in Configs /\ execs' \in [Jobs -> Nat] /\ lastMut' \in Jobs \cup {0}
    BY DEF RestoreEnd, TypeOK, Refs, Configs
  <2> QED BY <2>1, <2>2, <2>3, <2>4, <2>5, <2>6 DEF TypeOK, Drafts
<1>2. Ledger'
  BY DEF RestoreEnd, Ledger
<1>3. Once'
  BY DEF RestoreEnd, Once
<1>4. Hand'
  BY <1>1, Finishing DEF RestoreEnd, Report, Hand, InHand, Doing, TypeOK
<1>5. Refs'
  BY DEF RestoreEnd, Report, Refs
<1> QED BY <1>1, <1>2, <1>3, <1>4, <1>5

\* StoreFinish: the finish to be sent is that of the row of the attempt.
LEMMA StoreFinishPreserves ==
  ASSUME Inv, StoreFinish
  PROVE  Inv'
<1> USE DEF Inv, acVars, rowVars, localVars, execVars
<1>1. TypeOK'
  <2>1. budget' \in [FaultKinds -> Nat]
    BY Spent DEF StoreFinish, NoFault, JournalError, TypeOK
  <2>2. fin' \in Drafts
    BY Finishing DEF StoreFinish, CloseSession, Rest, TypeOK, Drafts
  <2>3. row' \in [Jobs -> Rows] /\ touched' \subseteq Jobs \X Jobs
    BY FinishStoreEffect DEF StoreFinish, JournalError, TypeOK, Hand, InHand, Doing
  <2>4. /\ acState' \in [Jobs -> AcStates] /\ gen' \in [Jobs -> Nat] /\ acAtt' \in [Jobs -> Nat]
        /\ acFin' \in [Jobs -> Finishes \cup {NoFinish}]
        /\ acRev' \in Jobs \cup {Base} /\ prevRev' \in [Jobs -> Jobs \cup {Base}]
        /\ confOf' \in [Jobs \cup {Base} -> Jobs \cup {Base}]
        /\ created' \subseteq Jobs \X Jobs /\ peerFailed' \in SUBSET Jobs
    BY DEF StoreFinish, TypeOK
  <2>5. /\ pc' \in PCs /\ cur' \in Jobs \cup {0} /\ att' \in Nat
        /\ prev' \in Configs \cup {NoPrev, EmptyPrev}
    BY DEF StoreFinish, CloseSession, Rest, TypeOK, PCs
  <2>6. /\ nextFin' \in Nat /\ session' \in BOOLEAN
        /\ live' \in Configs /\ execs' \in [Jobs -> Nat] /\ lastMut' \in Jobs \cup {0}
    BY DEF StoreFinish, CloseSession, TypeOK
  <2> QED BY <2>1, <2>2, <2>3, <2>4, <2>5, <2>6 DEF TypeOK, Drafts
<1>2. Ledger'
  BY JobsAssumption, Finishing, FinishStoreEffect
  DEF StoreFinish, JournalError, Ledger, Hand, InHand, Doing, TypeOK, JobsAssumption
<1>3. Once'
  BY DEF StoreFinish, Once
<1>4. Hand'
  BY FinishStoreEffect
  DEF StoreFinish, Matches, CloseSession, Rest, Hand, Terminal, InHand, Doing, Reporting
<1>5. Refs'
  BY FinishStoreEffect DEF StoreFinish, JournalError, CloseSession, Rest, Refs, Hand, InHand, Doing
<1> QED BY <1>1, <1>2, <1>3, <1>4, <1>5

\* Start: nothing is in hand.
LEMMA StartPreserves ==
  ASSUME Inv, Start
  PROVE  Inv'
<1> USE DEF Inv, acVars, rowVars, localVars, execVars
<1>1. TypeOK'
  BY DEF Start, TypeOK, PCs
<1>2. Ledger'
  BY DEF Start, Ledger
<1>3. Once'
  BY DEF Start, Once
<1>4. Hand'
  BY DEF Start, Hand, InHand, Doing, Reporting
<1>5. Refs'
  BY DEF Start, Refs
<1> QED BY <1>1, <1>2, <1>3, <1>4, <1>5

\* RecoverRestored: the row stays.
LEMMA RecoverRestoredPreserves ==
  ASSUME Inv, RecoverRestored
  PROVE  Inv'
<1> USE DEF Inv, acVars, rowVars, localVars, execVars
<1>1. TypeOK'
  BY DEF RecoverRestored, TypeOK, PCs, Refs
<1>2. Ledger'
  BY DEF RecoverRestored, Ledger
<1>3. Once'
  BY DEF RecoverRestored, Once
<1>4. Hand'
  BY DEF RecoverRestored, Hand, InHand, Doing, Reporting
<1>5. Refs'
  BY DEF RecoverRestored, Refs
<1> QED BY <1>1, <1>2, <1>3, <1>4, <1>5

\* RecoverFails: nothing is in hand.
LEMMA RecoverFailsPreserves ==
  ASSUME Inv, RecoverFails
  PROVE  Inv'
<1> USE DEF Inv, acVars, rowVars, localVars, execVars
<1>1. TypeOK'
  BY Finishing DEF RecoverFails, Rest, TypeOK, PCs, Refs, Drafts, Configs
<1>2. Ledger'
  BY DEF RecoverFails, Ledger
<1>3. Once'
  BY DEF RecoverFails, Once
<1>4. Hand'
  BY DEF RecoverFails, Rest, Hand, InHand, Doing, Reporting
<1>5. Refs'
  BY DEF RecoverFails, Rest, Refs
<1> QED BY <1>1, <1>2, <1>3, <1>4, <1>5

\* Ack: what is acknowledged is what the controller has, or its action expired.
LEMMA AckPreserves ==
  ASSUME Inv, Ack
  PROVE  Inv'
<1> USE DEF Inv
<1>1. /\ pc \in {"ack", "replayack"} /\ cur \in Jobs
      /\ acFin[cur] = fin \/ acState[cur] = "expired"
      /\ UNCHANGED <<acVars, nextFin, execVars>>
  BY DEF Ack, Hand, InHand, Reporting
<1>2. budget' \in [FaultKinds -> Nat]
  BY Spent DEF Ack, NoFault, JournalError, TypeOK
<1>3. /\ pc' \in {"ready", "offline"} /\ session' \in BOOLEAN
      /\ cur' = 0 /\ att' = 0 /\ prev' = NoPrev /\ fin' = NoFinish
  BY DEF Ack, CloseSession, Rest, TypeOK
<1>4. FinishAck(cur, att, fin) \/ UNCHANGED rowVars
  BY DEF Ack, JournalError
<1>5. /\ row' \in [Jobs -> Rows] /\ touched' \subseteq Jobs \X Jobs
      /\ \A k \in Jobs : /\ row'[k].att = row[k].att /\ row'[k].prev = row[k].prev
                         /\ row'[k].fin = row[k].fin /\ row'[k].state = row[k].state
                         /\ row'[k].acked => \/ row[k].acked
                                             \/ k = cur /\ row[k].fin = fin /\ fin # NoFinish
  <2>1. CASE FinishAck(cur, att, fin)
    BY <1>1, <2>1, FinishAckEffect
  <2>2. CASE UNCHANGED rowVars
    BY <2>2 DEF rowVars, TypeOK
  <2> QED BY <1>4, <2>1, <2>2
<1>6. TypeOK'
  BY <1>1, <1>2, <1>3, <1>5, Finishing DEF TypeOK, acVars, execVars, PCs, Drafts
<1>7. Ledger'
  BY <1>1, <1>5 DEF Ledger, acVars
<1>8. Once'
  BY <1>1 DEF Once, acVars, execVars
<1>9. Hand'
  BY <1>3 DEF Hand, InHand, Doing, Reporting
<1>10. Refs'
  BY <1>3, <1>5 DEF Refs
<1> QED BY <1>6, <1>7, <1>8, <1>9, <1>10

\* Replay: a finish that is sent again is that of the row.
LEMMA ReplayPreserves ==
  ASSUME Inv, Replay
  PROVE  Inv'
<1> USE DEF Inv
<1>1. /\ row' = row /\ touched' \subseteq Jobs \X Jobs /\ UNCHANGED <<acVars, nextFin, execVars>>
      /\ \/ pc' = "ready" /\ UNCHANGED <<localVars, session, budget>>
         \/ /\ cur' \in Jobs /\ row[cur'].fin # NoFinish /\ att' = row[cur'].att /\ fin' = row[cur'].fin
            /\ pc' = "replaysend" /\ UNCHANGED <<prev, session, budget>>
         \/ JournalError /\ CloseSession
  BY DEF Replay, First, Unacked, Write, Touch, TypeOK, JournalError, rowVars
<1>2. budget' \in [FaultKinds -> Nat]
  BY <1>1, Spent DEF JournalError, TypeOK
<1>3. /\ pc' \in {"ready", "replaysend", "offline"} /\ session' \in BOOLEAN
      /\ prev' = prev \/ prev' = NoPrev
  BY <1>1 DEF CloseSession, Rest, localVars, TypeOK
<1>4. pc' = "replaysend" => /\ cur' \in Jobs /\ row[cur'].fin # NoFinish
                            /\ att' = row[cur'].att /\ fin' = row[cur'].fin
  BY <1>1 DEF CloseSession, Rest
<1>5. pc' # "replaysend" => cur' \in {cur, 0} /\ att' \in {att, 0} /\ fin' \in {fin, NoFinish}
  BY <1>1 DEF CloseSession, Rest, localVars
<1>6. cur' \in Jobs \cup {0} /\ att' \in Nat /\ fin' \in Drafts
  <2>1. CASE pc' = "replaysend"
    <3>1. row[cur'] \in Rows
      BY <1>4, <2>1 DEF TypeOK
    <3> QED BY <1>4, <2>1, <3>1, Finishing DEF Rows
  <2>2. CASE pc' # "replaysend"
    BY <1>5, <2>2, Finishing DEF TypeOK, Drafts
  <2> QED BY <2>1, <2>2
<1>7. TypeOK'
  BY <1>1, <1>2, <1>3, <1>6 DEF TypeOK, acVars, execVars, PCs, Drafts
<1>8. Ledger'
  BY <1>1 DEF Ledger, acVars
<1>9. Once'
  BY <1>1 DEF Once, acVars, execVars
<1>10. Hand'
  <2>1. CASE pc' = "replaysend"
    <3>1. row[cur'] \in Rows /\ row[cur'].state \in Terminal
      BY <1>4, <2>1 DEF TypeOK, Ledger
    <3>2. fin' \in Finishes
      BY <1>4, <2>1, <3>1 DEF Rows
    <3> QED BY <1>1, <1>4, <2>1, <3>1, <3>2 DEF Hand, InHand, Doing, Reporting, Terminal
  <2>2. CASE pc' # "replaysend"
    BY <1>3, <2>2 DEF Hand, InHand, Doing, Reporting
  <2> QED BY <2>1, <2>2
<1>11. Refs'
  BY <1>1, <1>3 DEF Refs
<1> QED BY <1>7, <1>8, <1>9, <1>10, <1>11

\* SendFinish: the finish recorded for an attempt is that of the row.
LEMMA SendFinishPreserves ==
  ASSUME Inv, SendFinish
  PROVE  Inv'
<1> USE DEF Inv
<1>1. /\ pc \in {"send", "replaysend"} /\ cur \in Jobs /\ fin \in Finishes /\ Finish(cur, att, fin)
      /\ row[cur].att = att => row[cur].fin = fin
      /\ UNCHANGED <<rowVars, nextFin, execVars>>
  BY DEF SendFinish, Hand, InHand, Reporting
<1>2. budget' \in [FaultKinds -> Nat]
  BY Spent DEF SendFinish, Answered, AnswerLost, NoFault, TypeOK
<1>3. \/ FinishOk(cur, att, fin) /\ pc' \in {"ack", "replayack"} /\ UNCHANGED <<session, localVars>>
      \/ CloseSession
  <2>1. CASE FinishOk(cur, att, fin) /\ Answered(IF pc = "send" THEN "ack" ELSE "replayack")
    BY <2>1, ZenonT(20) DEF Answered
  <2>2. CASE CloseSession
    BY <2>2
  <2>3. AnswerLost => CloseSession
    BY DEF AnswerLost
  <2>4. \/ FinishOk(cur, att, fin) /\ Answered(IF pc = "send" THEN "ack" ELSE "replayack")
        \/ CloseSession \/ AnswerLost
    BY ZenonT(20) DEF SendFinish
  <2> QED BY <2>1, <2>2, <2>3, <2>4
<1>4. /\ acState' \in [Jobs -> AcStates] /\ created' \subseteq Jobs \X Jobs
      /\ acFin' \in [Jobs -> Finishes \cup {NoFinish}] /\ acRev' \in Jobs \cup {Base}
      /\ confOf' \in [Jobs \cup {Base} -> Jobs \cup {Base}]
      /\ UNCHANGED <<gen, acAtt, prevRev, peerFailed>>
      /\ \/ /\ acFin[cur] = NoFinish /\ acState[cur] \in {"leased", "running"} /\ acAtt[cur] = att
            /\ acFin' = [acFin EXCEPT ![cur] = fin]
            /\ acState'[cur] = TerminalFor(cur, fin)
            /\ \A k \in Jobs \ {cur} : \/ acState'[k] = acState[k]
                                       \/ acState[k] = "queued" /\ acState'[k] = "cancelled"
                                       \/ acState[k] = "absent" /\ acState'[k] = "queued"
         \/ UNCHANGED acVars
  BY <1>1, FinishEffect
<1>5. TerminalFor(cur, fin) \in Outcomes
  BY <1>1, OutcomeOf
<1>6. TypeOK'
  <2>1. /\ pc' \in PCs /\ cur' \in Jobs \cup {0} /\ att' \in Nat /\ session' \in BOOLEAN
        /\ prev' \in Configs \cup {NoPrev, EmptyPrev} /\ fin' \in Drafts
    <3>1. CASE CloseSession
      BY <3>1, Finishing DEF CloseSession, Rest, TypeOK, PCs
    <3>2. CASE pc' \in {"ack", "replayack"} /\ UNCHANGED <<session, localVars>>
      BY <3>2 DEF localVars, TypeOK, PCs, Drafts
    <3> QED BY <1>3, <3>1, <3>2
  <2> QED BY <1>1, <1>2, <1>4, <2>1 DEF TypeOK, rowVars, execVars, Drafts
<1>7. Ledger'
  <2>1. CASE UNCHANGED acVars
    BY <1>1, <2>1 DEF Ledger, rowVars, acVars
  <2>2. CASE ~UNCHANGED acVars
    <3>1. /\ acAtt[cur] = att /\ acFin[cur] = NoFinish /\ acFin' = [acFin EXCEPT ![cur] = fin]
          /\ acState'[cur] \in Outcomes /\ acState[cur] # "expired"
          /\ \A k \in Jobs \ {cur} : \/ acState'[k] = acState[k]
                                     \/ acState[k] \in {"queued", "absent"} /\ acState'[k] # "expired"
      BY <1>4, <1>5, <2>2
    <3>2. ~row[cur].acked
      BY <1>1, <3>1 DEF Ledger
    <3> QED BY <1>1, <1>4, <3>1, <3>2 DEF Ledger, rowVars, TypeOK, Outcomes
  <2> QED BY <2>1, <2>2
<1>8. Once'
  BY <1>1, <1>4, <1>5 DEF Once, execVars, acVars, Begun, Outcomes
<1>9. Hand'
  <2>1. CASE CloseSession
    BY <2>1 DEF CloseSession, Rest, Hand, InHand, Doing, Reporting
  <2>2. CASE FinishOk(cur, att, fin) /\ pc' \in {"ack", "replayack"} /\ UNCHANGED <<session, localVars>>
    <3>1. acFin'[cur] = fin \/ acState'[cur] = "expired"
      <4>1. CASE FinishRecords(cur, att, fin)
        BY <1>1, <4>1 DEF Finish, TypeOK
      <4>2. CASE ~FinishRecords(cur, att, fin)
        BY <1>1, <2>2, <4>2 DEF Finish, FinishOk, FinishRepeats, acVars
      <4> QED BY <4>1, <4>2
    <3> QED BY <1>1, <2>2, <3>1 DEF Hand, InHand, Doing, Reporting, localVars
  <2> QED BY <1>3, <2>1, <2>2
<1>10. Refs'
  BY <1>1, <1>3 DEF Refs, rowVars, CloseSession, Rest
<1> QED BY <1>6, <1>7, <1>8, <1>9, <1>10

\* A row of the recovery that is finished, or not touched.
LEMMA RecoveredRow ==
  ASSUME Inv, NEW j \in Jobs, NEW a,
         UNCHANGED rowVars \/ \E f \in Finishes : FinishStore(j, a, f),
         UNCHANGED <<acVars, execs>>
  PROVE  /\ row' \in [Jobs -> Rows] /\ touched' \subseteq Jobs \X Jobs
         /\ Ledger' /\ Once'
         /\ \A k \in Jobs : row'[k].prev = row[k].prev
<1> USE DEF Inv
<1>1. Once'
  BY DEF Once, acVars
<1>2. CASE UNCHANGED rowVars
  BY <1>1, <1>2 DEF rowVars, acVars, Ledger, TypeOK
<1>3. CASE \E f \in Finishes : FinishStore(j, a, f)
  <2>1. PICK f \in Finishes : FinishStore(j, a, f)
    BY <1>3
  <2>2. Ledger'
    BY <2>1, RowFinished DEF acVars
  <2>3. /\ row' \in [Jobs -> Rows] /\ touched' \subseteq Jobs \X Jobs
        /\ \A k \in Jobs : row'[k].prev = row[k].prev
    BY <2>1, FinishStoreEffect
  <2> QED BY <1>1, <2>2, <2>3
<1> QED BY <1>2, <1>3

\* Recover: it goes on with the next row, rests, or starts to roll back.
LEMMA RecoverPreserves ==
  ASSUME Inv, Recover
  PROVE  Inv'
<1> USE DEF Inv
<1>1. pc = "recover" /\ UNCHANGED <<acVars, session>>
  BY DEF Recover
<1>2. \/ Rest("offline") /\ UNCHANGED <<rowVars, nextFin, execVars, budget>>
      \/ \E j \in Jobs : row[j].state \in Open /\ RecoverRow(j)
  BY DEF Recover, First, Unfinished
<1>3. CASE Rest("offline") /\ UNCHANGED <<rowVars, nextFin, execVars, budget>>
  <2>1. TypeOK'
    BY <1>1, <1>3, Finishing DEF TypeOK, acVars, rowVars, execVars, Rest, PCs, Drafts
  <2>2. Ledger' /\ Once'
    BY <1>1, <1>3 DEF Ledger, Once, acVars, rowVars, execVars
  <2>3. Hand' /\ Refs'
    BY <1>3 DEF Rest, Hand, Refs, InHand, Doing, Reporting, rowVars
  <2> QED BY <2>1, <2>2, <2>3
<1>4. CASE \E j \in Jobs : row[j].state \in Open /\ RecoverRow(j)
  <2>1. PICK j \in Jobs : row[j].state \in Open /\ RecoverRow(j)
    BY <1>4
  <2>2. /\ \/ UNCHANGED rowVars
           \/ \E f \in Finishes : FinishStore(j, row[j].att, f)
        /\ nextFin' \in Nat /\ budget' \in [FaultKinds -> Nat]
        /\ \/ UNCHANGED <<pc, localVars>> /\ UNCHANGED execVars
           \/ Rest("off") /\ UNCHANGED execVars
           \/ /\ pc' = "recroll" /\ cur' = j /\ att' = row[j].att /\ fin' = fin
              /\ prev' = row[j].prev /\ prev' \in Configs
              /\ live' = Mixed /\ lastMut' = j /\ execs' = execs
    BY <2>1, RecoverRowEffect
  <2>3. /\ row' \in [Jobs -> Rows] /\ touched' \subseteq Jobs \X Jobs
        /\ Ledger' /\ Once'
        /\ \A k \in Jobs : row'[k].prev = row[k].prev
    BY <1>1, <2>2, RecoveredRow DEF execVars
  <2>4. row[j].att \in Nat
    BY DEF TypeOK, Rows
  <2>5. /\ pc' \in {"recover", "off", "recroll"} /\ cur' \in Jobs \cup {0} /\ att' \in Nat
        /\ prev' \in Configs \cup {NoPrev, EmptyPrev} /\ fin' \in Drafts
        /\ live' \in Configs /\ lastMut' \in Jobs \cup {0} /\ execs' = execs
        /\ pc' = "recroll" => cur' \in Jobs /\ prev' \in Configs
    <3>1. CASE UNCHANGED <<pc, localVars>> /\ UNCHANGED execVars
      BY <1>1, <3>1 DEF localVars, execVars, TypeOK, Drafts
    <3>2. CASE Rest("off") /\ UNCHANGED execVars
      BY <3>2, Finishing DEF Rest, execVars, TypeOK
    <3>3. CASE /\ pc' = "recroll" /\ cur' = j /\ att' = row[j].att /\ fin' = fin
               /\ prev' = row[j].prev /\ prev' \in Configs
               /\ live' = Mixed /\ lastMut' = j /\ execs' = execs
      BY <2>4, <3>3 DEF TypeOK, Configs, Drafts
    <3> QED BY <2>2, <3>1, <3>2, <3>3
  <2>6. TypeOK'
    BY <1>1, <2>2, <2>3, <2>5 DEF TypeOK, acVars, PCs, Drafts
  <2>7. Hand' /\ Refs'
    BY <2>3, <2>5 DEF Hand, Refs, InHand, Doing, Reporting
  <2> QED BY <2>3, <2>6, <2>7
<1> QED BY <1>2, <1>3, <1>4

\* RecoverFinish: the row is finished, or the process ends.
LEMMA RecoverFinishPreserves ==
  ASSUME Inv, RecoverFinish
  PROVE  Inv'
<1> USE DEF Inv
<1>1. /\ pc = "recfin" /\ cur \in Jobs /\ UNCHANGED <<acVars, session, execVars>>
      /\ Rest("recover") \/ Rest("off")
  BY DEF RecoverFinish, Hand, InHand
<1>2. budget' \in [FaultKinds -> Nat] /\ nextFin' \in Nat
  BY Spent DEF RecoverFinish, JournalError, NoFault, TypeOK
<1>3. UNCHANGED rowVars \/ \E f \in Finishes : FinishStore(cur, att, f)
  <2> DEFINE f == [id |-> nextFin + 1, out |-> "rolled_back", err |-> "rolled_back", rb |-> FALSE]
  <2>1. f \in Finishes
    BY DEF Finishes, Outcomes, Errors, TypeOK
  <2> QED BY <2>1 DEF RecoverFinish, JournalError
<1>4. /\ row' \in [Jobs -> Rows] /\ touched' \subseteq Jobs \X Jobs
      /\ Ledger' /\ Once'
      /\ \A k \in Jobs : row'[k].prev = row[k].prev
  BY <1>1, <1>3, RecoveredRow DEF execVars
<1>5. TypeOK'
  BY <1>1, <1>2, <1>4, Finishing DEF TypeOK, acVars, execVars, Rest, PCs, Drafts
<1>6. Hand' /\ Refs'
  BY <1>1, <1>4 DEF Rest, Hand, Refs, InHand, Doing, Reporting
<1> QED BY <1>4, <1>5, <1>6

-----------------------------------------------------------------------------
(* Theorems *)

\* The first state.
LEMMA InitInv == Init => Inv
<1> SUFFICES ASSUME Init PROVE Inv
  OBVIOUS
<1>1. TypeOK
  BY JobsAssumption, Finishing
  DEF Init, TypeOK, JobsAssumption, AcStates, Configs, PCs, Drafts, NoRow, Rows
<1>2. Ledger /\ Once /\ Hand /\ Refs
  BY DEF Init, Ledger, Once, Hand, Refs, NoRow, Terminal, InHand, Doing, Reporting
<1> QED BY <1>1, <1>2 DEF Inv

\* Every step preserves the invariant.
LEMMA InvStep ==
  ASSUME Inv, [Next]_vars
  PROVE  Inv'
<1>1. CASE UNCHANGED vars
  BY <1>1 DEF vars, acVars, rowVars, localVars, execVars, Inv, TypeOK, Ledger, Once, Hand, Refs
<1>2. CASE \E j \in Jobs : AcCreate(j) \/ AcPeerFails(j) \/ AcExpireAction(j)
  BY <1>2, CreatePreserves, PeerFailsPreserves, ExpireActionPreserves
<1>3. CASE AcRestart \/ Drop \/ Crash \/ Connect \/ Start
  BY <1>3, RestartPreserves, DropPreserves, CrashPreserves, ConnectPreserves, StartPreserves
<1>4. CASE Exchange
  BY <1>4, ReplayPreserves, SendFinishPreserves, AckPreserves, RequestFailsPreserves,
     PollPreserves, OfferPreserves, MarkStagedPreserves, AcceptPreserves DEF Exchange
<1>5. CASE Execute
  BY <1>5, PreparePreserves, MarkApplyingPreserves, ApplyBeginPreserves, ApplyEndPreserves,
     MarkAppliedPreserves, ReadbackPreserves, RestoreBeginPreserves, RestoreEndPreserves,
     StoreFinishPreserves DEF Execute
<1>6. CASE Recovery
  BY <1>6, RecoverPreserves, RecoverRestoredPreserves, RecoverFailsPreserves,
     RecoverFinishPreserves DEF Recovery
<1> QED BY <1>1, <1>2, <1>3, <1>4, <1>5, <1>6 DEF Next, Agent

\* The invariant holds in every reachable state (ac_db.c, apd_config_job_journal.c).
THEOREM Inductive == Spec => []Inv
<1> QED BY InitInv, InvStep, PTL DEF Spec

\* The types of the two journals, of the messages and of the agent's variables.
THEOREM TypeCorrect == Spec => []TypeOK
<1>1. Inv => TypeOK
  BY DEF Inv
<1> QED BY <1>1, Inductive, PTL

\* Whatever is lost, repeated or requeued, the controller and the agent do not
\* disagree about the outcome of an attempt (ac_db_config_job_finish and
\* apd_config_job_finish_store).
THEOREM JournalsAgree == Spec => []FinishAgrees
<1>1. Inv => FinishAgrees
  BY DEF Inv, Ledger, FinishAgrees
<1> QED BY <1>1, Inductive, PTL

\* However often a job is leased, offered, interrupted or recovered, it is carried
\* out once at most (apd_config_wire_step, apd_config_jobs_restart_recover).
THEOREM CarriedOutOnce == Spec => []ExecutedAtMostOnce
<1>1. Inv => ExecutedAtMostOnce
  BY DEF Inv, Once, ExecutedAtMostOnce
<1> QED BY <1>1, Inductive, PTL

-----------------------------------------------------------------------------
(* As long as no lease is requeued and no reference is refused *)

\* No lease runs out while its job is open, and no reference is too long.
Orderly == budget["requeue"] = 0 /\ budget["oversize"] = 0

\* A job is leased once, so that its row is that of its attempt; one at a time.
Single ==
  /\ \A j \in Jobs :
       /\ acState[j] \in {"absent", "queued", "cancelled"} => gen[j] = 0
       /\ gen[j] <= 1
       /\ row[j].state # "none" => row[j].att = 1
       /\ row[j].state \in {"applying", "applied"} => acState[j] = "running"
  /\ \A j, k \in Jobs : acState[j] \in {"leased", "running"} /\ acState[k] \in {"leased", "running"}
                          => j = k

\* The row of the job in hand.
Placed ==
  /\ pc \in InHand => att = 1
  /\ pc = "offer" => row[cur].state = "none"
  /\ pc = "stage" => row[cur].state = "offered"
  /\ pc \in {"accept", "execute", "markapplying"} => row[cur].state = "staged"
  /\ pc \in {"apply", "applying", "markapplied"} =>
       row[cur].state = "applying" /\ row[cur].prev = prev
  /\ pc \in {"readback", "restore", "restoring", "recroll", "recfin"} =>
       row[cur].state \in {"applying", "applied"} /\ row[cur].prev = prev
  /\ pc \in {"applying", "markapplied", "readback"} /\ Kind[cur] # "action" => lastMut = cur
  /\ pc \in {"restoring", "recroll", "recfin"} => lastMut = cur
  /\ pc = "recfin" => live = prev

\* A failed rollback is on record.
Known == \E j \in Jobs : row[j].fin.err = "rollback"

\* What is said of the last job that wrote the configuration.
Says(out) == /\ out = "applied" => live = lastMut
             /\ out = "rolled_back" => live = row[lastMut].prev

Written ==
  /\ \A j \in Jobs : row[j].prev = Mixed => Known
  /\ pc = "markapplying" /\ prev = Mixed => Known
  /\ \A j \in Jobs : acState[j] \in {"applied", "rolled_back"} => row[j].fin.out = acState[j]
  /\ lastMut # 0 => /\ Kind[lastMut] # "action"
                    /\ row[lastMut].state \notin {"none", "offered", "staged"}
                    /\ Says(row[lastMut].fin.out)
  /\ live = Mixed => lastMut # 0 /\ (row[lastMut].state \in {"applying", "applied"} \/ Known)
  /\ pc = "finish" /\ lastMut = cur =>
       /\ Says(fin.out)
       /\ live = Mixed => fin.err = "rollback" \/ Known

QInv == Inv /\ Orderly /\ Single /\ Placed /\ Written

\* Nothing refills a budget, so that these faults never come.
LEMMA Untouched ==
  ASSUME Orderly, NEW k, Spend(k)
  PROVE  Orderly' /\ k \notin {"requeue", "oversize"}
<1>1. k \notin {"requeue", "oversize"}
  BY DEF Spend, Orderly
<1>2. budget' = [budget EXCEPT ![k] = @ - 1]
  BY DEF Spend
<1> QED BY <1>1, <1>2 DEF Orderly

\* Every step spends one fault or none.
LEMMA OrderlyStep ==
  ASSUME Orderly, [Next]_vars
  PROVE  Orderly'
<1>1. UNCHANGED budget \/ \E k \in FaultKinds : Spend(k)
  BY
  DEF Next, vars, Agent, Exchange, Execute, Recovery, NoFault, JournalError, Answered, AnswerLost,
      FaultKinds,
    AcCreate, AcPeerFails, AcExpireAction, AcRestart, Drop, Crash, Connect, Start, Replay, SendFinish, Ack, RequestFails,
    Poll, Offer, MarkStaged, Accept, Prepare, MarkApplying, ApplyBegin, ApplyEnd, MarkApplied, Readback, RestoreBegin,
    RestoreEnd, StoreFinish, Recover, RecoverRow, RecoverRestored, RecoverFails, RecoverFinish
<1> QED BY <1>1, Untouched DEF Orderly

\* A row that starts to be applied holds the reference.
LEMMA MovedOn ==
  ASSUME TypeOK, cur \in Jobs, Matches(cur, att), row[cur].state = "staged",
         prev \in Configs \cup {NoPrev, EmptyPrev}, prev # NoPrev,
         Transition(cur, att, "staged", "applying", prev)
  PROVE  /\ \A k \in Jobs \ {cur} : row'[k] = row[k]
         /\ row'[cur].att = row[cur].att /\ row'[cur].fin = row[cur].fin
         /\ row'[cur].state = "applying" /\ row'[cur].prev = prev
<1>1. "applying" \in Open
  BY DEF Open
<1>2. Transitions(cur, att, "staged")
  BY DEF Transitions
<1>3. row' = [row EXCEPT ![cur] = [row[cur] EXCEPT !.state = "applying", !.prev = prev]]
  BY <1>2 DEF Transition, Write
<1> QED BY <1>3 DEF TypeOK, Rows

\* Create: a new job was never leased.
LEMMA CreateKeeps ==
  ASSUME QInv, NEW j \in Jobs, AcCreate(j)
  PROVE  Single' /\ Placed' /\ Written'
<1> USE DEF QInv, Inv, acVars, rowVars, localVars, execVars
<1>1. Single'
  BY DEF AcCreate, Single
<1>2. Placed'
  BY DEF AcCreate, Placed
<1>3. Written'
  BY DEF AcCreate, Written, Known, Says
<1> QED BY <1>1, <1>2, <1>3

\* PeerFails: only jobs that were never leased change.
LEMMA PeerFailsKeeps ==
  ASSUME QInv, NEW j \in Jobs, AcPeerFails(j)
  PROVE  Single' /\ Placed' /\ Written'
<1> USE DEF QInv, Inv, acVars, rowVars, localVars, execVars
<1>1. \A k \in Jobs : \/ acState'[k] = acState[k]
                      \/ acState[k] = "queued" /\ acState'[k] = "cancelled"
                      \/ acState[k] = "absent" /\ acState'[k] = "queued"
  BY RefreshEffect DEF AcPeerFails, TypeOK
<1>2. Single'
  BY <1>1 DEF AcPeerFails, Single
<1>3. Placed'
  BY DEF AcPeerFails, Placed
<1>4. Written'
  BY <1>1 DEF AcPeerFails, Written, Known, Says
<1> QED BY <1>2, <1>3, <1>4

\* ExpireAction: the job was not carried out.
LEMMA ExpireActionKeeps ==
  ASSUME QInv, NEW j \in Jobs, AcExpireAction(j)
  PROVE  Single' /\ Placed' /\ Written'
<1> USE DEF QInv, Inv, acVars, rowVars, localVars, execVars
<1>1. Single'
  BY DEF AcExpireAction, Single
<1>2. Placed'
  BY DEF AcExpireAction, Placed
<1>3. Written'
  BY DEF AcExpireAction, Written, Known, Says
<1> QED BY <1>1, <1>2, <1>3

\* Restart: the budget has no requeue left.
LEMMA RestartKeeps ==
  ASSUME QInv, AcRestart
  PROVE  Single' /\ Placed' /\ Written'
<1> USE DEF QInv, Inv, acVars, rowVars, localVars, execVars
<1>1. Single'
  BY Untouched DEF AcRestart
<1>2. Placed'
  BY DEF AcRestart, Placed
<1>3. Written'
  BY DEF AcRestart, Written, Known, Says
<1> QED BY <1>1, <1>2, <1>3

\* Drop: nothing but the session.
LEMMA DropKeeps ==
  ASSUME QInv, Drop
  PROVE  Single' /\ Placed' /\ Written'
<1> USE DEF QInv, Inv, acVars, rowVars, localVars, execVars
<1>1. Single'
  BY DEF Drop, Single
<1>2. Placed'
  BY DEF Drop, Placed
<1>3. Written'
  BY DEF Drop, Written, Known, Says
<1> QED BY <1>1, <1>2, <1>3

\* Crash: the rows and the configuration stay.
LEMMA CrashKeeps ==
  ASSUME QInv, Crash
  PROVE  Single' /\ Placed' /\ Written'
<1> USE DEF QInv, Inv, acVars, rowVars, localVars, execVars
<1>1. Single'
  BY DEF Crash, Single
<1>2. Placed'
  BY DEF Crash, Rest, Placed, InHand, Doing, Reporting
<1>3. Written'
  BY DEF Crash, Rest, Written, Known, Says
<1> QED BY <1>1, <1>2, <1>3

\* Connect: nothing is in hand.
LEMMA ConnectKeeps ==
  ASSUME QInv, Connect
  PROVE  Single' /\ Placed' /\ Written'
<1> USE DEF QInv, Inv, acVars, rowVars, localVars, execVars
<1>1. Single'
  BY DEF Connect, Single
<1>2. Placed'
  BY DEF Connect, Placed, InHand, Doing, Reporting
<1>3. Written'
  BY DEF Connect, Written, Known, Says
<1> QED BY <1>1, <1>2, <1>3

\* Start: nothing is in hand.
LEMMA StartKeeps ==
  ASSUME QInv, Start
  PROVE  Single' /\ Placed' /\ Written'
<1> USE DEF QInv, Inv, acVars, rowVars, localVars, execVars
<1>1. Single'
  BY DEF Start, Single
<1>2. Placed'
  BY DEF Start, Placed, InHand, Doing, Reporting
<1>3. Written'
  BY DEF Start, Written, Known, Says
<1> QED BY <1>1, <1>2, <1>3

\* RequestFails: nothing is in hand.
LEMMA RequestFailsKeeps ==
  ASSUME QInv, RequestFails
  PROVE  Single' /\ Placed' /\ Written'
<1> USE DEF QInv, Inv, acVars, rowVars, localVars, execVars
<1>1. Single'
  BY DEF RequestFails, Single
<1>2. Placed'
  BY DEF RequestFails, CloseSession, Rest, Placed, InHand, Doing, Reporting
<1>3. Written'
  BY DEF RequestFails, CloseSession, Rest, Written, Known, Says
<1> QED BY <1>1, <1>2, <1>3

\* Replay: the row has the attempt of its lease.
LEMMA ReplayKeeps ==
  ASSUME QInv, Replay
  PROVE  Single' /\ Placed' /\ Written'
<1> USE DEF QInv, Inv, acVars, rowVars, localVars, execVars
<1>1. /\ row' = row /\ UNCHANGED <<acVars, nextFin, execVars>>
      /\ \/ pc' = "ready" /\ UNCHANGED localVars
         \/ /\ cur' \in Jobs /\ row[cur'].fin # NoFinish /\ att' = row[cur'].att
            /\ pc' = "replaysend" /\ UNCHANGED prev
         \/ pc' = "offline"
  BY DEF Replay, First, Unacked, Write, TypeOK, JournalError, CloseSession, Rest
<1>2. Single'
  BY <1>1 DEF Single
<1>3. Placed'
  BY <1>1 DEF Placed, Single, Ledger, InHand, Doing, Reporting, Terminal
<1>4. Written'
  BY <1>1 DEF Written, Known, Says
<1> QED BY <1>2, <1>3, <1>4

\* Ack: the row keeps its finish.
LEMMA AckKeeps ==
  ASSUME QInv, Ack
  PROVE  Single' /\ Placed' /\ Written'
<1> USE DEF QInv, Inv, acVars, rowVars, localVars, execVars
<1>1. /\ pc' \in {"ready", "offline"} /\ UNCHANGED <<acVars, execVars>>
      /\ \A k \in Jobs : /\ row'[k].att = row[k].att /\ row'[k].prev = row[k].prev
                         /\ row'[k].fin = row[k].fin /\ row'[k].state = row[k].state
  <2>1. /\ pc' \in {"ready", "offline"} /\ cur \in Jobs /\ UNCHANGED <<acVars, execVars>>
    BY DEF Ack, CloseSession, Rest, Hand, InHand, Reporting
  <2>2. CASE FinishAck(cur, att, fin)
    BY <2>1, <2>2, FinishAckEffect
  <2>3. CASE UNCHANGED rowVars
    BY <2>1, <2>3
  <2> QED BY <2>2, <2>3 DEF Ack, JournalError
<1>2. Single'
  BY <1>1 DEF Single
<1>3. Placed'
  BY <1>1 DEF Placed, InHand, Doing, Reporting
<1>4. Written'
  <2>1. Known' <=> Known
    BY <1>1 DEF Known
  <2>2. lastMut # 0 => lastMut \in Jobs
    BY DEF TypeOK
  <2>3. Says(row[lastMut].fin.out) /\ lastMut # 0 => Says(row[lastMut].fin.out)'
    BY <1>1, <2>2 DEF Says
  <2> QED BY <1>1, <2>1, <2>2, <2>3 DEF Written
<1> QED BY <1>2, <1>3, <1>4

\* SendFinish: the state recorded is the outcome of the row, or failed.
LEMMA SendFinishKeeps ==
  ASSUME QInv, SendFinish
  PROVE  Single' /\ Placed' /\ Written'
<1> USE DEF QInv, Inv, acVars, rowVars, localVars, execVars
<1>1. /\ cur \in Jobs /\ row[cur].state # "none" /\ fin \in Finishes /\ row[cur].fin = fin
      /\ Finish(cur, att, fin) /\ UNCHANGED <<rowVars, execVars>>
  BY DEF SendFinish, Hand, InHand, Reporting, Placed, Single
<1>2. /\ UNCHANGED gen
      /\ \/ /\ acState[cur] \in {"leased", "running"} /\ acState'[cur] = TerminalFor(cur, fin)
            /\ \A k \in Jobs \ {cur} : \/ acState'[k] = acState[k]
                                       \/ acState[k] = "queued" /\ acState'[k] = "cancelled"
                                       \/ acState[k] = "absent" /\ acState'[k] = "queued"
         \/ UNCHANGED acVars
  BY <1>1, FinishEffect
<1>3. TerminalFor(cur, fin) \in {fin.out, "failed"} /\ TerminalFor(cur, fin) \in Outcomes
  BY <1>1, OutcomeOf
<1>4. \/ pc' \in {"ack", "replayack"} /\ UNCHANGED localVars
      \/ pc' = "offline"
  <2>1. \/ Answered(IF pc = "send" THEN "ack" ELSE "replayack")
        \/ CloseSession \/ AnswerLost
    BY DEF SendFinish
  <2> QED BY <2>1 DEF Answered, AnswerLost, CloseSession, Rest
<1>5. Single'
  <2>1. CASE UNCHANGED acVars
    BY <1>1, <2>1 DEF Single
  <2>2. CASE ~UNCHANGED acVars
    <3>1. /\ row[cur].state \in Terminal
          /\ acState'[cur] \in Outcomes
          /\ \A k \in Jobs : /\ acState'[k] \in {"absent", "queued", "cancelled"} => acState[k] \in {"absent", "queued", "cancelled"}
                             /\ acState'[k] \in {"leased", "running"} => acState[k] \in {"leased", "running"}
                             /\ acState[k] = "running" /\ k # cur => acState'[k] = "running"
      BY <1>1, <1>2, <1>3, <2>2, Finishing DEF Outcomes, Ledger
    <3> QED BY <1>1, <1>2, <3>1 DEF Single, Terminal
  <2> QED BY <2>1, <2>2
<1>6. Placed'
  <2>1. CASE pc' \in {"ack", "replayack"} /\ UNCHANGED localVars
    BY <2>1 DEF Placed, InHand, Reporting, SendFinish
  <2>2. CASE pc' = "offline"
    BY <2>2 DEF Placed, InHand, Doing, Reporting
  <2> QED BY <1>4, <2>1, <2>2
<1>7. Written'
  BY <1>1, <1>2, <1>3, <1>4 DEF Written, Known, Says
<1> QED BY <1>5, <1>6, <1>7

\* Poll: the job is leased for the first time and has no row.
LEMMA PollKeeps ==
  ASSUME QInv, Poll
  PROVE  Single' /\ Placed' /\ Written'
<1> USE DEF QInv, Inv, acVars, rowVars, localVars, execVars
<1>1. PICK j \in Jobs : /\ acState[j] = "queued" /\ Lease(j) /\ UNCHANGED <<rowVars, execVars>>
                     /\ \A k \in Jobs : acState[k] \notin {"leased", "running"}
                     /\ \/ pc' = "offer" /\ cur' = j /\ att' = gen'[j]
                        \/ pc' = "offline"
  BY DEF Poll, Leasable, First, Queued, AnswerLost, CloseSession, Rest
<1>2. /\ acState'[j] = "leased" /\ gen[j] = 0 /\ gen'[j] = 1 /\ row[j].state = "none"
      /\ \A k \in Jobs \ {j} : acState'[k] = acState[k] /\ gen'[k] = gen[k]
  BY <1>1 DEF Lease, TypeOK, Single, Ledger
<1>3. Single'
  BY <1>1, <1>2 DEF Single
<1>4. Placed'
  BY <1>1, <1>2 DEF Placed, InHand, Doing, Reporting
<1>5. Written'
  BY <1>1, <1>2 DEF Written, Known, Says
<1> QED BY <1>3, <1>4, <1>5

\* Accept: the one leased job is now running.
LEMMA AcceptKeeps ==
  ASSUME QInv, Accept
  PROVE  Single' /\ Placed' /\ Written'
<1> USE DEF QInv, Inv, acVars, rowVars, localVars, execVars
<1>1. /\ cur \in Jobs /\ UNCHANGED gen
      /\ \A k \in Jobs \ {cur} : acState'[k] = acState[k]
      /\ \/ acState[cur] \in {"leased", "running"} /\ acState'[cur] = "running"
         \/ acState'[cur] = acState[cur]
      /\ \/ pc' = "execute" /\ UNCHANGED localVars
         \/ pc' = "offline"
      /\ pc = "accept" /\ UNCHANGED <<rowVars, execVars>>
  BY
  DEF Accept, AcceptOk, MarkRunning, TypeOK, Hand, InHand, Answered, AnswerLost, CloseSession,
      Rest
<1>2. Single'
  <2>1. \A k \in Jobs : acState'[k] # acState[k] => k = cur /\ acState[k] \in {"leased", "running"} /\ acState'[k] = "running"
    BY <1>1
  <2> QED BY <1>1, <2>1 DEF Single
<1>3. Placed'
  BY <1>1 DEF Placed, InHand, Doing, Reporting
<1>4. Written'
  BY <1>1 DEF Written, Known, Says
<1> QED BY <1>2, <1>3, <1>4

\* Offer: the row is new.
LEMMA OfferKeeps ==
  ASSUME QInv, Offer
  PROVE  Single' /\ Placed' /\ Written'
<1> USE DEF QInv, Inv, acVars, rowVars, localVars, execVars
<1>1. /\ pc = "offer" /\ cur \in Jobs /\ att = 1 /\ row[cur].state = "none" /\ UNCHANGED <<acVars, execVars>>
  BY DEF Offer, Hand, InHand, Placed
<1>2. /\ \A k \in Jobs \ {cur} : row'[k] = row[k]
      /\ \/ /\ row'[cur].state = "offered" /\ row'[cur].att = 1 /\ row'[cur].fin = NoFinish
            /\ row'[cur].prev = NoPrev /\ pc' = "stage" /\ UNCHANGED localVars
         \/ row' = row /\ pc' = "offline"
  BY <1>1, OfferEffect DEF Offer, JournalError, CloseSession, Rest
<1>3. Single'
  BY <1>1, <1>2 DEF Single
<1>4. Placed'
  BY <1>1, <1>2 DEF Placed, InHand, Doing, Reporting
<1>5. Written'
  <2>1. lastMut # cur /\ (Known => Known')
    BY <1>1, <1>2, JobsAssumption DEF Written, Known, Ledger, Terminal, JobsAssumption
  <2>2. lastMut # 0 => lastMut \in Jobs /\ row'[lastMut] = row[lastMut]
    BY <1>2, <2>1 DEF TypeOK
  <2>3. row[cur].fin = NoFinish
    BY <1>1 DEF Ledger, Terminal
  <2> QED BY <1>1, <1>2, <2>1, <2>2, <2>3, JobsAssumption DEF Written, Says, NoFinish, JobsAssumption
<1> QED BY <1>3, <1>4, <1>5

\* MarkStaged: the row is staged.
LEMMA MarkStagedKeeps ==
  ASSUME QInv, MarkStaged
  PROVE  Single' /\ Placed' /\ Written'
<1> USE DEF QInv, Inv, acVars, rowVars, localVars, execVars
<1>1. /\ pc = "stage" /\ cur \in Jobs /\ row[cur].state = "offered" /\ Matches(cur, att) /\ UNCHANGED <<acVars, execVars>>
  BY DEF MarkStaged, Hand, InHand, Placed, Single, Matches
<1>2. /\ \A k \in Jobs \ {cur} : row'[k] = row[k]
      /\ row'[cur].att = row[cur].att /\ row'[cur].fin = row[cur].fin /\ row'[cur].prev = row[cur].prev
      /\ \/ row'[cur].state = "staged" /\ pc' = "accept" /\ UNCHANGED localVars
         \/ row' = row /\ pc' = "offline"
  <2>1. CASE Transition(cur, att, "offered", "staged", NoPrev) /\ pc' = "accept" /\ UNCHANGED localVars
    <3>1. "staged" \in Open
      BY DEF Open
    <3> QED BY <1>1, <2>1, <3>1, TransitionEffect
  <2>2. CASE UNCHANGED rowVars /\ CloseSession
    BY <2>2 DEF CloseSession, Rest
  <2> QED BY <2>1, <2>2 DEF MarkStaged, JournalError
<1>3. Single'
  BY <1>1, <1>2 DEF Single
<1>4. Placed'
  BY <1>1, <1>2 DEF Placed, InHand, Doing, Reporting
<1>5. Written'
  <2>1. lastMut # 0 => lastMut # cur /\ lastMut \in Jobs
    BY <1>1, JobsAssumption DEF Written, TypeOK, JobsAssumption
  <2>2. /\ UNCHANGED <<acState, Known>> /\ \A k \in Jobs : row'[k].fin = row[k].fin /\ row'[k].prev = row[k].prev
        /\ lastMut # 0 => row'[lastMut] = row[lastMut]
        /\ pc' \notin {"markapplying", "finish"}
    BY <1>1, <1>2, <2>1 DEF Known
  <2> QED BY <1>1, <2>1, <2>2 DEF Written, Says
<1> QED BY <1>3, <1>4, <1>5

\* Prepare: a half-written reference is known.
LEMMA PrepareKeeps ==
  ASSUME QInv, Prepare
  PROVE  Single' /\ Placed' /\ Written'
<1> USE DEF QInv, Inv, acVars, rowVars, localVars, execVars
<1>1. Single'
  BY DEF Prepare, Single
<1>2. Placed'
  BY DEF Prepare, Report, Placed, InHand, Doing
<1>3. Written'
  <2>1. row' = row /\ UNCHANGED acState /\ UNCHANGED <<live, lastMut>> /\ cur' = cur /\ cur \in Jobs
        /\ row[cur].state = "staged" /\ acState[cur] = "running"
    BY DEF Prepare, Report, Hand, InHand, Doing, Placed
  <2>2. Known' <=> Known
    BY <2>1 DEF Known
  <2>3. lastMut # cur
    BY <2>1, JobsAssumption DEF Written, JobsAssumption
  <2>4. live = Mixed => Known
    BY <2>1 DEF Written, Single, TypeOK
  <2>5. CASE pc' = "markapplying"
    <3>1. prev' = PreviousOf(cur) /\ prev' # NoPrev
      BY <2>5 DEF Prepare, Report
    <3>2. prev' = Mixed => Known
      <4>1. CASE Kind[cur] = "rollback"
        <5>1. SourceOf[cur] \in Jobs
          BY <2>1, <4>1, JobsAssumption DEF JobsAssumption, Compensations
        <5> QED BY <3>1, <4>1, <5>1 DEF PreviousOf, Reference, Written
      <4>2. CASE Kind[cur] = "apply"
        BY <2>4, <3>1, <4>2 DEF PreviousOf
      <4>3. CASE Kind[cur] = "action"
        BY <3>1, <4>3, JobsAssumption DEF PreviousOf, JobsAssumption
      <4> QED BY <2>1, <4>1, <4>2, <4>3, JobsAssumption DEF JobsAssumption
    <3> QED BY <2>1, <2>2, <2>5, <3>2 DEF Written, Says
  <2>6. CASE pc' = "finish"
    BY <2>1, <2>2, <2>3, <2>6 DEF Written, Says
  <2> QED BY <2>5, <2>6 DEF Prepare, Report
<1> QED BY <1>1, <1>2, <1>3

\* MarkApplying: the reference is in the row.
LEMMA MarkApplyingKeeps ==
  ASSUME QInv, MarkApplying
  PROVE  Single' /\ Placed' /\ Written'
<1> USE DEF QInv, Inv, acVars, rowVars, localVars, execVars
<1>1. /\ pc = "markapplying" /\ cur \in Jobs /\ row[cur].state = "staged" /\ Matches(cur, att) /\ prev # NoPrev /\ prev \in Configs \cup {EmptyPrev}
      /\ UNCHANGED <<acVars, execVars>>
  <2>1. /\ pc = "markapplying" /\ cur \in Jobs /\ row[cur].state = "staged" /\ Matches(cur, att)
        /\ UNCHANGED <<acVars, execVars>>
    BY DEF MarkApplying, Hand, InHand, Doing, Placed, Single, Matches
  <2>2. prev \in Configs \cup {EmptyPrev}
    BY <2>1 DEF Refs
  <2> QED BY <2>1, <2>2, JobsAssumption DEF Configs, JobsAssumption
<1>2. /\ \A k \in Jobs \ {cur} : row'[k] = row[k]
      /\ row'[cur].att = row[cur].att /\ row'[cur].fin = row[cur].fin
      /\ \/ /\ row'[cur].state = "applying" /\ row'[cur].prev = prev
            /\ pc' = (IF Kind[cur] = "rollback" THEN "restore" ELSE "apply") /\ UNCHANGED localVars
         \/ row' = row /\ pc' = "finish" /\ UNCHANGED <<cur, att>>
  <2>1. CASE /\ Transition(cur, att, "staged", "applying", prev)
             /\ pc' = (IF Kind[cur] = "rollback" THEN "restore" ELSE "apply") /\ UNCHANGED localVars
    BY <1>1, <2>1, MovedOn
  <2>2. CASE UNCHANGED rowVars /\ pc' = "finish" /\ UNCHANGED <<cur, att>>
    BY <2>2
  <2>3. ~Spend("oversize")
    BY Untouched
  <2> QED BY <2>1, <2>2, <2>3 DEF MarkApplying, JournalError, Report
<1>3. Single'
  BY <1>1, <1>2 DEF Single, Hand, Doing
<1>4. Placed'
  BY <1>1, <1>2 DEF Placed, InHand, Doing
<1>5. Written'
  <2>1. lastMut # 0 => lastMut # cur /\ lastMut \in Jobs
    BY <1>1, JobsAssumption DEF Written, TypeOK, JobsAssumption
  <2>2. /\ UNCHANGED acState /\ \A k \in Jobs : row'[k].fin = row[k].fin
        /\ lastMut # 0 => row'[lastMut] = row[lastMut]
        /\ lastMut' = lastMut /\ live' = live
    BY <1>1, <1>2, <2>1
  <2>3. Known' <=> Known
    BY <2>2 DEF Known
  <2>4. cur' = cur /\ pc' # "markapplying" /\ (pc' = "finish" => lastMut # cur)
    BY <1>1, <1>2, <2>1, JobsAssumption DEF TypeOK, JobsAssumption
  <2>5. \A k \in Jobs : row'[k].prev = Mixed => Known
    BY <1>1, <1>2 DEF Written
  <2> QED BY <1>1, <2>1, <2>2, <2>3, <2>4, <2>5 DEF Written, Says
<1> QED BY <1>3, <1>4, <1>5

\* ApplyBegin: the row is applying.
LEMMA ApplyBeginKeeps ==
  ASSUME QInv, ApplyBegin
  PROVE  Single' /\ Placed' /\ Written'
<1> USE DEF QInv, Inv, acVars, rowVars, localVars, execVars
<1>1. Single'
  BY DEF ApplyBegin, Single
<1>2. Placed'
  BY DEF ApplyBegin, Placed, InHand, Doing
<1>3. Written'
  <2>1. /\ cur \in Jobs /\ row[cur].state = "applying" /\ pc' = "applying"
        /\ UNCHANGED <<acState, row, prev>>
        /\ \/ Kind[cur] = "action" /\ UNCHANGED <<live, lastMut>>
           \/ Kind[cur] # "action" /\ live' = Mixed /\ lastMut' = cur
    BY DEF ApplyBegin, Hand, InHand, Doing, Placed
  <2>2. row[cur].fin.out = "none" /\ cur # 0
    BY <2>1, JobsAssumption DEF Ledger, Terminal, NoFinish, JobsAssumption
  <2>3. CASE UNCHANGED <<live, lastMut>>
    BY <2>1, <2>3 DEF Written, Known, Says
  <2>4. CASE Kind[cur] # "action" /\ live' = Mixed /\ lastMut' = cur
    BY <2>1, <2>2, <2>4 DEF Written, Known, Says
  <2> QED BY <2>1, <2>3, <2>4
<1> QED BY <1>1, <1>2, <1>3

\* ApplyEnd: the row is applying.
LEMMA ApplyEndKeeps ==
  ASSUME QInv, ApplyEnd
  PROVE  Single' /\ Placed' /\ Written'
<1> USE DEF QInv, Inv, acVars, rowVars, localVars, execVars
<1>1. Single'
  BY DEF ApplyEnd, Single
<1>2. Placed'
  BY DEF ApplyEnd, Report, Placed, InHand, Doing
<1>3. Written'
  BY JobsAssumption
  DEF ApplyEnd, Report, Written, Known, Says, Placed, Single, Hand, NoFinish, InHand, Doing,
      TypeOK, JobsAssumption
<1> QED BY <1>1, <1>2, <1>3

\* MarkApplied: the row keeps the reference.
LEMMA MarkAppliedKeeps ==
  ASSUME QInv, MarkApplied
  PROVE  Single' /\ Placed' /\ Written'
<1> USE DEF QInv, Inv, acVars, rowVars, localVars, execVars
<1>1. /\ pc = "markapplied" /\ cur \in Jobs /\ row[cur].state = "applying" /\ Matches(cur, att)
      /\ UNCHANGED <<acVars, execVars>>
  BY DEF MarkApplied, Hand, InHand, Doing, Placed, Single, Matches
<1>2. /\ \A k \in Jobs \ {cur} : row'[k] = row[k]
      /\ row'[cur].att = row[cur].att /\ row'[cur].fin = row[cur].fin /\ row'[cur].prev = row[cur].prev
      /\ row'[cur].state \in {"applying", "applied"}
      /\ \/ Kind[cur] = "apply" /\ pc' \in {"readback", "restore"} /\ UNCHANGED localVars
         \/ Kind[cur] = "action" /\ pc' = "finish" /\ UNCHANGED <<cur, att, prev>>
  <2>1. /\ Transition(cur, att, "applying", "applied", NoPrev) \/ UNCHANGED rowVars
        /\ \/ Kind[cur] = "apply" /\ pc' \in {"readback", "restore"} /\ UNCHANGED localVars
           \/ Kind[cur] = "action" /\ pc' = "finish" /\ UNCHANGED <<cur, att, prev>>
    BY DEF MarkApplied, JournalError, Report
  <2>2. "applied" \in Open
    BY DEF Open
  <2>3. CASE Transition(cur, att, "applying", "applied", NoPrev)
    BY <1>1, <2>1, <2>2, TransitionEffect
  <2>4. CASE UNCHANGED rowVars
    BY <1>1, <2>1, <2>4
  <2> QED BY <2>1, <2>3, <2>4
<1>3. Single'
  BY <1>1, <1>2 DEF Single
<1>4. Placed'
  BY <1>1, <1>2 DEF Placed, InHand, Doing
<1>5. Written'
  <2>1. /\ UNCHANGED <<acState, live, lastMut>> /\ cur' = cur /\ pc' # "markapplying"
        /\ pc' = "finish" => Kind[cur] = "action"
    BY <1>1, <1>2
  <2>2. \A k \in Jobs : /\ row'[k].fin = row[k].fin /\ row'[k].prev = row[k].prev
                        /\ row'[k].state = row[k].state \/ (k = cur /\ row'[k].state \in {"applying", "applied"})
    BY <1>2
  <2>3. Known' <=> Known
    BY <2>2 DEF Known
  <2>4. lastMut # 0 => lastMut \in Jobs /\ Kind[lastMut] # "action"
    BY DEF Written, TypeOK
  <2>5. cur # 0
    BY <1>1, JobsAssumption DEF JobsAssumption
  <2> QED BY <1>1, <2>1, <2>2, <2>3, <2>4, <2>5 DEF Written, Says
<1> QED BY <1>3, <1>4, <1>5

\* Readback: the candidate is in effect.
LEMMA ReadbackKeeps ==
  ASSUME QInv, Readback
  PROVE  Single' /\ Placed' /\ Written'
<1> USE DEF QInv, Inv, acVars, rowVars, localVars, execVars
<1>1. Single'
  BY DEF Readback, Single
<1>2. Placed'
  BY DEF Readback, Report, Placed, InHand, Doing
<1>3. Written'
  BY JobsAssumption
  DEF Readback, ReadsBack, Report, Written, Known, Says, Hand, InHand, Doing, JobsAssumption
<1> QED BY <1>1, <1>2, <1>3

\* RestoreBegin: the row keeps the reference.
LEMMA RestoreBeginKeeps ==
  ASSUME QInv, RestoreBegin
  PROVE  Single' /\ Placed' /\ Written'
<1> USE DEF QInv, Inv, acVars, rowVars, localVars, execVars
<1>1. Single'
  BY DEF RestoreBegin, Single
<1>2. Placed'
  BY DEF RestoreBegin, Placed, InHand, Doing
<1>3. Written'
  <2>1. /\ row' = row /\ UNCHANGED acState /\ live' = Mixed /\ lastMut' = cur /\ cur \in Jobs /\ pc' = "restoring"
        /\ row[cur].state \in {"applying", "applied"} /\ Kind[cur] # "action"
    BY DEF RestoreBegin, Hand, InHand, Doing, Placed, Refs
  <2>2. row[cur].fin.out = "none"
    BY <2>1 DEF Ledger, Terminal, NoFinish
  <2>3. Known' <=> Known
    BY <2>1 DEF Known
  <2> QED BY <2>1, <2>2, <2>3, JobsAssumption DEF Written, Says, JobsAssumption
<1> QED BY <1>1, <1>2, <1>3

\* RestoreEnd: the reference is in effect, or the failure is on record.
LEMMA RestoreEndKeeps ==
  ASSUME QInv, RestoreEnd
  PROVE  Single' /\ Placed' /\ Written'
<1> USE DEF QInv, Inv, acVars, rowVars, localVars, execVars
<1>1. Single'
  BY DEF RestoreEnd, Single
<1>2. Placed'
  BY DEF RestoreEnd, Report, Placed, InHand, Doing
<1>3. Written'
  BY JobsAssumption
  DEF RestoreEnd, Report, Written, Known, Says, Placed, Single, Hand, NoFinish, InHand, Doing,
      TypeOK, JobsAssumption
<1> QED BY <1>1, <1>2, <1>3

\* StoreFinish: the row says what was found.
LEMMA StoreFinishKeeps ==
  ASSUME QInv, StoreFinish
  PROVE  Single' /\ Placed' /\ Written'
<1> USE DEF QInv, Inv, acVars, rowVars, localVars, execVars
<1>1. /\ pc = "finish" /\ cur \in Jobs /\ fin \in Finishes /\ row[cur].fin = NoFinish /\ Matches(cur, att) /\ UNCHANGED <<acVars, execVars>>
  BY DEF StoreFinish, Hand, InHand, Doing, Placed, Single, Matches
<1>2. /\ \A k \in Jobs \ {cur} : row'[k] = row[k]
      /\ row'[cur].att = row[cur].att /\ row'[cur].prev = row[cur].prev
      /\ \/ /\ row'[cur].fin = fin /\ row'[cur].state \in Terminal
            /\ pc' = "send" /\ UNCHANGED <<cur, att>>
         \/ row' = row /\ pc' = "offline"
  BY <1>1, FinishStoreEffect DEF StoreFinish, JournalError, CloseSession, Rest
<1>3. Single'
  BY <1>1, <1>2 DEF Single, Hand, Doing
<1>4. Placed'
  BY <1>1, <1>2 DEF Placed, InHand, Doing, Reporting
<1>5. Written'
  BY <1>1, <1>2, JobsAssumption
  DEF Written, Known, Says, Placed, Refs, Ledger, Terminal, NoFinish, TypeOK, JobsAssumption
<1> QED BY <1>3, <1>4, <1>5

\* RecoverRestored: the reference is in effect.
LEMMA RecoverRestoredKeeps ==
  ASSUME QInv, RecoverRestored
  PROVE  Single' /\ Placed' /\ Written'
<1> USE DEF QInv, Inv, acVars, rowVars, localVars, execVars
<1>1. Single'
  BY DEF RecoverRestored, Single
<1>2. Placed'
  BY DEF RecoverRestored, Placed, InHand
<1>3. Written'
  BY JobsAssumption
  DEF RecoverRestored, Written, Known, Says, Placed, Hand, Ledger, Terminal, NoFinish, InHand,
      TypeOK, JobsAssumption
<1> QED BY <1>1, <1>2, <1>3

\* RecoverFails: the row is still to be recovered.
LEMMA RecoverFailsKeeps ==
  ASSUME QInv, RecoverFails
  PROVE  Single' /\ Placed' /\ Written'
<1> USE DEF QInv, Inv, acVars, rowVars, localVars, execVars
<1>1. Single'
  BY DEF RecoverFails, Single
<1>2. Placed'
  BY DEF RecoverFails, Rest, Placed, InHand, Doing, Reporting
<1>3. Written'
  <2>1. /\ pc = "recroll" /\ pc' = "off" /\ live' \in {Mixed, prev}
        /\ UNCHANGED <<row, acState, lastMut, Known>>
    BY DEF RecoverFails, Rest, Known
  <2>2. lastMut = cur /\ cur \in Jobs /\ row[cur].state \in {"applying", "applied"}
    BY <2>1 DEF Placed, Hand, InHand
  <2>3. row[cur].fin = NoFinish
    BY <2>2 DEF Ledger, Terminal
  <2>4. lastMut' # 0 /\ Says(row[lastMut].fin.out)'
    BY <2>1, <2>2, <2>3, JobsAssumption DEF Says, NoFinish, JobsAssumption
  <2> QED BY <2>1, <2>2, <2>4 DEF Written
<1> QED BY <1>1, <1>2, <1>3

\* Recover: a row that is finished wrote nothing, one that was applying is rolled back.
LEMMA RecoverKeeps ==
  ASSUME QInv, Recover
  PROVE  Single' /\ Placed' /\ Written'
<1> USE DEF QInv, Inv
<1>1. pc = "recover" /\ UNCHANGED acVars
  BY DEF Recover
<1>2. \/ pc' = "offline" /\ UNCHANGED <<rowVars, execVars>>
      \/ \E j \in Jobs : row[j].state \in Open /\ RecoverRow(j)
  BY DEF Recover, First, Unfinished, Rest
<1>3. ASSUME pc' \in {"recover", "offline", "off"}, UNCHANGED <<row, live, lastMut>>
      PROVE  Single' /\ Placed' /\ Written'
  BY <1>1, <1>3 DEF acVars, Single, Placed, Written, Known, Says, InHand, Doing, Reporting
<1>4. ASSUME NEW j \in Jobs, row[j].state \in Open, RecoverRow(j)
      PROVE  Single' /\ Placed' /\ Written'
  <2>1. CASE row[j].state \in {"offered", "staged"}
    <3> DEFINE f == [id |-> nextFin + 1, out |-> "failed", err |-> "interrupted", rb |-> FALSE]
    <3>1. f \in Finishes /\ f.out = "failed" /\ f.err = "interrupted"
      BY DEF Finishes, Outcomes, Errors, TypeOK
    <3>2. /\ UNCHANGED <<live, lastMut>>
          /\ \/ FinishStore(j, row[j].att, f) /\ pc' = "recover"
             \/ row' = row /\ pc' = "off"
      BY <1>1, <1>4, <2>1 DEF RecoverRow, execVars, JournalError, rowVars, Rest
    <3> HIDE DEF f
    <3>3. CASE row' = row /\ pc' = "off"
      BY <1>3, <3>2, <3>3
    <3>4. CASE FinishStore(j, row[j].att, f) /\ pc' = "recover"
      <4>1. row[j].fin = NoFinish /\ Matches(j, row[j].att)
        BY <2>1 DEF Ledger, Terminal, Matches
      <4>2. /\ \A k \in Jobs \ {j} : row'[k] = row[k]
            /\ row'[j].att = row[j].att /\ row'[j].prev = row[j].prev
            /\ row'[j].fin = f /\ row'[j].state \in Terminal
        BY <3>1, <3>4, <4>1, FinishStoreEffect
      <4>3. lastMut # j
        BY <2>1, JobsAssumption DEF Written, JobsAssumption
      <4>4. acState[j] \notin {"applied", "rolled_back"}
        BY <4>1 DEF Written, NoFinish
      <4>5. Known => Known'
        BY <4>1, <4>2 DEF Known, NoFinish
      <4>6. Single' /\ Placed'
        BY <1>1, <2>1, <3>4, <4>2 DEF acVars, Single, Placed, InHand, Doing, Reporting, Terminal
      <4>7. lastMut' # 0 => lastMut \in Jobs /\ row'[lastMut] = row[lastMut]
        BY <3>2, <4>2, <4>3 DEF TypeOK
      <4>8. \A k \in Jobs : row'[k].prev = row[k].prev /\ (acState[k] \in {"applied", "rolled_back"} => row'[k] = row[k])
        BY <4>2, <4>4
      <4>9. Written'
        BY <1>1, <3>2, <3>4, <4>5, <4>7, <4>8 DEF acVars, Written, Says
      <4> QED BY <4>6, <4>9
    <3> QED BY <3>2, <3>3, <3>4
  <2>2. CASE row[j].state \notin {"offered", "staged"} /\ row[j].prev \in {NoPrev, EmptyPrev}
    BY <1>3, <1>4, <2>2 DEF RecoverRow, Rest, rowVars
  <2>3. CASE row[j].state \notin {"offered", "staged"} /\ row[j].prev \notin {NoPrev, EmptyPrev}
    <3>1. /\ row' = row /\ live' = Mixed /\ lastMut' = j
          /\ pc' = "recroll" /\ cur' = j /\ att' = row[j].att /\ prev' = row[j].prev
      BY <1>4, <2>3 DEF RecoverRow, rowVars
    <3>2. /\ row[j].state \in {"applying", "applied"} /\ row[j].att = 1 /\ j # 0
          /\ row[j].fin.out = "none" /\ Kind[j] # "action"
      BY <1>4, <2>3, JobsAssumption
      DEF Open, Single, Ledger, Terminal, NoFinish, Refs, JobsAssumption
    <3>3. Known' <=> Known
      BY <3>1 DEF Known
    <3> QED BY <1>1, <3>1, <3>2, <3>3 DEF acVars, Single, Placed, Written, Says, InHand, Doing, Reporting
  <2> QED BY <2>1, <2>2, <2>3
<1>5. CASE pc' = "offline" /\ UNCHANGED <<rowVars, execVars>>
  BY <1>3, <1>5 DEF rowVars, execVars
<1> QED BY <1>2, <1>4, <1>5

\* RecoverFinish: the reference is in effect when the row says so.
LEMMA RecoverFinishKeeps ==
  ASSUME QInv, RecoverFinish
  PROVE  Single' /\ Placed' /\ Written'
<1> USE DEF QInv, Inv
<1> DEFINE f == [id |-> nextFin + 1, out |-> "rolled_back", err |-> "rolled_back", rb |-> FALSE]
<1>1. f \in Finishes /\ f.out = "rolled_back" /\ f.err = "rolled_back"
  BY DEF Finishes, Outcomes, Errors, TypeOK
<1>2. /\ cur \in Jobs /\ att = 1 /\ lastMut = cur /\ live = prev
      /\ row[cur].state \in {"applying", "applied"} /\ row[cur].prev = prev
      /\ UNCHANGED acVars /\ UNCHANGED execVars
  BY DEF RecoverFinish, Hand, InHand, Placed
<1>3. /\ pc' \in {"recover", "off"}
      /\ FinishStore(cur, att, f) \/ row' = row
  BY DEF RecoverFinish, JournalError, Rest, rowVars
<1> HIDE DEF f
<1>4. Placed'
  BY <1>3 DEF Placed, InHand, Doing, Reporting
<1>5. CASE row' = row
  BY <1>2, <1>3, <1>4, <1>5 DEF acVars, execVars, Single, Written, Known, Says
<1>6. CASE FinishStore(cur, att, f)
  <2>1. Matches(cur, att) /\ row[cur].fin = NoFinish
    BY <1>2 DEF Single, Ledger, Terminal, Matches
  <2>2. /\ \A k \in Jobs \ {cur} : row'[k] = row[k]
        /\ row'[cur].att = row[cur].att /\ row'[cur].prev = row[cur].prev
        /\ row'[cur].fin = f /\ row'[cur].state \in Terminal
    BY <1>1, <1>2, <1>6, <2>1, FinishStoreEffect
  <2>3. acState[cur] = "running"
    BY <1>2 DEF Single
  <2>4. Known => Known'
    BY <2>1, <2>2 DEF Known, NoFinish
  <2>5. Single'
    BY <1>2, <2>2 DEF acVars, Single, Terminal
  <2>6. Written'
    BY <1>1, <1>2, <1>3, <2>2, <2>3, <2>4 DEF acVars, execVars, Written, Says, Terminal
  <2> QED BY <1>4, <2>5, <2>6
<1> QED BY <1>3, <1>5, <1>6

\* One case per action, by the lemmas above.
LEMMA OrderlyInvStep ==
  ASSUME QInv, [Next]_vars
  PROVE  QInv'
<1>1. Inv' /\ Orderly'
  BY InvStep, OrderlyStep DEF QInv
<1>2. CASE UNCHANGED vars
  BY <1>1, <1>2
  DEF vars, acVars, rowVars, localVars, execVars, QInv, Single, Placed, Written, Known, Says
<1>3. CASE \E j \in Jobs : AcCreate(j) \/ AcPeerFails(j) \/ AcExpireAction(j)
  BY <1>1, <1>3, CreateKeeps, PeerFailsKeeps, ExpireActionKeeps DEF QInv
<1>4. CASE AcRestart \/ Drop \/ Crash \/ Connect \/ Start
  BY <1>1, <1>4, RestartKeeps, DropKeeps, CrashKeeps, ConnectKeeps, StartKeeps DEF QInv
<1>5. CASE Exchange
  BY <1>1, <1>5, ReplayKeeps, SendFinishKeeps, AckKeeps, RequestFailsKeeps,
     PollKeeps, OfferKeeps, MarkStagedKeeps, AcceptKeeps DEF QInv, Exchange
<1>6. CASE Execute
  BY <1>1, <1>6, PrepareKeeps, MarkApplyingKeeps, ApplyBeginKeeps, ApplyEndKeeps,
     MarkAppliedKeeps, ReadbackKeeps, RestoreBeginKeeps, RestoreEndKeeps, StoreFinishKeeps
     DEF QInv, Execute
<1>7. CASE Recovery
  BY <1>1, <1>7, RecoverKeeps, RecoverRestoredKeeps, RecoverFailsKeeps, RecoverFinishKeeps
     DEF QInv, Recovery
<1> QED BY <1>2, <1>3, <1>4, <1>5, <1>6, <1>7 DEF Next, Agent

\* No fault of these two kinds is in the budget.
OrderlyFaults == Faults["requeue"] = 0 /\ Faults["oversize"] = 0

\* The second invariant, while leases last and references fit (ac_db_config_jobs_recover,
\* APD_CONFIG_JOB_PREVIOUS_MAX_BYTES).
THEOREM OrderlyInductive == OrderlyFaults => (Spec => []QInv)
<1>1. OrderlyFaults /\ Init => QInv
  <2> SUFFICES ASSUME OrderlyFaults, Init PROVE QInv
    OBVIOUS
  <2>1. Inv
    BY InitInv
  <2>2. Orderly
    BY DEF OrderlyFaults, Init, Orderly
  <2>3. Single /\ Placed
    BY DEF Init, Single, Placed, NoRow, InHand, Doing, Reporting
  <2>4. Written
    BY JobsAssumption DEF JobsAssumption, Init, Written, NoRow
  <2> QED BY <2>1, <2>2, <2>3, <2>4 DEF QInv
<1> QED BY <1>1, OrderlyInvStep, PTL DEF Spec

\* Once the configuration is being written, what undoes it is in the journal: "the
\* rollback reference (previous_json) becomes durable in state 'applying' BEFORE the
\* executor mutates the live config" (apd_config_job_journal.h).
THEOREM ReferenceIsDurable == OrderlyFaults => (Spec => []RollbackReferenceDurable)
<1>1. QInv => RollbackReferenceDurable
  <2> SUFFICES ASSUME QInv, pc \in {"applying", "restoring"}, Kind[cur] # "action"
               PROVE  /\ Matches(cur, att) /\ row[cur].state \in {"applying", "applied"}
                      /\ row[cur].prev = prev
    BY DEF RollbackReferenceDurable
  <2>1. cur \in Jobs /\ att = 1
    BY DEF QInv, Inv, Hand, Placed, InHand, Doing
  <2> QED BY <2>1 DEF QInv, Placed, Single, Matches
<1> QED BY <1>1, OrderlyInductive, PTL

\* A configuration that is half written is still to be recovered, or a failed rollback
\* is on record (apd_config_restore_verified, apd_config_jobs_restart_recover).
THEOREM HalfAppliedIsKnown == OrderlyFaults => (Spec => []NoSilentHalfApply)
<1>1. QInv => NoSilentHalfApply
  BY DEF QInv, Written, Known, NoSilentHalfApply
<1> QED BY <1>1, OrderlyInductive, PTL

\* An outcome the controller holds for the last writer is the configuration in effect
\* (ac_db_config_job_finish).
THEOREM OutcomesAreLive == OrderlyFaults => (Spec => []OutcomeIsLive)
<1>1. QInv => OutcomeIsLive
  <2> SUFFICES ASSUME QInv, lastMut # 0
               PROVE  /\ acState[lastMut] = "applied" => live = lastMut
                      /\ acState[lastMut] = "rolled_back" => live = row[lastMut].prev
    BY DEF OutcomeIsLive
  <2>1. lastMut \in Jobs
    BY DEF QInv, Inv, TypeOK
  <2> QED BY <2>1 DEF QInv, Written, Says
<1> QED BY <1>1, OrderlyInductive, PTL
-----------------------------------------------------------------------------
(* What the controller knows of the configuration *)

\* The hypothesis of ControllerKnowsLive: every job started from the noted revision.
AsNoted == \A j \in Jobs : Kind[j] = "apply" /\ row[j].prev # NoPrev => row[j].prev = confOf[prevRev[j]]

\* Jobs are queued one after the other; a row has no reference before it is applying.
Ordered ==
  /\ \A p \in created : acState[p[1]] # "absent" /\ acState[p[2]] # "absent"
                        /\ <<p[2], p[1]>> \notin created
  /\ \A j \in Jobs : row[j].state \in {"none", "offered", "staged"} => row[j].prev = NoPrev

\* What revisions and compensations refer to.  The revision of an applied action stands
\* for a configuration that was there before it.
Referring ==
  /\ acRev \in Jobs => acState[acRev] = "applied"
  /\ \A j \in Jobs : prevRev[j] \in Jobs => acState[prevRev[j]] = "applied"
  /\ confOf[Base] = Base
  /\ \A j \in Jobs : /\ acState[j] # "applied" => confOf[j] = j
                     /\ confOf[j] \in Jobs \ {j} => acState[confOf[j]] = "applied"
  /\ \A k \in Compensations :
       /\ acState[k] # "absent" => acState[SourceOf[k]] = "applied"
       /\ row[k].prev # NoPrev => row[k].prev = row[SourceOf[k]].prev
  /\ pc = "markapplying" =>
       /\ Kind[cur] = "apply" => prev = live
       /\ Kind[cur] = "rollback" => prev = row[SourceOf[cur]].prev

\* An applied job whose compensation has not begun.
Stands(s) == /\ Kind[s] = "apply" /\ row[s].fin.out = "applied"
             /\ \A k \in Compensations : SourceOf[k] = s => row[k].prev = NoPrev

\* A job that has begun and not ended; one that has not begun.
Runs(j)  == row[j].prev # NoPrev /\ acState[j] = "running"
Waits(j) == Kind[j] = "apply" /\ acState[j] \in {"queued", "leased", "running"} /\ row[j].prev = NoPrev

\* A success that is not recorded at the controller yet is the last writer's.
Latest ==
  /\ \A j \in Jobs : (/\ Kind[j] # "action" /\ acState[j] \in {"leased", "running"}
                      /\ row[j].fin.out \in {"applied", "rolled_back"})
                       => lastMut = j /\ Runs(j)
  /\ (pc = "finish" /\ Kind[cur] # "action" /\ fin.out \in {"applied", "rolled_back"})
       => lastMut = cur /\ row[cur].prev # NoPrev

\* At most one job that stands started from a configuration, and none from the one
\* in effect, the one the running job would return to, and the applied revision.
Chain ==
  \A s \in Jobs : Stands(s) =>
    /\ \A t \in Jobs : Stands(t) /\ confOf[prevRev[t]] = confOf[prevRev[s]] => t = s
    /\ live # confOf[prevRev[s]]
    /\ \A j \in Jobs : Runs(j) /\ row[j].prev = confOf[prevRev[s]] => j = s
    /\ acState[s] = "applied" => confOf[acRev] # confOf[prevRev[s]]

\* A compensation comes after every job that may start from what it returns to.
Behind ==
  \A k \in Compensations :
    /\ acState[k] \in {"leased", "running"} => confOf[acRev] # confOf[prevRev[SourceOf[k]]]
    /\ \A x \in Jobs : Waits(x) /\ confOf[prevRev[x]] = confOf[prevRev[SourceOf[k]]] =>
         /\ acState[k] \notin {"leased", "running"}
         /\ (Stands(SourceOf[k]) /\ acState[k] # "absent" => <<x, k>> \in created)

Agreed ==
  /\ \A x \in Jobs : Waits(x) /\ live = confOf[prevRev[x]] => confOf[acRev] = live
  /\ \A j \in Jobs : Kind[j] = "apply" /\ Runs(j) => confOf[acRev] = row[j].prev
  /\ lastMut = 0 \/ acState[lastMut] \in {"applied", "rolled_back"} => live = confOf[acRev]

RInv == /\ Ordered /\ Referring /\ Latest
        /\ AsNoted => Chain /\ Behind /\ Agreed

LEMMA Sources ==
  \A k \in Compensations : /\ k \in Jobs /\ Kind[k] = "rollback"
                           /\ SourceOf[k] \in Jobs /\ Kind[SourceOf[k]] = "apply"
  BY JobsAssumption DEF JobsAssumption, Compensations

LEMMA Names ==
  /\ NoPrev \notin Configs /\ Mixed \notin Jobs \cup {Base} /\ 0 \notin Jobs
  /\ EmptyPrev \notin Configs
  BY JobsAssumption DEF JobsAssumption, Configs

\* A job without a lease has no row, and no row has no reference.
LEMMA NoRowYet ==
  ASSUME QInv, RInv, NEW j \in Jobs, acState[j] \in {"absent", "queued", "cancelled"}
  PROVE  row[j].state = "none" /\ row[j].prev = NoPrev /\ row[j].fin = NoFinish
<1>1. row[j].state = "none"
  BY DEF QInv, Inv, Ledger, Single, TypeOK
<1> QED BY <1>1 DEF QInv, Inv, Ledger, Terminal, RInv, Ordered

\* What a compensation that is under way returns to.
LEMMA Returning ==
  ASSUME QInv, RInv, AsNoted, NEW k \in Compensations, row[k].prev # NoPrev
  PROVE  row[k].prev = confOf[prevRev[SourceOf[k]]]
<1>1. row[k].prev = row[SourceOf[k]].prev
  BY DEF RInv, Referring
<1> QED BY <1>1, Sources DEF AsNoted

\* A revision that was noted stands for a configuration that was applied.
LEMMA NotedIsApplied ==
  ASSUME QInv, RInv, NEW j \in Jobs
  PROVE  /\ confOf[prevRev[j]] \in Jobs \cup {Base}
         /\ confOf[prevRev[j]] \in Jobs => acState[confOf[prevRev[j]]] = "applied"
<1>1. prevRev[j] \in Jobs \cup {Base} /\ confOf[prevRev[j]] \in Jobs \cup {Base}
  BY DEF QInv, Inv, TypeOK
<1>2. CASE prevRev[j] = Base
  BY <1>2, JobsAssumption DEF RInv, Referring, JobsAssumption
<1>3. CASE prevRev[j] \in Jobs
  BY <1>1, <1>3 DEF RInv, Referring
<1> QED BY <1>1, <1>2, <1>3

\* The source of a compensation stands until it begins.
LEMMA SourceStands ==
  ASSUME QInv, RInv, NEW k \in Compensations, acState[k] # "absent", row[k].prev = NoPrev
  PROVE  Stands(SourceOf[k]) /\ acState[SourceOf[k]] = "applied"
<1>1. acState[SourceOf[k]] = "applied"
  BY DEF RInv, Referring
<1>2. row[SourceOf[k]].fin.out = "applied"
  BY <1>1, Sources DEF QInv, Written
<1>3. \A c \in Compensations : SourceOf[c] = SourceOf[k] => c = k
  BY JobsAssumption DEF JobsAssumption
<1> QED BY <1>1, <1>2, <1>3, Sources DEF Stands

\* A step that changes neither the controller nor the configuration, and no row but to
\* note an outcome that is no success of an apply job, or how far it has come.
LEMMA Framed ==
  ASSUME RInv, UNCHANGED <<acState, acRev, prevRev, confOf, created, live, lastMut>>,
         \A j \in Jobs :
           /\ row'[j].prev = row[j].prev
           /\ Kind[j] = "apply" => (row'[j].fin.out = "applied" <=> row[j].fin.out = "applied")
           /\ Kind[j] # "action" /\ row'[j].fin.out \in {"applied", "rolled_back"} =>
                \/ row[j].fin.out \in {"applied", "rolled_back"}
                \/ lastMut = j /\ row[j].prev # NoPrev /\ acState[j] = "running"
           /\ row'[j].state \in {"none", "offered", "staged"} =>
                row[j].prev = NoPrev,
         pc' = "markapplying" =>
           /\ Kind[cur'] = "apply" => prev' = live
           /\ Kind[cur'] = "rollback" => cur' \in Compensations /\ prev' = row[SourceOf[cur']].prev,
         pc' = "finish" => cur' \in Jobs /\
            ((Kind[cur'] # "action" /\ fin'.out \in {"applied", "rolled_back"})
              => lastMut = cur' /\ row[cur'].prev # NoPrev)
  PROVE  RInv'
<1>1. Ordered'
  BY DEF RInv, Ordered
<1>2. Referring'
  BY Sources DEF RInv, Referring
<1>3. \A j \in Jobs : /\ Runs(j)' <=> Runs(j)
                      /\ Waits(j)' <=> Waits(j)
                      /\ Stands(j)' <=> Stands(j)
  <2> SUFFICES ASSUME NEW j \in Jobs
               PROVE  /\ Runs(j)' <=> Runs(j)
                      /\ Waits(j)' <=> Waits(j)
                      /\ Stands(j)' <=> Stands(j)
    OBVIOUS
  <2>1. (Runs(j)' <=> Runs(j)) /\ (Waits(j)' <=> Waits(j))
    BY DEF Runs, Waits
  <2>2. Stands(j)' <=> Stands(j)
    BY Sources DEF Stands
  <2> QED BY <2>1, <2>2
<1>4. Latest'
  <2>1. \A j \in Jobs : (/\ Kind[j] # "action" /\ acState'[j] \in {"leased", "running"}
                         /\ row'[j].fin.out \in {"applied", "rolled_back"})
                          => lastMut' = j /\ Runs(j)'
    BY <1>3 DEF RInv, Latest, Runs
  <2> QED BY <2>1 DEF Latest
<1>5. AsNoted' <=> AsNoted
  BY DEF AsNoted
<1>6. ASSUME AsNoted PROVE Chain' /\ Behind' /\ Agreed'
  <2>1. Chain'
    BY <1>3, <1>6 DEF RInv, Chain
  <2>2. Behind'
    BY <1>3, <1>6, Sources DEF RInv, Behind
  <2>3. Agreed'
    BY <1>3, <1>6 DEF RInv, Agreed
  <2> QED BY <2>1, <2>2, <2>3
<1> QED BY <1>1, <1>2, <1>4, <1>5, <1>6 DEF RInv

\* The running job writes: its own configuration, the one it returns to, or a part of it.
LEMMA Wrote ==
  ASSUME QInv, RInv, NEW j \in Jobs, UNCHANGED <<acState, acRev, prevRev, confOf, created, row>>,
         Kind[j] # "action", acState[j] = "running", row[j].prev \in Configs,
         row[j].fin.out = "none", lastMut' = j,
         live' \in {Mixed, row[j].prev} \/ (Kind[j] = "apply" /\ live' = j),
         pc' # "markapplying", pc' = "finish" => cur' = j
  PROVE  RInv'
<1>1. Ordered' /\ AsNoted' = AsNoted
  BY DEF RInv, Ordered, AsNoted
<1>2. Referring'
  BY DEF RInv, Referring
<1>3. \A i \in Jobs : Runs(i)' = Runs(i) /\ Waits(i)' = Waits(i) /\ Stands(i)' = Stands(i)
  BY DEF Runs, Waits, Stands
<1>4. Runs(j) /\ ~Stands(j)
  BY Names DEF Runs, Stands
<1>5. Latest'
  <2>1. \A i \in Jobs : acState[i] \in {"leased", "running"} => i = j
    BY DEF QInv, Single
  <2> QED BY <2>1, <1>3, <1>4, Names DEF RInv, Latest
<1>6. ASSUME AsNoted PROVE Chain' /\ Behind' /\ Agreed'
  <2>1. \A i \in Jobs : confOf[prevRev[i]] # Mixed /\ confOf[prevRev[i]] # j
    BY NotedIsApplied, Names
  <2>2. Chain'
    <3>1. \A s \in Jobs : Stands(s) => live' # confOf[prevRev[s]]
      BY <1>4, <1>6, <2>1 DEF RInv, Chain
    <3> QED BY <1>3, <1>6, <3>1 DEF RInv, Chain
  <2>3. Behind'
    BY <1>3, <1>6, Sources DEF RInv, Behind
  <2>4. \A x \in Jobs : Waits(x) /\ live' = confOf[prevRev[x]] => confOf[acRev] = live'
    <3> SUFFICES ASSUME NEW x \in Jobs, Waits(x), live' = confOf[prevRev[x]]
                 PROVE  confOf[acRev] = live'
      OBVIOUS
    <3>1. live' = row[j].prev
      BY <2>1
    <3>2. CASE Kind[j] = "apply"
      BY <1>4, <1>6, <3>1, <3>2 DEF RInv, Agreed
    <3>3. CASE Kind[j] = "rollback"
      <4>1. j \in Compensations
        BY <3>3 DEF Compensations
      <4>2. confOf[prevRev[x]] = confOf[prevRev[SourceOf[j]]]
        BY <1>6, <3>1, <4>1, Returning, Names
      <4> QED BY <1>6, <4>1, <4>2 DEF RInv, Behind
    <3> QED BY <3>2, <3>3, JobsAssumption DEF JobsAssumption
  <2>5. Agreed'
    BY <1>3, <1>6, <2>4, Names DEF RInv, Agreed
  <2> QED BY <2>2, <2>3, <2>5
<1> QED BY <1>1, <1>2, <1>5, <1>6 DEF RInv

\* Steps that leave the rows alone and have no outcome or reference in hand after them.
LEMMA Idles ==
  ASSUME RInv, UNCHANGED <<acState, acRev, prevRev, confOf, created, live, lastMut, row>>,
         \/ pc' \notin {"markapplying", "finish"}
         \/ UNCHANGED <<pc, cur, prev, fin>> /\ (pc \in {"markapplying", "finish"} => cur \in Jobs)
  PROVE  RInv'
BY Framed DEF RInv, Ordered, Referring, Latest, Compensations

\* Create: nothing that stands started from the revision that is noted.
LEMMA CreateKnows ==
  ASSUME QInv, RInv, NEW j \in Jobs, AcCreate(j)
  PROVE  RInv'
<1>1. /\ acState[j] = "absent" /\ acState'[j] = "queued" /\ prevRev'[j] = acRev /\ Kind[j] # "rollback"
      /\ \A k \in Jobs \ {j} : acState'[k] = acState[k] /\ prevRev'[k] = prevRev[k]
      /\ UNCHANGED <<acRev, confOf, row, pc, cur, prev, fin, live, lastMut>>
      /\ created' = created \cup {k \in Jobs : acState[k] # "absent"} \X {j}
  BY DEF AcCreate, Created, QInv, Inv, TypeOK, rowVars, localVars, execVars
<1>2. row[j].state = "none" /\ row[j].prev = NoPrev /\ row[j].fin = NoFinish
  BY <1>1, NoRowYet
<1>3. Ordered'
  <2>1. \A p \in created : p \in Jobs \X Jobs
    BY DEF QInv, Inv, TypeOK
  <2> QED BY <1>1, <2>1 DEF RInv, Ordered
<1>4. Referring'
  <2>1. acRev \in Jobs \cup {Base} /\ \A k \in Jobs : prevRev[k] \in Jobs \cup {Base}
    BY DEF QInv, Inv, TypeOK
  <2>2. j \notin Compensations
    BY <1>1 DEF Compensations
  <2> QED BY <1>1, <2>1, <2>2, Sources DEF RInv, Referring
<1>5. /\ \A i \in Jobs : Runs(i)' <=> Runs(i)
      /\ \A i \in Jobs : Stands(i)' <=> Stands(i)
      /\ \A i \in Jobs \ {j} : Waits(i)' <=> Waits(i)
      /\ ~Stands(j) /\ ~Runs(j)
  BY <1>1, <1>2 DEF Runs, Stands, Waits, NoFinish
<1>6. Latest'
  BY <1>1, <1>5 DEF RInv, Latest
<1>7. AsNoted' => AsNoted
  BY <1>1, <1>2 DEF AsNoted
<1>8. ASSUME AsNoted PROVE Chain' /\ Behind' /\ Agreed'
  <2>1. Chain'
    BY <1>1, <1>5, <1>8 DEF RInv, Chain
  <2>2. ASSUME NEW k \in Compensations
        PROVE /\ acState'[k] \in {"leased", "running"} => confOf'[acRev'] # confOf'[prevRev'[SourceOf[k]]]
              /\ \A x \in Jobs : Waits(x)' /\ confOf'[prevRev'[x]] = confOf'[prevRev'[SourceOf[k]]] =>
                   /\ acState'[k] \notin {"leased", "running"}
                   /\ Stands(SourceOf[k])' /\ acState'[k] # "absent" => <<x, k>> \in created'
    <3>1. k # j /\ k \in Jobs /\ SourceOf[k] \in Jobs
      BY <1>1, Sources
    <3>2. CASE SourceOf[k] = j
      <4>1. acState[k] = "absent"
        BY <1>1, <3>2 DEF RInv, Referring
      <4> QED BY <1>1, <3>1, <4>1
    <3>3. CASE SourceOf[k] # j
      <4>1. confOf'[prevRev'[SourceOf[k]]] = confOf[prevRev[SourceOf[k]]] /\ acState'[k] = acState[k]
        BY <1>1, <3>1, <3>3
      <4>2. acState[k] \in {"leased", "running"} => confOf[acRev] # confOf[prevRev[SourceOf[k]]]
        BY <1>8 DEF RInv, Behind
      <4>3. Stands(SourceOf[k]) /\ acState[k] # "absent" => confOf[acRev] # confOf[prevRev[SourceOf[k]]]
        BY <1>8, <3>1 DEF RInv, Chain, Referring
      <4>4. ASSUME NEW x \in Jobs \ {j}, Waits(x), confOf[prevRev[x]] = confOf[prevRev[SourceOf[k]]]
            PROVE /\ acState[k] \notin {"leased", "running"}
                  /\ Stands(SourceOf[k]) /\ acState[k] # "absent" => <<x, k>> \in created
        BY <1>8, <4>4 DEF RInv, Behind
      <4> QED BY <1>1, <1>5, <3>1, <4>1, <4>2, <4>3, <4>4
    <3> QED BY <3>2, <3>3
  <2>3. Behind'
    BY <2>2 DEF Behind
  <2>4. Agreed'
    <3>1. \A x \in Jobs : Waits(x)' /\ live' = confOf'[prevRev'[x]] => confOf'[acRev'] = live'
      BY <1>1, <1>5, <1>8 DEF RInv, Agreed
    <3>2. \A i \in Jobs : Kind[i] = "apply" /\ Runs(i)' => confOf'[acRev'] = row'[i].prev
      BY <1>1, <1>5, <1>8 DEF RInv, Agreed
    <3>3. lastMut' = 0 \/ acState'[lastMut'] \in {"applied", "rolled_back"} => live' = confOf'[acRev']
      BY <1>1, <1>8 DEF RInv, Agreed, QInv, Inv, TypeOK
    <3> QED BY <3>1, <3>2, <3>3 DEF Agreed
  <2> QED BY <2>1, <2>3, <2>4
<1> QED BY <1>3, <1>4, <1>6, <1>7, <1>8 DEF RInv

\* ExpireAction: an action refers to nothing.
LEMMA ExpireActionKnows ==
  ASSUME QInv, RInv, NEW j \in Jobs, AcExpireAction(j)
  PROVE  RInv'
<1>1. /\ Kind[j] = "action" /\ acState[j] \in {"queued", "leased"} /\ acState'[j] = "expired"
      /\ \A k \in Jobs \ {j} : acState'[k] = acState[k]
      /\ UNCHANGED <<acRev, prevRev, confOf, created, row, pc, cur, prev, fin, live, lastMut>>
  BY DEF AcExpireAction, QInv, Inv, TypeOK, rowVars, localVars, execVars
<1>2. /\ \A i \in Jobs : Runs(i)' <=> Runs(i)
      /\ \A i \in Jobs : Stands(i)' <=> Stands(i)
      /\ \A i \in Jobs : Waits(i)' <=> Waits(i)
  BY <1>1 DEF Runs, Stands, Waits
<1>3. Ordered'
  <2>1. \A p \in created : p \in Jobs \X Jobs
    BY DEF QInv, Inv, TypeOK
  <2> QED BY <1>1, <2>1 DEF RInv, Ordered
<1>4. Referring'
  BY <1>1, Sources DEF RInv, Referring, QInv, Inv, TypeOK
<1>5. Latest'
  BY <1>1, <1>2 DEF RInv, Latest
<1>6. AsNoted' <=> AsNoted
  BY <1>1 DEF AsNoted
<1>7. ASSUME AsNoted PROVE Chain' /\ Behind' /\ Agreed'
  <2>1. Chain'
    BY <1>1, <1>2, <1>7 DEF RInv, Chain
  <2>2. Behind'
    BY <1>1, <1>2, <1>7, Sources DEF RInv, Behind
  <2>3. Agreed'
    <3>1. lastMut # 0 => lastMut \in Jobs
      BY DEF QInv, Inv, TypeOK
    <3> QED BY <1>1, <1>2, <1>7, <3>1 DEF RInv, Agreed
  <2> QED BY <2>1, <2>2, <2>3
<1> QED BY <1>3, <1>4, <1>5, <1>6, <1>7 DEF RInv

\* What a refresh queues are compensations of applied jobs, after all others.
LEMMA RefreshOrder ==
  ASSUME NEW st \in [Jobs -> AcStates], NEW failed, Refresh(st, failed),
         \A k \in Jobs : st[k] = "absent" <=> acState[k] = "absent"
  PROVE  /\ created \subseteq created'
         /\ \A k \in Jobs : st[k] = "absent" /\ acState'[k] = "queued" =>
              /\ k \in Compensations /\ st[SourceOf[k]] = "applied"
              /\ \A x \in Jobs : acState[x] # "absent" => <<x, k>> \in created'
         /\ \A p \in created' \ created : /\ p[1] \in Jobs /\ acState[p[1]] # "absent"
                                          /\ p[2] \in Jobs /\ st[p[2]] = "absent"
                                          /\ acState'[p[2]] = "queued"
<1>1. \A k \in Jobs : st[k] = "absent" /\ acState'[k] = "queued" =>
        k \in Compensations /\ st[SourceOf[k]] = "applied"
  BY DEF Refresh, RefreshedState, Compensations
<1>2. created' = created \cup ({k \in Jobs : acState[k] # "absent"}
                               \X {k \in Jobs : st[k] = "absent" /\ acState'[k] = "queued"})
  BY DEF Refresh, Created
<1> QED BY <1>1, <1>2

\* A refresh keeps the order, and queues only compensations of applied jobs.
LEMMA RefreshKeeps ==
  ASSUME QInv, RInv, NEW st \in [Jobs -> AcStates], NEW failed, Refresh(st, failed),
         \A k \in Jobs : st[k] = "absent" <=> acState[k] = "absent",
         \A k \in Jobs : acState[k] = "applied" => st[k] = "applied"
  PROVE  /\ \A p \in created' : /\ acState'[p[1]] # "absent" /\ acState'[p[2]] # "absent"
                               /\ <<p[2], p[1]>> \notin created'
         /\ \A k \in Compensations : acState'[k] # "absent" => acState'[SourceOf[k]] = "applied"
<1> DEFINE New(k) == st[k] = "absent" /\ acState'[k] = "queued"
<1>1. \A k \in Jobs : \/ acState'[k] = st[k]
                      \/ st[k] = "queued" /\ acState'[k] = "cancelled"
                      \/ New(k)
  BY RefreshEffect DEF QInv, Inv, TypeOK
<1>2. /\ created \subseteq created'
      /\ \A k \in Jobs : New(k) => k \in Compensations /\ st[SourceOf[k]] = "applied"
      /\ \A p \in created' \ created : /\ p[1] \in Jobs /\ acState[p[1]] # "absent"
                                       /\ p[2] \in Jobs /\ New(p[2])
  BY RefreshOrder
<1>3. \A k \in Jobs : /\ acState[k] # "absent" => acState'[k] # "absent" /\ ~New(k)
                      /\ New(k) => acState[k] = "absent" /\ acState'[k] # "absent"
                      /\ st[k] = "applied" => acState'[k] = "applied"
  BY <1>1
<1>4. ASSUME NEW k \in Compensations, acState'[k] # "absent"
      PROVE  acState'[SourceOf[k]] = "applied"
  <2>1. CASE New(k)
    BY <1>2, <1>3, <2>1, Sources
  <2>2. CASE ~New(k)
    <3>1. acState[k] # "absent"
      BY <1>1, <1>4, <2>2, Sources
    <3> QED BY <1>3, <3>1, Sources DEF RInv, Referring
  <2> QED BY <2>1, <2>2
<1> HIDE DEF New
<1>5. \A p \in created : /\ p \in Jobs \X Jobs /\ acState[p[1]] # "absent"
                         /\ acState[p[2]] # "absent" /\ <<p[2], p[1]>> \notin created
  BY DEF QInv, Inv, TypeOK, RInv, Ordered
<1>6. ASSUME NEW p \in created'
      PROVE  /\ acState'[p[1]] # "absent" /\ acState'[p[2]] # "absent"
             /\ <<p[2], p[1]>> \notin created'
  <2>1. CASE p \in created
    BY <1>2, <1>3, <1>5, <2>1
  <2>2. CASE p \notin created
    <3>1. p[1] \in Jobs /\ acState[p[1]] # "absent" /\ p[2] \in Jobs /\ New(p[2])
      BY <1>2, <2>2
    <3>2. acState[p[2]] = "absent" /\ ~New(p[1])
      BY <1>3, <3>1
    <3>3. <<p[2], p[1]>> \notin created
      BY <1>5, <3>2
    <3>4. <<p[2], p[1]>> \notin created'
      BY <1>2, <3>2, <3>3
    <3> QED BY <1>3, <3>1, <3>4
  <2> QED BY <2>1, <2>2
<1> QED BY <1>4, <1>6

\* PeerFails: what is cancelled waited, and a compensation comes after all others.
LEMMA PeerFailsKnows ==
  ASSUME QInv, RInv, NEW j \in Jobs, AcPeerFails(j)
  PROVE  RInv'
<1> DEFINE New(k) == acState[k] = "absent" /\ acState'[k] = "queued"
<1>1. /\ Refresh(acState, {j}) /\ acState \in [Jobs -> AcStates]
      /\ UNCHANGED <<acRev, prevRev, confOf, row, pc, cur, prev, fin, live, lastMut>>
  BY DEF AcPeerFails, QInv, Inv, TypeOK, rowVars, localVars, execVars
<1>2. \A k \in Jobs : \/ acState'[k] = acState[k]
                      \/ acState[k] = "queued" /\ acState'[k] = "cancelled"
                      \/ New(k)
  BY <1>1, RefreshEffect DEF QInv, Inv, TypeOK
<1>3. /\ created \subseteq created'
      /\ \A k \in Jobs : New(k) => /\ k \in Compensations /\ acState[SourceOf[k]] = "applied"
                                   /\ \A x \in Jobs : acState[x] # "absent" => <<x, k>> \in created'
      /\ \A p \in created' \ created : /\ p[1] \in Jobs /\ acState[p[1]] # "absent"
                                       /\ p[2] \in Jobs /\ New(p[2])
  BY <1>1, RefreshOrder
<1>4. \A k \in Jobs : /\ acState'[k] = "absent" => acState[k] = "absent"
                      /\ acState'[k] \in Begun \cup {"leased"} \/ acState[k] \in Begun \cup {"leased"}
                           => acState'[k] = acState[k]
  BY <1>2 DEF Begun, Outcomes
<1> HIDE DEF New
<1>5. /\ \A i \in Jobs : Runs(i)' <=> Runs(i)
      /\ \A i \in Jobs : Stands(i)' <=> Stands(i)
      /\ \A i \in Jobs : Waits(i)' => Waits(i)
  <2>1. \A i \in Jobs : (Runs(i)' <=> Runs(i)) /\ (Stands(i)' <=> Stands(i))
    BY <1>1, <1>4 DEF Runs, Stands, Begun
  <2>2. \A i \in Jobs : Waits(i)' => Waits(i)
    BY <1>1, <1>2, <1>3, Sources DEF Waits, New
  <2> QED BY <2>1, <2>2
<1>6. Ordered' /\ Referring'
  <2>1. \A i \in Jobs : acState[i] = "applied" => acState'[i] = "applied"
    BY <1>4 DEF Begun, Outcomes
  <2>2. /\ \A p \in created' : /\ acState'[p[1]] # "absent" /\ acState'[p[2]] # "absent"
                              /\ <<p[2], p[1]>> \notin created'
        /\ \A k \in Compensations : acState'[k] # "absent" => acState'[SourceOf[k]] = "applied"
    BY <1>1, RefreshKeeps
  <2>3. Ordered'
    BY <1>1, <2>2 DEF RInv, Ordered
  <2>4. Referring'
    BY <1>1, <2>1, <2>2 DEF RInv, Referring
  <2> QED BY <2>3, <2>4
<1>7. Latest'
  BY <1>1, <1>4, <1>5 DEF RInv, Latest, Begun
<1>8. AsNoted' <=> AsNoted
  BY <1>1 DEF AsNoted
<1>9. ASSUME AsNoted PROVE Chain' /\ Behind' /\ Agreed'
  <2>1. Chain'
    <3>1. \A s \in Jobs : acState'[s] = "applied" => acState[s] = "applied"
      BY <1>4 DEF Begun, Outcomes
    <3> QED BY <1>1, <1>5, <1>9, <3>1 DEF RInv, Chain
  <2>2. Behind'
    <3>1. \A k \in Jobs : acState'[k] \in {"leased", "running"} => acState'[k] = acState[k]
      BY <1>4 DEF Begun
    <3>2. ASSUME NEW k \in Compensations, NEW x \in Jobs, Waits(x)',
                 confOf[prevRev[x]] = confOf[prevRev[SourceOf[k]]]
          PROVE  /\ acState'[k] \notin {"leased", "running"}
                 /\ (Stands(SourceOf[k]) /\ acState'[k] # "absent" => <<x, k>> \in created')
      <4>1. Waits(x) /\ acState[x] # "absent" /\ k \in Jobs
        BY <1>5, <3>2, Sources DEF Waits
      <4>2. CASE New(k)
        BY <1>3, <4>1, <4>2 DEF New
      <4>3. CASE ~New(k)
        <5>1. acState[k] = "absent" => acState'[k] = "absent"
          BY <1>2, <4>1, <4>3
        <5> QED BY <1>3, <1>9, <3>1, <3>2, <4>1, <5>1 DEF RInv, Behind
      <4> QED BY <4>2, <4>3
    <3>3. \A k \in Compensations : acState'[k] \in {"leased", "running"} => confOf[acRev] # confOf[prevRev[SourceOf[k]]]
      BY <1>9, <3>1, Sources DEF RInv, Behind
    <3> QED BY <1>1, <1>5, <3>2, <3>3, Sources DEF Behind
  <2>3. Agreed'
    <3>1. lastMut # 0 => lastMut \in Jobs
      BY DEF QInv, Inv, TypeOK
    <3>2. lastMut # 0 /\ acState'[lastMut] \in {"applied", "rolled_back"} =>
            acState[lastMut] = acState'[lastMut]
      BY <1>4, <3>1 DEF Begun, Outcomes
    <3> QED BY <1>1, <1>5, <1>9, <3>2 DEF RInv, Agreed
  <2> QED BY <2>1, <2>2, <2>3
<1> QED BY <1>6, <1>7, <1>8, <1>9 DEF RInv

\* Restart: the budget has no requeue left.
LEMMA RestartKnows ==
  ASSUME QInv, RInv, AcRestart
  PROVE  RInv'
BY Untouched DEF QInv, AcRestart

\* Drop, Crash, Connect, Start, RequestFails: nothing but the session and what is in hand.
LEMMA PausesKnow ==
  ASSUME QInv, RInv, Drop \/ Crash \/ Connect \/ Start \/ RequestFails
  PROVE  RInv'
<1>1. /\ UNCHANGED <<acState, acRev, prevRev, confOf, created, live, lastMut, row>>
      /\ \/ pc' \notin {"markapplying", "finish"}
         \/ UNCHANGED <<pc, cur, prev, fin>>
  BY DEF Drop, Crash, Connect, Start, RequestFails, CloseSession, Rest,
         acVars, rowVars, localVars, execVars
<1>2. pc \in {"markapplying", "finish"} => cur \in Jobs
  BY DEF QInv, Inv, Hand, InHand, Doing
<1> QED BY <1>1, <1>2, Idles

\* Replay: a row is only moved to the end of the queue.
LEMMA ReplayKnows ==
  ASSUME QInv, RInv, Replay
  PROVE  RInv'
<1>1. /\ UNCHANGED <<acState, acRev, prevRev, confOf, created, live, lastMut>>
      /\ pc' \in {"ready", "replaysend", "offline"}
  BY DEF Replay, JournalError, CloseSession, Rest, acVars, execVars
<1>2. row' = row
  BY DEF Replay, First, Unacked, Write, JournalError, rowVars, QInv, Inv, TypeOK
<1> QED BY <1>1, <1>2, Idles

\* Ack: the row keeps its finish.
LEMMA AckKnows ==
  ASSUME QInv, RInv, Ack
  PROVE  RInv'
<1>1. /\ pc' \in {"ready", "offline"} /\ cur \in Jobs
      /\ UNCHANGED <<acState, acRev, prevRev, confOf, created, live, lastMut>>
  BY DEF Ack, CloseSession, Rest, QInv, Inv, Hand, InHand, Reporting, acVars, execVars
<1>2. CASE FinishAck(cur, att, fin)
  <2>1. \A k \in Jobs : row'[k].prev = row[k].prev /\ row'[k].fin = row[k].fin
                        /\ row'[k].state = row[k].state
    BY <1>1, <1>2, FinishAckEffect DEF QInv, Inv
  <2>2. \A k \in Jobs : row[k].state \in {"none", "offered", "staged"} => row[k].prev = NoPrev
    BY DEF RInv, Ordered
  <2> QED BY <1>1, <2>1, <2>2, Framed
<1>3. CASE row' = row
  BY <1>1, <1>3, Idles
<1> QED BY <1>2, <1>3 DEF Ack, JournalError, rowVars

\* Offer, MarkStaged, MarkApplied: the row moves on and keeps its reference.
LEMMA AdvanceKnows ==
  ASSUME QInv, RInv, Offer \/ MarkStaged \/ MarkApplied
  PROVE  RInv'
<1>1. /\ cur \in Jobs /\ pc' \notin {"markapplying"} /\ cur' \in {cur, 0}
      /\ pc' = "finish" => Kind[cur] = "action" /\ cur' = cur
      /\ UNCHANGED <<acState, acRev, prevRev, confOf, created, live, lastMut>>
  BY DEF Offer, MarkStaged, MarkApplied, Report, CloseSession, Rest, QInv, Inv, Hand, InHand, Doing,
         acVars, localVars, execVars
<1>2. /\ \A k \in Jobs \ {cur} : row'[k] = row[k]
      /\ row'[cur].fin = row[cur].fin /\ row'[cur].prev = row[cur].prev
      /\ row'[cur].state \in {"offered", "staged"} => row[cur].prev = NoPrev
      /\ row'[cur].state = "none" => row[cur].state = "none"
  <2>1. CASE Offer /\ OfferStore(cur, att)
    <3>1. row[cur].state = "none" /\ att \in Nat
      BY <2>1 DEF Offer, QInv, Inv, TypeOK, Placed
    <3>2. row[cur].prev = NoPrev /\ row[cur].fin = NoFinish
      BY <1>1, <3>1 DEF QInv, Inv, Ledger, Terminal, RInv, Ordered
    <3> QED BY <1>1, <2>1, <3>1, <3>2, OfferEffect DEF QInv, Inv
  <2>2. CASE MarkStaged /\ Transition(cur, att, "offered", "staged", NoPrev)
    <3>1. row[cur].state = "offered" /\ "staged" \in Open
      BY <2>2 DEF MarkStaged, QInv, Placed, Open
    <3>2. row[cur].prev = NoPrev
      BY <1>1, <3>1 DEF RInv, Ordered
    <3> QED BY <1>1, <2>2, <3>1, <3>2, TransitionEffect DEF QInv, Inv
  <2>3. CASE MarkApplied /\ Transition(cur, att, "applying", "applied", NoPrev)
    <3>1. row[cur].state = "applying" /\ "applied" \in Open
      BY <2>3 DEF MarkApplied, QInv, Placed, Open
    <3> QED BY <1>1, <2>3, <3>1, TransitionEffect DEF QInv, Inv
  <2>4. CASE row' = row
    BY <1>1, <2>4 DEF RInv, Ordered
  <2> QED BY <2>1, <2>2, <2>3, <2>4 DEF Offer, MarkStaged, MarkApplied, JournalError, rowVars
<1>3. \A k \in Jobs : row[k].state \in {"none", "offered", "staged"} => row[k].prev = NoPrev
  BY DEF RInv, Ordered
<1>4. \A k \in Jobs : /\ row'[k].prev = row[k].prev /\ row'[k].fin = row[k].fin
                      /\ row'[k].state \in {"none", "offered", "staged"} => row[k].prev = NoPrev
  BY <1>1, <1>2, <1>3
<1> QED BY <1>1, <1>4, Framed

\* Poll: the oldest job is leased; what it returns to is not what a waiting job noted.
LEMMA PollKnows ==
  ASSUME QInv, RInv, Poll
  PROVE  RInv'
<1>1. PICK j \in Jobs : /\ First(Queued, created, j) /\ acState[j] = "queued"
                        /\ \A k \in Jobs : acState[k] \notin {"leased", "running"}
                        /\ acState'[j] = "leased"
                        /\ \A k \in Jobs \ {j} : acState'[k] = acState[k]
                        /\ pc' \notin {"markapplying", "finish"}
                        /\ UNCHANGED <<acRev, prevRev, confOf, created, row, live, lastMut>>
  BY DEF Poll, Leasable, Lease, First, Queued, AnswerLost, CloseSession, Rest,
         QInv, Inv, TypeOK, rowVars, execVars
<1>2. row[j].state = "none" /\ row[j].prev = NoPrev /\ row[j].fin = NoFinish
  BY <1>1, NoRowYet
<1>3. /\ \A i \in Jobs : ~Runs(i)'
      /\ \A i \in Jobs : Stands(i)' <=> Stands(i)
      /\ \A i \in Jobs : Waits(i)' => Waits(i) /\ acState[i] = "queued"
  BY <1>1 DEF Runs, Stands, Waits
<1>4. Ordered'
  <2>1. \A p \in created : p \in Jobs \X Jobs
    BY DEF QInv, Inv, TypeOK
  <2> QED BY <1>1, <2>1 DEF RInv, Ordered
<1>5. Referring'
  BY <1>1, Sources DEF RInv, Referring, QInv, Inv, TypeOK
<1>6. Latest'
  BY <1>1, <1>2 DEF Latest, NoFinish
<1>7. AsNoted' <=> AsNoted
  BY <1>1 DEF AsNoted
<1>8. ASSUME AsNoted PROVE Chain' /\ Behind' /\ Agreed'
  <2>1. Chain'
    BY <1>1, <1>3, <1>8 DEF RInv, Chain
  <2>2. Behind'
    <3>1. ASSUME j \in Compensations
          PROVE  /\ confOf[acRev] # confOf[prevRev[SourceOf[j]]]
                 /\ \A x \in Jobs : Waits(x)' => confOf[prevRev[x]] # confOf[prevRev[SourceOf[j]]]
      <4>1. Stands(SourceOf[j]) /\ acState[SourceOf[j]] = "applied" /\ SourceOf[j] \in Jobs
        BY <1>1, <1>2, <3>1, SourceStands, Sources
      <4>2. confOf[acRev] # confOf[prevRev[SourceOf[j]]]
        BY <1>8, <4>1 DEF RInv, Chain
      <4>3. ASSUME NEW x \in Jobs, Waits(x)', confOf[prevRev[x]] = confOf[prevRev[SourceOf[j]]] PROVE FALSE
        <5>1. <<x, j>> \in created
          BY <1>1, <1>3, <1>8, <3>1, <4>1, <4>3 DEF RInv, Behind
        <5>2. x # j
          BY <3>1, <4>3, Sources DEF Waits
        <5>3. <<j, x>> \in created
          BY <1>1, <1>3, <4>3, <5>2 DEF First, Queued
        <5> QED BY <5>1, <5>3 DEF RInv, Ordered
      <4> QED BY <4>2, <4>3
    <3>2. ASSUME NEW k \in Compensations, k # j
          PROVE  acState'[k] = acState[k] /\ acState[k] \notin {"leased", "running"}
      BY <1>1, <3>2, Sources
    <3> QED BY <1>1, <1>3, <1>8, <3>1, <3>2, Sources DEF RInv, Behind
  <2>3. Agreed'
    <3>1. lastMut # 0 => lastMut \in Jobs
      BY DEF QInv, Inv, TypeOK
    <3> QED BY <1>1, <1>3, <1>8, <3>1 DEF RInv, Agreed
  <2> QED BY <2>1, <2>2, <2>3
<1> QED BY <1>4, <1>5, <1>6, <1>7, <1>8 DEF RInv

\* Accept: the leased job has no reference yet.
LEMMA AcceptKnows ==
  ASSUME QInv, RInv, Accept
  PROVE  RInv'
<1>1. /\ cur \in Jobs /\ row[cur].state = "staged"
      /\ \A k \in Jobs \ {cur} : acState'[k] = acState[k]
      /\ \/ acState[cur] \in {"leased", "running"} /\ acState'[cur] = "running"
         \/ acState'[cur] = acState[cur]
      /\ pc' \notin {"markapplying", "finish"}
      /\ UNCHANGED <<acRev, prevRev, confOf, created, row, live, lastMut>>
  BY DEF Accept, AcceptOk, MarkRunning, QInv, Inv, TypeOK, Hand, InHand, Placed, Answered,
         AnswerLost, CloseSession, Rest, acVars, rowVars, execVars
<1>2. row[cur].prev = NoPrev /\ row[cur].fin = NoFinish
  BY <1>1 DEF QInv, Inv, Ledger, Terminal, RInv, Ordered
<1>3. \A k \in Jobs : /\ acState'[k] \in {"leased", "running"} <=> acState[k] \in {"leased", "running"}
                      /\ acState'[k] \notin {"leased", "running"} => acState'[k] = acState[k]
  BY <1>1
<1>4. /\ \A i \in Jobs : Runs(i)' <=> Runs(i)
      /\ \A i \in Jobs : Stands(i)' <=> Stands(i)
      /\ \A i \in Jobs : Waits(i)' <=> Waits(i)
  BY <1>1, <1>2 DEF Runs, Stands, Waits
<1>5. Ordered'
  <2>1. \A p \in created : p \in Jobs \X Jobs
    BY DEF QInv, Inv, TypeOK
  <2> QED BY <1>1, <2>1 DEF RInv, Ordered
<1>6. Referring'
  BY <1>1, Sources DEF RInv, Referring, QInv, Inv, TypeOK
<1>7. Latest'
  BY <1>1, <1>3, <1>4 DEF RInv, Latest
<1>8. AsNoted' <=> AsNoted
  BY <1>1 DEF AsNoted
<1>9. ASSUME AsNoted PROVE Chain' /\ Behind' /\ Agreed'
  <2>1. Chain'
    BY <1>1, <1>4, <1>9 DEF RInv, Chain
  <2>2. Behind'
    <3>1. \A k \in Compensations : acState'[k] = "absent" <=> acState[k] = "absent"
      BY <1>1, Sources
    <3> QED BY <1>1, <1>3, <1>4, <1>9, <3>1, Sources DEF RInv, Behind
  <2>3. Agreed'
    <3>1. lastMut # 0 => lastMut \in Jobs
      BY DEF QInv, Inv, TypeOK
    <3> QED BY <1>1, <1>3, <1>4, <1>9, <3>1 DEF RInv, Agreed
  <2> QED BY <2>1, <2>2, <2>3
<1> QED BY <1>5, <1>6, <1>7, <1>8, <1>9 DEF RInv

\* Prepare: a candidate starts from what is in effect, a compensation from its source.
LEMMA PrepareKnows ==
  ASSUME QInv, RInv, Prepare
  PROVE  RInv'
<1>1. /\ cur \in Jobs /\ cur' = cur
      /\ UNCHANGED <<acState, acRev, prevRev, confOf, created, row, live, lastMut>>
      /\ \/ pc' = "markapplying" /\ prev' = PreviousOf(cur) /\ prev' # NoPrev
         \/ pc' = "finish" /\ fin'.out = "failed"
  BY DEF Prepare, Report, QInv, Inv, Hand, InHand, Doing, acVars, rowVars, execVars
<1>2. pc' = "markapplying" =>
        /\ Kind[cur] = "apply" => prev' = live
        /\ Kind[cur] = "rollback" => cur \in Compensations /\ prev' = row[SourceOf[cur]].prev
  BY <1>1 DEF PreviousOf, Reference, Compensations
<1>3. \A k \in Jobs : row[k].state \in {"none", "offered", "staged"} => row[k].prev = NoPrev
  BY DEF RInv, Ordered
<1> QED BY <1>1, <1>2, <1>3, Framed

\* ApplyBegin, ApplyEnd: the candidate is written, or what was found is restored.
LEMMA ApplyKnows ==
  ASSUME QInv, RInv, ApplyBegin \/ ApplyEnd
  PROVE  RInv'
<1>1. /\ pc \in {"apply", "applying"} /\ cur \in Jobs /\ cur' = cur
      /\ acState[cur] = "running" /\ row[cur].fin.out = "none" /\ row[cur].prev = prev
      /\ Kind[cur] # "action" => prev \in Configs
      /\ UNCHANGED <<acState, acRev, prevRev, confOf, created, row>>
  BY DEF ApplyBegin, ApplyEnd, Report, QInv, Inv, Hand, InHand, Doing, Placed, Refs, Ledger, Terminal,
         NoFinish, acVars, rowVars, localVars
<1>2. CASE /\ Kind[cur] # "action" /\ lastMut' = cur /\ pc' \notin {"markapplying", "finish"}
           /\ live' \in {Mixed, prev} \/ (Kind[cur] = "apply" /\ live' = cur)
  BY <1>1, <1>2, Wrote
<1>3. CASE UNCHANGED <<live, lastMut>> /\ pc' \notin {"markapplying", "finish"}
  BY <1>1, <1>3, Idles
<1>4. CASE UNCHANGED <<live, lastMut>> /\ Kind[cur] = "action" /\ pc' = "finish"
  <2>1. \A k \in Jobs : row[k].state \in {"none", "offered", "staged"} => row[k].prev = NoPrev
    BY DEF RInv, Ordered
  <2> QED BY <1>1, <1>4, <2>1, Framed
<1>5. pc = "applying" /\ Kind[cur] # "action" => lastMut = cur
  BY DEF QInv, Placed
<1> QED BY <1>1, <1>2, <1>3, <1>4, <1>5 DEF ApplyBegin, ApplyEnd, Report

\* RestoreBegin, RestoreEnd, RecoverRestored, RecoverFails: the reference is written.
LEMMA RestoreKnows ==
  ASSUME QInv, RInv, RestoreBegin \/ RestoreEnd \/ RecoverRestored \/ RecoverFails
  PROVE  RInv'
<1>1. /\ cur \in Jobs /\ row[cur].state \in {"applying", "applied"} /\ row[cur].prev = prev
      /\ prev \in Configs /\ lastMut' = cur /\ live' \in {Mixed, prev}
      /\ pc' # "markapplying" /\ (pc' = "finish" => cur' = cur)
      /\ UNCHANGED <<acState, acRev, prevRev, confOf, created, row>>
  BY DEF RestoreBegin, RestoreEnd, RecoverRestored, RecoverFails, Report, Rest, QInv, Inv, Hand,
         InHand, Doing, Placed, Refs, acVars, rowVars, localVars
<1>2. acState[cur] = "running" /\ row[cur].fin.out = "none"
  BY <1>1 DEF QInv, Inv, Single, Ledger, Terminal, NoFinish
<1>3. Kind[cur] # "action"
  BY <1>1, JobsAssumption DEF QInv, Inv, Refs, Configs, JobsAssumption
<1> QED BY <1>1, <1>2, <1>3, Wrote

\* Readback: the job in hand is the last writer.
LEMMA ReadbackKnows ==
  ASSUME QInv, RInv, Readback
  PROVE  RInv'
<1>1. /\ pc = "readback" /\ cur \in Jobs /\ cur' = cur /\ lastMut = cur
      /\ row[cur].prev = prev /\ prev \in Configs /\ pc' \in {"finish", "restore"}
      /\ UNCHANGED <<acState, acRev, prevRev, confOf, created, row, live, lastMut>>
  BY DEF Readback, Report, QInv, Inv, Hand, InHand, Doing, Placed, Refs, acVars, rowVars, localVars,
         execVars
<1>2. \A k \in Jobs : row[k].state \in {"none", "offered", "staged"} => row[k].prev = NoPrev
  BY DEF RInv, Ordered
<1> QED BY <1>1, <1>2, Names, Framed

\* RecoverFinish: the job in hand is the last writer.
LEMMA RecoverFinishKnows ==
  ASSUME QInv, RInv, RecoverFinish
  PROVE  RInv'
<1> DEFINE f == [id |-> nextFin + 1, out |-> "rolled_back", err |-> "rolled_back", rb |-> FALSE]
<1>1. f \in Finishes /\ f.out = "rolled_back"
  BY DEF QInv, Inv, Finishes, Outcomes, Errors, TypeOK
<1>2. /\ cur \in Jobs /\ lastMut = cur /\ row[cur].state \in {"applying", "applied"}
      /\ row[cur].prev \in Configs /\ pc' \in {"recover", "off"}
      /\ FinishStore(cur, att, f) \/ row' = row
      /\ UNCHANGED <<acState, acRev, prevRev, confOf, created, live, lastMut>>
  BY DEF RecoverFinish, JournalError, Rest, QInv, Inv, TypeOK, Hand, InHand, Placed,
         acVars, rowVars, execVars
<1> HIDE DEF f
<1>3. CASE row' = row
  BY <1>2, <1>3, Idles
<1>4. CASE FinishStore(cur, att, f)
  <2>1. Matches(cur, att) /\ row[cur].fin = NoFinish /\ acState[cur] = "running"
    BY <1>2 DEF QInv, Inv, Single, Placed, InHand, Ledger, Terminal, Matches, RecoverFinish
  <2>2. /\ \A k \in Jobs \ {cur} : row'[k] = row[k]
        /\ row'[cur].prev = row[cur].prev /\ row'[cur].fin = f /\ row'[cur].state \in Terminal
    BY <1>1, <1>2, <1>4, <2>1, FinishStoreEffect DEF QInv, Inv
  <2>3. \A k \in Jobs : row[k].state \in {"none", "offered", "staged"} => row[k].prev = NoPrev
    BY DEF RInv, Ordered
  <2>4. \A k \in Jobs : row'[k].state \in {"none", "offered", "staged"} => row[k].prev = NoPrev
    BY <2>2, <2>3 DEF Terminal
  <2> QED BY <1>1, <1>2, <2>1, <2>2, <2>4, Names, Framed DEF NoFinish
<1> QED BY <1>2, <1>3, <1>4

\* Recover: a row that never was applying is finished as failed, any other is restored.
LEMMA RecoverKnows ==
  ASSUME QInv, RInv, Recover
  PROVE  RInv'
<1>1. \/ pc' = "offline" /\ row' = row /\ UNCHANGED execVars
      \/ \E j \in Jobs : row[j].state \in Open /\ RecoverRow(j)
  BY DEF Recover, First, Unfinished, Rest, rowVars
<1>2. pc = "recover" /\ UNCHANGED <<acState, acRev, prevRev, confOf, created>>
  BY DEF Recover, acVars
<1>3. ASSUME pc' \in {"recover", "offline", "off"}, row' = row, UNCHANGED <<live, lastMut>>
      PROVE  RInv'
  BY <1>2, <1>3, Idles
<1>4. ASSUME NEW j \in Jobs, row[j].state \in Open, RecoverRow(j)
      PROVE  RInv'
  <2>1. CASE row[j].state \in {"offered", "staged"}
    <3> DEFINE f == [id |-> nextFin + 1, out |-> "failed", err |-> "interrupted", rb |-> FALSE]
    <3>1. f \in Finishes /\ f.out = "failed"
      BY DEF QInv, Inv, Finishes, Outcomes, Errors, TypeOK
    <3>2. /\ UNCHANGED <<live, lastMut>>
          /\ \/ FinishStore(j, row[j].att, f) /\ pc' = "recover"
             \/ row' = row /\ pc' = "off"
      BY <1>2, <1>4, <2>1 DEF RecoverRow, execVars, JournalError, rowVars, Rest
    <3> HIDE DEF f
    <3>3. CASE row' = row /\ pc' = "off"
      BY <1>3, <3>2, <3>3
    <3>4. CASE FinishStore(j, row[j].att, f) /\ pc' = "recover"
      <4>1. row[j].fin = NoFinish /\ Matches(j, row[j].att)
        BY <2>1 DEF QInv, Inv, Ledger, Terminal, Matches
      <4>2. /\ \A k \in Jobs \ {j} : row'[k] = row[k]
            /\ row'[j].prev = row[j].prev /\ row'[j].fin = f
        BY <3>1, <3>4, <4>1, FinishStoreEffect DEF QInv, Inv
      <4>3. \A k \in Jobs : row[k].state \in {"none", "offered", "staged"} => row[k].prev = NoPrev
        BY DEF RInv, Ordered
      <4>4. \A k \in Jobs : row'[k].state \in {"none", "offered", "staged"} => row[k].prev = NoPrev
        BY <2>1, <4>2, <4>3
      <4> QED BY <1>2, <3>1, <3>2, <3>4, <4>1, <4>2, <4>4, Framed DEF NoFinish
    <3> QED BY <3>2, <3>3, <3>4
  <2>2. CASE row[j].state \notin {"offered", "staged"} /\ row[j].prev \in {NoPrev, EmptyPrev}
    BY <1>3, <1>4, <2>2 DEF RecoverRow, Rest, rowVars
  <2>3. CASE row[j].state \notin {"offered", "staged"} /\ row[j].prev \notin {NoPrev, EmptyPrev}
    <3>1. row' = row /\ live' = Mixed /\ lastMut' = j /\ pc' = "recroll"
      BY <1>4, <2>3 DEF RecoverRow, rowVars
    <3>2. acState[j] = "running" /\ row[j].fin.out = "none"
      BY <1>4, <2>3 DEF Open, QInv, Inv, Single, Ledger, Terminal, NoFinish
    <3>3. Kind[j] # "action" /\ row[j].prev \in Configs
      BY <2>3 DEF QInv, Inv, Refs
    <3> QED BY <1>2, <3>1, <3>2, <3>3, Wrote
  <2> QED BY <2>1, <2>2, <2>3
<1> QED BY <1>1, <1>3, <1>4 DEF execVars

\* MarkApplying: a candidate starts from the configuration the controller knows of, and a
\* compensation from the one that only its source started from.
LEMMA MarkApplyingKnows ==
  ASSUME QInv, RInv, MarkApplying
  PROVE  RInv'
<1>1. /\ pc = "markapplying" /\ cur \in Jobs /\ cur' = cur /\ acState[cur] = "running"
      /\ row[cur].state = "staged" /\ Matches(cur, att)
      /\ prev \in Configs \cup {EmptyPrev} /\ prev # NoPrev
      /\ Kind[cur] # "action" => prev \in Configs
      /\ UNCHANGED <<acState, acRev, prevRev, confOf, created, live, lastMut>>
  <2>1. /\ pc = "markapplying" /\ cur \in Jobs /\ cur' = cur /\ acState[cur] = "running"
        /\ row[cur].state = "staged" /\ Matches(cur, att)
        /\ UNCHANGED <<acState, acRev, prevRev, confOf, created, live, lastMut>>
    BY DEF MarkApplying, Report, QInv, Inv, Hand, InHand, Doing, Placed, Single, Matches,
           acVars, localVars, execVars
  <2>2. prev \in (IF Kind[cur] = "action" THEN {EmptyPrev} ELSE Configs)
    BY <2>1 DEF QInv, Inv, Refs
  <2> QED BY <2>1, <2>2, Names, JobsAssumption DEF JobsAssumption
<1>2. row[cur].prev = NoPrev /\ row[cur].fin = NoFinish
  BY <1>1 DEF QInv, Inv, Ledger, Terminal, RInv, Ordered
<1>3. \/ /\ \A k \in Jobs \ {cur} : row'[k] = row[k]
         /\ row'[cur].fin = row[cur].fin
         /\ row'[cur].state = "applying" /\ row'[cur].prev = prev
         /\ pc' \in {"restore", "apply"}
      \/ row' = row /\ pc' = "finish" /\ fin'.out = "failed"
  <2>1. CASE /\ Transition(cur, att, "staged", "applying", prev)
             /\ pc' = (IF Kind[cur] = "rollback" THEN "restore" ELSE "apply")
    BY <1>1, <2>1, MovedOn DEF QInv, Inv
  <2>2. ~Spend("oversize")
    BY Untouched DEF QInv
  <2> QED BY <2>1, <2>2 DEF MarkApplying, JournalError, Report, rowVars
<1>4. CASE row' = row /\ pc' = "finish" /\ fin'.out = "failed"
  <2>1. \A k \in Jobs : row[k].state \in {"none", "offered", "staged"} => row[k].prev = NoPrev
    BY DEF RInv, Ordered
  <2> QED BY <1>1, <1>4, <2>1, Framed
<1>5. CASE /\ \A k \in Jobs \ {cur} : row'[k] = row[k]
           /\ row'[cur].fin = row[cur].fin
           /\ row'[cur].state = "applying" /\ row'[cur].prev = prev
           /\ pc' \in {"restore", "apply"}
  <2>1. Ordered'
    BY <1>1, <1>5 DEF RInv, Ordered
  <2>2. \A k \in Compensations : SourceOf[k] = cur => row[k].prev = NoPrev
    <3> SUFFICES ASSUME NEW k \in Compensations, SourceOf[k] = cur
                 PROVE  row[k].prev = NoPrev
      OBVIOUS
    <3>1. acState[k] = "absent"
      BY <1>1 DEF RInv, Referring
    <3> QED BY <3>1, NoRowYet, Sources
  <2>3. Referring'
    <3>1. \A k \in Compensations : row'[k].prev # NoPrev => row'[k].prev = row'[SourceOf[k]].prev
      <4> SUFFICES ASSUME NEW k \in Compensations, row'[k].prev # NoPrev
                   PROVE  row'[k].prev = row'[SourceOf[k]].prev
        OBVIOUS
      <4>1. k \in Jobs /\ SourceOf[k] \in Jobs /\ SourceOf[k] # k
        BY Sources
      <4>2. CASE k = cur
        BY <1>1, <1>5, <4>1, <4>2, Sources DEF RInv, Referring
      <4>3. CASE k # cur
        BY <1>5, <2>2, <4>1, <4>3 DEF RInv, Referring
      <4> QED BY <4>2, <4>3
    <3> QED BY <1>1, <1>5, <3>1 DEF RInv, Referring
  <2>4. /\ \A i \in Jobs \ {cur} : Runs(i)' <=> Runs(i)
        /\ \A i \in Jobs : Waits(i)' => Waits(i)
        /\ \A i \in Jobs : Stands(i)' => Stands(i)
    BY <1>1, <1>2, <1>5, Sources DEF Runs, Waits, Stands
  <2>5. Latest'
    BY <1>1, <1>2, <1>5, <2>4 DEF RInv, Latest, NoFinish
  <2>6. AsNoted' => AsNoted /\ (Kind[cur] = "apply" => prev = confOf[prevRev[cur]])
    BY <1>1, <1>2, <1>5 DEF AsNoted
  <2>7. ASSUME AsNoted, Kind[cur] = "apply" => prev = confOf[prevRev[cur]] PROVE Chain' /\ Behind' /\ Agreed'
    <3>1. ASSUME NEW s \in Jobs, Stands(s)', prev = confOf[prevRev[s]] PROVE FALSE
      <4>1. Stands(s)
        BY <2>4, <3>1
      <4>2. CASE Kind[cur] = "apply"
        BY <1>1, <2>7, <3>1, <4>1, <4>2 DEF RInv, Referring, Chain
      <4>3. CASE Kind[cur] = "rollback"
        <5>1. cur \in Compensations
          BY <1>1, <4>3 DEF Compensations
        <5>2. Stands(SourceOf[cur]) /\ SourceOf[cur] \in Jobs
          BY <1>1, <1>2, <5>1, SourceStands, Sources
        <5>3. prev = row[SourceOf[cur]].prev
          BY <1>1, <4>3 DEF RInv, Referring
        <5>4. prev = confOf[prevRev[SourceOf[cur]]]
          BY <1>1, <2>7, <5>1, <5>3, Sources DEF AsNoted
        <5>5. s = SourceOf[cur]
          BY <2>7, <3>1, <4>1, <5>2, <5>4 DEF RInv, Chain
        <5> QED BY <1>1, <1>5, <3>1, <5>1, <5>5 DEF Stands
      <4>4. CASE Kind[cur] = "action"
        <5>1. prev = EmptyPrev
          BY <1>1, <4>4 DEF QInv, Inv, Refs
        <5>2. confOf[prevRev[s]] \in Jobs \cup {Base}
          BY DEF QInv, Inv, TypeOK
        <5> QED BY <3>1, <5>1, <5>2, Names DEF Configs
      <4> QED BY <1>1, <4>2, <4>3, <4>4, JobsAssumption DEF JobsAssumption
    <3>2. Chain'
      <4> SUFFICES ASSUME NEW s \in Jobs, Stands(s)'
                   PROVE  /\ \A t \in Jobs : Stands(t)' /\ confOf[prevRev[t]] = confOf[prevRev[s]] => t = s
                          /\ live # confOf[prevRev[s]]
                          /\ \A j \in Jobs : Runs(j)' /\ row'[j].prev = confOf[prevRev[s]] => j = s
                          /\ acState[s] = "applied" => confOf[acRev] # confOf[prevRev[s]]
        BY <1>1 DEF Chain
      <4>1. \A j \in Jobs : Runs(j)' /\ row'[j].prev = confOf[prevRev[s]] => j = s
        BY <1>5, <2>4, <2>7, <3>1 DEF RInv, Chain
      <4> QED BY <2>4, <2>7, <4>1 DEF RInv, Chain
    <3>3. Behind'
      BY <1>1, <2>4, <2>7, Sources DEF RInv, Behind
    <3>4. Agreed'
      <4>1. Kind[cur] = "apply" => confOf[acRev] = prev
        <5>1. Kind[cur] = "apply" => Waits(cur)
          BY <1>1, <1>2 DEF Waits
        <5> QED BY <1>1, <2>7, <5>1 DEF RInv, Referring, Agreed
      <4>2. \A j \in Jobs : Kind[j] = "apply" /\ Runs(j)' => confOf'[acRev'] = row'[j].prev
        BY <1>1, <1>5, <2>4, <2>7, <4>1 DEF RInv, Agreed
      <4> QED BY <1>1, <2>4, <2>7, <4>2 DEF RInv, Agreed
    <3> QED BY <3>2, <3>3, <3>4
  <2> QED BY <2>1, <2>3, <2>5, <2>6, <2>7 DEF RInv
<1> QED BY <1>3, <1>4, <1>5

\* StoreFinish: a candidate that stands started from what no other that stands did.
LEMMA StoreFinishKnows ==
  ASSUME QInv, RInv, StoreFinish
  PROVE  RInv'
<1>1. /\ pc = "finish" /\ cur \in Jobs /\ fin \in Finishes /\ acState[cur] = "running"
      /\ row[cur].fin = NoFinish /\ Matches(cur, att) /\ pc' \in {"send", "offline"}
      /\ FinishStore(cur, att, fin) \/ row' = row
      /\ UNCHANGED <<acState, acRev, prevRev, confOf, created, live, lastMut>>
  BY DEF StoreFinish, JournalError, CloseSession, Rest, QInv, Inv, Hand, InHand, Doing, Placed,
         Single, Matches, acVars, rowVars, execVars
<1>2. CASE row' = row
  BY <1>1, <1>2, Idles
<1>3. CASE FinishStore(cur, att, fin)
  <2>1. /\ \A k \in Jobs \ {cur} : row'[k] = row[k]
        /\ row'[cur].prev = row[cur].prev /\ row'[cur].fin = fin /\ row'[cur].state \in Terminal
    BY <1>1, <1>3, FinishStoreEffect DEF QInv, Inv
  <2>2. (Kind[cur] # "action" /\ fin.out \in {"applied", "rolled_back"})
          => lastMut = cur /\ row[cur].prev # NoPrev
    BY <1>1 DEF RInv, Latest
  <2>3. \A k \in Jobs : row'[k].state \in {"none", "offered", "staged"} => row[k].prev = NoPrev
    BY <1>1, <2>1 DEF RInv, Ordered, Terminal
  <2>4. CASE ~(Kind[cur] = "apply" /\ fin.out = "applied")
    BY <1>1, <2>1, <2>2, <2>3, <2>4, Framed DEF NoFinish
  <2>5. CASE Kind[cur] = "apply" /\ fin.out = "applied"
    <3>1. lastMut = cur /\ row[cur].prev # NoPrev /\ Runs(cur) /\ ~Stands(cur)
      BY <1>1, <2>2, <2>5 DEF Runs, Stands, NoFinish
    <3>2. /\ \A i \in Jobs : (Runs(i)' <=> Runs(i)) /\ (Waits(i)' <=> Waits(i))
          /\ \A i \in Jobs \ {cur} : Stands(i)' <=> Stands(i)
      <4>1. \A i \in Jobs : row'[i].prev = row[i].prev
        BY <2>1
      <4>2. \A i \in Jobs \ {cur} : row'[i].fin = row[i].fin
        BY <2>1
      <4> QED BY <1>1, <4>1, <4>2, Sources DEF Runs, Waits, Stands
    <3>3. \A k \in Compensations : SourceOf[k] = cur => acState[k] = "absent"
      BY <1>1 DEF RInv, Referring
    <3>4. Ordered'
      BY <1>1, <2>3, <2>1 DEF RInv, Ordered
    <3>5. Referring'
      <4>1. \A i \in Jobs : row'[i].prev = row[i].prev
        BY <2>1
      <4> QED BY <1>1, <4>1, Sources DEF RInv, Referring
    <3>6. Latest'
      <4>1. \A i \in Jobs : acState[i] \in {"leased", "running"} => i = cur
        BY <1>1 DEF QInv, Single
      <4> QED BY <1>1, <3>1, <3>2, <4>1 DEF Latest
    <3>7. AsNoted' <=> AsNoted
      BY <1>1, <2>1 DEF AsNoted
    <3>8. ASSUME AsNoted PROVE Chain' /\ Behind' /\ Agreed'
      <4>1. row[cur].prev = confOf[prevRev[cur]] /\ live = cur /\ confOf[prevRev[cur]] # cur
        <5>1. live = cur
          BY <1>1, <2>5, <3>1 DEF QInv, Written, Says
        <5>2. confOf[prevRev[cur]] # cur
          BY <1>1, NotedIsApplied
        <5> QED BY <1>1, <2>5, <3>1, <3>8, <5>1, <5>2 DEF AsNoted
      <4>2. \A s \in Jobs : Stands(s) => confOf[prevRev[s]] # confOf[prevRev[cur]]
        BY <1>1, <3>1, <3>8, <4>1 DEF RInv, Chain
      <4>3. Chain'
        <5> SUFFICES ASSUME NEW s \in Jobs, Stands(s)'
                     PROVE  /\ \A t \in Jobs : Stands(t)' /\ confOf[prevRev[t]] = confOf[prevRev[s]] => t = s
                            /\ live # confOf[prevRev[s]]
                            /\ \A j \in Jobs : Runs(j)' /\ row'[j].prev = confOf[prevRev[s]] => j = s
                            /\ acState[s] = "applied" => confOf[acRev] # confOf[prevRev[s]]
          BY <1>1 DEF Chain
        <5>1. \A j \in Jobs : Runs(j)' => j = cur
          BY <1>1, <3>2 DEF Runs, QInv, Single
        <5>2. CASE s = cur
          BY <1>1, <3>2, <4>1, <4>2, <5>1, <5>2
        <5>3. CASE s # cur
          BY <1>1, <2>1, <3>1, <3>2, <3>8, <4>1, <4>2, <5>1, <5>3 DEF RInv, Chain
        <5> QED BY <5>2, <5>3
      <4>4. Behind'
        <5>1. \A k \in Compensations : Stands(SourceOf[k])' /\ acState[k] # "absent"
                                         => Stands(SourceOf[k])
          BY <3>2, <3>3, Sources
        <5> QED BY <1>1, <3>2, <3>8, <5>1, Sources DEF RInv, Behind
      <4>5. Agreed'
        <5>1. \A i \in Jobs : row'[i].prev = row[i].prev
          BY <2>1
        <5> QED BY <1>1, <3>2, <3>8, <5>1 DEF RInv, Agreed
      <4> QED BY <4>3, <4>4, <4>5
    <3> QED BY <3>4, <3>5, <3>6, <3>7, <3>8 DEF RInv
  <2> QED BY <2>4, <2>5
<1> QED BY <1>1, <1>2, <1>3

\* SendFinish: the revision recorded stands for the configuration in effect, that of an
\* action for the one there was.
LEMMA SendFinishKnows ==
  ASSUME QInv, RInv, SendFinish
  PROVE  RInv'
<1>1. /\ cur \in Jobs /\ fin \in Finishes /\ row[cur].fin = fin
      /\ Finish(cur, att, fin) /\ UNCHANGED <<row, live, lastMut>>
      /\ pc' \in {"ack", "replayack", "offline"}
  BY DEF SendFinish, Answered, AnswerLost, CloseSession, Rest, QInv, Inv, Hand, InHand, Reporting,
         Placed, Single, rowVars, execVars
<1>2. CASE ~FinishRecords(cur, att, fin)
  BY <1>1, <1>2, Idles DEF Finish, acVars
<1>3. CASE FinishRecords(cur, att, fin)
  <2> DEFINE t == TerminalFor(cur, fin)
             st == [acState EXCEPT ![cur] = t]
             failed == peerFailed \cap TransactionOf(cur)
             New(k) == st[k] = "absent" /\ acState'[k] = "queued"
  <2>1. t \in {fin.out, "failed"} /\ t \in Outcomes
    BY <1>1, OutcomeOf
  <2>2. st \in [Jobs -> AcStates] /\ acState \in [Jobs -> AcStates]
    BY <2>1 DEF QInv, Inv, TypeOK, AcStates
  <2>3. Refresh(st, failed) /\ prevRev' = prevRev
        /\ acRev' = RevisionAfter(cur, t) /\ confOf' = ConfAfter(cur, t)
    BY <1>1, <1>3 DEF Finish
  <2>4. /\ acState[cur] \in {"leased", "running"}
        /\ \A k \in Jobs : acState[k] \in {"leased", "running"} => k = cur
    BY <1>1, <1>3 DEF FinishRecords, QInv, Single
  <2>5. /\ st[cur] = t /\ \A k \in Jobs \ {cur} : st[k] = acState[k]
        /\ \A k \in Jobs : st[k] = "absent" <=> acState[k] = "absent"
        /\ \A k \in Jobs : acState[k] = "applied" => st[k] = "applied"
    BY <1>1, <2>1, <2>2, <2>4 DEF Outcomes
  <2> HIDE DEF t, st, failed
  <2>6. \A k \in Jobs : \/ acState'[k] = st[k]
                        \/ st[k] = "queued" /\ acState'[k] = "cancelled"
                        \/ New(k)
    BY <2>2, <2>3, RefreshEffect DEF QInv, Inv, TypeOK
  <2>7. /\ created \subseteq created'
        /\ \A k \in Jobs : New(k) => /\ k \in Compensations
                                     /\ \A x \in Jobs : acState[x] # "absent" => <<x, k>> \in created'
    BY <2>2, <2>3, <2>5, RefreshOrder
  <2>8. /\ \A p \in created' : /\ acState'[p[1]] # "absent" /\ acState'[p[2]] # "absent"
                               /\ <<p[2], p[1]>> \notin created'
        /\ \A k \in Compensations : acState'[k] # "absent" => acState'[SourceOf[k]] = "applied"
    BY <2>2, <2>3, <2>5, RefreshKeeps
  <2>9. /\ acState'[cur] = t
        /\ \A k \in Jobs : acState'[k] \notin {"leased", "running"}
        /\ \A k \in Jobs : acState[k] = "applied" => acState'[k] = "applied"
        /\ \A k \in Jobs \ {cur} : acState'[k] \in {"applied", "rolled_back"} => acState'[k] = acState[k]
    BY <1>1, <2>1, <2>4, <2>5, <2>6 DEF Outcomes
  <2>10. /\ \A i \in Jobs : ~Runs(i)'
         /\ \A i \in Jobs : Stands(i)' <=> Stands(i)
         /\ \A i \in Jobs : Waits(i)' => Waits(i)
    <3>1. \A i \in Jobs : Waits(i)' => Waits(i)
      <4> SUFFICES ASSUME NEW i \in Jobs, Waits(i)' PROVE Waits(i)
        OBVIOUS
      <4>1. Kind[i] = "apply" /\ acState'[i] = "queued" /\ row[i].prev = NoPrev
        BY <1>1, <2>9 DEF Waits
      <4>2. ~New(i)
        BY <2>7, <4>1, Sources
      <4>3. acState[i] = "queued"
        BY <2>1, <2>5, <2>6, <2>9, <4>1, <4>2 DEF Outcomes
      <4> QED BY <4>1, <4>3 DEF Waits
    <3> QED BY <1>1, <2>9, <3>1 DEF Runs, Stands
  <2>11. Ordered'
    BY <1>1, <2>8 DEF RInv, Ordered
  <2>12. acRev' \in Jobs => acState'[acRev'] = "applied"
    <3>1. CASE Kind[cur] # "rollback" /\ t = "applied"
      BY <2>3, <2>9, <3>1 DEF RevisionAfter
    <3>2. CASE Kind[cur] = "rollback" /\ t = "rolled_back"
      <4>1. acRev' = prevRev[SourceOf[cur]] /\ SourceOf[cur] \in Jobs
        BY <1>1, <2>3, <3>2, Sources DEF RevisionAfter, Compensations
      <4> QED BY <2>9, <3>2, <4>1 DEF RInv, Referring
    <3>3. CASE acRev' = acRev
      BY <2>9, <3>3 DEF RInv, Referring
    <3> QED BY <2>3, <3>1, <3>2, <3>3 DEF RevisionAfter
  <2>13. /\ confOf'[Base] = Base
         /\ \A k \in Jobs \ {cur} : confOf'[k] = confOf[k]
         /\ \A k \in Jobs : confOf'[prevRev[k]] = confOf[prevRev[k]]
         /\ confOf'[cur] = IF Kind[cur] = "action" /\ t = "applied" THEN confOf[acRev] ELSE cur
    <3>1. confOf \in [Jobs \cup {Base} -> Jobs \cup {Base}] /\ Base # cur
          /\ \A k \in Jobs : prevRev[k] \in Jobs \cup {Base}
      BY <1>1, JobsAssumption DEF QInv, Inv, TypeOK, JobsAssumption
    <3>2. /\ confOf[Base] = Base /\ confOf[cur] = cur
          /\ \A k \in Jobs : prevRev[k] # cur
      BY <1>1, <2>4 DEF RInv, Referring
    <3> QED BY <1>1, <2>3, <3>1, <3>2 DEF ConfAfter
  <2>14. \A k \in Jobs : /\ acState'[k] # "applied" => confOf'[k] = k
                         /\ confOf'[k] \in Jobs \ {k} => acState'[confOf'[k]] = "applied"
    <3>1. confOf[acRev] \in Jobs => acState[confOf[acRev]] = "applied"
      <4>1. acRev \in Jobs \cup {Base}
        BY DEF QInv, Inv, TypeOK
      <4>2. confOf[Base] \notin Jobs
        BY JobsAssumption DEF RInv, Referring, JobsAssumption
      <4> QED BY <4>1, <4>2 DEF RInv, Referring
    <3>2. ASSUME NEW k \in Jobs \ {cur}
          PROVE  /\ acState'[k] # "applied" => confOf'[k] = k
                 /\ confOf'[k] \in Jobs \ {k} => acState'[confOf'[k]] = "applied"
      BY <2>9, <2>13 DEF RInv, Referring
    <3>3. /\ acState'[cur] # "applied" => confOf'[cur] = cur
          /\ confOf'[cur] \in Jobs \ {cur} => acState'[confOf'[cur]] = "applied"
      BY <2>9, <2>13, <3>1
    <3> QED BY <3>2, <3>3
  <2>15. Referring'
    BY <1>1, <2>3, <2>8, <2>9, <2>12, <2>13, <2>14 DEF RInv, Referring
  <2>16. Latest'
    BY <1>1, <2>9 DEF Latest
  <2>17. AsNoted' <=> AsNoted
    BY <1>1, <2>3, <2>13 DEF AsNoted
  <2>18. (Kind[cur] # "action" /\ fin.out \in {"applied", "rolled_back"}) =>
           lastMut = cur /\ Runs(cur) /\ Says(fin.out)
    BY <1>1, <2>4, Names DEF RInv, Latest, QInv, Written
  <2>19. ASSUME AsNoted
         PROVE  /\ \A s \in Jobs : Stands(s) /\ acState'[s] = "applied" => confOf'[acRev'] # confOf[prevRev[s]]
                /\ \A x \in Jobs : Waits(x)' /\ live = confOf[prevRev[x]] => confOf'[acRev'] = live
                /\ lastMut = 0 \/ acState'[lastMut] \in {"applied", "rolled_back"} => live = confOf'[acRev']
    <3>1. CASE Kind[cur] = "apply" /\ t = "applied"
      <4>1. confOf'[acRev'] = cur /\ lastMut = cur /\ live = cur
        BY <2>1, <2>3, <2>18, <2>13, <3>1 DEF RevisionAfter, Says
      <4>2. \A s \in Jobs : confOf[prevRev[s]] # cur
        BY <1>1, <2>4, NotedIsApplied
      <4> QED BY <4>1, <4>2
    <3>2. CASE Kind[cur] = "rollback" /\ t = "rolled_back"
      <4>1. cur \in Compensations
        BY <1>1, <3>2 DEF Compensations
      <4>2. lastMut = cur /\ row[cur].prev # NoPrev /\ live = row[cur].prev
        BY <2>1, <2>18, <3>2 DEF Says, Runs
      <4>3. confOf'[acRev'] = confOf[prevRev[SourceOf[cur]]]
        BY <2>3, <2>13, <3>2, <4>1, Sources DEF RevisionAfter
      <4>4. live = confOf'[acRev']
        BY <2>19, <4>1, <4>2, <4>3, Returning
      <4> QED BY <2>19, <4>4 DEF RInv, Chain
    <3>3. CASE ~(Kind[cur] = "apply" /\ t = "applied") /\ ~(Kind[cur] = "rollback" /\ t = "rolled_back")
      <4>1. confOf'[acRev'] = confOf[acRev]
        <5>1. CASE Kind[cur] = "action" /\ t = "applied"
          BY <2>3, <2>13, <5>1 DEF RevisionAfter
        <5>2. CASE ~(Kind[cur] = "action" /\ t = "applied")
          <6>1. acRev' = acRev /\ confOf' = confOf
            BY <1>1, <2>3, <3>3, <5>2, JobsAssumption DEF RevisionAfter, ConfAfter, JobsAssumption
          <6> QED BY <6>1
        <5> QED BY <5>1, <5>2
      <4>2. ASSUME NEW s \in Jobs, Stands(s), acState'[s] = "applied" PROVE acState[s] = "applied"
        BY <2>9, <3>3, <4>2 DEF Stands
      <4>3. ASSUME lastMut = 0 \/ acState'[lastMut] \in {"applied", "rolled_back"}
            PROVE  live = confOf[acRev]
        <5>1. CASE lastMut = cur
          <6>1. t \in {"applied", "rolled_back"} /\ Kind[cur] # "action"
            BY <1>1, <2>9, <4>3, <5>1, Names DEF QInv, Written
          <6>2. Kind[cur] = "apply" /\ t = "rolled_back"
            <7>1. Kind[cur] = "rollback" => t # "applied"
              BY DEF t, TerminalFor
            <7> QED BY <1>1, <3>3, <6>1, <7>1, JobsAssumption DEF JobsAssumption
          <6>3. fin.out = "rolled_back"
            BY <2>1, <6>2
          <6>4. Runs(cur) /\ live = row[cur].prev
            BY <2>18, <5>1, <6>2, <6>3 DEF Says
          <6> QED BY <1>1, <2>19, <6>2, <6>4 DEF RInv, Agreed
        <5>2. CASE lastMut # cur
          <6>1. lastMut # 0 => lastMut \in Jobs \ {cur}
            BY <5>2 DEF QInv, Inv, TypeOK
          <6> QED BY <2>9, <2>19, <4>3, <6>1 DEF RInv, Agreed
        <5> QED BY <5>1, <5>2
      <4> QED BY <2>10, <2>19, <4>1, <4>2, <4>3 DEF RInv, Chain, Agreed
    <3> QED BY <3>1, <3>2, <3>3
  <2>20. ASSUME AsNoted PROVE Chain' /\ Behind' /\ Agreed'
    <3>1. Chain'
      BY <1>1, <2>3, <2>10, <2>19, <2>20, <2>13 DEF RInv, Chain
    <3>2. Behind'
      <4> SUFFICES ASSUME NEW k \in Compensations, NEW x \in Jobs, Waits(x)',
                          confOf[prevRev[x]] = confOf[prevRev[SourceOf[k]]], Stands(SourceOf[k]),
                          acState'[k] # "absent"
                   PROVE  <<x, k>> \in created'
        BY <2>3, <2>9, <2>10, <2>13, Sources DEF Behind
      <4>1. Waits(x) /\ acState[x] # "absent" /\ k \in Jobs
        BY <2>10, Sources DEF Waits
      <4>2. CASE New(k)
        BY <2>7, <4>1, <4>2
      <4>3. CASE ~New(k)
        <5>1. acState[k] # "absent"
          BY <2>5, <2>6, <4>1, <4>3
        <5> QED BY <2>7, <2>20, <4>1, <5>1 DEF RInv, Behind
      <4> QED BY <4>2, <4>3
    <3>3. Agreed'
      BY <1>1, <2>3, <2>10, <2>19, <2>20, <2>13 DEF Agreed
    <3> QED BY <3>1, <3>2, <3>3
  <2> QED BY <2>11, <2>15, <2>16, <2>17, <2>20 DEF RInv
<1> QED BY <1>2, <1>3

\* One case per action, by the lemmas above.
LEMMA KnowsStep ==
  ASSUME QInv, RInv, [Next]_vars
  PROVE  RInv'
<1>1. CASE UNCHANGED vars
  BY <1>1
  DEF vars, acVars, rowVars, localVars, execVars, RInv, AsNoted, Ordered, Referring, Latest,
      Chain, Behind, Agreed, Stands, Runs, Waits
<1>2. CASE \E j \in Jobs : AcCreate(j) \/ AcPeerFails(j) \/ AcExpireAction(j)
  BY <1>2, CreateKnows, PeerFailsKnows, ExpireActionKnows
<1>3. CASE AcRestart \/ Drop \/ Crash \/ Connect \/ Start
  BY <1>3, RestartKnows, PausesKnow
<1>4. CASE Exchange
  BY <1>4, ReplayKnows, SendFinishKnows, AckKnows, PausesKnow, PollKnows, AdvanceKnows, AcceptKnows
  DEF Exchange
<1>5. CASE Execute
  BY <1>5, PrepareKnows, MarkApplyingKnows, ApplyKnows, AdvanceKnows, ReadbackKnows, RestoreKnows,
     StoreFinishKnows DEF Execute
<1>6. CASE Recovery
  BY <1>6, RecoverKnows, RestoreKnows, RecoverFinishKnows DEF Recovery
<1> QED BY <1>1, <1>2, <1>3, <1>4, <1>5, <1>6 DEF Next, Agent

\* The third invariant: the revision of the controller and the configuration in effect
\* (ac_db_config_job_finish, ac_wifi_tx_refresh_locked).
THEOREM RevisionsInductive == OrderlyFaults => (Spec => [](QInv /\ RInv))
<1>1. Init => RInv
  <2> SUFFICES ASSUME Init PROVE RInv
    OBVIOUS
  <2>1. Ordered /\ Referring
    BY Names, Sources, JobsAssumption
    DEF Init, NoRow, Ordered, Referring, JobsAssumption
  <2>2. Latest
    BY DEF Init, Latest
  <2>3. \A j \in Jobs : ~Stands(j) /\ ~Runs(j) /\ ~Waits(j)
    BY DEF Init, NoRow, NoFinish, Stands, Runs, Waits
  <2>4. Chain /\ Behind /\ Agreed
    BY <2>3, Sources DEF Init, Chain, Behind, Agreed
  <2> QED BY <2>1, <2>2, <2>4 DEF RInv
<1>2. QInv /\ RInv /\ [Next]_vars => RInv'
  BY KnowsStep
<1> QED BY <1>1, <1>2, OrderlyInductive, PTL DEF Spec

\* As long as every job started from the revision noted for it, the applied_revision of
\* the controller stands for the configuration in effect once the last writer has ended in
\* "applied" or "rolled_back" (ac_db_config_job_finish).
THEOREM RevisionIsLive == OrderlyFaults => (Spec => []ControllerKnowsLive)
<1>1. RInv => ControllerKnowsLive
  BY DEF RInv, AsNoted, Agreed, ControllerKnowsLive
<1> QED BY <1>1, RevisionsInductive, PTL
=============================================================================
