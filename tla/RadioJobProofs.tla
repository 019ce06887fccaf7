---------------------------- MODULE RadioJobProofs ----------------------------
(* Proofs about RadioJob, for any set of jobs and radios and any number of     *)
(* faults: the two sides agree about every finish, and it is true of the radio. *)
EXTENDS RadioJob, TLAPS

\* What is known of a job, wherever the agent is.
Ledger(j) ==
  /\ acState[j] \in {"none", "queued"}
       => row[j] = "none" /\ acFin[j] = "none" /\ scans[j] = 0 /\ j \notin acked
  /\ acFin[j] # "none" => acFin[j] = row[j] /\ acState[j] = Outcome(row[j])
  /\ j \in acked => acFin[j] # "none"
  /\ j \in due => acState[j] \in Live
  /\ acState[j] = "completed" => acFin[j] = "completed"
  /\ acState[j] = "cancelled" => row[j] \in {"none", "cancelled"}

\* What is known of the radio: an open row was not scanned, except while its
\* result is at hand, could not be stored, or was lost with the process.
Radio(j) ==
  /\ scans[j] <= 1
  /\ row[j] \in {"none", "offered"} => scans[j] = 0
  /\ row[j] = "completed" => scans[j] = 1
  /\ row[j] = "cancelled" => scans[j] = 0 \/ j \in lost
  /\ row[j] \in Started /\ pc # "off"
       => scans[j] = 0 \/ j \in lost \/ (pc = "store" /\ job = j)

\* The row of the job in hand, place by place.
Hand ==
  /\ pc \in {"accept", "start", "scan", "store", "cancel", "send"} => job \in Jobs
  /\ pc = "accept" => row[job] = "offered"
  /\ pc \in {"start", "scan", "store"} => row[job] = "running"
  /\ pc \in {"start", "scan"} => scans[job] = 0
  /\ pc = "store" => scans[job] = 1
  /\ pc = "cancel" => row[job] = "cancel_requested"
  /\ pc = "send" => row[job] \in Finished

Known == \A j \in Jobs : Ledger(j) /\ Radio(j)
IInv == TypeOK /\ Known /\ Hand

-----------------------------------------------------------------------------

LEMMA InitInv == Init => IInv
<1> SUFFICES ASSUME Init PROVE IInv
  OBVIOUS
<1>1. TypeOK
  BY RadioJobAssumption DEF RadioJobAssumption, Init, TypeOK, Requests, Local
<1>2. Known
  BY DEF Init, Known, Ledger, Radio, Started, Outcome
<1>3. Hand
  BY DEF Init, Hand
<1> QED
  BY <1>1, <1>2, <1>3 DEF IInv

LEMMA OlderTyped ==
  ASSUME TypeOK
  PROVE  /\ \A I \in SUBSET Jobs : Updated(I) \subseteq Jobs \X Jobs
         /\ \A j \in Jobs : Rebound(j) \subseteq Jobs \X Jobs
         /\ \A j \in Jobs : Updated({j}) \subseteq Jobs \X Jobs
         /\ \A j \in Jobs : Without(j) \subseteq Jobs \X Jobs
<1>1. \A I \in SUBSET Jobs : Updated(I) \subseteq Jobs \X Jobs
  BY DEF TypeOK, Updated, Unacked
<1>2. \A j \in Jobs : Updated({j}) \subseteq Jobs \X Jobs
  BY <1>1
<1> QED
  BY <1>1, <1>2 DEF TypeOK, Rebound, Without

LEMMA SpendTyped ==
  ASSUME TypeOK, NEW kind \in FaultKinds, Spend(kind)
  PROVE  budget' \in [FaultKinds -> Nat]
BY DEF TypeOK, Spend

\* The controller's own steps touch neither the rows nor the agent.
LEMMA CreateStep ==
  ASSUME IInv, NEW j \in Jobs, Create(j)
  PROVE  IInv'
<1> USE DEF Create, rowVars, pcVars, worldVars
<1>1. TypeOK'
  BY DEF IInv, TypeOK
<1>2. Known'
  BY DEF IInv, TypeOK, Known, Ledger, Radio, Live, Started, Outcome
<1>3. Hand'
  BY DEF IInv, Hand
<1> QED
  BY <1>1, <1>2, <1>3 DEF IInv

LEMMA CancelStep ==
  ASSUME IInv, NEW j \in Jobs, Cancel(j)
  PROVE  IInv'
<1> USE DEF Cancel, AfterCancel, rowVars, pcVars, worldVars
<1>1. TypeOK'
  BY DEF IInv, TypeOK, Live, Outcomes
<1>2. acFin[j] = "none"
  BY DEF IInv, TypeOK, Known, Ledger, Live, Outcome, Finished, Outcomes
<1>3. Known'
  BY <1>2 DEF IInv, TypeOK, Known, Ledger, Radio, Live, Started
<1>4. Hand'
  BY DEF IInv, Hand
<1> QED
  BY <1>1, <1>3, <1>4 DEF IInv

LEMMA DeadlineStep ==
  ASSUME IInv, NEW j \in Jobs, DeadlinePasses(j)
  PROVE  IInv'
<1> USE DEF DeadlinePasses, rowVars, pcVars, worldVars
<1>1. TypeOK'
  BY DEF IInv, TypeOK
<1>2. Known'
  BY DEF IInv, TypeOK, Known, Ledger, Radio
<1>3. Hand'
  BY DEF IInv, Hand
<1> QED
  BY <1>1, <1>2, <1>3 DEF IInv

\* A job that expires has no finish yet, so that its failure contradicts none.
LEMMA ExpiredKnown ==
  ASSUME IInv
  PROVE  /\ Expired \in [Jobs -> {"none", "queued"} \cup Live \cup Outcomes]
         /\ \A j \in Jobs : Expired[j] = acState[j]
                            \/ (Expired[j] = "failed" /\ acFin[j] = "none" /\ acState[j] \in Live)
BY DEF IInv, TypeOK, Known, Ledger, Expired, Live, Outcome, Outcomes, Finished

LEMMA ExpireStep ==
  ASSUME IInv, ExpireElsewhere
  PROVE  IInv'
<1> USE DEF ExpireElsewhere, rowVars, pcVars, worldVars
<1>1. TypeOK'
  BY ExpiredKnown DEF IInv, TypeOK
<1>2. Known'
  BY ExpiredKnown DEF IInv, TypeOK, Known, Ledger, Radio, Live, Started, Outcome
<1>3. Hand'
  BY DEF IInv, Hand
<1> QED
  BY <1>1, <1>2, <1>3 DEF IInv

LEMMA AcRestartStep ==
  ASSUME IInv, AcRestart
  PROVE  IInv'
<1> USE DEF AcRestart, rowVars, worldVars
<1>1. TypeOK'
  BY SpendTyped DEF IInv, TypeOK, FaultKinds
<1>2. Known'
  BY DEF IInv, TypeOK, Known, Ledger, Radio
<1>3. Hand'
  BY DEF IInv, Hand
<1> QED
  BY <1>1, <1>2, <1>3 DEF IInv

-----------------------------------------------------------------------------
(* Steps that leave the tables alone *)

\* The agent goes to a place where it has no job in hand.
LEMMA QuietStep ==
  ASSUME IInv, UNCHANGED <<acState, acFin, row, acked, scans, lost>>, due' \subseteq due,
         pc # "off", pc # "store" \/ job \in lost,
         pc' \in {"down", "reconcile", "replay", "poll", "off"}
  PROVE  Known' /\ Hand'
<1>1. Known'
  BY DEF IInv, Known, Ledger, Radio
<1>2. Hand'
  BY DEF Hand
<1> QED
  BY <1>1, <1>2

LEMMA EndSessionTyped ==
  ASSUME EndSession
  PROVE  /\ pc' \in Requests \cup Local /\ job' \in Jobs \cup {0}
         /\ after' \in {"reconcile", "poll"} /\ link' \in BOOLEAN
BY DEF EndSession, Local

LEMMA ConnectStep ==
  ASSUME IInv, Connect
  PROVE  IInv'
<1> USE DEF Connect, acVars, rowVars, worldVars
<1>1. TypeOK'
  BY DEF IInv, TypeOK, Requests
<1>2. Known' /\ Hand'
  BY QuietStep
<1> QED
  BY <1>1, <1>2 DEF IInv

\* ReconcileRefused, StartRefused, RequestFails
LEMMA LeaveStep ==
  ASSUME IInv, EndSession, UNCHANGED <<acVars, rowVars, bound, worldVars, budget>>,
         pc \in Requests
  PROVE  IInv'
<1> USE DEF acVars, rowVars, worldVars
<1>1. TypeOK'
  BY EndSessionTyped DEF IInv, TypeOK
<1>2. Known' /\ Hand'
  BY QuietStep DEF EndSession, Requests
<1> QED
  BY <1>1, <1>2 DEF IInv

\* ReconcileNothing, ReplayNothing, PollNothing
LEMMA NothingStep ==
  ASSUME IInv, ReconcileNothing \/ ReplayNothing \/ PollNothing
  PROVE  IInv'
<1> USE DEF Goto, acVars, rowVars, worldVars
<1>1. CASE ReconcileNothing \/ ReplayNothing
  <2> USE DEF ReconcileNothing, ReplayNothing
  <2>1. TypeOK'
    BY <1>1 DEF IInv, TypeOK, Requests
  <2>2. Known' /\ Hand'
    BY <1>1, QuietStep
  <2> QED
    BY <2>1, <2>2 DEF IInv
<1>2. CASE PollNothing
  <2> USE DEF PollNothing
  <2>1. TypeOK'
    BY <1>2, ExpiredKnown DEF IInv, TypeOK, Requests
  <2>2. Known'
    BY <1>2, ExpiredKnown DEF IInv, TypeOK, Known, Ledger, Radio, Live, Started, Outcome
  <2>3. Hand'
    BY <1>2 DEF Hand
  <2> QED
    BY <2>1, <2>2, <2>3 DEF IInv
<1> QED
  BY <1>1, <1>2

LEMMA LinkDropsStep ==
  ASSUME IInv, LinkDrops
  PROVE  IInv'
<1> USE DEF LinkDrops, acVars, rowVars, worldVars
<1>1. TypeOK'
  BY SpendTyped DEF IInv, TypeOK, FaultKinds
<1>2. Known'
  BY DEF IInv, Known, Ledger, Radio
<1>3. Hand'
  BY DEF IInv, Hand
<1> QED
  BY <1>1, <1>2, <1>3 DEF IInv

LEMMA CrashStep ==
  ASSUME IInv, Crash
  PROVE  IInv'
<1> USE DEF Crash, acVars, rowVars, worldVars
<1>1. TypeOK'
  BY SpendTyped DEF IInv, TypeOK, FaultKinds, Local
<1>2. Known'
  BY DEF IInv, Known, Ledger, Radio
<1>3. Hand'
  BY DEF Hand
<1> QED
  BY <1>1, <1>2, <1>3 DEF IInv

\* Exactly the rows that were being carried out become a finish; none of them
\* had one before.
LEMMA RecoverStep ==
  ASSUME IInv, Recover
  PROVE  IInv'
<1> USE DEF Recover, acVars, worldVars
<1>1. TypeOK'
  <2>1. Interrupted \in SUBSET Jobs
    BY DEF Interrupted
  <2>2. older' \subseteq Jobs \X Jobs
    BY <2>1, OlderTyped DEF IInv
  <2>3. row' \in [Jobs -> {"none"} \cup OpenRow \cup Finished]
    BY DEF IInv, TypeOK, Interrupted, Finished
  <2> QED
    BY <2>2, <2>3 DEF IInv, TypeOK, Local
<1>2. ASSUME NEW j \in Jobs
      PROVE  (Ledger(j) /\ Radio(j))'
  <2>1. CASE row[j] \in Started
    <3>1. acFin[j] = "none" /\ row'[j] = "interrupted"
      BY <2>1 DEF IInv, TypeOK, Known, Ledger, Interrupted, Started, Finished, Outcomes
    <3> QED
      BY <2>1, <3>1 DEF IInv, TypeOK, Known, Ledger, Radio, Started
  <2>2. CASE row[j] \notin Started
    <3>1. row'[j] = row[j]
      BY <2>2 DEF Interrupted
    <3> QED
      BY <2>2, <3>1 DEF IInv, TypeOK, Known, Ledger, Radio
  <2> QED
    BY <2>1, <2>2
<1>3. Hand'
  BY DEF Hand
<1> QED
  BY <1>1, <1>2, <1>3 DEF IInv, Known

-----------------------------------------------------------------------------
(* Delivering a finish *)

\* A finish is recorded as the row has it, and acknowledged only when it is
\* recorded; the place a refused finish was sent from is left.
LEMMA Delivered ==
  ASSUME IInv, NEW j \in Jobs, NEW state, NEW current \in BOOLEAN, NEW heard \in BOOLEAN,
         NEW next \in {"reconcile", "poll"},
         row[j] \in Finished, pc \in {"reconcile", "replay", "send"},
         state = acState[j] \/ (acState[j] \in Live /\ state \in Live),
         Deliver(j, state, current, heard, next),
         bound' \subseteq Jobs, UNCHANGED worldVars
  PROVE  IInv'
<1> USE DEF worldVars
<1>1. Outcome(row[j]) \in Outcomes
  BY DEF Finished, Outcome, Outcomes
<1>2. state \in {"none", "queued"} \cup Live \cup Outcomes
  BY DEF IInv, TypeOK
<1>3. CASE FinishAccepted(j, state, current)
  <2>1. /\ acState' = [acState EXCEPT ![j] = Outcome(row[j])]
        /\ acFin' = [acFin EXCEPT ![j] = row[j]]
        /\ due' = due \ {j}
        /\ row' = row
        /\ pc' \in {"reconcile", "poll", "down"}
        /\ acked' = acked \/ acked' = acked \cup {j}
    BY <1>3 DEF Deliver, Goto, Unheard, EndSession, rowVars
  <2>2. older' \subseteq Jobs \X Jobs
    BY <1>3, OlderTyped DEF IInv, TypeOK, Deliver, Unheard, rowVars
  <2>3. /\ budget' \in [FaultKinds -> Nat] /\ job' \in Jobs \cup {0}
        /\ after' \in {"reconcile", "poll"} /\ link' \in BOOLEAN
    BY <1>3, SpendTyped, EndSessionTyped DEF IInv, TypeOK, Deliver, Goto, Unheard, FaultKinds
  <2>4. TypeOK'
    BY <1>1, <2>1, <2>2, <2>3 DEF IInv, TypeOK, Requests, Local
  <2>5. ASSUME NEW k \in Jobs
        PROVE  (Ledger(k) /\ Radio(k))'
    <3>1. CASE k = j
      <4>1. acFin'[k] = row[k] /\ acState'[k] = Outcome(row[k]) /\ row'[k] = row[k] /\ k \notin due'
        BY <2>1, <3>1 DEF IInv, TypeOK
      <4> QED
        BY <3>1, <4>1 DEF IInv, Known, Ledger, Radio, Outcome, Finished, Outcomes, Started
    <3>2. CASE k # j
      <4>1. acFin'[k] = acFin[k] /\ acState'[k] = acState[k] /\ row'[k] = row[k]
            /\ (k \in due' => k \in due) /\ (k \in acked' => k \in acked)
        BY <2>1, <3>2 DEF IInv, TypeOK
      <4> QED
        BY <4>1 DEF IInv, Known, Ledger, Radio
    <3> QED
      BY <3>1, <3>2
  <2>6. Hand'
    BY <2>1 DEF Hand
  <2> QED
    BY <2>4, <2>5, <2>6 DEF IInv, Known
<1>4. CASE ~FinishAccepted(j, state, current)
  <2>1. /\ acState' = [acState EXCEPT ![j] = state]
        /\ EndSession
        /\ UNCHANGED <<acFin, due, rowVars, budget>>
    BY <1>4 DEF Deliver
  <2>2. TypeOK'
    BY <1>2, <2>1, EndSessionTyped DEF IInv, TypeOK, rowVars
  <2>3. Known'
    BY <2>1 DEF IInv, TypeOK, Known, Ledger, Radio, EndSession, rowVars, Live, Outcome, Outcomes,
                Finished
  <2>4. Hand'
    BY <2>1 DEF Hand, EndSession
  <2> QED
    BY <2>2, <2>3, <2>4 DEF IInv
<1> QED
  BY <1>3, <1>4

LEMMA ReconcileFinishedStep ==
  ASSUME IInv, NEW j \in Jobs, NEW heard \in BOOLEAN, ReconcileFinished(j, heard)
  PROVE  IInv'
<1> DEFINE rebind == acFin[j] = "none" /\ acState[j] \in Live
           state == IF rebind THEN Reconciled(j) ELSE acState[j]
<1>1. /\ row[j] \in Finished /\ pc = "reconcile"
      /\ bound' = IF rebind THEN bound \cup {j} ELSE bound
      /\ Deliver(j, state, j \in bound', heard, "poll")
      /\ UNCHANGED worldVars
  BY DEF ReconcileFinished
<1>2. state = acState[j] \/ (acState[j] \in Live /\ state \in Live)
  BY DEF Reconciled, Live
<1>3. bound' \subseteq Jobs
  BY <1>1 DEF IInv, TypeOK
<1>4. (j \in bound') \in BOOLEAN /\ "poll" \in {"reconcile", "poll"}
  OBVIOUS
<1>5. pc \in {"reconcile", "replay", "send"}
  BY <1>1
<1> HIDE DEF state, rebind
<1> QED
  BY <1>1, <1>2, <1>3, <1>4, <1>5, Delivered, Zenon

LEMMA SendSteps ==
  ASSUME IInv, NEW heard \in BOOLEAN, Send(heard) \/ \E j \in Jobs : Replay(j, heard)
  PROVE  IInv'
<1>1. CASE Send(heard)
  <2>1. /\ job \in Jobs /\ row[job] \in Finished /\ pc \in {"reconcile", "replay", "send"}
        /\ after \in {"reconcile", "poll"} /\ bound' \subseteq Jobs
        /\ (job \in bound) \in BOOLEAN
    BY <1>1 DEF IInv, TypeOK, Hand, Send
  <2>2. Deliver(job, acState[job], job \in bound, heard, after) /\ UNCHANGED worldVars
    BY <1>1 DEF Send
  <2> QED
    BY <2>1, <2>2, Delivered, Zenon
<1>2. ASSUME NEW j \in Jobs, Replay(j, heard)
      PROVE  IInv'
  <2>1. /\ row[j] \in Finished /\ pc \in {"reconcile", "replay", "send"}
        /\ bound' \subseteq Jobs /\ (j \in bound) \in BOOLEAN /\ "poll" \in {"reconcile", "poll"}
    BY <1>2 DEF IInv, TypeOK, Replay, Oldest, Pending
  <2>2. Deliver(j, acState[j], j \in bound, heard, "poll") /\ UNCHANGED worldVars
    BY <1>2 DEF Replay
  <2> QED
    BY <2>1, <2>2, Delivered, Zenon
<1> QED
  BY <1>1, <1>2

-----------------------------------------------------------------------------
(* Taking a job and carrying it out *)

\* An open row has no finish at the controller, and its job was handed out.
LEMMA OpenIsUnfinished ==
  ASSUME IInv, NEW j \in Jobs, row[j] \in OpenRow
  PROVE  acFin[j] = "none" /\ j \notin acked /\ acState[j] \notin {"none", "queued", "cancelled"}
BY DEF IInv, TypeOK, Known, Ledger, OpenRow, Started, Finished, Outcomes

\* Nothing but the job's state and deadline changed, as an unheard answer
\* leaves it.
LEMMA UnheardStep ==
  ASSUME IInv, NEW j \in Jobs, Unheard, pc \in Requests,
         NEW state \in Live, acState[j] \in Live, acState' = [acState EXCEPT ![j] = state],
         due' \subseteq due, bound' \subseteq Jobs, UNCHANGED <<acFin, worldVars>>
  PROVE  IInv'
<1> USE DEF Unheard, rowVars, worldVars
<1>1. TypeOK'
  BY SpendTyped, EndSessionTyped DEF IInv, TypeOK, FaultKinds
<1>2. Known'
  BY DEF IInv, TypeOK, Known, Ledger, Radio, EndSession, Requests, Live, Outcome, Outcomes, Finished
<1>3. Hand'
  BY DEF Hand, EndSession
<1> QED
  BY <1>1, <1>2, <1>3 DEF IInv

LEMMA ReconcileOpenStep ==
  ASSUME IInv, NEW j \in Jobs, NEW heard \in BOOLEAN, ReconcileOpen(j, heard)
  PROVE  IInv'
<1> USE DEF ReconcileOpen, worldVars
<1>1. acFin[j] = "none" /\ j \notin acked /\ acState[j] \in Live /\ Reconciled(j) \in Live
  BY OpenIsUnfinished DEF Reconciles, Reconciled, Live
<1>2. bound' \subseteq Jobs /\ due' \subseteq due
  BY DEF IInv, TypeOK
<1>3. CASE heard
  <2>1. /\ pc' \in {"cancel", "replay"} /\ job' \in {0, j} /\ link' = link
        /\ after' \in {after, "poll"} /\ UNCHANGED <<acked, budget>>
        /\ older' \in {Rebound(j), Updated({j})}
        /\ row' = row \/ (row' = [row EXCEPT ![j] = "cancel_requested"])
        /\ pc' = "cancel" => job' = j /\ row' = [row EXCEPT ![j] = "cancel_requested"]
    BY <1>3 DEF Goto, Unheard
  <2>2. TypeOK'
    BY <1>1, <1>2, <2>1, OlderTyped DEF IInv, TypeOK, Requests, Local, OpenRow, Started
  <2>3. ASSUME NEW k \in Jobs
        PROVE  (Ledger(k) /\ Radio(k))'
    <3>1. CASE k = j
      BY <1>1, <2>1, <3>1
      DEF IInv, TypeOK, Known, Ledger, Radio, Live, Started, OpenRow, Outcomes
    <3>2. CASE k # j
      BY <2>1, <3>2 DEF IInv, TypeOK, Known, Ledger, Radio
    <3> QED
      BY <3>1, <3>2
  <2>4. Hand'
    BY <2>1 DEF IInv, TypeOK, Hand
  <2> QED
    BY <2>2, <2>3, <2>4 DEF IInv, Known
<1>4. CASE ~heard
  BY <1>1, <1>2, <1>4, UnheardStep DEF Requests
<1> QED
  BY <1>3, <1>4

LEMMA PollStep ==
  ASSUME IInv, NEW j \in Jobs, NEW heard \in BOOLEAN, Poll(j, heard)
  PROVE  IInv'
<1> USE DEF Poll, worldVars
<1>1. /\ acState[j] = "queued" /\ row[j] = "none" /\ acFin[j] = "none" /\ scans[j] = 0
      /\ j \notin acked
  BY DEF IInv, TypeOK, Leasable, Expired, Known, Ledger
<1>2. /\ acState' \in [Jobs -> {"none", "queued"} \cup Live \cup Outcomes]
      /\ acState'[j] = "leased"
      /\ \A k \in Jobs \ {j} : acState'[k] = Expired[k]
  BY ExpiredKnown DEF Live
<1>3. /\ pc' \in {"accept", "down"} /\ job' \in {0, j}
      /\ row' \in {row, [row EXCEPT ![j] = "offered"]} /\ acked' = acked
      /\ older' \in {older, Updated({j})}
      /\ pc' = "accept" => job' = j /\ row' = [row EXCEPT ![j] = "offered"]
      /\ budget' \in [FaultKinds -> Nat] /\ after' \in {"reconcile", "poll"} /\ link' \in BOOLEAN
  BY SpendTyped DEF IInv, TypeOK, Goto, Unheard, EndSession, rowVars, FaultKinds
<1>4. TypeOK'
  BY <1>2, <1>3, OlderTyped DEF IInv, TypeOK, Requests, Local, OpenRow
<1>5. ASSUME NEW k \in Jobs
      PROVE  (Ledger(k) /\ Radio(k))'
  <2>1. CASE k = j
    BY <1>1, <1>2, <1>3, <2>1 DEF IInv, TypeOK, Known, Ledger, Radio, Started
  <2>2. CASE k # j
    BY <1>2, <1>3, <2>2, ExpiredKnown
    DEF IInv, TypeOK, Known, Ledger, Radio, Live, Outcome
  <2> QED
    BY <2>1, <2>2
<1>6. Hand'
  BY <1>1, <1>3 DEF IInv, TypeOK, Hand
<1> QED
  BY <1>4, <1>5, <1>6 DEF IInv, Known

\* A heard answer moves the row of the job in hand to what the next place
\* expects; it was not scanned yet.
LEMMA AnsweredStep ==
  ASSUME IInv, pc \in {"accept", "start"}, NEW to \in Started, NEW place,
         place \in (IF to = "running" THEN {"start", "scan"} ELSE {"cancel"}),
         NEW heard \in BOOLEAN, Answered(heard, to, place),
         NEW state \in Live, acState[job] \in Live,
         acState' = [acState EXCEPT ![job] = state],
         due' \subseteq due, UNCHANGED <<acFin, bound, worldVars>>
  PROVE  IInv'
<1>1. job \in Jobs /\ row[job] \in OpenRow /\ scans[job] = 0
  BY DEF IInv, Hand, OpenRow, Started, Known, Radio
<1>2. acFin[job] = "none" /\ job \notin acked
  BY <1>1, OpenIsUnfinished
<1>3. CASE heard
  <2>1. /\ row' = [row EXCEPT ![job] = to] /\ older' \in {older, Updated({job})}
        /\ pc' = place /\ job' = job
        /\ UNCHANGED <<acked, after, budget, link>>
    BY <1>3 DEF Answered, Goto, Unheard
  <2>2. TypeOK'
    BY <1>1, <2>1, OlderTyped DEF IInv, TypeOK, Requests, Local, OpenRow, worldVars
  <2>3. ASSUME NEW k \in Jobs
        PROVE  (Ledger(k) /\ Radio(k))'
    <3>1. CASE k = job
      BY <1>1, <1>2, <2>1, <3>1
      DEF IInv, TypeOK, Known, Ledger, Radio, Live, Started, worldVars
    <3>2. CASE k # job
      BY <1>1, <2>1, <3>2 DEF IInv, TypeOK, Known, Ledger, Radio, worldVars
    <3> QED
      BY <3>1, <3>2
  <2>4. row'[job] = to /\ scans'[job] = 0 /\ job' = job
    BY <1>1, <2>1 DEF IInv, TypeOK, worldVars
  <2>5. Hand'
    BY <1>1, <2>1, <2>4 DEF Hand, Started
  <2> QED
    BY <2>2, <2>3, <2>5 DEF IInv, Known
<1>4. CASE ~heard
  <2>1. Unheard
    BY <1>4 DEF Answered
  <2>2. bound' \subseteq Jobs /\ pc \in Requests
    BY DEF IInv, TypeOK, Requests
  <2> QED
    BY <1>1, <2>1, <2>2, UnheardStep
<1> QED
  BY <1>3, <1>4

LEMMA AcceptStep ==
  ASSUME IInv, NEW heard \in BOOLEAN, Accept(heard)
  PROVE  IInv'
<1>1. pc = "accept" /\ pc \in {"accept", "start"} /\ acState[job] \in Live /\ job \in Jobs
  BY DEF Accept, IInv, Hand
<1>2. acState' = [acState EXCEPT ![job] = acState[job]] /\ due' \subseteq due
  BY <1>1 DEF Accept, IInv, TypeOK
<1>3. UNCHANGED <<acFin, bound, worldVars>>
  BY DEF Accept
<1>4. CASE acState[job] = "cancel_requested"
  <2>1. /\ Answered(heard, "cancel_requested", "cancel") /\ "cancel_requested" \in Started
        /\ "cancel" \in (IF "cancel_requested" = "running" THEN {"start", "scan"} ELSE {"cancel"})
    BY <1>4 DEF Accept, Started
  <2> QED
    BY <1>1, <1>2, <1>3, <2>1, AnsweredStep
<1>5. CASE acState[job] # "cancel_requested"
  <2>1. /\ Answered(heard, "running", "start") /\ "running" \in Started
        /\ "start" \in (IF "running" = "running" THEN {"start", "scan"} ELSE {"cancel"})
    BY <1>5 DEF Accept, Started
  <2> QED
    BY <1>1, <1>2, <1>3, <2>1, AnsweredStep
<1> QED
  BY <1>4, <1>5

LEMMA StartStep ==
  ASSUME IInv, NEW heard \in BOOLEAN, Start(heard)
  PROVE  IInv'
<1>1. pc = "start" /\ pc \in {"accept", "start"} /\ acState[job] \in Live /\ job \in Jobs
  BY DEF Start, IInv, Hand
<1>2. UNCHANGED <<acFin, bound, worldVars>>
  BY DEF Start
<1>3. CASE acState[job] = "cancel_requested"
  <2>1. /\ Answered(heard, "cancel_requested", "cancel") /\ "cancel_requested" \in Started
        /\ "cancel" \in (IF "cancel_requested" = "running" THEN {"start", "scan"} ELSE {"cancel"})
    BY <1>3 DEF Start, Started
  <2>2. acState' = [acState EXCEPT ![job] = acState[job]] /\ due' \subseteq due
    BY <1>1, <1>3 DEF Start, IInv, TypeOK
  <2> QED
    BY <1>1, <1>2, <2>1, <2>2, AnsweredStep
<1>4. CASE acState[job] # "cancel_requested"
  <2>1. /\ Answered(heard, "running", "scan") /\ "running" \in Started
        /\ "scan" \in (IF "running" = "running" THEN {"start", "scan"} ELSE {"cancel"})
        /\ "running" \in Live
    BY <1>4 DEF Start, Started, Live
  <2>2. acState' = [acState EXCEPT ![job] = "running"] /\ due' \subseteq due
    BY <1>4 DEF Start
  <2> QED
    BY <1>1, <1>2, <2>1, <2>2, AnsweredStep
<1> QED
  BY <1>3, <1>4

\* The one scan of a job.
LEMMA ScanStep ==
  ASSUME IInv, Scan
  PROVE  IInv'
<1> USE DEF Scan, acVars, rowVars
<1>1. job \in Jobs /\ row[job] = "running" /\ scans[job] = 0
  BY DEF IInv, Hand
<1>2. scans' = [scans EXCEPT ![job] = 1] /\ scans' \in [Jobs -> Nat]
  BY <1>1 DEF IInv, TypeOK
<1>3. TypeOK'
  BY <1>2 DEF IInv, TypeOK, Local
<1>4. ASSUME NEW j \in Jobs
      PROVE  (Ledger(j) /\ Radio(j))'
  <2>1. scans'[j] = IF j = job THEN 1 ELSE scans[j]
    BY <1>2 DEF IInv, TypeOK
  <2>2. acState[j] \in {"none", "queued"} => j # job
    BY <1>1 DEF IInv, Known, Ledger
  <2> QED
    BY <1>1, <2>1, <2>2 DEF IInv, Known, Ledger, Radio
<1>5. Hand'
  BY <1>1, <1>2 DEF IInv, TypeOK, Hand
<1> QED
  BY <1>3, <1>4, <1>5 DEF IInv, Known

LEMMA StoreStep ==
  ASSUME IInv, NEW outcome \in Outcomes, Store(outcome)
  PROVE  IInv'
<1> USE DEF Store, acVars, worldVars
<1>1. /\ job \in Jobs /\ row[job] \in Started
      /\ pc = "store" => scans[job] = 1
      /\ pc = "cancel" => scans[job] = 0 \/ job \in lost
  BY DEF IInv, Hand, Started, Known, Radio
<1>2. acFin[job] = "none" /\ acState[job] \notin {"none", "queued", "cancelled"}
  BY <1>1, OpenIsUnfinished DEF OpenRow
<1>3. TypeOK'
  BY <1>1, OlderTyped DEF IInv, TypeOK, Requests, Finished
<1>4. ASSUME NEW j \in Jobs
      PROVE  (Ledger(j) /\ Radio(j))'
  <2>1. CASE j = job
    BY <1>1, <1>2, <2>1 DEF IInv, TypeOK, Known, Ledger, Radio, Outcomes, Started
  <2>2. CASE j # job
    BY <2>2 DEF IInv, TypeOK, Known, Ledger, Radio
  <2> QED
    BY <2>1, <2>2
<1>5. Hand'
  BY <1>1 DEF IInv, TypeOK, Hand, Finished
<1> QED
  BY <1>3, <1>4, <1>5 DEF IInv, Known

\* The row stays open; that the job was scanned is remembered by lost.
LEMMA StoreFailsStep ==
  ASSUME IInv, NEW ends \in BOOLEAN, StoreFails(ends)
  PROVE  IInv'
<1> USE DEF StoreFails, acVars, rowVars
<1>1. job \in Jobs
  BY DEF IInv, Hand
<1>2. pc' \in {"down", "reconcile"} /\ job' = 0 /\ link' \in BOOLEAN /\ after' \in {"reconcile", "poll"}
  BY DEF EndSession, Goto, IInv, TypeOK
<1>3. TypeOK'
  BY <1>1, <1>2, SpendTyped DEF IInv, TypeOK, FaultKinds, Requests, Local
<1>4. Known'
  BY <1>1 DEF IInv, TypeOK, Known, Ledger, Radio
<1>5. Hand'
  BY <1>2 DEF Hand
<1> QED
  BY <1>3, <1>4, <1>5 DEF IInv

-----------------------------------------------------------------------------

LEMMA AgentKeeps ==
  ASSUME IInv, AgentStep \/ AgentFault
  PROVE  IInv'
<1>1. ASSUME NEW j \in Jobs, NEW heard \in BOOLEAN,
             \/ ReconcileOpen(j, heard) \/ ReconcileFinished(j, heard)
             \/ Replay(j, heard) \/ Poll(j, heard)
      PROVE  IInv'
  BY <1>1, ReconcileOpenStep, ReconcileFinishedStep, SendSteps, PollStep
<1>2. ASSUME NEW heard \in BOOLEAN, Accept(heard) \/ Start(heard) \/ Send(heard)
      PROVE  IInv'
  BY <1>2, AcceptStep, StartStep, SendSteps
<1>3. ASSUME NEW j \in Jobs, ReconcileRefused(j)
      PROVE  IInv'
  BY <1>3, LeaveStep DEF ReconcileRefused, Requests
<1>4. CASE RequestFails \/ StartRefused
  BY <1>4, LeaveStep DEF RequestFails, StartRefused, Requests
<1>5. CASE Connect \/ Recover \/ ReconcileNothing \/ ReplayNothing \/ PollNothing \/ Scan
  BY <1>5, ConnectStep, RecoverStep, NothingStep, ScanStep
<1>6. CASE LinkDrops \/ Crash
  BY <1>6, LinkDropsStep, CrashStep
<1> QED
  BY <1>1, <1>2, <1>3, <1>4, <1>5, <1>6, StoreStep, StoreFailsStep DEF AgentStep, AgentFault

LEMMA NextKeeps == IInv /\ [Next]_vars => IInv'
<1> SUFFICES ASSUME IInv, [Next]_vars PROVE IInv'
  OBVIOUS
<1>1. ASSUME NEW j \in Jobs, Create(j) \/ Cancel(j) \/ DeadlinePasses(j)
      PROVE  IInv'
  BY <1>1, CreateStep, CancelStep, DeadlineStep
<1>2. CASE ExpireElsewhere \/ AcRestart
  BY <1>2, ExpireStep, AcRestartStep
<1>3. CASE UNCHANGED vars
  BY <1>3 DEF IInv, TypeOK, Known, Ledger, Radio, Hand, vars, acVars, rowVars, pcVars, worldVars
<1> QED
  BY <1>1, <1>2, <1>3, AgentKeeps DEF Next

\* The invariant behind the others: where a job stands at the controller, what
\* its row says, and whether its radio was scanned, place by place of the agent.
THEOREM Inductive == Spec => []IInv
BY InitInv, NextKeeps, PTL DEF Spec

\* Every variable of the radio jobs keeps its type.
THEOREM TypeCorrect == Spec => []TypeOK
<1>1. IInv => TypeOK
  BY DEF IInv
<1> QED
  BY <1>1, Inductive, PTL

\* Whatever is lost, repeated or interrupted, controller and agent never
\* disagree about a finish (ac_db_radio_job_finish, apd_radio_job_finish_ack).
THEOREM NoDisagreement == Spec => []OutcomeAgrees
<1>1. IInv => OutcomeAgrees
  BY DEF IInv, Known, Ledger, OutcomeAgrees
<1> QED
  BY <1>1, Inductive, PTL

\* What the controller shows of a job is what happened on the radio
\* (apd_v2_execute, apd_radio_job_restart_recover).
THEOREM TrueOfTheRadio == Spec => []OutcomeIsTrue
<1>1. ASSUME IInv, NEW j \in Jobs
      PROVE  /\ scans[j] <= 1
             /\ acState[j] = "completed" => scans[j] = 1
             /\ acState[j] = "cancelled" => scans[j] = 0 \/ j \in lost
  BY <1>1 DEF IInv, Known, Ledger, Radio
<1>2. IInv => OutcomeIsTrue
  BY <1>1 DEF OutcomeIsTrue
<1> QED
  BY <1>2, Inductive, PTL
=============================================================================
