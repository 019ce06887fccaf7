------------------------------ MODULE RadioJob ------------------------------
(***************************************************************************)
(* Radio jobs (a neighbour or survey scan) between the access controller   *)
(* and the agent of one access point: the controller's job table and its   *)
(* five handlers (ac_db.c, ac_transport.c), the agent's durable journal    *)
(* (apd_radio_job_journal.c), and the agent's wire step                     *)
(* (apd_transport.c), which reports what the journal still holds before it  *)
(* polls for the next job.                                                  *)
(*                                                                          *)
(* A request and its response are one step of the controller's handler, or  *)
(* that step with the answer unheard: lost, or not recorded by the agent.   *)
(* Every SQLite transaction of the agent is one step.  A job is leased once *)
(* (it never goes back to 'queued'), so its attempt, generation and digest  *)
(* are left out; a finish is named by the state the row had with it.        *)
(***************************************************************************)
EXTENDS Integers, FiniteSets

CONSTANTS Jobs,      \* jobs, in the order of created_at and of job_id
          RadioOf,   \* radio_id
          Faults     \* bound: how often each fault may happen

FaultKinds == {"crash", "restart", "drop", "journal"}

ASSUME RadioJobAssumption ==
  /\ Jobs \subseteq Nat \ {0}
  /\ DOMAIN RadioOf = Jobs
  /\ Faults \in [FaultKinds -> Nat]

VARIABLES
  \* controller: ac_radio_jobs
  acState,   \* state of each job
  acFin,     \* the finish recorded for it
  due,       \* jobs whose reconcile_deadline has passed
  \* agent: apd_radio_job_journal
  row,       \* state of the job's row
  acked,     \* jobs with finish_acked = 1
  older,     \* pairs of unacknowledged rows in the order of updated_at, job_id
  \* both: session_epoch.  A step in which only one side learns the new epoch
  \* ends the session, so one variable stands for the two columns.
  bound,     \* jobs bound to the current session
  \* agent: the running process
  pc,        \* where the agent is
  job,       \* the job in hand, 0 for none
  after,     \* where it goes after reporting that job
  link,      \* the session is up and current at the controller
  \* the world
  scans,     \* how often the radio was scanned for a job
  lost,      \* jobs whose result could not be stored
  budget     \* faults that may still happen

acVars  == <<acState, acFin, due>>
rowVars == <<row, acked, older>>
pcVars  == <<pc, job, after, link>>
worldVars == <<scans, lost>>
vars == <<acVars, rowVars, bound, pcVars, worldVars, budget>>

Outcomes == {"completed", "failed", "cancelled"}
Live     == {"leased", "running", "cancel_requested"}
Started  == {"running", "cancel_requested"}
OpenRow  == {"offered"} \cup Started
Finished == Outcomes \cup {"interrupted"}
Requests == {"reconcile", "replay", "poll", "accept", "start", "send"}
Local    == {"off", "down", "scan", "store", "cancel"}

TypeOK ==
  /\ acState \in [Jobs -> {"none", "queued"} \cup Live \cup Outcomes]
  /\ acFin \in [Jobs -> {"none"} \cup Finished]
  /\ due \subseteq Jobs
  /\ row \in [Jobs -> {"none"} \cup OpenRow \cup Finished]
  /\ acked \subseteq Jobs
  /\ older \subseteq Jobs \X Jobs
  /\ bound \subseteq Jobs
  /\ pc \in Requests \cup Local
  /\ job \in Jobs \cup {0}
  /\ after \in {"reconcile", "poll"}
  /\ link \in BOOLEAN
  /\ scans \in [Jobs -> Nat]
  /\ lost \subseteq Jobs
  /\ budget \in [FaultKinds -> Nat]

Init ==
  /\ acState = [j \in Jobs |-> "none"]
  /\ acFin = [j \in Jobs |-> "none"]
  /\ row = [j \in Jobs |-> "none"]
  /\ scans = [j \in Jobs |-> 0]
  /\ due = {} /\ acked = {} /\ older = {} /\ bound = {} /\ lost = {}
  /\ pc = "down" /\ job = 0 /\ after = "reconcile" /\ link = FALSE
  /\ budget = Faults

Spend(kind) == budget[kind] > 0 /\ budget' = [budget EXCEPT ![kind] = @ - 1]

-----------------------------------------------------------------------------
(* The agent's journal *)

Unacked == {j \in Jobs : row[j] # "none"} \ acked
Pending == {j \in Unacked : row[j] \in Finished}

\* The order of updated_at after the rows of I were updated, and after j was
\* acknowledged.
Updated(I) ==
  {p \in older : p[1] \notin I /\ p[2] \notin I}
    \cup ((Unacked \ I) \X I) \cup {p \in I \X I : p[1] < p[2]}
Without(j) == {p \in older : p[1] # j /\ p[2] # j}

Oldest(S, j) == j \in S /\ \A k \in S \ {j} : <<j, k>> \in older

\* Binding a row to the session updates it, unless it is bound already.
ReboundUntouched(j) == older
Rebound(j) == IF j \in bound THEN older ELSE Updated({j})

\* The outcome a finish reports.
Outcome(finish) == IF finish = "interrupted" THEN "failed" ELSE finish

\* The agent leaves the session; it knows no job any more.
EndSession ==
  /\ pc' = "down"
  /\ job' = 0
  /\ after' = "reconcile"
  /\ link' = FALSE

Goto(place, j) == pc' = place /\ job' = j /\ UNCHANGED link

\* An answer reaches the agent, which goes on as Then says, or it does not.
Unheard == Spend("drop") /\ EndSession /\ UNCHANGED rowVars

-----------------------------------------------------------------------------
(* The controller *)

\* ac_db_radio_job_create
Create(j) ==
  /\ acState[j] = "none"
  /\ \A k \in Jobs : k < j => acState[k] # "none"
  /\ acState' = [acState EXCEPT ![j] = "queued"]
  /\ UNCHANGED <<acFin, due, rowVars, bound, pcVars, worldVars, budget>>

\* ac_db_radio_job_cancel
AfterCancelAtOnce(state) == "cancelled"
AfterCancel(state) == IF state = "queued" THEN "cancelled" ELSE "cancel_requested"
Cancel(j) ==
  /\ acState[j] \in {"queued"} \cup Live
  /\ acState' = [acState EXCEPT ![j] = AfterCancel(@)]
  /\ UNCHANGED <<acFin, due, rowVars, bound, pcVars, worldVars, budget>>

\* Time: the reconcile deadline of a job passes.
DeadlinePasses(j) ==
  /\ acState[j] \in Live /\ j \notin due
  /\ due' = due \cup {j}
  /\ UNCHANGED <<acState, acFin, rowVars, bound, pcVars, worldVars, budget>>

\* ac_radio_job_reconcile_expired_locked: whatever became of the job, it failed.
Expired == [j \in Jobs |-> IF j \in due THEN "failed" ELSE acState[j]]

\* ac_db_radio_job_lease_next of another access point.
ExpireElsewhere ==
  /\ due # {}
  /\ acState' = Expired
  /\ due' = {}
  /\ UNCHANGED <<acFin, rowVars, bound, pcVars, worldVars, budget>>

\* ac_radio_jobs_recover_after_restart: the deadlines start again.
AcRestart ==
  /\ Spend("restart")
  /\ due' = {}
  /\ link' = FALSE
  /\ UNCHANGED <<acState, acFin, rowVars, bound, pc, job, after, worldVars>>

\* ac_db_radio_job_reconcile, for a job reported as offered or as running: the
\* state the controller accepts, if it does.
Reconciles(j) == IF row[j] = "offered" THEN acState[j] = "leased" ELSE acState[j] \in Live
Reconciled(j) == IF row[j] = "offered" \/ acState[j] = "cancel_requested"
                 THEN acState[j] ELSE "running"

\* ac_db_radio_job_finish, for a job in state that is or is not bound to the
\* session: a recorded finish is only ever acknowledged again.
FinishAccepted(j, state, current) ==
  IF acFin[j] # "none"
  THEN acFin[j] = row[j]
  ELSE /\ current
       /\ state \in Started
       /\ row[j] = "cancelled" => state = "cancel_requested"

\* The finish of j reaches the controller, which holds the job in that state;
\* after the acknowledgement the agent goes on with its next request.
Deliver(j, state, current, heard, next) ==
  IF FinishAccepted(j, state, current)
  THEN /\ acState' = [acState EXCEPT ![j] = Outcome(row[j])]
       /\ acFin' = [acFin EXCEPT ![j] = row[j]]
       /\ due' = due \ {j}
       /\ \/ /\ heard
             /\ acked' = acked \cup {j}
             /\ older' = Without(j)
             /\ Goto(next, 0) /\ after' = "reconcile"
             /\ UNCHANGED <<row, budget>>
          \/ ~heard /\ Unheard
  ELSE /\ heard
       /\ acState' = [acState EXCEPT ![j] = state]
       /\ EndSession
       /\ UNCHANGED <<acFin, due, rowVars, budget>>

-----------------------------------------------------------------------------
(* apd_v2_jobs_step: reconcile, replay, poll *)

\* A new session: no job is bound to it.
Connect ==
  /\ pc = "down"
  /\ pc' = "reconcile"
  /\ link' = TRUE
  /\ bound' = {}
  /\ UNCHANGED <<acVars, rowVars, job, after, worldVars, budget>>

\* The oldest unacknowledged row is still open.  The controller refreshes the
\* deadline, and says whether the job is to be cancelled.
ReconcileOpen(j, heard) ==
  /\ pc = "reconcile" /\ link
  /\ Oldest(Unacked, j) /\ row[j] \in OpenRow
  /\ Reconciles(j)
  /\ acState' = [acState EXCEPT ![j] = Reconciled(j)]
  /\ due' = due \ {j}
  /\ bound' = bound \cup {j}
  /\ \/ /\ heard /\ Reconciled(j) = "cancel_requested"
        /\ row' = [row EXCEPT ![j] = "cancel_requested"]
        /\ older' = IF row[j] = "cancel_requested" THEN Rebound(j) ELSE Updated({j})
        /\ Goto("cancel", j) /\ after' = "poll"
        /\ UNCHANGED <<acked, budget>>
     \/ /\ heard /\ Reconciled(j) # "cancel_requested"
        /\ older' = Rebound(j)
        /\ Goto("replay", 0)
        /\ UNCHANGED <<row, acked, after, budget>>
     \/ ~heard /\ Unheard
  /\ UNCHANGED <<acFin, worldVars>>

\* The oldest unacknowledged row has its finish: the job is bound to this
\* session if it is still live, and the finish is delivered.
ReconcileFinished(j, heard) ==
  LET rebind == acFin[j] = "none" /\ acState[j] \in Live IN
  /\ pc = "reconcile" /\ link
  /\ Oldest(Unacked, j) /\ row[j] \in Finished
  /\ bound' = IF rebind THEN bound \cup {j} ELSE bound
  /\ Deliver(j, IF rebind THEN Reconciled(j) ELSE acState[j], j \in bound', heard, "poll")
  /\ UNCHANGED worldVars

ReconcileRefused(j) ==
  /\ pc = "reconcile" /\ link
  /\ Oldest(Unacked, j) /\ row[j] \in OpenRow
  /\ ~Reconciles(j)
  /\ EndSession
  /\ UNCHANGED <<acVars, rowVars, bound, worldVars, budget>>

ReconcileNothing ==
  /\ pc = "reconcile" /\ link
  /\ Unacked = {}
  /\ Goto("replay", 0)
  /\ UNCHANGED <<acVars, rowVars, bound, after, worldVars, budget>>

\* apd_v2_pending_finish_replay
Replay(j, heard) ==
  /\ pc = "replay" /\ link
  /\ Oldest(Pending, j)
  /\ Deliver(j, acState[j], j \in bound, heard, "poll")
  /\ UNCHANGED <<bound, worldVars>>

ReplayNothing ==
  /\ pc = "replay" /\ link
  /\ Pending = {}
  /\ Goto("poll", 0)
  /\ UNCHANGED <<acVars, rowVars, bound, after, worldVars, budget>>

\* ac_db_radio_job_lease_next: the oldest queued job on a radio that is free.
Leasable(j) ==
  /\ Expired[j] = "queued"
  /\ \A k \in Jobs : RadioOf[k] = RadioOf[j] => Expired[k] \notin Live

\* The agent records the offer.
Poll(j, heard) ==
  /\ pc = "poll" /\ link
  /\ Leasable(j) /\ \A k \in Jobs : Leasable(k) => j <= k
  /\ acState' = [Expired EXCEPT ![j] = "leased"]
  /\ due' = {}
  /\ bound' = bound \cup {j}
  /\ \/ /\ heard
        /\ row' = [row EXCEPT ![j] = "offered"]
        /\ older' = Updated({j})
        /\ Goto("accept", j)
        /\ UNCHANGED <<acked, after, budget>>
     \/ ~heard /\ Unheard
  /\ UNCHANGED <<acFin, worldVars>>

PollNothing ==
  /\ pc = "poll" /\ link
  /\ \A j \in Jobs : ~Leasable(j)
  /\ acState' = Expired
  /\ due' = {}
  /\ Goto("reconcile", 0)
  /\ UNCHANGED <<acFin, rowVars, bound, after, worldVars, budget>>

\* apd_v2_accept_or_start: the answer to accept and to start.  A job that is to
\* be cancelled is not started.
Answered(heard, state, place) ==
  \/ /\ heard
     /\ row' = [row EXCEPT ![job] = state]
     /\ older' = IF row[job] = state THEN older ELSE Updated({job})
     /\ Goto(place, job)
     /\ UNCHANGED <<acked, after, budget>>
  \/ ~heard /\ Unheard

Accept(heard) ==
  /\ pc = "accept" /\ link
  /\ job \in bound /\ acState[job] \in Live
  /\ due' = IF acState[job] = "leased" THEN due \ {job} ELSE due
  /\ IF acState[job] = "cancel_requested"
     THEN Answered(heard, "cancel_requested", "cancel")
     ELSE Answered(heard, "running", "start")
  /\ UNCHANGED <<acState, acFin, bound, worldVars>>

Start(heard) ==
  /\ pc = "start" /\ link
  /\ job \in bound /\ acState[job] \in Live
  /\ IF acState[job] = "cancel_requested"
     THEN /\ UNCHANGED <<acState, due>>
          /\ Answered(heard, "cancel_requested", "cancel")
     ELSE /\ acState' = [acState EXCEPT ![job] = "running"]
          /\ due' = IF acState[job] = "leased" THEN due \ {job} ELSE due
          /\ Answered(heard, "running", "scan")
  /\ UNCHANGED <<acFin, bound, worldVars>>

StartRefused ==
  /\ pc \in {"accept", "start"} /\ link
  /\ job \notin bound \/ acState[job] \notin Live
  /\ EndSession
  /\ UNCHANGED <<acVars, rowVars, bound, worldVars, budget>>

\* apd_v2_execute: the backend scans; the link may be gone meanwhile.
Scan ==
  /\ pc = "scan"
  /\ scans' = [scans EXCEPT ![job] = @ + 1]
  /\ pc' = "store"
  /\ UNCHANGED <<acVars, rowVars, bound, job, after, link, lost, budget>>

\* apd_v2_finish_store, apd_v2_cancel_finish
Store(outcome) ==
  /\ \/ pc = "store" /\ outcome \in {"completed", "failed"}
     \/ pc = "cancel" /\ outcome = "cancelled"
  /\ row' = [row EXCEPT ![job] = outcome]
  /\ older' = Updated({job})
  /\ pc' = "send"
  /\ UNCHANGED <<acVars, acked, bound, job, after, link, worldVars, budget>>

\* The result cannot be stored.  apd_v2_execute returns what the backend
\* returned, so the session goes on if the scan itself succeeded.
StoreFails(ends) ==
  /\ pc \in {"store", "cancel"}
  /\ pc = "cancel" => ends
  /\ Spend("journal")
  /\ lost' = IF pc = "store" THEN lost \cup {job} ELSE lost
  /\ \/ ends /\ EndSession
     \/ ~ends /\ Goto("reconcile", 0) /\ UNCHANGED after
  /\ UNCHANGED <<acVars, rowVars, bound, scans>>

\* apd_v2_finish_send
Send(heard) ==
  /\ pc = "send" /\ link
  /\ Deliver(job, acState[job], job \in bound, heard, after)
  /\ UNCHANGED <<bound, worldVars>>

\* A request fails because the session is gone.
RequestFails ==
  /\ pc \in Requests /\ ~link
  /\ EndSession
  /\ UNCHANGED <<acVars, rowVars, bound, worldVars, budget>>

-----------------------------------------------------------------------------
(* Faults and restarts *)

LinkDrops ==
  /\ link /\ Spend("drop")
  /\ link' = FALSE
  /\ UNCHANGED <<acVars, rowVars, bound, pc, job, after, worldVars>>

Crash ==
  /\ pc # "off" /\ Spend("crash")
  /\ pc' = "off" /\ job' = 0 /\ after' = "reconcile" /\ link' = FALSE
  /\ UNCHANGED <<acVars, rowVars, bound, worldVars>>

\* apd_radio_job_restart_recover: what was being carried out has failed, in one
\* statement.
InterruptedWithFinished == {j \in Unacked : row[j] \in Started \cup Outcomes}
Interrupted == {j \in Jobs : row[j] \in Started}
Recover ==
  /\ pc = "off"
  /\ row' = [j \in Jobs |-> IF j \in Interrupted THEN "interrupted" ELSE row[j]]
  /\ older' = Updated(Interrupted)
  /\ pc' = "down"
  /\ UNCHANGED <<acVars, acked, bound, job, after, link, worldVars, budget>>

\* What the agent does when nothing goes wrong.
AgentStep ==
  \/ Connect \/ Recover \/ RequestFails
  \/ \E j \in Jobs : \/ ReconcileOpen(j, TRUE) \/ ReconcileFinished(j, TRUE) \/ ReconcileRefused(j)
                     \/ Replay(j, TRUE) \/ Poll(j, TRUE)
  \/ ReconcileNothing \/ ReplayNothing \/ PollNothing
  \/ Accept(TRUE) \/ Start(TRUE) \/ StartRefused
  \/ Scan \/ Send(TRUE)
  \/ \E outcome \in Outcomes : Store(outcome)

AgentFault ==
  \/ \E j \in Jobs : \/ ReconcileOpen(j, FALSE) \/ ReconcileFinished(j, FALSE)
                     \/ Replay(j, FALSE) \/ Poll(j, FALSE)
  \/ Accept(FALSE) \/ Start(FALSE) \/ Send(FALSE)
  \/ \E ends \in BOOLEAN : StoreFails(ends)
  \/ LinkDrops \/ Crash

Next ==
  \/ \E j \in Jobs : Create(j) \/ Cancel(j) \/ DeadlinePasses(j)
  \/ ExpireElsewhere \/ AcRestart
  \/ AgentStep \/ AgentFault

\* The agent's loop goes on and reconnects; nothing is promised of the
\* controller's users, of time, and of faults.
Spec == Init /\ [][Next]_vars
FairSpec == Spec /\ WF_vars(AgentStep)

-----------------------------------------------------------------------------
(* Properties *)

\* The two sides never disagree about a finish: what the controller recorded is
\* what the row says, whatever was lost, repeated or interrupted, and the agent
\* forgets a finish (finish_acked) only when the controller has it.
OutcomeAgrees ==
  \A j \in Jobs :
    /\ acFin[j] # "none" => acFin[j] = row[j] /\ acState[j] = Outcome(row[j])
    /\ j \in acked => acFin[j] # "none"

\* What the controller shows is true of the radio: a completed job was scanned,
\* once, and a cancelled one was not, unless its result could not be stored.
OutcomeIsTrue ==
  \A j \in Jobs :
    /\ scans[j] <= 1
    /\ acState[j] = "completed" => scans[j] = 1
    /\ acState[j] = "cancelled" => scans[j] = 0 \/ j \in lost

\* A row the controller will refuse for ever: the job ended there without the
\* agent's finish, or was cancelled before its acceptance was known.
Refused(j) ==
  /\ j \in Unacked
  /\ \/ acState[j] \in Outcomes /\ acFin[j] = "none"
     \/ row[j] = "offered" /\ acState[j] = "cancel_requested"

\* Every finish the journal holds is acknowledged in the end, however many
\* others are waiting, unless a row the controller refuses stops the queue.
FinishDelivered ==
  \A j \in Jobs :
    j \in Pending ~> (j \in acked \/ \E k \in Jobs : Refused(k))

\* A session gets to poll for work again and again: no frame is refused for
\* ever (apd_transport.c:2608-2612).
PollsAgain == []<>(pc = "poll")

\* A job that was handed out ends.
LeaseEnds == \A j \in Jobs : acState[j] \in Live ~> acState[j] \in Outcomes
=============================================================================
