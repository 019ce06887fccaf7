------------------------------ MODULE ConfigJob ------------------------------
(***************************************************************************)
(* Configuration jobs between the access controller (ac) and the agent of   *)
(* one access point (apd): the controller's job table and its three         *)
(* handlers (ac_db.c, ac_transport.c), the agent's durable journal          *)
(* (apd_config_job_journal.c), its wire step and executor                   *)
(* (apd_transport.c, apd_config_executor.c) and its restart recovery        *)
(* (apd_config_recovery.c).                                                 *)
(*                                                                          *)
(* A request and its response are one step of the controller's handler, or  *)
(* the handler's effect with the response lost.  Every SQLite transaction   *)
(* is one step; the agent may lose power between any two.  A configuration  *)
(* is named by the job that installs it; Mixed is one that is partly        *)
(* written.  All candidates write the same sections.                        *)
(***************************************************************************)
EXTENDS Integers, FiniteSets

CONSTANTS Jobs,        \* job ids, positive integers
          Kind,          \* "apply", "action" (a runtime frame) or "rollback"
          SourceOf,      \* rollback_of_job_id of the rollback jobs
          Base,          \* the configuration before the first job
          Mixed,         \* a configuration that is partly written
          NoPrev,        \* previous_json = ''
          EmptyPrev,     \* previous_json = '[]'
          Faults         \* bound: how often each fault may happen

FaultKinds == {"crash", "drop", "journal", "requeue", "oversize"}

Compensations == {j \in Jobs : Kind[j] = "rollback"}

ASSUME JobsAssumption ==
  /\ Jobs \subseteq Nat \ {0}
  /\ Kind \in [Jobs -> {"apply", "action", "rollback"}]
  /\ SourceOf \in [Compensations -> {j \in Jobs : Kind[j] = "apply"}]
  /\ \A j, k \in Compensations : SourceOf[j] = SourceOf[k] => j = k
  /\ Faults \in [FaultKinds -> Nat]
  /\ Base \notin Jobs /\ Mixed \notin Jobs \cup {Base}
  /\ NoPrev # EmptyPrev /\ {NoPrev, EmptyPrev} \cap (Jobs \cup {Base, Mixed}) = {}

VARIABLES
  \* controller: ac_config_jobs, ac_aps.applied_revision, transactions
  acState,     \* state of each job
  gen,         \* dispatch_generation
  acAtt,       \* attempt_id, 0 for ''; an attempt is named by its generation
  acFin,       \* the finish that was accepted
  acRev,       \* ac_aps.applied_revision
  prevRev,     \* previous_revision noted when the transaction was created
  confOf,      \* history: the configuration each revision stands for
  created,     \* pairs of jobs in the order of created_at
  peerFailed,  \* jobs in whose transaction another access point has failed
  \* agent: apd_config_job_journal
  row,         \* the row of each job
  touched,     \* pairs of rows in the order of updated_at
  \* agent: the running process
  pc,          \* where the agent is
  cur, att,    \* the job in hand and its attempt_id
  prev,        \* previous_json held in memory
  fin,         \* the finish being reported
  nextFin,     \* finish ids drawn so far
  \* the world
  session,     \* the session is up and current at the controller
  live,        \* the wireless configuration in effect
  execs,       \* how often each job was carried out
  lastMut,     \* the last job that wrote the configuration, 0 for none
  budget       \* faults that may still happen

acVars    == <<acState, gen, acAtt, acFin, acRev, prevRev, confOf, created, peerFailed>>
rowVars   == <<row, touched>>
localVars == <<cur, att, prev, fin>>
execVars  == <<live, execs, lastMut>>
vars == <<acVars, rowVars, pc, localVars, nextFin, session, execVars, budget>>

Configs  == Jobs \cup {Base, Mixed}
NoFinish == [id |-> 0, out |-> "none", err |-> "none", rb |-> FALSE]
Outcomes == {"applied", "failed", "rolled_back"}
Errors   == {"none", "not_applied", "interrupted", "rolled_back", "rollback"}
Finishes == [id : Nat \ {0}, out : Outcomes, err : Errors, rb : BOOLEAN]
NoRow == [state |-> "none", att |-> 0, prev |-> NoPrev, fin |-> NoFinish, acked |-> FALSE]

AcStates == {"absent", "queued", "leased", "running", "expired", "cancelled"} \cup Outcomes
Open     == {"offered", "staged", "applying", "applied"}
Terminal == {"completed", "failed", "rolled_back"}
Rows == [state : {"none"} \cup Open \cup Terminal, att : Nat,
         prev : Configs \cup {NoPrev, EmptyPrev},
         fin : Finishes \cup {NoFinish}, acked : BOOLEAN]

\* "off": not running; "recover" .. "recfin": startup recovery; "offline": no
\* session; "replay" .. "replayack": apd_config_pending_finish_replay; "ready":
\* between two wire steps; the rest follow apd_config_wire_step in order.
PCs == {"off", "recover", "recroll", "recfin", "offline", "replay", "replaysend",
        "replayack", "ready", "offer", "stage", "accept", "execute", "markapplying",
        "apply", "applying", "markapplied", "readback", "restore", "restoring",
        "finish", "send", "ack"}

TypeOK ==
  /\ acState \in [Jobs -> AcStates]
  /\ gen \in [Jobs -> Nat] /\ acAtt \in [Jobs -> Nat]
  /\ acFin \in [Jobs -> Finishes \cup {NoFinish}]
  /\ acRev \in Jobs \cup {Base} /\ prevRev \in [Jobs -> Jobs \cup {Base}]
  /\ confOf \in [Jobs \cup {Base} -> Jobs \cup {Base}]
  /\ created \subseteq Jobs \X Jobs /\ touched \subseteq Jobs \X Jobs
  /\ peerFailed \in SUBSET Jobs
  /\ row \in [Jobs -> Rows]
  /\ pc \in PCs
  /\ cur \in Jobs \cup {0} /\ att \in Nat
  /\ prev \in Configs \cup {NoPrev, EmptyPrev}
  /\ fin \in [id : Nat, out : Outcomes \cup {"none"}, err : Errors, rb : BOOLEAN]
  /\ nextFin \in Nat
  /\ session \in BOOLEAN
  /\ live \in Configs
  /\ execs \in [Jobs -> Nat]
  /\ lastMut \in Jobs \cup {0}
  /\ budget \in [FaultKinds -> Nat]

Init ==
  /\ acState = [j \in Jobs |-> "absent"]
  /\ gen = [j \in Jobs |-> 0] /\ acAtt = [j \in Jobs |-> 0]
  /\ acFin = [j \in Jobs |-> NoFinish]
  /\ acRev = Base /\ prevRev = [j \in Jobs |-> Base]
  /\ confOf = [r \in Jobs \cup {Base} |-> r]
  /\ created = {} /\ touched = {}
  /\ peerFailed = {}
  /\ row = [j \in Jobs |-> NoRow]
  /\ pc = "offline"
  /\ cur = 0 /\ att = 0 /\ prev = NoPrev /\ fin = NoFinish
  /\ nextFin = 0
  /\ session = FALSE
  /\ live = Base
  /\ execs = [j \in Jobs |-> 0]
  /\ lastMut = 0
  /\ budget = Faults

\* j comes before every other element of S.
First(S, order, j) == j \in S /\ \A k \in S \ {j} : <<j, k>> \in order

\* One fault of kind k happens, or none does.
Spend(k) == budget[k] > 0 /\ budget' = [budget EXCEPT ![k] = @ - 1]
NoFault  == UNCHANGED budget

\* The agent goes to p with nothing in hand.
Rest(p) == pc' = p /\ cur' = 0 /\ att' = 0 /\ prev' = NoPrev /\ fin' = NoFinish

\* Any failure inside a session closes it (apd_session_run, label done).
CloseSession == session' = FALSE /\ Rest("offline")

-----------------------------------------------------------------------------
(* Controller *)

\* The order once the jobs of new are created.
Created(new) == created \cup {k \in Jobs : acState[k] # "absent"} \X new

\* ac_db_wifi_transaction_apply for this access point: one queued job, with the
\* revision the access point has now noted as the one to return to.
AcCreate(j) ==
  /\ acState[j] = "absent" /\ Kind[j] # "rollback"
  /\ acState' = [acState EXCEPT ![j] = "queued"]
  /\ prevRev' = [prevRev EXCEPT ![j] = acRev]
  /\ created' = Created({j})
  /\ UNCHANGED <<gen, acAtt, acFin, acRev, confOf, peerFailed, rowVars, pc, localVars,
                 nextFin, session, execVars, budget>>

\* ac_wifi_tx_refresh_locked for an all_or_nothing transaction with a failed
\* target: an apply job still queued is cancelled, an applied one gets one
\* compensation job; a leased or running one is left to finish.  failed are those
\* of the refreshed transactions in which a target has failed.
RefreshedState(st, failed) ==
  [j \in Jobs |->
     IF Kind[j] = "apply" /\ j \in failed /\ st[j] = "queued" THEN "cancelled"
     ELSE IF Kind[j] = "rollback" /\ st[j] = "absent"
             /\ SourceOf[j] \in failed /\ st[SourceOf[j]] = "applied" THEN "queued"
     ELSE st[j]]

Refresh(st, failed) ==
  /\ acState' = RefreshedState(st, failed)
  /\ created' = Created({j \in Jobs : st[j] = "absent" /\ RefreshedState(st, failed)[j] = "queued"})

\* Another access point of the transaction of j fails, or ends after one has failed.
AcPeerFails(j) ==
  /\ Kind[j] = "apply" /\ acState[j] # "absent"
  /\ j \in {SourceOf[k] : k \in Compensations}
  /\ peerFailed' = peerFailed \cup {j}
  /\ Refresh(acState, {j})
  /\ UNCHANGED <<gen, acAtt, acFin, acRev, prevRev, confOf, rowVars, pc, localVars,
                 nextFin, session, execVars, budget>>

\* ac_roaming_expire_queued_action
AcExpireAction(j) ==
  /\ Kind[j] = "action" /\ acState[j] \in {"queued", "leased"}
  /\ acState' = [acState EXCEPT ![j] = "expired"]
  /\ UNCHANGED <<gen, acAtt, acFin, acRev, prevRev, confOf, created, peerFailed, rowVars,
                 pc, localVars, nextFin, session, execVars, budget>>

\* The controller restarts: every session is lost, and ac_db_config_jobs_recover
\* requeues the jobs whose lease has run out, which forgets their attempt.
RequeuedBroad == {"leased", "running"}     \* a job being carried out as well
Requeued      == {"leased"}

AcRestart ==
  /\ Spend("requeue")
  /\ session' = FALSE
  /\ acState' = [j \in Jobs |-> IF acState[j] \in Requeued THEN "queued" ELSE acState[j]]
  /\ acAtt' = [j \in Jobs |-> IF acState[j] \in Requeued THEN 0 ELSE acAtt[j]]
  /\ UNCHANGED <<gen, acFin, acRev, prevRev, confOf, created, peerFailed, rowVars, pc,
                 localVars, nextFin, execVars>>

\* ac_db_config_job_lease_next: the oldest queued job, unless the access point
\* has one leased or running.
Queued == {j \in Jobs : acState[j] = "queued"}
Leasable(j) == /\ First(Queued, created, j)
               /\ \A k \in Jobs : acState[k] \notin {"leased", "running"}

Lease(j) ==
  /\ acState' = [acState EXCEPT ![j] = "leased"]
  /\ gen' = [gen EXCEPT ![j] = @ + 1]
  /\ acAtt' = [acAtt EXCEPT ![j] = gen[j] + 1]
  /\ UNCHANGED <<acFin, acRev, prevRev, confOf, created, peerFailed>>

\* ac_db_config_job_mark_running
AcceptOk(j, a) == acAtt[j] = a /\ acState[j] \in {"leased", "running"}
MarkRunning(j) ==
  /\ acState' = [acState EXCEPT ![j] = "running"]
  /\ UNCHANGED <<gen, acAtt, acFin, acRev, prevRev, confOf, created, peerFailed>>

\* ac_db_config_job_finish: a finish for the current attempt is recorded once; a
\* repetition, or one for an expired action, is acknowledged and changes nothing.
FinishRepeats(j, a, f) == acAtt[j] = a /\ (acState[j] = "expired" \/ acFin[j] = f)
FinishRecords(j, a, f) == /\ acAtt[j] = a /\ acFin[j] = NoFinish
                          /\ acState[j] \in {"leased", "running"}
FinishOk(j, a, f) == FinishRepeats(j, a, f) \/ FinishRecords(j, a, f)

\* The state recorded: a success without an acceptable readback is a failure.
TerminalFor(j, f) ==
  IF f.out = (IF Kind[j] = "rollback" THEN "rolled_back" ELSE "applied") /\ ~f.rb
    THEN "failed"
  ELSE IF Kind[j] = "rollback" /\ f.out # "rolled_back" THEN "failed"
  ELSE f.out

\* The transaction of j, named by the job it was created with.
TransactionOf(j) == IF Kind[j] = "rollback" THEN {SourceOf[j]} ELSE {j}

\* The applied_revision once j has ended in t: the desired_revision of its
\* transaction, an action's too, or for a compensation what was noted for its
\* source.  RevisionKept forgets the latter.
RevisionKept(j, t) == IF Kind[j] # "rollback" /\ t = "applied" THEN j ELSE acRev
RevisionAfter(j, t) ==
  IF Kind[j] # "rollback" /\ t = "applied" THEN j
  ELSE IF Kind[j] = "rollback" /\ t = "rolled_back" THEN prevRev[SourceOf[j]]
  ELSE acRev

\* The revision of an action is a new name for the configuration there was: a
\* runtime frame writes none.
ConfAfter(j, t) ==
  IF Kind[j] = "action" /\ t = "applied" THEN [confOf EXCEPT ![j] = confOf[acRev]] ELSE confOf

Finish(j, a, f) ==
  LET t == TerminalFor(j, f) IN
  IF FinishRecords(j, a, f)
    THEN /\ Refresh([acState EXCEPT ![j] = t], peerFailed \cap TransactionOf(j))
         /\ acFin' = [acFin EXCEPT ![j] = f]
         /\ acRev' = RevisionAfter(j, t)
         /\ confOf' = ConfAfter(j, t)
         /\ UNCHANGED <<gen, acAtt, prevRev, peerFailed>>
    ELSE UNCHANGED acVars

-----------------------------------------------------------------------------
(* The agent's journal: one SQLite transaction each *)

Matches(j, a) == row[j].state # "none" /\ row[j].att = a
Touch(j) == {p \in touched : p[1] # j} \cup {k \in Jobs \ {j} : row[k].state # "none"} \X {j}
Write(j, r) == row' = [row EXCEPT ![j] = r] /\ touched' = Touch(j)

\* apd_config_job_offer_store: an existing row is kept, whatever its attempt.
OfferStore(j, a) ==
  IF row[j].state = "none"
    THEN Write(j, [NoRow EXCEPT !.state = "offered", !.att = a])
    ELSE UNCHANGED rowVars

\* config_transition; its result is JOURNAL_OK exactly when the row moves.
Transitions(j, a, from) == Matches(j, a) /\ row[j].state = from
TransitionBare(j, a, from, to, p) ==       \* the reference is not stored
  IF Transitions(j, a, from)
    THEN Write(j, [row[j] EXCEPT !.state = to])
    ELSE UNCHANGED rowVars
Transition(j, a, from, to, p) ==
  IF Transitions(j, a, from)
    THEN Write(j, [row[j] EXCEPT !.state = to, !.prev = IF p = NoPrev THEN @ ELSE p])
    ELSE UNCHANGED rowVars

\* apd_config_job_finish_store; it does not look at the state of the row.
FinishStore(j, a, f) ==
  IF Matches(j, a) /\ row[j].fin = NoFinish
    THEN Write(j, [row[j] EXCEPT
                     !.state = IF f.out = "applied" THEN "completed" ELSE f.out,
                     !.fin = f])
    ELSE UNCHANGED rowVars

\* apd_config_job_finish_ack
FinishAck(j, a, f) ==
  IF Matches(j, a) /\ row[j].fin = f /\ f # NoFinish /\ ~row[j].acked
    THEN Write(j, [row[j] EXCEPT !.acked = TRUE])
    ELSE UNCHANGED rowVars

\* SQLite reports an error and the transaction is rolled back.
JournalError == Spend("journal") /\ UNCHANGED rowVars

\* apd_config_job_recovery_next; UnfinishedSome overlooks staged rows.
UnfinishedSome == {j \in Jobs : row[j].state \in Open \ {"staged"}}
Unfinished     == {j \in Jobs : row[j].state \in Open}

\* apd_config_job_pending_reconcile_get; UnackedSome overlooks failures.
UnackedSome == {j \in Jobs : row[j].state = "completed" /\ ~row[j].acked}
Unacked     == {j \in Jobs : row[j].fin # NoFinish /\ ~row[j].acked}

-----------------------------------------------------------------------------
(* Sessions *)

\* The connection breaks, or the agent stops hearing from the controller.
Drop ==
  /\ session /\ Spend("drop")
  /\ session' = FALSE
  /\ UNCHANGED <<acVars, rowVars, pc, localVars, nextFin, execVars>>

\* apd_session_run up to the replay.
Connect ==
  /\ pc = "offline"
  /\ session' = TRUE
  /\ pc' = "replay"
  /\ UNCHANGED <<acVars, rowVars, localVars, nextFin, execVars, budget>>

\* A request on a broken session fails in the agent.
\* RequestUnchecked: the agent takes a finish it could not send for sent.
RequestUnchecked ==
  /\ pc = "send" /\ ~session
  /\ pc' = "ack"
  /\ UNCHANGED <<acVars, rowVars, localVars, nextFin, session, execVars, budget>>

RequestFails ==
  /\ pc \in {"ready", "accept", "send", "replaysend"}
  /\ ~session
  /\ CloseSession
  /\ UNCHANGED <<acVars, rowVars, nextFin, execVars, budget>>

\* The answer to a request arrives, and the agent goes on to p; or it is lost.
Answered(p) == pc' = p /\ NoFault /\ UNCHANGED <<session, localVars>>
AnswerLost  == Spend("drop") /\ CloseSession

\* apd_config_pending_finish_replay up to the request.
Replay ==
  /\ pc = "replay"
  /\ \/ /\ Unacked = {}
        /\ pc' = "ready"
        /\ UNCHANGED <<rowVars, localVars, session, budget>>
     \/ \E j \in Jobs :
        /\ First(Unacked, touched, j)
        /\ Write(j, row[j])      \* apd_config_job_session_rebind
        /\ cur' = j /\ att' = row[j].att /\ fin' = row[j].fin
        /\ pc' = "replaysend"
        /\ UNCHANGED <<prev, session, budget>>
     \/ /\ Unacked # {}
        /\ JournalError /\ CloseSession
  /\ UNCHANGED <<acVars, nextFin, execVars>>

\* apd_config_finish_send and ac_config_finish_handle, in both callers.
SendFinish ==
  /\ pc \in {"send", "replaysend"}
  /\ session
  /\ \/ FinishOk(cur, att, fin) /\ Answered(IF pc = "send" THEN "ack" ELSE "replayack")
     \/ ~FinishOk(cur, att, fin) /\ CloseSession /\ NoFault
     \/ AnswerLost
  /\ Finish(cur, att, fin)
  /\ UNCHANGED <<rowVars, nextFin, execVars>>

\* The acknowledgement is noted.  apd_config_execute ignores a journal error
\* here, the replay does not.
Ack ==
  /\ pc \in {"ack", "replayack"}
  /\ \/ FinishAck(cur, att, fin) /\ NoFault /\ Rest("ready") /\ UNCHANGED session
     \/ pc = "ack" /\ JournalError /\ Rest("ready") /\ UNCHANGED session
     \/ pc = "replayack" /\ JournalError /\ CloseSession
  /\ UNCHANGED <<acVars, nextFin, execVars>>

-----------------------------------------------------------------------------
(* apd_config_wire_step up to apd_config_execute *)

\* config_job_poll and ac_config_poll_handle: a job is leased and offered.
Poll ==
  /\ pc = "ready" /\ session
  /\ \E j \in Jobs :
       /\ Leasable(j) /\ Lease(j)
       /\ \/ /\ pc' = "offer" /\ cur' = j /\ att' = gen'[j]
             /\ NoFault /\ UNCHANGED <<session, prev, fin>>
          \/ AnswerLost
  /\ UNCHANGED <<rowVars, nextFin, execVars>>

\* apd_config_job_offer_store: only a negative result ends the step.
Offer ==
  /\ pc = "offer"
  /\ \/ OfferStore(cur, att) /\ pc' = "stage" /\ NoFault /\ UNCHANGED <<session, localVars>>
     \/ JournalError /\ CloseSession
  /\ UNCHANGED <<acVars, nextFin, execVars>>

\* apd_config_job_mark_staged: only a negative result ends the step.
MarkStaged ==
  /\ pc = "stage"
  /\ \/ /\ Transition(cur, att, "offered", "staged", NoPrev)
        /\ pc' = "accept" /\ NoFault /\ UNCHANGED <<session, localVars>>
     \/ JournalError /\ CloseSession
  /\ UNCHANGED <<acVars, nextFin, execVars>>

\* apd_config_accept and ac_config_accept_handle.
Accept ==
  /\ pc = "accept" /\ session
  /\ IF AcceptOk(cur, att)
       THEN MarkRunning(cur) /\ (Answered("execute") \/ AnswerLost)
       ELSE UNCHANGED acVars /\ CloseSession /\ NoFault
  /\ UNCHANGED <<rowVars, nextFin, execVars>>

-----------------------------------------------------------------------------
(* apd_config_execute *)

\* The outcome is settled and goes on to label finish, with a fresh finish id.
Report(out, err, rb) ==
  /\ pc' = "finish"
  /\ fin' = [id |-> nextFin + 1, out |-> out, err |-> err, rb |-> rb]
  /\ UNCHANGED <<cur, att>>

\* apd_config_stage and apd_config_capture_previous for an apply job,
\* apd_config_job_previous_get for a rollback job, validation for an action.
\* Nothing has been written when one of them fails.
Reference(j) ==
  LET s == row[SourceOf[j]] IN
  IF s.state = "completed" /\ s.fin.out = "applied" THEN s.prev ELSE NoPrev

PreviousOf(j) == CASE Kind[j] = "apply"    -> live
                   [] Kind[j] = "action"   -> EmptyPrev
                   [] Kind[j] = "rollback" -> Reference(j)

Prepare ==
  /\ pc = "execute"
  /\ LET p == PreviousOf(cur) IN
     \/ /\ p # NoPrev
        /\ prev' = p /\ pc' = "markapplying" /\ UNCHANGED <<cur, att, fin>>
     \/ /\ Kind[cur] = "rollback" => p = NoPrev
        /\ Report("failed", "not_applied", FALSE) /\ prev' = NoPrev
  /\ UNCHANGED <<acVars, rowVars, nextFin, session, execVars, budget>>

\* apd_config_job_mark_applying.  For a configuration only a negative result
\* stops the job: with a CONFLICT, or the INVALID of a reference longer than
\* APD_CONFIG_JOB_PREVIOUS_MAX_BYTES, it goes on.  An action demands OK.
MarkApplying ==
  /\ pc = "markapplying"
  /\ LET start == IF Kind[cur] = "rollback" THEN "restore" ELSE "apply" IN
     \/ /\ Kind[cur] = "action" => Transitions(cur, att, "staged")
        /\ Transition(cur, att, "staged", "applying", prev)
        /\ pc' = start /\ NoFault /\ UNCHANGED localVars
     \/ /\ Kind[cur] = "apply" /\ Spend("oversize")
        /\ pc' = start /\ UNCHANGED <<rowVars, localVars>>
     \/ /\ Kind[cur] = "action" /\ ~Transitions(cur, att, "staged")
        /\ Report("failed", "not_applied", FALSE) /\ NoFault /\ UNCHANGED <<rowVars, prev>>
     \/ JournalError /\ Report("failed", "not_applied", FALSE) /\ UNCHANGED prev
  /\ UNCHANGED <<acVars, nextFin, session, execVars>>

\* apd_config_apply_prepared makes its first write; an action sends its frame.
ApplyBegin ==
  /\ pc = "apply"
  /\ execs' = [execs EXCEPT ![cur] = @ + 1]
  /\ IF Kind[cur] = "action" THEN UNCHANGED <<live, lastMut>>
                             ELSE live' = Mixed /\ lastMut' = cur
  /\ pc' = "applying"
  /\ UNCHANGED <<acVars, rowVars, localVars, nextFin, session, budget>>

\* apd_config_apply_prepared returns.  It has read its own work back; when it
\* fails it has tried to restore, and the caller restores once more.
ApplyEnd ==
  /\ pc = "applying"
  /\ \/ /\ live' = IF Kind[cur] = "apply" THEN cur ELSE live
        /\ pc' = "markapplied" /\ UNCHANGED localVars
     \/ /\ Kind[cur] = "apply" /\ live' \in {Mixed, prev}
        /\ pc' = "restore" /\ UNCHANGED localVars
     \/ /\ Kind[cur] = "action" /\ live' = live
        /\ Report("failed", "not_applied", FALSE) /\ UNCHANGED prev
  /\ UNCHANGED <<acVars, rowVars, nextFin, session, execs, lastMut, budget>>

\* apd_config_job_mark_applied: a negative result sends a configuration back,
\* any result but OK is a failure of an action.
MarkApplied ==
  /\ pc = "markapplied"
  /\ \/ /\ Kind[cur] = "apply"
        /\ \/ /\ Transition(cur, att, "applying", "applied", NoPrev) /\ NoFault
              /\ pc' = "readback" /\ UNCHANGED localVars
           \/ JournalError /\ pc' = "restore" /\ UNCHANGED localVars
     \/ /\ Kind[cur] = "action" /\ UNCHANGED prev
        /\ \/ /\ Transitions(cur, att, "applying") /\ NoFault
              /\ Transition(cur, att, "applying", "applied", NoPrev)
              /\ Report("applied", "none", TRUE)
           \/ JournalError /\ Report("failed", "not_applied", FALSE)
  /\ UNCHANGED <<acVars, nextFin, session, execVars>>

\* apd_config_readback: the candidate is in effect, or the read fails.
ReadsBack(j) == live = j

Readback ==
  /\ pc = "readback"
  /\ \/ ReadsBack(cur) /\ Report("applied", "none", TRUE) /\ UNCHANGED prev
     \/ pc' = "restore" /\ UNCHANGED localVars
  /\ UNCHANGED <<acVars, rowVars, nextFin, session, execVars, budget>>

\* apd_config_restore_verified: apd_config_rollback starts to write ...
RestoreBegin ==
  /\ pc = "restore"
  /\ live' = Mixed /\ lastMut' = cur
  /\ pc' = "restoring"
  /\ UNCHANGED <<acVars, rowVars, localVars, nextFin, session, execs, budget>>

\* ... and has restored and read back the previous configuration, or reports an
\* error: the restore, a reload or the readback has failed.
\* RestoreEndBlind: the error is ignored.
RestoreEndBlind ==
  /\ pc = "restoring"
  /\ live' \in {Mixed, prev} /\ Report("rolled_back", "rolled_back", TRUE)
  /\ UNCHANGED <<acVars, rowVars, prev, nextFin, session, execs, lastMut, budget>>

RestoreEnd ==
  /\ pc = "restoring"
  /\ \/ live' = prev /\ Report("rolled_back", "rolled_back", TRUE)
     \/ live' \in {Mixed, prev} /\ Report("failed", "rollback", FALSE)
  /\ UNCHANGED <<acVars, rowVars, prev, nextFin, session, execs, lastMut, budget>>

\* Label finish: the outcome is stored before it is sent, and only a negative
\* result of apd_config_job_finish_store keeps it from being sent.
StoreFinish ==
  /\ pc = "finish"
  /\ \/ /\ FinishStore(cur, att, fin) /\ nextFin' = fin.id
        /\ pc' = "send" /\ prev' = NoPrev /\ NoFault /\ UNCHANGED <<session, cur, att, fin>>
     \/ JournalError /\ CloseSession /\ UNCHANGED nextFin
  /\ UNCHANGED <<acVars, execVars>>

-----------------------------------------------------------------------------
(* Power loss, restart and apd_config_jobs_restart_recover *)

Crash ==
  /\ pc # "off" /\ Spend("crash")
  /\ session' = FALSE /\ Rest("off")
  /\ UNCHANGED <<acVars, rowVars, nextFin, execVars>>

\* procd starts the daemon; apd_main runs the recovery before the transport.
Start ==
  /\ pc = "off"
  /\ pc' = "recover"
  /\ UNCHANGED <<acVars, rowVars, localVars, nextFin, session, execVars, budget>>

\* The next unfinished row.  One that was not yet applying is finished as
\* failed; any other is rolled back first, which an empty reference refuses.  A
\* failure ends the process.
RecoverRow(j) ==
  IF row[j].state \in {"offered", "staged"}
    THEN /\ UNCHANGED execVars
         /\ \/ /\ FinishStore(j, row[j].att, [id |-> nextFin + 1, out |-> "failed",
                                              err |-> "interrupted", rb |-> FALSE])
               /\ nextFin' = nextFin + 1
               /\ NoFault /\ UNCHANGED <<pc, localVars>>
            \/ JournalError /\ Rest("off") /\ UNCHANGED nextFin
    ELSE /\ UNCHANGED <<rowVars, nextFin, execs, budget>>
         /\ IF row[j].prev \in {NoPrev, EmptyPrev}
              THEN Rest("off") /\ UNCHANGED <<live, lastMut>>
              ELSE /\ live' = Mixed /\ lastMut' = j
                   /\ pc' = "recroll" /\ cur' = j /\ att' = row[j].att
                   /\ prev' = row[j].prev /\ UNCHANGED fin

Recover ==
  /\ pc = "recover"
  /\ \/ /\ Unfinished = {}
        /\ Rest("offline") /\ UNCHANGED <<rowVars, nextFin, execVars, budget>>
     \/ \E j \in Jobs : First(Unfinished, touched, j) /\ RecoverRow(j)
  /\ UNCHANGED <<acVars, session>>

\* apd_config_rollback ends; the recovery does not read back.
RecoverRestored ==
  /\ pc = "recroll"
  /\ live' = prev
  /\ pc' = "recfin"
  /\ UNCHANGED <<acVars, rowVars, localVars, nextFin, session, execs, lastMut, budget>>

\* ... or fails, which ends the process.  RecoverIgnores goes on to the finish.
RecoverIgnores ==
  /\ pc = "recroll"
  /\ live' \in {Mixed, prev}
  /\ pc' = "recfin"
  /\ UNCHANGED <<acVars, rowVars, localVars, nextFin, session, execs, lastMut, budget>>

RecoverFails ==
  /\ pc = "recroll"
  /\ live' \in {Mixed, prev}
  /\ Rest("off")
  /\ UNCHANGED <<acVars, rowVars, nextFin, session, execs, lastMut, budget>>

\* apd_config_recovery_finish after a rollback.
RecoverFinish ==
  /\ pc = "recfin"
  /\ \/ /\ FinishStore(cur, att, [id |-> nextFin + 1, out |-> "rolled_back",
                                  err |-> "rolled_back", rb |-> FALSE])
        /\ nextFin' = nextFin + 1
        /\ NoFault /\ Rest("recover")
     \/ JournalError /\ Rest("off") /\ UNCHANGED nextFin
  /\ UNCHANGED <<acVars, session, execVars>>

-----------------------------------------------------------------------------

Exchange == Replay \/ SendFinish \/ Ack \/ RequestFails \/ Poll \/ Offer \/ MarkStaged \/ Accept
Execute  == \/ Prepare \/ MarkApplying \/ ApplyBegin \/ ApplyEnd \/ MarkApplied
            \/ Readback \/ RestoreBegin \/ RestoreEnd \/ StoreFinish
Recovery == Recover \/ RecoverRestored \/ RecoverFails \/ RecoverFinish
Agent    == Connect \/ Exchange \/ Execute \/ Start \/ Recovery

Next ==
  \/ \E j \in Jobs : AcCreate(j) \/ AcPeerFails(j) \/ AcExpireAction(j)
  \/ AcRestart
  \/ Drop
  \/ Crash
  \/ Agent

\* The agent's thread runs, and procd restarts it.  A rollback that recovery
\* keeps retrying succeeds once the failing command recovers.  Faults, new
\* jobs and failing peers are not promised.
Fairness == WF_vars(Agent) /\ SF_vars(RecoverRestored)

Spec == Init /\ [][Next]_vars /\ Fairness

-----------------------------------------------------------------------------
(* Properties *)

(* A job is carried out at most once, however often it is leased, offered,   *)
(* interrupted or recovered: a frame is not sent twice and a candidate is    *)
(* not written a second time.                                                *)
ExecutedAtMostOnce == \A j \in Jobs : execs[j] <= 1

(* The two journals never disagree about an attempt: a finish the controller *)
(* has recorded for the attempt in the agent's row is the finish of the row, *)
(* and a row is acknowledged only if the controller holds its finish or has  *)
(* expired the action.                                                       *)
FinishAgrees ==
  \A j \in Jobs :
    /\ row[j].fin # NoFinish /\ acFin[j] # NoFinish /\ row[j].att = acAtt[j]
         => acFin[j] = row[j].fin
    /\ row[j].acked => acFin[j] = row[j].fin \/ acState[j] = "expired"

(* Once the configuration is being written the journal of the agent holds    *)
(* what it takes to undo it (apd_config_job_journal.h: "the rollback         *)
(* reference (previous_json) becomes durable in state 'applying' BEFORE the  *)
(* executor mutates the live config").                                       *)
RollbackReferenceDurable ==
  pc \in {"applying", "restoring"} /\ Kind[cur] # "action" =>
    /\ Matches(cur, att) /\ row[cur].state \in {"applying", "applied"}
    /\ row[cur].prev = prev

(* A configuration that is partly written is never silent: the row of the    *)
(* job that wrote it is still to be recovered, or some job is on record with *)
(* a failed rollback.                                                        *)
NoSilentHalfApply ==
  live = Mixed => \/ row[lastMut].state \in {"applying", "applied"}
                  \/ \E j \in Jobs : row[j].fin.err = "rollback"

(* What the controller says of the job that last wrote the configuration is  *)
(* what is in effect: its candidate when applied, what it found or had to    *)
(* restore when rolled back.                                                 *)
OutcomeIsLive ==
  lastMut # 0 =>
    /\ acState[lastMut] = "applied" => live = lastMut
    /\ acState[lastMut] = "rolled_back" => live = row[lastMut].prev

(* As long as every job started from the revision that was noted for it, the *)
(* applied_revision of the controller stands for the configuration in effect *)
(* whenever the last writer has ended in "applied" or "rolled_back", however *)
(* many actions have moved it on without writing anything.                   *)
ControllerKnowsLive ==
  /\ \A j \in Jobs : Kind[j] = "apply" /\ row[j].prev # NoPrev
                       => row[j].prev = confOf[prevRev[j]]
  /\ lastMut = 0 \/ acState[lastMut] \in {"applied", "rolled_back"}
  => live = confOf[acRev]

(* A stored finish is acknowledged in the end, whatever happened to the      *)
(* session it was first sent on.                                             *)
FinishAcked == \A j \in Jobs : (row[j].fin # NoFinish) ~> row[j].acked

(* A job whose finish is stored does not stay leased or running at the       *)
(* controller, where it would hold up the access point's other jobs          *)
(* (apd_config_job_journal.h: "terminal, finish replayed until acked").      *)
FinishReplayed ==
  \A j \in Jobs : (row[j].fin # NoFinish /\ acState[j] \in {"leased", "running"})
                    ~> (acState[j] \notin {"leased", "running"})

(* A restart of the agent settles every job of its journal that the          *)
(* controller still believes to be leased or running.                        *)
RestartSettles ==
  \A j \in Jobs : (pc = "off" /\ row[j].state # "none" /\ acState[j] \in {"leased", "running"})
                    ~> (acState[j] \notin {"leased", "running"})

(* The recovery reports an interrupted action (apd_transport.c: "Recovery    *)
(* reports uncertainty without re-executing a frame or invoking a wireless   *)
(* configuration rollback").                                                 *)
ActionOutcomeReported ==
  \A j \in Jobs : (Kind[j] = "action" /\ pc = "recover" /\ row[j].state \in Open)
                    ~> (row[j].fin # NoFinish)

(* A compensation that was offered just before a restart is carried out by   *)
(* the recovery (apd_config_recovery_fixture.c: "Recovery must resolve the   *)
(* previous snapshot from the completed apply journal and finish the         *)
(* rollback").                                                               *)
CompensationRecovered ==
  \A j \in Compensations :
    row[j].fin # NoFinish /\ Reference(j) # NoPrev => row[j].fin.err # "interrupted"
=============================================================================
