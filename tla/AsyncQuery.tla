------------------------------ MODULE AsyncQuery ------------------------------
(***************************************************************************)
(* The worker pool of jmxd/src/dw_async_query.c.                            *)
(*                                                                          *)
(* The main thread (uloop) submits jobs, is woken through a non-blocking    *)
(* pipe, and replies; the workers pop jobs under g_async.lock, run the      *)
(* query with no lock held, push the job on the done queue under the lock,  *)
(* and write one byte to the pipe.  A section of code under the lock is one *)
(* step; what a thread does between two sections is visible as its program  *)
(* counter.  A job is identified with the ubus request it answers.          *)
(***************************************************************************)
EXTENDS Integers, Sequences, FiniteSets

CONSTANTS Requests,       \* ubus requests that can be handed to the pool
          Workers,        \* thread slots (DW_ASYNC_MAX_WORKERS of them)
          None,           \* no job
          MaxPending,     \* DW_ASYNC_MAX_PENDING
          PipeCapacity,   \* bytes the wake pipe holds before write() fails
          MaxLost,        \* bound: connection losses
          MaxStarts       \* bound: successful starts of the pool

ASSUME ConstantsAssumption ==
  /\ None \notin Requests
  /\ IsFiniteSet(Workers)
  /\ Workers # {}
  /\ MaxPending \in Nat \ {0}
  /\ PipeCapacity \in Nat \ {0}
  /\ MaxLost \in Nat
  /\ MaxStarts \in Nat

VARIABLES
  initialised,  \* g_async.initialised
  running,      \* g_async.running
  threads,      \* g_async.threads[0 .. thread_count-1]
  queue,        \* g_async.queue_head .. queue_tail
  done,         \* g_async.done_head .. done_tail
  pending,      \* g_async.pending
  wake,         \* bytes waiting in the pipe g_async.wake_fd
  mpc,          \* where the main thread is
  wpc,          \* where each worker is
  wjob,         \* the job each worker holds
  connGen,      \* g_async_conn_gen
  reqGen,       \* job->gen
  status,       \* what has become of each request
  submitted,    \* g_async_stats.submitted
  completed,    \* g_async_stats.completed
  peak,         \* g_async_stats.peak_pending
  starts        \* successful starts so far (bound only)

poolVars  == <<initialised, running, threads, starts>>
jobVars   == <<queue, done, pending>>
workVars  == <<wpc, wjob>>
reqVars   == <<connGen, reqGen, status>>
statVars  == <<submitted, completed, peak>>
vars == <<poolVars, jobVars, wake, mpc, workVars, reqVars, statVars>>

Rejections == {"unavailable", "saturated", "oom", "invalid"}
Statuses   == {"idle", "deferred", "replied", "dropped"} \cup Rejections

\* "lock": about to take the lock at the top of the loop; "wait": blocked in
\* pthread_cond_wait; "run": inside fn(in); "record": job pushed on the done
\* queue; "wake": about to write the byte; "off": no such thread, or exited.
WorkerPCs == {"off", "lock", "wait", "run", "record", "wake"}

\* "loop": between two uloop callbacks; "drain": in dw_async_drain_done called
\* from the wake callback; "join": in pthread_join; "stopdrain": in the
\* drain_done call of dw_async_query_stop.
MainPCs == {"loop", "drain", "join", "stopdrain"}

Waiting == {w \in Workers : wpc[w] = "wait"}

TypeOK ==
  /\ initialised \in BOOLEAN /\ running \in BOOLEAN
  /\ threads \in SUBSET Workers
  /\ queue \in Seq(Requests) /\ done \in Seq(Requests)
  /\ pending \in Nat
  /\ wake \in 0 .. PipeCapacity
  /\ mpc \in MainPCs
  /\ wpc \in [Workers -> WorkerPCs]
  /\ wjob \in [Workers -> Requests \cup {None}]
  /\ connGen \in Nat
  /\ reqGen \in [Requests -> Nat]
  /\ status \in [Requests -> Statuses]
  /\ submitted \in Nat /\ completed \in Nat /\ peak \in Nat
  /\ starts \in Nat

Init ==
  /\ initialised = FALSE /\ running = FALSE
  /\ threads = {}
  /\ queue = <<>> /\ done = <<>>
  /\ pending = 0
  /\ wake = 0
  /\ mpc = "loop"
  /\ wpc = [w \in Workers |-> "off"]
  /\ wjob = [w \in Workers |-> None]
  /\ connGen = 0
  /\ reqGen = [r \in Requests |-> 0]
  /\ status = [r \in Requests |-> "idle"]
  /\ submitted = 0 /\ completed = 0 /\ peak = 0
  /\ starts = 0

-----------------------------------------------------------------------------
(* Main thread *)

\* dw_async_query_init: a second call on a running pool is a no-op; otherwise
\* g_async is cleared, the pipe made and the threads of T created.  T is the
\* prefix for which pthread_create succeeded; with none the call fails and
\* leaves the pool stopped.
PoolInit(T) ==
  /\ mpc = "loop"
  /\ ~initialised
  /\ starts < MaxStarts
  /\ queue' = <<>> /\ done' = <<>> /\ pending' = 0
  /\ wake' = 0
  /\ running' = (T # {})
  /\ initialised' = (T # {})
  /\ threads' = T
  /\ wpc' = [w \in Workers |-> IF w \in T THEN "lock" ELSE "off"]
  /\ wjob' = [w \in Workers |-> None]
  /\ starts' = IF T # {} THEN starts + 1 ELSE starts
  /\ UNCHANGED <<mpc, reqVars, statVars>>

\* The bound on what is queued or being run; HasRoomOff is off by one.
HasRoomOff == pending <= MaxPending
HasRoom    == pending < MaxPending

\* dw_async_query_submit, the refusing returns: the request is left to the
\* caller and nothing is queued.
SubmitRefused(r, why) ==
  /\ mpc = "loop"
  /\ status[r] = "idle"
  /\ \/ why = "invalid"
     \/ why = "unavailable" /\ ~(initialised /\ running)
     \/ why = "oom" /\ initialised /\ running
     \/ why = "saturated" /\ initialised /\ running /\ ~HasRoom
  /\ status' = [status EXCEPT ![r] = why]
  /\ UNCHANGED <<poolVars, jobVars, wake, mpc, workVars, connGen, reqGen, statVars>>

\* pthread_cond_signal: one waiting worker, if there is one, is released.
\* SignalNobody: submit does not signal.
SignalNobody == wpc' = wpc
Signal ==
  \/ Waiting = {} /\ wpc' = wpc
  \/ \E w \in Waiting : wpc' = [wpc EXCEPT ![w] = "lock"]

\* dw_async_query_submit, the accepting path.
SubmitOk(r) ==
  /\ mpc = "loop"
  /\ status[r] = "idle"
  /\ initialised /\ running
  /\ HasRoom
  /\ status' = [status EXCEPT ![r] = "deferred"]
  /\ reqGen' = [reqGen EXCEPT ![r] = connGen]
  /\ queue' = Append(queue, r)
  /\ pending' = pending + 1
  /\ submitted' = submitted + 1
  /\ peak' = IF pending' > peak THEN pending' ELSE peak
  /\ Signal
  /\ UNCHANGED <<poolVars, done, wake, mpc, wjob, connGen, completed>>

\* dw_async_wake_cb up to the call of drain_done: the pipe is read until empty.
WakeCb ==
  /\ mpc = "loop"
  /\ initialised
  /\ wake > 0
  /\ wake' = 0
  /\ mpc' = "drain"
  /\ UNCHANGED <<poolVars, jobVars, workVars, reqVars, statVars>>

\* What dw_async_drain_done does with a popped job: one whose connection was
\* lost is freed without a reply, any other is replied to and completed.
\* FinishedAnyway: whatever connection it came from.
FinishedAnyway(r) == "replied"
Finished(r) == IF reqGen[r] # connGen THEN "dropped" ELSE "replied"

\* dw_async_drain_done, one turn of its loop.
Drain ==
  /\ mpc \in {"drain", "stopdrain"}
  /\ done # <<>>
  /\ done' = Tail(done)
  /\ status' = [status EXCEPT ![Head(done)] = Finished(Head(done))]
  /\ UNCHANGED <<poolVars, queue, pending, wake, mpc, workVars, connGen, reqGen, statVars>>

\* dw_async_drain_done called from the wake callback finds the queue empty.
\* DrainEndEarly: the callback answers one job per byte, not the whole queue.
DrainEndEarly ==
  /\ mpc = "drain"
  /\ mpc' = "loop"
  /\ UNCHANGED <<poolVars, jobVars, wake, workVars, reqVars, statVars>>

DrainEnd ==
  /\ mpc = "drain"
  /\ done = <<>>
  /\ mpc' = "loop"
  /\ UNCHANGED <<poolVars, jobVars, wake, workVars, reqVars, statVars>>

\* dw_async_query_connection_lost
ConnectionLost ==
  /\ mpc = "loop"
  /\ connGen < MaxLost
  /\ connGen' = connGen + 1
  /\ UNCHANGED <<poolVars, jobVars, wake, mpc, workVars, reqGen, status, statVars>>

\* dw_async_query_stop up to the joins: running is cleared and every waiting
\* worker released in one locked section.
\* StopBeginQuiet: without the broadcast.
StopBeginQuiet ==
  /\ mpc = "loop"
  /\ initialised
  /\ running' = FALSE
  /\ mpc' = "join"
  /\ UNCHANGED <<initialised, threads, starts, jobVars, wake, workVars, reqVars, statVars>>

StopBegin ==
  /\ mpc = "loop"
  /\ initialised
  /\ running' = FALSE
  /\ wpc' = [w \in Workers |-> IF wpc[w] = "wait" THEN "lock" ELSE wpc[w]]
  /\ mpc' = "join"
  /\ UNCHANGED <<initialised, threads, starts, jobVars, wake, wjob, reqVars, statVars>>

\* dw_async_query_stop: pthread_join has returned for every thread.
StopJoined ==
  /\ mpc = "join"
  /\ \A w \in threads : wpc[w] = "off"
  /\ mpc' = "stopdrain"
  /\ UNCHANGED <<poolVars, jobVars, wake, workVars, reqVars, statVars>>

\* dw_async_query_stop: the done queue is empty; pipe and pool are torn down.
StopEnd ==
  /\ mpc = "stopdrain"
  /\ done = <<>>
  /\ wake' = 0
  /\ initialised' = FALSE
  /\ threads' = {}
  /\ mpc' = "loop"
  /\ UNCHANGED <<running, starts, jobVars, workVars, reqVars, statVars>>

-----------------------------------------------------------------------------
(* Worker threads: dw_async_worker *)

\* Under the lock with nothing queued: wait while the pool runs ...
WorkerWait(w) ==
  /\ wpc[w] = "lock"
  /\ running /\ queue = <<>>
  /\ wpc' = [wpc EXCEPT ![w] = "wait"]
  /\ UNCHANGED <<poolVars, jobVars, wake, mpc, wjob, reqVars, statVars>>

\* ... and leave the loop once it is stopped.  WorkerExitEarly: even with jobs
\* still queued.
WorkerExitEarly(w) ==
  /\ wpc[w] = "lock"
  /\ ~running
  /\ wpc' = [wpc EXCEPT ![w] = "off"]
  /\ UNCHANGED <<poolVars, jobVars, wake, mpc, wjob, reqVars, statVars>>

WorkerExit(w) ==
  /\ wpc[w] = "lock"
  /\ ~running /\ queue = <<>>
  /\ wpc' = [wpc EXCEPT ![w] = "off"]
  /\ UNCHANGED <<poolVars, jobVars, wake, mpc, wjob, reqVars, statVars>>

\* POSIX allows pthread_cond_wait to return unprompted.
SpuriousWakeup(w) ==
  /\ wpc[w] = "wait"
  /\ wpc' = [wpc EXCEPT ![w] = "lock"]
  /\ UNCHANGED <<poolVars, jobVars, wake, mpc, wjob, reqVars, statVars>>

\* Under the lock with a job queued, whether or not the pool still runs.
\* WorkerPopPeek: the job stays at the head of the queue.  WorkerPopUnchecked:
\* the wait is not repeated and an empty pop not noticed.
WorkerPopPeek(w) ==
  /\ wpc[w] = "lock"
  /\ queue # <<>>
  /\ wjob' = [wjob EXCEPT ![w] = Head(queue)]
  /\ wpc' = [wpc EXCEPT ![w] = "run"]
  /\ UNCHANGED <<poolVars, jobVars, wake, mpc, reqVars, statVars>>

WorkerPop(w) ==
  /\ wpc[w] = "lock"
  /\ queue # <<>>
  /\ queue' = Tail(queue)
  /\ wjob' = [wjob EXCEPT ![w] = Head(queue)]
  /\ wpc' = [wpc EXCEPT ![w] = "run"]
  /\ UNCHANGED <<poolVars, done, pending, wake, mpc, reqVars, statVars>>

\* fn(in) has returned: the second locked section.
WorkerPush(w) ==
  /\ wpc[w] = "run"
  /\ done' = Append(done, wjob[w])
  /\ wjob' = [wjob EXCEPT ![w] = None]
  /\ pending' = IF pending > 0 THEN pending - 1 ELSE pending
  /\ wpc' = [wpc EXCEPT ![w] = "record"]
  /\ UNCHANGED <<poolVars, queue, wake, mpc, reqVars, statVars>>

\* dw_async_record_completion
WorkerRecord(w) ==
  /\ wpc[w] = "record"
  /\ completed' = completed + 1
  /\ wpc' = [wpc EXCEPT ![w] = "wake"]
  /\ UNCHANGED <<poolVars, jobVars, wake, mpc, wjob, reqVars, submitted, peak>>

\* write() to the non-blocking pipe; on a full pipe it fails and is ignored.
WorkerWake(w) ==
  /\ wpc[w] = "wake"
  /\ wake' = IF wake < PipeCapacity THEN wake + 1 ELSE wake
  /\ wpc' = [wpc EXCEPT ![w] = "lock"]
  /\ UNCHANGED <<poolVars, jobVars, mpc, wjob, reqVars, statVars>>

WorkerStep(w) == \/ WorkerWait(w) \/ WorkerExit(w) \/ WorkerPop(w)
                 \/ WorkerPush(w) \/ WorkerRecord(w) \/ WorkerWake(w)

MainStep == WakeCb \/ Drain \/ DrainEnd \/ StopJoined \/ StopEnd

Next ==
  \/ \E T \in SUBSET Workers : PoolInit(T)
  \/ \E r \in Requests : \/ \E why \in Rejections : SubmitRefused(r, why)
                         \/ SubmitOk(r)
  \/ MainStep
  \/ ConnectionLost
  \/ StopBegin
  \/ \E w \in Workers : WorkerStep(w) \/ SpuriousWakeup(w)

\* The scheduler runs every thread that is not blocked, a query terminates,
\* and uloop dispatches a descriptor that stays readable.  Submissions,
\* connection losses, spurious wakeups and shutdown are not promised.
Fairness == /\ \A w \in Workers : WF_vars(WorkerStep(w))
            /\ WF_vars(MainStep)

Spec == Init /\ [][Next]_vars /\ Fairness

-----------------------------------------------------------------------------
(* Properties *)

InSeq(s)    == {s[i] : i \in DOMAIN s}
Distinct(s) == \A i, j \in DOMAIN s : s[i] = s[j] => i = j
Busy        == {w \in Workers : wpc[w] = "run"}
Held        == {wjob[w] : w \in Busy}

(* g_async.pending counts the jobs queued or being run, so the bound that    *)
(* submit enforces on it bounds what the pool holds of ubusd's deferrals.    *)
PendingIsExact ==
  /\ pending = Len(queue) + Cardinality(Busy)
  /\ pending <= MaxPending
  /\ peak <= MaxPending

(* A deferred request is owned by exactly one of the queue, one worker and   *)
(* the done queue, once; a request in any other state by none.  So no job is *)
(* lost, answered twice or freed while a worker still has it.                *)
ExactlyOneOwner ==
  /\ \A r \in Requests :
       (status[r] = "deferred") <=> (r \in InSeq(queue) \cup InSeq(done) \cup Held)
  /\ InSeq(queue) \cap InSeq(done) = {}
  /\ (InSeq(queue) \cup InSeq(done)) \cap Held = {}
  /\ Distinct(queue) /\ Distinct(done)
  /\ \A v, w \in Busy : wjob[v] = wjob[w] => v = w

(* A finished job always has a wakeup on its way: a byte in the pipe, a      *)
(* worker that still has to write one, or a drain that has not ended.        *)
NoLostWakeup ==
  done # <<>> => \/ wake > 0
                 \/ \E w \in Workers : wpc[w] \in {"record", "wake"}
                 \/ mpc \in {"drain", "join", "stopdrain"}

(* A queued job is never left with every worker asleep on the condition      *)
(* variable (pthread_cond_signal wakes one worker, and only sometimes).      *)
NoSleepOnWork ==
  queue # <<>> => \E w \in threads : wpc[w] \notin {"wait", "off"}

(* Once dw_async_query_stop has returned nobody is still owed an answer, and *)
(* the memset of the next dw_async_query_init discards nothing.              *)
StopLeavesNothing ==
  ~initialised => /\ queue = <<>> /\ done = <<>>
                  /\ \A w \in Workers : wpc[w] = "off"
                  /\ \A r \in Requests : status[r] # "deferred"

(* The lifetime counters of dw_async_query_status_json never show more       *)
(* completions than submissions, nor fewer in flight than are pending.       *)
StatsConsistent ==
  /\ completed + pending <= submitted
  /\ submitted - completed - pending = Cardinality({w \in Workers : wpc[w] = "record"})

(* A shutdown in progress comes to an end, whatever was queued when it began.*)
StopTerminates == (mpc = "join") ~> (mpc = "loop")

(* The pool implements its contract: each deferred request settled once, on  *)
(* the connection it came from or not at all, and never left unsettled.      *)
Service == INSTANCE AsyncQueryService
ServiceSpec == Service!Spec
=============================================================================
