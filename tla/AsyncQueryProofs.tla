-------------------------- MODULE AsyncQueryProofs --------------------------
(***************************************************************************)
(* Proofs about the worker pool, for any set of requests and workers and    *)
(* any sizes of the pending table and the pipe.                             *)
(***************************************************************************)
EXTENDS AsyncQuery, FiniteSetTheorems, TLAPS

-----------------------------------------------------------------------------
(* Sequences *)

(* What g_async's queues hold after a push: dw_async_queue_push appends.     *)
LEMMA AppendElements ==
  ASSUME NEW S, NEW s \in Seq(S), NEW x \in S
  PROVE  /\ Append(s, x) \in Seq(S)
         /\ InSeq(Append(s, x)) = InSeq(s) \cup {x}
         /\ Append(s, x) # <<>>
         /\ Distinct(s) /\ x \notin InSeq(s) => Distinct(Append(s, x))
<1> DEFINE t == Append(s, x)
<1>1. /\ t \in Seq(S) /\ Len(t) = Len(s) + 1 /\ DOMAIN t = 1 .. Len(s) + 1
      /\ t[Len(s) + 1] = x /\ \A i \in 1 .. Len(s) : t[i] = s[i]
  OBVIOUS
<1>2. DOMAIN s = 1 .. Len(s) /\ Len(s) \in Nat
  OBVIOUS
<1>3. InSeq(t) = InSeq(s) \cup {x}
  BY <1>1, <1>2 DEF InSeq
<1>4. ASSUME Distinct(s), x \notin InSeq(s) PROVE Distinct(t)
  BY <1>1, <1>2, <1>4 DEF Distinct, InSeq
<1> QED BY <1>1, <1>3, <1>4

(* What they hold after a pop: dw_async_queue_pop takes the head.            *)
LEMMA TailElements ==
  ASSUME NEW S, NEW s \in Seq(S), s # <<>>
  PROVE  /\ Head(s) \in S /\ Head(s) \in InSeq(s)
         /\ Tail(s) \in Seq(S)
         /\ Distinct(s) => Distinct(Tail(s)) /\ InSeq(Tail(s)) = InSeq(s) \ {Head(s)}
<1> DEFINE t == Tail(s)
<1>1. /\ t \in Seq(S) /\ Len(t) = Len(s) - 1 /\ DOMAIN t = 1 .. Len(s) - 1
      /\ \A i \in 1 .. Len(s) - 1 : t[i] = s[i + 1]
  OBVIOUS
<1>2. DOMAIN s = 1 .. Len(s) /\ Len(s) \in Nat /\ Len(s) > 0
  OBVIOUS
<1>3. Head(s) = s[1] /\ Head(s) \in S
  BY <1>2
<1>4. Head(s) \in InSeq(s)
  BY <1>2, <1>3 DEF InSeq
<1>5. ASSUME Distinct(s) PROVE Distinct(t)
  <2> SUFFICES ASSUME NEW i \in 1 .. Len(s) - 1, NEW j \in 1 .. Len(s) - 1, t[i] = t[j]
               PROVE i = j
    BY <1>1 DEF Distinct
  <2>1. s[i + 1] = s[j + 1] /\ i + 1 \in DOMAIN s /\ j + 1 \in DOMAIN s
    BY <1>1, <1>2
  <2> QED BY <2>1, <1>5 DEF Distinct
<1>6. ASSUME Distinct(s) PROVE InSeq(t) = InSeq(s) \ {Head(s)}
  <2>1. ASSUME NEW y \in InSeq(t) PROVE y \in InSeq(s) \ {Head(s)}
    <3>1. PICK i \in 1 .. Len(s) - 1 : y = s[i + 1]
      BY <1>1, <2>1 DEF InSeq
    <3>2. i + 1 \in DOMAIN s /\ 1 \in DOMAIN s /\ i + 1 # 1
      BY <1>2
    <3> QED BY <3>1, <3>2, <1>3, <1>6 DEF InSeq, Distinct
  <2>2. ASSUME NEW y \in InSeq(s) \ {Head(s)} PROVE y \in InSeq(t)
    <3>1. PICK i \in 1 .. Len(s) : y = s[i]
      BY <1>2, <2>2 DEF InSeq
    <3>2. i - 1 \in 1 .. Len(s) - 1 /\ t[i - 1] = s[i]
      BY <1>1, <1>2, <1>3, <2>2, <3>1
    <3> QED BY <3>1, <3>2, <1>1 DEF InSeq
  <2> QED BY <2>1, <2>2
<1> QED BY <1>1, <1>3, <1>4, <1>5, <1>6

-----------------------------------------------------------------------------
(* Types *)

\* A worker inside fn(in) holds a job; WorkerPush relies on it.
HoldsJob == \A w \in Workers : wpc[w] = "run" => wjob[w] \in Requests

TypeInv == TypeOK /\ HoldsJob

(* g_async is zeroed before the pool is first started.                       *)
LEMMA TypeInvInit == Init => TypeInv
<1> SUFFICES ASSUME Init PROVE TypeInv
  OBVIOUS
<1> USE DEF Init
<1>1. queue \in Seq(Requests) /\ done \in Seq(Requests)
  OBVIOUS
<1>2. wpc \in [Workers -> WorkerPCs] /\ wjob \in [Workers -> Requests \cup {None}] /\ HoldsJob
  BY DEF WorkerPCs, HoldsJob
<1>3. reqGen \in [Requests -> Nat] /\ status \in [Requests -> Statuses]
  BY DEF Statuses
<1>4. wake \in 0 .. PipeCapacity /\ mpc \in MainPCs
  BY ConstantsAssumption DEF MainPCs
<1>5. initialised \in BOOLEAN /\ running \in BOOLEAN /\ threads \in SUBSET Workers
  BY Zenon
<1> QED BY <1>1, <1>2, <1>3, <1>4, <1>5 DEF TypeInv, TypeOK

(* Every step of the main thread and of the workers keeps the types, and a   *)
(* worker that runs a query holds the job it popped.                         *)
LEMMA TypeInvStep == TypeInv /\ [Next]_vars => TypeInv'
<1> SUFFICES ASSUME TypeInv, [Next]_vars PROVE TypeInv'
  OBVIOUS
<1> USE ConstantsAssumption DEF TypeInv
<1>1. ASSUME NEW T \in SUBSET Workers, PoolInit(T) PROVE TypeInv'
  BY <1>1 DEF PoolInit, TypeOK, HoldsJob, WorkerPCs, reqVars, statVars
<1>2. ASSUME NEW r \in Requests, NEW why \in Rejections, SubmitRefused(r, why) PROVE TypeInv'
  BY <1>2 DEF SubmitRefused, TypeOK, HoldsJob, Statuses, poolVars, jobVars, workVars, statVars
<1>3. ASSUME NEW r \in Requests, SubmitOk(r) PROVE TypeInv'
  <2>1. wpc' \in [Workers -> WorkerPCs] /\ HoldsJob'
    BY <1>3 DEF SubmitOk, Signal, Waiting, TypeOK, HoldsJob, WorkerPCs
  <2>2. queue' \in Seq(Requests)
    BY <1>3, AppendElements DEF SubmitOk, TypeOK
  <2> QED BY <1>3, <2>1, <2>2 DEF SubmitOk, TypeOK, Statuses, poolVars
<1>4. ASSUME WakeCb PROVE TypeInv'
  BY <1>4 DEF WakeCb, TypeOK, HoldsJob, MainPCs, poolVars, jobVars, workVars, reqVars, statVars
<1>5. ASSUME Drain PROVE TypeInv'
  <2>1. done' \in Seq(Requests) /\ Head(done) \in Requests
    BY <1>5, TailElements DEF Drain, TypeOK
  <2>2. status' \in [Requests -> Statuses]
    BY <1>5, <2>1 DEF Drain, TypeOK, Finished, Statuses
  <2> QED BY <1>5, <2>1, <2>2 DEF Drain, TypeOK, HoldsJob, poolVars, workVars, statVars
<1>6. ASSUME DrainEnd PROVE TypeInv'
  BY <1>6 DEF DrainEnd, TypeOK, HoldsJob, MainPCs, poolVars, jobVars, workVars, reqVars, statVars
<1>7. ASSUME StopJoined PROVE TypeInv'
  BY <1>7 DEF StopJoined, TypeOK, HoldsJob, MainPCs, poolVars, jobVars, workVars, reqVars, statVars
<1>8. ASSUME StopEnd PROVE TypeInv'
  <2>1. threads' \in SUBSET Workers /\ initialised' \in BOOLEAN
    BY <1>8, Zenon DEF StopEnd
  <2>2. wake' \in 0 .. PipeCapacity /\ mpc' \in MainPCs
    BY <1>8 DEF StopEnd, MainPCs
  <2> QED BY <1>8, <2>1, <2>2 DEF StopEnd, TypeOK, HoldsJob, jobVars, workVars, reqVars, statVars
<1>9. ASSUME ConnectionLost PROVE TypeInv'
  BY <1>9 DEF ConnectionLost, TypeOK, HoldsJob, poolVars, jobVars, workVars, statVars
<1>10. ASSUME StopBegin PROVE TypeInv'
  BY <1>10 DEF StopBegin, TypeOK, HoldsJob, MainPCs, WorkerPCs, jobVars, reqVars, statVars
<1>11. ASSUME NEW w \in Workers, WorkerWait(w) \/ WorkerExit(w) \/ SpuriousWakeup(w) PROVE TypeInv'
  BY <1>11 DEF WorkerWait, WorkerExit, SpuriousWakeup, TypeOK, HoldsJob, WorkerPCs,
               poolVars, jobVars, reqVars, statVars
<1>12. ASSUME NEW w \in Workers, WorkerPop(w) PROVE TypeInv'
  <2>1. queue' \in Seq(Requests) /\ Head(queue) \in Requests
    BY <1>12, TailElements DEF WorkerPop, TypeOK
  <2>2. wpc' \in [Workers -> WorkerPCs] /\ wjob' \in [Workers -> Requests \cup {None}] /\ HoldsJob'
    BY <1>12, <2>1 DEF WorkerPop, TypeOK, HoldsJob, WorkerPCs
  <2> QED BY <1>12, <2>1, <2>2 DEF WorkerPop, TypeOK, poolVars, reqVars, statVars
<1>13. ASSUME NEW w \in Workers, WorkerPush(w) PROVE TypeInv'
  <2>1. done' \in Seq(Requests)
    BY <1>13, AppendElements DEF WorkerPush, TypeOK, HoldsJob
  <2>2. wpc' \in [Workers -> WorkerPCs] /\ wjob' \in [Workers -> Requests \cup {None}] /\ HoldsJob'
    BY <1>13 DEF WorkerPush, TypeOK, HoldsJob, WorkerPCs
  <2>3. pending' \in Nat
    BY <1>13 DEF WorkerPush, TypeOK
  <2> QED BY <1>13, <2>1, <2>2, <2>3 DEF WorkerPush, TypeOK, poolVars, reqVars, statVars
<1>14. ASSUME NEW w \in Workers, WorkerRecord(w) PROVE TypeInv'
  BY <1>14 DEF WorkerRecord, TypeOK, HoldsJob, WorkerPCs, poolVars, jobVars, reqVars
<1>15. ASSUME NEW w \in Workers, WorkerWake(w) PROVE TypeInv'
  BY <1>15 DEF WorkerWake, TypeOK, HoldsJob, WorkerPCs, poolVars, jobVars, reqVars, statVars
<1>16. ASSUME UNCHANGED vars PROVE TypeInv'
  BY <1>16 DEF vars, TypeOK, HoldsJob, poolVars, jobVars, workVars, reqVars, statVars
<1> QED
  BY <1>1, <1>2, <1>3, <1>4, <1>5, <1>6, <1>7, <1>8, <1>9, <1>10, <1>11, <1>12, <1>13,
     <1>14, <1>15, <1>16 DEF Next, MainStep, WorkerStep

(* Every variable of the pool keeps its type; in particular the wake pipe is *)
(* never written beyond its capacity and only jobs enter the two queues.     *)
THEOREM TypeCorrect == Spec => []TypeOK
<1>1. Spec => []TypeInv
  BY TypeInvInit, TypeInvStep, PTL DEF Spec
<1> QED BY <1>1, PTL DEF TypeInv

-----------------------------------------------------------------------------
(* Wakeups *)

(* dw_async_wake_cb reads the pipe empty before it drains, and a worker      *)
(* writes its byte after its push: no step strands a finished job.           *)
LEMMA NoLostWakeupStep == TypeInv /\ NoLostWakeup /\ [Next]_vars => NoLostWakeup'
<1> SUFFICES ASSUME TypeInv, NoLostWakeup, [Next]_vars PROVE NoLostWakeup'
  OBVIOUS
<1> USE ConstantsAssumption DEF TypeInv, TypeOK, NoLostWakeup
<1>1. ASSUME NEW T \in SUBSET Workers, PoolInit(T) PROVE NoLostWakeup'
  BY <1>1 DEF PoolInit
<1>2. ASSUME NEW r \in Requests, NEW why \in Rejections, SubmitRefused(r, why) PROVE NoLostWakeup'
  BY <1>2 DEF SubmitRefused, poolVars, jobVars, workVars, statVars
<1>3. ASSUME NEW r \in Requests, SubmitOk(r) PROVE NoLostWakeup'
  BY <1>3 DEF SubmitOk, Signal, Waiting, poolVars
<1>4. ASSUME WakeCb \/ StopJoined PROVE NoLostWakeup'
  BY <1>4 DEF WakeCb, StopJoined, poolVars, jobVars, workVars
<1>5. ASSUME Drain PROVE NoLostWakeup'
  BY <1>5 DEF Drain
<1>6. ASSUME DrainEnd \/ StopEnd PROVE NoLostWakeup'
  BY <1>6 DEF DrainEnd, StopEnd, jobVars
<1>7. ASSUME ConnectionLost PROVE NoLostWakeup'
  BY <1>7 DEF ConnectionLost, poolVars, jobVars, workVars
<1>8. ASSUME StopBegin PROVE NoLostWakeup'
  BY <1>8 DEF StopBegin
<1>9. ASSUME NEW w \in Workers,
             WorkerWait(w) \/ WorkerExit(w) \/ SpuriousWakeup(w) \/ WorkerPop(w)
      PROVE NoLostWakeup'
  BY <1>9 DEF WorkerWait, WorkerExit, SpuriousWakeup, WorkerPop, jobVars
<1>10. ASSUME NEW w \in Workers, WorkerPush(w) \/ WorkerRecord(w) PROVE NoLostWakeup'
  BY <1>10 DEF WorkerPush, WorkerRecord, jobVars
<1>11. ASSUME NEW w \in Workers, WorkerWake(w) PROVE NoLostWakeup'
  BY <1>11 DEF WorkerWake, jobVars
<1>12. ASSUME UNCHANGED vars PROVE NoLostWakeup'
  BY <1>12 DEF vars, poolVars, jobVars, workVars
<1> QED
  BY <1>1, <1>2, <1>3, <1>4, <1>5, <1>6, <1>7, <1>8, <1>9, <1>10, <1>11, <1>12
     DEF Next, MainStep, WorkerStep

(* dw_async_worker pushes a job before it writes the wake byte, and          *)
(* dw_async_wake_cb empties the pipe before it drains: a finished job is     *)
(* never left without a wakeup, whatever the pool's sizes.                   *)
THEOREM WakeupNotLost == Spec => []NoLostWakeup
<1>1. Init => TypeInv /\ NoLostWakeup
  BY TypeInvInit DEF Init, NoLostWakeup
<1>2. TypeInv /\ NoLostWakeup /\ [Next]_vars => (TypeInv /\ NoLostWakeup)'
  BY TypeInvStep, NoLostWakeupStep
<1> QED BY <1>1, <1>2, PTL DEF Spec

-----------------------------------------------------------------------------
(* Start and stop *)

\* How the main thread's progress through init and stop bounds what the workers
\* and the queues can be doing.
Phases ==
  /\ ~initialised => /\ queue = <<>> /\ done = <<>> /\ mpc = "loop" /\ running = FALSE
                     /\ \A w \in Workers : wpc[w] = "off"
  /\ initialised => threads # {}
  /\ initialised /\ mpc \in {"loop", "drain"} => running
  /\ mpc \in {"join", "stopdrain"} => ~running
  /\ \A w \in Workers : w \notin threads => wpc[w] = "off"
  /\ running => \A w \in threads : wpc[w] # "off"
  /\ initialised /\ (\E w \in threads : wpc[w] = "off") => queue = <<>>
  /\ mpc = "stopdrain" => \A w \in Workers : wpc[w] = "off"

(* dw_async_query_init and dw_async_query_stop keep their bookkeeping: the    *)
(* pool that is not initialised has no threads, the one being joined is not  *)
(* running, and the one being drained has only workers that have exited.     *)
LEMMA PhasesStep == TypeInv /\ Phases /\ [Next]_vars => Phases'
<1> SUFFICES ASSUME TypeInv, Phases, [Next]_vars PROVE Phases'
  OBVIOUS
<1> USE DEF TypeInv, TypeOK, Phases, MainPCs
<1>1. ASSUME NEW T \in SUBSET Workers, PoolInit(T) PROVE Phases'
  BY <1>1 DEF PoolInit
<1>2. ASSUME NEW r \in Requests, NEW why \in Rejections, SubmitRefused(r, why) PROVE Phases'
  BY <1>2 DEF SubmitRefused, poolVars, jobVars, workVars
<1>3. ASSUME NEW r \in Requests, SubmitOk(r) PROVE Phases'
  <2>1. \A w \in Workers : (wpc'[w] = "off") <=> (wpc[w] = "off")
    BY <1>3 DEF SubmitOk, Signal, Waiting
  <2> QED BY <1>3, <2>1 DEF SubmitOk, poolVars
<1>4. ASSUME WakeCb \/ StopJoined \/ DrainEnd PROVE Phases'
  BY <1>4 DEF WakeCb, StopJoined, DrainEnd, poolVars, jobVars, workVars
<1>5. ASSUME Drain PROVE Phases'
  BY <1>5 DEF Drain, poolVars, workVars
<1>6. ASSUME StopEnd PROVE Phases'
  BY <1>6 DEF StopEnd, jobVars, workVars
<1>7. ASSUME ConnectionLost PROVE Phases'
  BY <1>7 DEF ConnectionLost, poolVars, jobVars, workVars
<1>8. ASSUME StopBegin PROVE Phases'
  BY <1>8 DEF StopBegin, jobVars
<1>9. ASSUME NEW w \in Workers, WorkerWait(w) \/ SpuriousWakeup(w) PROVE Phases'
  BY <1>9 DEF WorkerWait, SpuriousWakeup, poolVars, jobVars
<1>10. ASSUME NEW w \in Workers, WorkerExit(w) PROVE Phases'
  BY <1>10 DEF WorkerExit, poolVars, jobVars
<1>11. ASSUME NEW w \in Workers, WorkerPop(w) PROVE Phases'
  BY <1>11 DEF WorkerPop, poolVars
<1>12. ASSUME NEW w \in Workers, WorkerPush(w) PROVE Phases'
  BY <1>12 DEF WorkerPush, poolVars
<1>13. ASSUME NEW w \in Workers, WorkerRecord(w) \/ WorkerWake(w) PROVE Phases'
  BY <1>13 DEF WorkerRecord, WorkerWake, poolVars, jobVars
<1>14. ASSUME UNCHANGED vars PROVE Phases'
  BY <1>14 DEF vars, poolVars, jobVars, workVars
<1> QED
  BY <1>1, <1>2, <1>3, <1>4, <1>5, <1>6, <1>7, <1>8, <1>9, <1>10, <1>11, <1>12, <1>13, <1>14
     DEF Next, MainStep, WorkerStep

(* A worker goes to sleep only on an empty queue and submit signals after    *)
(* its push: no step leaves a queued job with every worker asleep.           *)
LEMMA NoSleepOnWorkStep == TypeInv /\ Phases /\ NoSleepOnWork /\ [Next]_vars => NoSleepOnWork'
<1> SUFFICES ASSUME TypeInv, Phases, NoSleepOnWork, [Next]_vars PROVE NoSleepOnWork'
  OBVIOUS
<1> USE DEF TypeInv, TypeOK, NoSleepOnWork
<1>1. ASSUME NEW T \in SUBSET Workers, PoolInit(T) PROVE NoSleepOnWork'
  BY <1>1 DEF PoolInit
<1>2. ASSUME NEW r \in Requests, NEW why \in Rejections, SubmitRefused(r, why) PROVE NoSleepOnWork'
  BY <1>2 DEF SubmitRefused, poolVars, jobVars, workVars
<1>3. ASSUME NEW r \in Requests, SubmitOk(r) PROVE NoSleepOnWork'
  <2>1. threads # {} /\ (\A w \in threads : wpc[w] # "off") /\ threads' = threads
    BY <1>3 DEF SubmitOk, Phases, poolVars
  <2>2. CASE Waiting = {}
    <3>1. PICK w \in threads : TRUE
      BY <2>1
    <3>2. wpc' = wpc
      BY <1>3, <2>2 DEF SubmitOk, Signal
    <3>3. wpc[w] # "wait" /\ wpc[w] # "off"
      BY <2>1, <2>2, <3>1 DEF Waiting
    <3> QED BY <2>1, <3>1, <3>2, <3>3
  <2>3. CASE Waiting # {}
    <3>1. PICK w \in Waiting : wpc' = [wpc EXCEPT ![w] = "lock"]
      BY <1>3, <2>3 DEF SubmitOk, Signal
    <3>2. w \in threads
      BY <3>1 DEF Waiting, Phases
    <3> QED BY <2>1, <3>1, <3>2 DEF Waiting
  <2> QED BY <2>2, <2>3
<1>4. ASSUME WakeCb \/ StopJoined \/ DrainEnd PROVE NoSleepOnWork'
  BY <1>4 DEF WakeCb, StopJoined, DrainEnd, poolVars, jobVars, workVars
<1>5. ASSUME Drain PROVE NoSleepOnWork'
  BY <1>5 DEF Drain, poolVars, workVars
<1>6. ASSUME StopEnd PROVE NoSleepOnWork'
  BY <1>6 DEF StopEnd, Phases, jobVars, workVars
<1>7. ASSUME ConnectionLost PROVE NoSleepOnWork'
  BY <1>7 DEF ConnectionLost, poolVars, jobVars, workVars
<1>8. ASSUME StopBegin PROVE NoSleepOnWork'
  BY <1>8 DEF StopBegin, jobVars
<1>9. ASSUME NEW w \in Workers, WorkerWait(w) \/ WorkerExit(w) \/ SpuriousWakeup(w)
      PROVE NoSleepOnWork'
  BY <1>9 DEF WorkerWait, WorkerExit, SpuriousWakeup, poolVars, jobVars
<1>10. ASSUME NEW w \in Workers, WorkerPop(w) PROVE NoSleepOnWork'
  BY <1>10 DEF WorkerPop, Phases, poolVars
<1>11. ASSUME NEW w \in Workers, WorkerPush(w) PROVE NoSleepOnWork'
  BY <1>11 DEF WorkerPush, poolVars
<1>12. ASSUME NEW w \in Workers, WorkerRecord(w) \/ WorkerWake(w) PROVE NoSleepOnWork'
  BY <1>12 DEF WorkerRecord, WorkerWake, poolVars, jobVars
<1>13. ASSUME UNCHANGED vars PROVE NoSleepOnWork'
  BY <1>13 DEF vars, poolVars, jobVars, workVars
<1> QED
  BY <1>1, <1>2, <1>3, <1>4, <1>5, <1>6, <1>7, <1>8, <1>9, <1>10, <1>11, <1>12, <1>13
     DEF Next, MainStep, WorkerStep

(* The pool that was never started is in phase and has nothing queued.       *)
LEMMA PhasesInit == Init => TypeInv /\ Phases /\ NoSleepOnWork
BY TypeInvInit DEF Init, Phases, NoSleepOnWork

(* pthread_cond_signal releases one worker of however many wait, and only    *)
(* if one waits; still no job stays queued with all workers asleep.          *)
THEOREM QueuedWorkIsAttended == Spec => []NoSleepOnWork
<1>1. TypeInv /\ Phases /\ NoSleepOnWork /\ [Next]_vars => (TypeInv /\ Phases /\ NoSleepOnWork)'
  BY TypeInvStep, PhasesStep, NoSleepOnWorkStep
<1> QED BY PhasesInit, <1>1, PTL DEF Spec

-----------------------------------------------------------------------------
(* Ownership of jobs *)

\* A step that moves no job between queue, workers, done queue and requests.
LEMMA NothingMoves ==
  ASSUME ExactlyOneOwner, UNCHANGED <<queue, done, wjob>>,
         \A w \in Workers : (wpc'[w] = "run") <=> (wpc[w] = "run"),
         \A r \in Requests : (status'[r] = "deferred") <=> (status[r] = "deferred")
  PROVE  ExactlyOneOwner'
<1>1. Busy' = Busy /\ Held' = Held
  BY DEF Busy, Held
<1> QED BY <1>1 DEF ExactlyOneOwner

(* Each of submit, pop, push and drain moves a job from one owner to the     *)
(* next, and no other step moves one.                                        *)
LEMMA OwnershipStep ==
  TypeInv /\ Phases /\ ExactlyOneOwner /\ [Next]_vars => ExactlyOneOwner'
<1> SUFFICES ASSUME TypeInv, Phases, ExactlyOneOwner, [Next]_vars PROVE ExactlyOneOwner'
  OBVIOUS
<1> USE DEF TypeInv, TypeOK
<1>1. ASSUME NEW T \in SUBSET Workers, PoolInit(T) PROVE ExactlyOneOwner'
  <2>1. UNCHANGED <<queue, done, status>>
    BY <1>1 DEF PoolInit, Phases, reqVars
  <2>2. Busy = {} /\ Busy' = {}
    BY <1>1 DEF PoolInit, Phases, Busy
  <2>3. Held = {} /\ Held' = {}
    BY <2>2 DEF Held
  <2> QED BY <2>1, <2>2, <2>3 DEF ExactlyOneOwner
<1>2. ASSUME NEW r \in Requests, NEW why \in Rejections, SubmitRefused(r, why)
      PROVE ExactlyOneOwner'
  BY <1>2, NothingMoves DEF SubmitRefused, Rejections, poolVars, jobVars, workVars
<1>3. ASSUME NEW r \in Requests, SubmitOk(r) PROVE ExactlyOneOwner'
  <2>1. r \notin InSeq(queue) \cup InSeq(done) \cup Held
    BY <1>3 DEF SubmitOk, ExactlyOneOwner
  <2>2. /\ InSeq(queue') = InSeq(queue) \cup {r}
        /\ Distinct(queue')
    BY <1>3, <2>1, AppendElements DEF SubmitOk, ExactlyOneOwner
  <2>3. Busy' = Busy /\ Held' = Held /\ UNCHANGED <<done, wjob>>
    BY <1>3 DEF SubmitOk, Signal, Waiting, Busy, Held
  <2>4. \A q \in Requests : (status'[q] = "deferred") <=> (status[q] = "deferred" \/ q = r)
    BY <1>3 DEF SubmitOk
  <2> QED BY <2>1, <2>2, <2>3, <2>4 DEF ExactlyOneOwner
<1>4. ASSUME WakeCb \/ StopJoined \/ DrainEnd \/ StopEnd \/ ConnectionLost PROVE ExactlyOneOwner'
  BY <1>4, NothingMoves DEF WakeCb, StopJoined, DrainEnd, StopEnd, ConnectionLost,
                            poolVars, jobVars, workVars, reqVars
<1>5. ASSUME Drain PROVE ExactlyOneOwner'
  <2> DEFINE h == Head(done)
  <2>1. /\ h \in Requests /\ h \in InSeq(done)
        /\ InSeq(done') = InSeq(done) \ {h} /\ Distinct(done')
    BY <1>5, TailElements DEF Drain, ExactlyOneOwner
  <2>2. Busy' = Busy /\ Held' = Held /\ UNCHANGED <<queue, wjob>>
    BY <1>5 DEF Drain, workVars, Busy, Held
  <2>3. status' = [status EXCEPT ![h] = Finished(h)] /\ Finished(h) # "deferred"
    BY <1>5 DEF Drain, Finished
  <2>4. \A q \in Requests : (status'[q] = "deferred") <=> (status[q] = "deferred" /\ q # h)
    BY <2>1, <2>3
  <2>5. h \notin InSeq(queue) /\ h \notin Held
    BY <2>1 DEF ExactlyOneOwner
  <2> QED BY <2>1, <2>2, <2>4, <2>5 DEF ExactlyOneOwner
<1>6. ASSUME StopBegin PROVE ExactlyOneOwner'
  BY <1>6, NothingMoves DEF StopBegin, jobVars, reqVars
<1>7. ASSUME NEW w \in Workers,
             WorkerWait(w) \/ WorkerExit(w) \/ SpuriousWakeup(w) \/ WorkerRecord(w) \/ WorkerWake(w)
      PROVE ExactlyOneOwner'
  BY <1>7, NothingMoves DEF WorkerWait, WorkerExit, SpuriousWakeup, WorkerRecord, WorkerWake,
                            jobVars, reqVars
<1>8. ASSUME NEW w \in Workers, WorkerPop(w) PROVE ExactlyOneOwner'
  <2> DEFINE h == Head(queue)
  <2>1. /\ h \in Requests /\ h \in InSeq(queue)
        /\ InSeq(queue') = InSeq(queue) \ {h} /\ Distinct(queue')
    BY <1>8, TailElements DEF WorkerPop, ExactlyOneOwner
  <2>2. Busy' = Busy \cup {w} /\ w \notin Busy
    BY <1>8 DEF WorkerPop, Busy
  <2>3. wjob'[w] = h /\ \A v \in Busy : wjob'[v] = wjob[v]
    BY <1>8, <2>2 DEF WorkerPop, Busy
  <2>4. Held' = Held \cup {h}
    BY <2>2, <2>3 DEF Held
  <2>5. h \notin InSeq(done) /\ h \notin Held /\ UNCHANGED <<done, status>>
    BY <1>8, <2>1 DEF WorkerPop, ExactlyOneOwner, reqVars
  <2>6. \A u, v \in Busy' : wjob'[u] = wjob'[v] => u = v
    BY <2>2, <2>3, <2>5 DEF ExactlyOneOwner, Held
  <2> QED BY <2>1, <2>4, <2>5, <2>6 DEF ExactlyOneOwner
<1>9. ASSUME NEW w \in Workers, WorkerPush(w) PROVE ExactlyOneOwner'
  <2> DEFINE h == wjob[w]
  <2>1. w \in Busy /\ Busy' = Busy \ {w} /\ h \in Requests /\ h \in Held
    BY <1>9 DEF WorkerPush, Busy, Held, HoldsJob
  <2>2. h \notin InSeq(queue) /\ h \notin InSeq(done)
    BY <2>1 DEF ExactlyOneOwner
  <2>3. InSeq(done') = InSeq(done) \cup {h} /\ Distinct(done')
    BY <1>9, <2>1, <2>2, AppendElements DEF WorkerPush, ExactlyOneOwner
  <2>4. \A v \in Busy \ {w} : wjob'[v] = wjob[v] /\ wjob[v] # h
    BY <1>9, <2>1 DEF WorkerPush, ExactlyOneOwner, Busy
  <2>5. Held' = Held \ {h}
    BY <2>1, <2>4 DEF Held
  <2>6. UNCHANGED <<queue, status>>
    BY <1>9 DEF WorkerPush, reqVars
  <2>7. \A u, v \in Busy' : wjob'[u] = wjob'[v] => u = v
    BY <2>1, <2>4 DEF ExactlyOneOwner
  <2> QED BY <2>1, <2>2, <2>3, <2>5, <2>6, <2>7 DEF ExactlyOneOwner
<1>10. ASSUME UNCHANGED vars PROVE ExactlyOneOwner'
  BY <1>10, NothingMoves DEF vars, jobVars, workVars, reqVars
<1> QED
  BY <1>1, <1>2, <1>3, <1>4, <1>5, <1>6, <1>7, <1>8, <1>9, <1>10 DEF Next, MainStep, WorkerStep

PoolInv == TypeInv /\ Phases /\ ExactlyOneOwner

(* The pool that was never started owes nothing.                             *)
LEMMA PoolInvInit == Init => PoolInv
<1> SUFFICES ASSUME Init PROVE ExactlyOneOwner
  BY PhasesInit DEF PoolInv
<1>1. Busy = {} /\ InSeq(queue) = {} /\ InSeq(done) = {}
  BY DEF Init, Busy, InSeq
<1>2. Held = {}
  BY <1>1 DEF Held
<1>3. Distinct(queue) /\ Distinct(done)
  BY DEF Init, Distinct
<1> QED BY <1>1, <1>2, <1>3 DEF Init, ExactlyOneOwner

(* The inductive invariant of the pool: types, phases and ownership.         *)
LEMMA PoolInvStep == PoolInv /\ [Next]_vars => PoolInv'
BY TypeInvStep, PhasesStep, OwnershipStep DEF PoolInv

(* It holds in every state of the pool, fair scheduling or not.              *)
LEMMA PoolInvAlways == Init /\ [][Next]_vars => []PoolInv
BY PoolInvInit, PoolInvStep, PTL

(* No job of the pool is lost, duplicated or answered while a worker has it, *)
(* for any number of requests and workers.                                   *)
THEOREM JobsHaveOneOwner == Spec => []ExactlyOneOwner
<1>1. PoolInv => ExactlyOneOwner
  BY DEF PoolInv
<1> QED BY PoolInvAlways, <1>1, PTL DEF Spec

(* dw_async_query_stop returns only when every deferred request is settled:  *)
(* workers leave only an empty queue, and the done queue is drained after    *)
(* the joins.                                                                *)
THEOREM NothingLeftAfterStop == Spec => []StopLeavesNothing
<1>1. PoolInv => StopLeavesNothing
  <2> SUFFICES ASSUME PoolInv, ~initialised PROVE StopLeavesNothing
    BY DEF StopLeavesNothing
  <2>1. queue = <<>> /\ done = <<>> /\ \A w \in Workers : wpc[w] = "off"
    BY DEF PoolInv, Phases
  <2>2. InSeq(queue) = {} /\ InSeq(done) = {} /\ Busy = {}
    BY <2>1 DEF InSeq, Busy
  <2>3. Held = {}
    BY <2>2 DEF Held
  <2>4. \A r \in Requests : status[r] # "deferred"
    BY <2>2, <2>3 DEF PoolInv, ExactlyOneOwner
  <2> QED BY <2>1, <2>4 DEF StopLeavesNothing
<1> QED BY PoolInvAlways, <1>1, PTL DEF Spec

-----------------------------------------------------------------------------
(* The contract *)

(* Every step of the pool is a step of AsyncQueryService or leaves the       *)
(* requests alone: a request is refused or deferred when it is submitted,    *)
(* and a deferred one settled once, by a reply only on its own connection.   *)
THEOREM PoolImplementsService ==
  Spec => Service!Init /\ [][Service!Next]_(Service!vars)
<1>1. Init => Service!Init
  BY DEF Init, Service!Init
<1>2. PoolInv /\ [Next]_vars => [Service!Next]_(Service!vars)
  <2> SUFFICES ASSUME PoolInv, [Next]_vars PROVE [Service!Next]_(Service!vars)
    OBVIOUS
  <2> USE DEF Service!vars
  <2>1. ASSUME NEW r \in Requests, NEW why \in Rejections, SubmitRefused(r, why)
        PROVE Service!Next
    <3>1. Service!Refuse(r, why) /\ why \in Service!Rejections
      BY <2>1 DEF SubmitRefused, Service!Refuse, Rejections, Service!Rejections
    <3> QED BY <3>1 DEF Service!Next
  <2>2. ASSUME NEW r \in Requests, SubmitOk(r) PROVE Service!Next
    BY <2>2 DEF SubmitOk, Service!Defer, Service!Next
  <2>3. ASSUME Drain PROVE Service!Next
    <3>1. Head(done) \in Requests /\ Head(done) \in InSeq(done)
      BY <2>3, TailElements DEF Drain, PoolInv, TypeInv, TypeOK
    <3>2. status[Head(done)] = "deferred"
      BY <3>1 DEF PoolInv, ExactlyOneOwner
    <3>3. Service!Settle(Head(done))
      BY <2>3, <3>1, <3>2 DEF Drain, Finished, Service!Settle, PoolInv, TypeInv, TypeOK
    <3> QED BY <3>1, <3>3 DEF Service!Next
  <2>4. ASSUME ConnectionLost PROVE Service!Next
    BY <2>4 DEF ConnectionLost, Service!LoseConnection, Service!Next
  <2>5. ASSUME \/ \E T \in SUBSET Workers : PoolInit(T)
               \/ WakeCb \/ DrainEnd \/ StopJoined \/ StopEnd \/ StopBegin \/ UNCHANGED vars
               \/ \E w \in Workers : WorkerStep(w) \/ SpuriousWakeup(w)
        PROVE UNCHANGED Service!vars
    BY <2>5 DEF PoolInit, WakeCb, DrainEnd, StopJoined, StopEnd, StopBegin, WorkerStep,
                SpuriousWakeup, WorkerWait, WorkerExit, WorkerPop, WorkerPush, WorkerRecord,
                WorkerWake, vars, reqVars
  <2> QED BY <2>1, <2>2, <2>3, <2>4, <2>5 DEF Next, MainStep
<1> QED BY <1>1, <1>2, PoolInvAlways, PTL DEF Spec

-----------------------------------------------------------------------------
(* Counting *)

\* Sets of workers are finite, and grow and shrink by one.
LEMMA CountWorkers ==
  ASSUME NEW S \in SUBSET Workers
  PROVE  /\ IsFiniteSet(S) /\ Cardinality(S) \in Nat
         /\ \A w \in Workers \ S : Cardinality(S \cup {w}) = Cardinality(S) + 1
         /\ \A w \in S : Cardinality(S \ {w}) = Cardinality(S) - 1 /\ Cardinality(S) > 0
<1>1. IsFiniteSet(S)
  BY ConstantsAssumption, FS_Subset
<1>2. Cardinality(S) \in Nat
  BY <1>1, FS_CardinalityType
<1>3. \A w \in Workers \ S : Cardinality(S \cup {w}) = Cardinality(S) + 1
  BY <1>1, FS_AddElement
<1>4. \A w \in S : Cardinality(S \ {w}) = Cardinality(S) - 1
  BY <1>1, FS_RemoveElement
<1>5. ASSUME NEW w \in S PROVE Cardinality(S) > 0
  BY <1>1, <1>2, <1>5, FS_EmptySet
<1> QED BY <1>1, <1>2, <1>3, <1>4, <1>5

\* A step that changes neither the queue, the counters nor the set of busy workers.
LEMMA NothingCounts ==
  ASSUME PendingIsExact, UNCHANGED <<queue, pending, peak>>,
         \A w \in Workers : (wpc'[w] = "run") <=> (wpc[w] = "run")
  PROVE  PendingIsExact'
<1>1. Busy' = Busy
  BY DEF Busy
<1> QED BY <1>1 DEF PendingIsExact

(* submit counts a job where it queues it, the worker uncounts it where it   *)
(* stops running it, each in the locked section that moves the job.          *)
LEMMA PendingStep == TypeInv /\ PendingIsExact /\ [Next]_vars => PendingIsExact'
<1> SUFFICES ASSUME TypeInv, PendingIsExact, [Next]_vars PROVE PendingIsExact'
  OBVIOUS
<1> USE DEF TypeInv, TypeOK
<1>0. Busy \in SUBSET Workers /\ Cardinality(Busy) \in Nat /\ Len(queue) \in Nat
  BY CountWorkers DEF Busy
<1>1. ASSUME NEW T \in SUBSET Workers, PoolInit(T) PROVE PendingIsExact'
  <2>1. Busy' = {} /\ Len(queue') = 0 /\ pending' = 0 /\ peak' = peak
    BY <1>1 DEF PoolInit, Busy, statVars
  <2> QED BY <2>1, ConstantsAssumption, FS_EmptySet DEF PendingIsExact
<1>2. ASSUME NEW r \in Requests, NEW why \in Rejections, SubmitRefused(r, why)
      PROVE PendingIsExact'
  BY <1>2, NothingCounts DEF SubmitRefused, jobVars, workVars, statVars
<1>3. ASSUME NEW r \in Requests, SubmitOk(r) PROVE PendingIsExact'
  <2>1. Busy' = Busy
    BY <1>3 DEF SubmitOk, HasRoom, Signal, Waiting, Busy
  <2>2. Len(queue') = Len(queue) + 1 /\ pending' = pending + 1 /\ pending < MaxPending
    BY <1>3 DEF SubmitOk, HasRoom
  <2>3. peak' = IF pending' > peak THEN pending' ELSE peak
    BY <1>3 DEF SubmitOk, HasRoom
  <2> QED BY <1>0, <2>1, <2>2, <2>3, ConstantsAssumption DEF PendingIsExact
<1>4. ASSUME WakeCb \/ StopJoined \/ DrainEnd \/ StopEnd \/ ConnectionLost \/ Drain PROVE PendingIsExact'
  BY <1>4, NothingCounts DEF WakeCb, StopJoined, DrainEnd, StopEnd, ConnectionLost, Drain,
                             jobVars, workVars, statVars
<1>5. ASSUME StopBegin PROVE PendingIsExact'
  BY <1>5, NothingCounts DEF StopBegin, jobVars, statVars
<1>6. ASSUME NEW w \in Workers,
             WorkerWait(w) \/ WorkerExit(w) \/ SpuriousWakeup(w) \/ WorkerRecord(w) \/ WorkerWake(w)
      PROVE PendingIsExact'
  BY <1>6, NothingCounts DEF WorkerWait, WorkerExit, SpuriousWakeup, WorkerRecord, WorkerWake,
                             jobVars, statVars
<1>7. ASSUME NEW w \in Workers, WorkerPop(w) PROVE PendingIsExact'
  <2>1. Busy' = Busy \cup {w} /\ w \in Workers \ Busy
    BY <1>7 DEF WorkerPop, Busy
  <2>2. Cardinality(Busy') = Cardinality(Busy) + 1
    BY <1>0, <2>1, CountWorkers
  <2>3. Len(queue') = Len(queue) - 1 /\ UNCHANGED <<pending, peak>>
    BY <1>7 DEF WorkerPop, statVars
  <2> QED BY <1>0, <2>2, <2>3 DEF PendingIsExact
<1>8. ASSUME NEW w \in Workers, WorkerPush(w) PROVE PendingIsExact'
  <2>1. Busy' = Busy \ {w} /\ w \in Busy
    BY <1>8 DEF WorkerPush, Busy
  <2>2. Cardinality(Busy') = Cardinality(Busy) - 1 /\ Cardinality(Busy) > 0
    BY <1>0, <2>1, CountWorkers
  <2>3. pending' = (IF pending > 0 THEN pending - 1 ELSE pending) /\ UNCHANGED <<queue, peak>>
    BY <1>8 DEF WorkerPush, statVars
  <2> QED BY <1>0, <2>2, <2>3, ConstantsAssumption DEF PendingIsExact
<1>9. ASSUME UNCHANGED vars PROVE PendingIsExact'
  BY <1>9, NothingCounts DEF vars, jobVars, workVars, statVars
<1> QED
  BY <1>1, <1>2, <1>3, <1>4, <1>5, <1>6, <1>7, <1>8, <1>9 DEF Next, MainStep, WorkerStep

(* g_async.pending counts the jobs queued or being run, so the test of       *)
(* dw_async_query_submit bounds them by DW_ASYNC_MAX_PENDING and the clamp   *)
(* of the worker's decrement never hides a miscount.                         *)
THEOREM PendingCountsJobs == Spec => []PendingIsExact
<1>1. Init => TypeInv /\ PendingIsExact
  <2> SUFFICES ASSUME Init PROVE PendingIsExact
    BY TypeInvInit
  <2>1. Busy = {} /\ Len(queue) = 0 /\ pending = 0 /\ peak = 0
    BY DEF Init, Busy
  <2> QED BY <2>1, ConstantsAssumption, FS_EmptySet DEF PendingIsExact
<1>2. TypeInv /\ PendingIsExact /\ [Next]_vars => (TypeInv /\ PendingIsExact)'
  BY TypeInvStep, PendingStep
<1> QED BY <1>1, <1>2, PTL DEF Spec

Recording == {w \in Workers : wpc[w] = "record"}

\* A step that changes neither the counters nor the set of recording workers.
LEMMA NothingRecorded ==
  ASSUME StatsConsistent, UNCHANGED <<submitted, completed, pending>>,
         \A w \in Workers : (wpc'[w] = "record") <=> (wpc[w] = "record")
  PROVE  StatsConsistent'
<1>1. Recording' = Recording
  BY DEF Recording
<1> QED BY <1>1 DEF StatsConsistent, Recording

Counted == TypeInv /\ Phases /\ PendingIsExact /\ StatsConsistent

(* Each counter moves in the locked section that moves the job, but for the  *)
(* completions, which a worker counts after it let go of the lock.           *)
LEMMA StatsStep == Counted /\ [Next]_vars => StatsConsistent'
<1> SUFFICES ASSUME Counted, [Next]_vars PROVE StatsConsistent'
  OBVIOUS
<1> USE DEF Counted, TypeInv, TypeOK
<1>0. /\ Recording \in SUBSET Workers /\ Cardinality(Recording) \in Nat
      /\ submitted - completed - pending = Cardinality(Recording)
  BY CountWorkers DEF Recording, StatsConsistent
<1>1. ASSUME NEW T \in SUBSET Workers, PoolInit(T) PROVE StatsConsistent'
  <2>1. Busy = {} /\ Len(queue) = 0 /\ Recording = {}
    BY <1>1 DEF PoolInit, Phases, Busy, Recording
  <2>2. pending = 0
    BY <2>1, FS_EmptySet DEF PendingIsExact
  <2>3. Recording' = {} /\ pending' = 0 /\ UNCHANGED <<submitted, completed>>
    BY <1>1 DEF PoolInit, Recording, statVars
  <2> QED BY <1>0, <2>1, <2>2, <2>3 DEF StatsConsistent, Recording
<1>2. ASSUME NEW r \in Requests, NEW why \in Rejections, SubmitRefused(r, why)
      PROVE StatsConsistent'
  BY <1>2, NothingRecorded DEF SubmitRefused, jobVars, workVars, statVars
<1>3. ASSUME NEW r \in Requests, SubmitOk(r) PROVE StatsConsistent'
  <2>1. Recording' = Recording
    BY <1>3 DEF SubmitOk, Signal, Waiting, Recording
  <2>2. pending' = pending + 1 /\ submitted' = submitted + 1 /\ completed' = completed
    BY <1>3 DEF SubmitOk
  <2>3. Cardinality(Recording') = Cardinality(Recording)
    BY <2>1
  <2>4. submitted' - completed' - pending' = Cardinality(Recording')
    BY <1>0, <2>2, <2>3
  <2>5. completed' + pending' <= submitted'
    BY <1>0, <2>2
  <2> QED BY <2>4, <2>5 DEF StatsConsistent, Recording
<1>4. ASSUME WakeCb \/ StopJoined \/ DrainEnd \/ StopEnd \/ ConnectionLost \/ Drain
      PROVE StatsConsistent'
  BY <1>4, NothingRecorded DEF WakeCb, StopJoined, DrainEnd, StopEnd, ConnectionLost, Drain,
                               jobVars, workVars, statVars
<1>5. ASSUME StopBegin PROVE StatsConsistent'
  BY <1>5, NothingRecorded DEF StopBegin, jobVars, statVars
<1>6. ASSUME NEW w \in Workers,
             WorkerWait(w) \/ WorkerExit(w) \/ SpuriousWakeup(w) \/ WorkerPop(w) \/ WorkerWake(w)
      PROVE StatsConsistent'
  BY <1>6, NothingRecorded DEF WorkerWait, WorkerExit, SpuriousWakeup, WorkerPop, WorkerWake,
                               jobVars, statVars
<1>7. ASSUME NEW w \in Workers, WorkerPush(w) PROVE StatsConsistent'
  <2>1. Recording' = Recording \cup {w} /\ w \in Workers \ Recording
    BY <1>7 DEF WorkerPush, Recording
  <2>2. Cardinality(Recording') = Cardinality(Recording) + 1
    BY <1>0, <2>1, CountWorkers
  <2>3. Busy \in SUBSET Workers /\ w \in Busy
    BY <1>7 DEF WorkerPush, Busy
  <2>4. Cardinality(Busy) \in Nat /\ Cardinality(Busy) > 0
    BY <2>3, CountWorkers
  <2>5. pending > 0
    BY <2>4 DEF PendingIsExact
  <2>6. pending' = pending - 1 /\ UNCHANGED <<submitted, completed>>
    BY <1>7, <2>5 DEF WorkerPush, statVars
  <2> QED BY <1>0, <2>2, <2>6 DEF StatsConsistent, Recording
<1>8. ASSUME NEW w \in Workers, WorkerRecord(w) PROVE StatsConsistent'
  <2>1. Recording' = Recording \ {w} /\ w \in Recording
    BY <1>8 DEF WorkerRecord, Recording
  <2>2. Cardinality(Recording') = Cardinality(Recording) - 1 /\ Cardinality(Recording) > 0
    BY <1>0, <2>1, CountWorkers
  <2>3. completed' = completed + 1 /\ UNCHANGED <<pending, submitted>>
    BY <1>8 DEF WorkerRecord, jobVars
  <2> QED BY <1>0, <2>2, <2>3 DEF StatsConsistent, Recording
<1>9. ASSUME UNCHANGED vars PROVE StatsConsistent'
  BY <1>9, NothingRecorded DEF vars, jobVars, workVars, statVars
<1> QED
  BY <1>1, <1>2, <1>3, <1>4, <1>5, <1>6, <1>7, <1>8, <1>9 DEF Next, MainStep, WorkerStep

(* The counters of dw_async_query_status_json add up: a job submitted is     *)
(* pending, completed, or between the two in a worker that has yet to count  *)
(* it, across restarts of the pool, which keep the counters.                 *)
THEOREM CountersAddUp == Spec => []StatsConsistent
<1>1. Init => Counted
  <2> SUFFICES ASSUME Init PROVE PendingIsExact /\ StatsConsistent
    BY PhasesInit DEF Counted
  <2>1. Busy = {} /\ Recording = {} /\ Len(queue) = 0 /\ pending = 0 /\ peak = 0
    BY DEF Init, Busy, Recording
  <2>2. submitted = 0 /\ completed = 0
    BY DEF Init
  <2>3. Cardinality(Busy) = 0 /\ Cardinality(Recording) = 0
    BY <2>1, FS_EmptySet
  <2>4. PendingIsExact
    BY <2>1, <2>3, ConstantsAssumption DEF PendingIsExact
  <2>5. StatsConsistent
    BY <2>1, <2>2, <2>3 DEF StatsConsistent, Recording
  <2> QED BY <2>4, <2>5
<1>2. Counted /\ [Next]_vars => Counted'
  BY TypeInvStep, PhasesStep, PendingStep, StatsStep DEF Counted
<1>3. Counted => StatsConsistent
  BY DEF Counted
<1> QED BY <1>1, <1>2, <1>3, PTL DEF Spec
=============================================================================
