--------------------------- MODULE InferenceQueue ---------------------------
(***************************************************************************)
(* The asynchronous inference pipeline: API pods admit prediction requests *)
(* into two Redis lists (app/inference/queue_service.py, routes.py), and   *)
(* worker processes take batches from them, infer, store results, requeue  *)
(* or dead-letter what failed (worker.py, batch.py, inference_client.py).  *)
(*                                                                         *)
(* Every Redis command is one step, for between two commands any other     *)
(* process may run, the command may fail, or the process may die.  An API  *)
(* pod handles one request at a time: its handlers are async functions     *)
(* that never await.  A failing command may have been executed: the client *)
(* of app/shared/redis.py gives up after 0.2 s, and is told not to retry   *)
(* (retry_on_timeout=False).  The version of redis-py is not pinned; with  *)
(* one that repeats a command all the same a push could be executed twice, *)
(* which is not modelled.                                                  *)
(***************************************************************************)
EXTENDS Scheduler, BatchPicks, FiniteSets

CONSTANTS
  VipJobs, FreeJobs,          \* the requests, by the tier they ask for
  VipWorkers, SharedWorkers,  \* the processes, by WORKER_ROLE
  Apis,                       \* the API pods
  NoJob,
  VipLimit, FreeLimit,        \* VIP_QUEUE_MAX_LOAD, FREE_QUEUE_MAX_LOAD
  MaxRetries,                 \* MAX_JOB_RETRIES
  MaxFaults,                  \* bound: Redis commands that fail in a behaviour
  MaxCrashes                  \* bound: processes killed in a behaviour

Jobs == VipJobs \cup FreeJobs
Workers == VipWorkers \cup SharedWorkers
Tiers == {"VIP", "FREE"}

ASSUME PipelineAssumption ==
  /\ VipJobs \cap FreeJobs = {}
  /\ VipWorkers \cap SharedWorkers = {}
  /\ NoJob \notin Jobs
  /\ VipLimit \in Nat /\ FreeLimit \in Nat
  /\ MaxRetries \in Nat \ {0}
  /\ MaxFaults \in Nat /\ MaxCrashes \in Nat

\* Finitely many workers run, and some pod serves requests (k8s/*-deployment.yaml).
ASSUME ProcessesAssumption ==
  IsFiniteSet(Workers) /\ IsFiniteSet(Apis) /\ Apis # {}

TierOf(j) == IF j \in VipJobs THEN "VIP" ELSE "FREE"
QueueOf(w) == IF w \in VipWorkers THEN "VIP" ELSE "FREE"
QueueLimit(tier) == IF tier = "VIP" THEN VipLimit ELSE FreeLimit

VARIABLES
  queue,     \* the lists vip_jobs and free_jobs: what QueueJob the JSON holds
  dlq,       \* how many entries of dead_letter_queue hold a job
  result,    \* job_result:<id>: the job whose transaction gave it, or NoJob
  admitting, \* per pod: the job found admissible and not yet pushed
  reply,     \* per job: what POST /predict_async answered
  place,     \* per worker: where it stands in worker_loop
  plan,      \* per worker: max_batch_size, and the FREE ratio in tenths
  batch,     \* per worker: fetch_batch's batch
  hand,      \* per worker: a popped job on its way to the dead letter queue
  tail,      \* per worker: jobs still to requeue
  unsaved,   \* per worker: (job, result) pairs still to save
  faults,    \* Redis commands that have failed
  crashes    \* processes that have been killed

apiVars == <<admitting, reply>>
held == <<batch, hand, tail, unsaved>>
workerVars == <<place, plan, batch, hand, tail, unsaved>>
vars == <<queue, dlq, result, admitting, reply, place, plan, batch, hand,
          tail, unsaved, faults, crashes>>

QueueJob == [id : Jobs, retry : Nat]
Pair == [id : Jobs, of : Jobs]
Replies == {"none", "queued", "full", "unavailable", "disconnected"}
Places == {"vipDepth", "freeDepth", "metric", "fetch", "drop", "infer",
           "requeue", "repush", "save", "down"}
NoPlan == [size |-> 0, ratio |-> 10]

TypeOK ==
  /\ queue \in [Tiers -> Seq(QueueJob)]
  /\ dlq \in [Jobs -> Nat]
  /\ result \in [Jobs -> Jobs \cup {NoJob}]
  /\ admitting \in [Apis -> Jobs \cup {NoJob}]
  /\ reply \in [Jobs -> Replies]
  /\ place \in [Workers -> Places]
  /\ plan \in [Workers -> [size : Nat, ratio : 0..10]]
  /\ batch \in [Workers -> Seq(QueueJob)]
  /\ hand \in [Workers -> Seq(QueueJob)]
  /\ tail \in [Workers -> Seq(QueueJob)]
  /\ unsaved \in [Workers -> Seq(Pair)]
  /\ faults \in 0..MaxFaults
  /\ crashes \in 0..MaxCrashes

Init ==
  /\ queue = [t \in Tiers |-> << >>]
  /\ dlq = [j \in Jobs |-> 0]
  /\ result = [j \in Jobs |-> NoJob]
  /\ admitting = [a \in Apis |-> NoJob]
  /\ reply = [j \in Jobs |-> "none"]
  /\ place = [w \in Workers |-> "vipDepth"]
  /\ plan = [w \in Workers |-> NoPlan]
  /\ batch = [w \in Workers |-> << >>]
  /\ hand = [w \in Workers |-> << >>]
  /\ tail = [w \in Workers |-> << >>]
  /\ unsaved = [w \in Workers |-> << >>]
  /\ faults = 0
  /\ crashes = 0

-----------------------------------------------------------------------------
(* Redis: a command is answered, is refused (not executed), or is executed *)
(* without its reply reaching the caller.  The last two raise.             *)

Outcomes == {"ok", "refused", "replyLost"}
Executed(o) == o # "refused"
Redis(o) ==
  \/ o = "ok" /\ UNCHANGED faults
  \/ o # "ok" /\ faults < MaxFaults /\ faults' = faults + 1
ReadOutcomes == {"ok", "refused"}

Depth(tier, o) == IF o = "ok" THEN Len(queue[tier]) ELSE NoDepth
Push(tier, job, o) ==
  queue' = IF Executed(o) THEN [queue EXCEPT ![tier] = Append(@, job)] ELSE queue
PushDlq(j, o) == dlq' = IF Executed(o) THEN [dlq EXCEPT ![j] = @ + 1] ELSE dlq

-----------------------------------------------------------------------------
(* POST /predict_async.  The depth is read and tested, and only then is the *)
(* job pushed: other pods and requeueing workers may push in between.       *)

Answer(j, r) == reply' = [reply EXCEPT ![j] = r]
Requested(a, j) ==
  /\ admitting[a] = NoJob
  /\ reply[j] = "none"
  /\ \A b \in Apis : admitting[b] # j

\* Mutant: the depth is read and not compared.
Admissible_Any(j) == TRUE

Admissible(j) == Len(queue[TierOf(j)]) < QueueLimit(TierOf(j))

Verify(a, j) ==
  /\ Requested(a, j) /\ Admissible(j)
  /\ admitting' = [admitting EXCEPT ![a] = j]
  /\ UNCHANGED <<queue, dlq, result, reply, workerVars, faults, crashes>>

\* Mutant: the job is pushed before the depth is tested.
Shed_Pushed(a, j) ==
  /\ Requested(a, j) /\ ~Admissible(j)
  /\ queue' = [queue EXCEPT ![TierOf(j)] = Append(@, [id |-> j, retry |-> 0])]
  /\ Answer(j, "full")
  /\ UNCHANGED <<dlq, result, admitting, workerVars, faults, crashes>>

\* QueueFullError, answered with 429.
Shed(a, j) ==
  /\ Requested(a, j) /\ ~Admissible(j)
  /\ Answer(j, "full")
  /\ UNCHANGED <<queue, dlq, result, admitting, workerVars, faults, crashes>>

\* The depth cannot be read: RedisUnavailableError, answered with 503.
VerifyFails(a, j) ==
  /\ Requested(a, j)
  /\ Redis("refused")
  /\ Answer(j, "unavailable")
  /\ UNCHANGED <<queue, dlq, result, admitting, workerVars, crashes>>

Enqueue(a, o) ==
  /\ admitting[a] # NoJob
  /\ Redis(o)
  /\ Push(TierOf(admitting[a]), [id |-> admitting[a], retry |-> 0], o)
  /\ Answer(admitting[a], IF o = "ok" THEN "queued" ELSE "unavailable")
  /\ admitting' = [admitting EXCEPT ![a] = NoJob]
  /\ UNCHANGED <<dlq, result, workerVars, crashes>>

\* The pod is killed before it pushes.  A kill between the push and the answer
\* leaves in Redis what Enqueue leaves, and is not told from it.
ApiCrash(a) ==
  /\ admitting[a] # NoJob
  /\ crashes < MaxCrashes
  /\ crashes' = crashes + 1
  /\ Answer(admitting[a], "disconnected")
  /\ admitting' = [admitting EXCEPT ![a] = NoJob]
  /\ UNCHANGED <<queue, dlq, result, workerVars, faults>>

-----------------------------------------------------------------------------
(* worker_loop: read both depths, plan a batch, serve the queue of the role *)

At(w, p) == place[w] = p
Goto(w, p) == place' = [place EXCEPT ![w] = p]

ReadVipDepth(w, o) ==
  /\ At(w, "vipDepth")
  /\ Redis(o)
  /\ plan' = [plan EXCEPT ![w] = GetVipBatchConfig(Depth("VIP", o))]
  /\ Goto(w, "freeDepth")
  /\ UNCHANGED <<queue, dlq, result, apiVars, held, crashes>>

\* The FREE size is the one used by a shared worker; the ratio is used up.
ReadFreeDepth(w, o) ==
  /\ At(w, "freeDepth")
  /\ Redis(o)
  /\ LET free == GetFreeBatchConfig(Depth("FREE", o), plan[w].ratio)
         size == IF w \in VipWorkers THEN plan[w].size ELSE free
     IN  plan' = [plan EXCEPT ![w] = [size |-> size, ratio |-> 10]]
  /\ Goto(w, "metric")
  /\ UNCHANGED <<queue, dlq, result, apiVars, held, crashes>>

\* _update_queue_depth_metric: an unreadable depth is None, which the gauge
\* cannot take, and nothing catches the TypeError: the process ends.
UpdateQueueDepthMetric(w, o) ==
  /\ At(w, "metric")
  /\ Redis(o)
  /\ Goto(w, IF o = "ok" THEN "fetch" ELSE "down")
  /\ plan' = IF o = "ok" THEN plan ELSE [plan EXCEPT ![w] = NoPlan]
  /\ UNCHANGED <<queue, dlq, result, apiVars, held, crashes>>

-----------------------------------------------------------------------------
(* fetch_batch: pop one job at a time until the batch is full, old enough,  *)
(* or nothing can be popped.                                                *)

\* The worker loop starts over, after a sleep if nothing was processed.
StartOver(w) == Goto(w, "vipDepth") /\ plan' = [plan EXCEPT ![w] = NoPlan]

Flush(w) ==
  IF batch[w] = << >> THEN StartOver(w) ELSE Goto(w, "infer") /\ UNCHANGED plan

Filling(w) == At(w, "fetch") /\ Len(batch[w]) < plan[w].size
Waiting(w) == queue[QueueOf(w)]

FlushFull(w) ==
  /\ At(w, "fetch") /\ ~Filling(w)
  /\ Flush(w)
  /\ UNCHANGED <<queue, dlq, result, apiVars, held, faults, crashes>>

\* Mutant: the wait is only limited while the batch is empty.
MayBeOld_Never(w) == FALSE

\* "max_wait_time": the elapsed time is tested before each pop.
MayBeOld(w) == batch[w] # << >>

FlushTimeout(w) ==
  /\ Filling(w) /\ MayBeOld(w)
  /\ Flush(w)
  /\ UNCHANGED <<queue, dlq, result, apiVars, held, faults, crashes>>

FlushEmpty(w) ==
  /\ Filling(w) /\ batch[w] = << >> /\ Waiting(w) = << >>
  /\ Flush(w)
  /\ UNCHANGED <<queue, dlq, result, apiVars, held, faults, crashes>>

\* The pop raises; one whose reply is lost has removed the job all the same.
PopFails(w, o) ==
  /\ Filling(w)
  /\ o # "ok" /\ Redis(o)
  /\ queue' = IF Executed(o) /\ Waiting(w) # << >>
                THEN [queue EXCEPT ![QueueOf(w)] = Tail(@)] ELSE queue
  /\ Flush(w)
  /\ UNCHANGED <<dlq, result, apiVars, held, crashes>>

Pop(w) ==
  /\ Filling(w) /\ Waiting(w) # << >>
  /\ queue' = [queue EXCEPT ![QueueOf(w)] = Tail(@)]

\* Mutant: the retry count is not looked at.
Retriable_Any(job) == TRUE

Retriable(job) == job.retry < MaxRetries

\* A job neither expired nor out of retries joins the batch.
PopKeep(w) ==
  /\ Pop(w) /\ Retriable(Head(Waiting(w)))
  /\ batch' = [batch EXCEPT ![w] = Append(@, Head(Waiting(w)))]
  /\ UNCHANGED <<dlq, result, apiVars, place, plan, hand, tail, unsaved, faults, crashes>>

\* _should_drop_job: any waiting job may be past its 30 s by the time it is
\* popped, and one at MAX_JOB_RETRIES is dropped in any case.
PopDrop(w) ==
  /\ Pop(w)
  /\ hand' = [hand EXCEPT ![w] = <<Head(Waiting(w))>>]
  /\ Goto(w, "drop")
  /\ UNCHANGED <<dlq, result, apiVars, plan, batch, tail, unsaved, faults, crashes>>

\* move_to_dlq of a dropped job: on failure the job is only logged.
DeadLetter(w, o) ==
  /\ At(w, "drop")
  /\ Redis(o)
  /\ PushDlq(Head(hand[w]).id, o)
  /\ hand' = [hand EXCEPT ![w] = << >>]
  /\ Goto(w, "fetch")
  /\ UNCHANGED <<queue, result, apiVars, plan, batch, tail, unsaved, crashes>>

-----------------------------------------------------------------------------
(* process_batch after the fetch.                                           *)

\* Mutants: one failed job too few is requeued, or the whole batch.
Failed_DropsOne(jobs, n) == SubSeq(jobs, n + 2, Len(jobs))
Failed_All(jobs, n) == IF n < Len(jobs) THEN jobs ELSE << >>

\* The jobs left over by n results.
Failed(jobs, n) == SubSeq(jobs, n + 1, Len(jobs))

\* process_anomaly_detection leaves out the transactions that fail and returns
\* the other results in a list without gaps; process_batch then pairs the list
\* with the front of the batch and treats the rest of the batch as failed.
Infer(w) ==
  /\ At(w, "infer")
  /\ \E n \in 0..Len(batch[w]) : \E pick \in Picks(n, Len(batch[w])) :
       /\ unsaved' = [unsaved EXCEPT ![w] =
            [i \in 1..n |-> [id |-> batch[w][i].id, of |-> batch[w][pick[i]].id]]]
       /\ tail' = [tail EXCEPT ![w] = Failed(batch[w], n)]
       /\ Goto(w, IF Failed(batch[w], n) # << >> THEN "requeue" ELSE "save")
  /\ batch' = [batch EXCEPT ![w] = << >>]
  /\ UNCHANGED <<queue, dlq, result, apiVars, plan, hand, faults, crashes>>

\* Mutant: every failed job is buried.
LastRetry_Always(w) == tail[w] # << >>

LastRetry(w) == Head(tail[w]).retry + 1 >= MaxRetries

\* _requeue_or_dlq_failed_batch on its last retry: to the dead letter queue ...
Bury(w, o) ==
  /\ At(w, "requeue") /\ LastRetry(w)
  /\ Redis(o)
  /\ PushDlq(Head(tail[w]).id, o)
  /\ Goto(w, "repush")
  /\ UNCHANGED <<queue, result, apiVars, plan, held, crashes>>

\* Mutants: a push that raised is tried again, and every retry goes to FREE.
Unpushed_TriesAgain(w, o) == IF o = "ok" THEN Tail(tail[w]) ELSE tail[w]
RetryQueue_Free(w) == "FREE"

Unpushed(w, o) == Tail(tail[w])
RetryQueue(w) == QueueOf(w)

\* ... and, for want of a "continue", back to its queue like every other retry.
\* The admission limit is not consulted.
Repush(w, o) ==
  /\ At(w, "repush") \/ (At(w, "requeue") /\ ~LastRetry(w))
  /\ Redis(o)
  /\ Push(RetryQueue(w), [id |-> Head(tail[w]).id, retry |-> Head(tail[w]).retry + 1], o)
  /\ tail' = [tail EXCEPT ![w] = Unpushed(w, o)]
  /\ Goto(w, IF Unpushed(w, o) = << >> THEN "save" ELSE "requeue")
  /\ UNCHANGED <<dlq, result, apiVars, plan, batch, hand, unsaved, crashes>>

\* Mutant: the pair is stored in place of its result.
Value_Pair(pair) == pair

Value(pair) == pair.of

\* _save_result: on failure the result is dropped and the job not requeued.
SaveResult(w, o) ==
  /\ At(w, "save") /\ unsaved[w] # << >>
  /\ Redis(o)
  /\ result' = IF Executed(o)
                 THEN [result EXCEPT ![Head(unsaved[w]).id] = Value(Head(unsaved[w]))]
                 ELSE result
  /\ unsaved' = [unsaved EXCEPT ![w] = Tail(@)]
  /\ UNCHANGED <<queue, dlq, apiVars, place, plan, batch, hand, tail, crashes>>

FinishBatch(w) ==
  /\ At(w, "save") /\ unsaved[w] = << >>
  /\ StartOver(w)
  /\ UNCHANGED <<queue, dlq, result, apiVars, held, faults, crashes>>

\* The process is killed (a rollout restart, an eviction): what it held in
\* memory is gone.
WorkerCrash(w) ==
  /\ ~At(w, "down")
  /\ crashes < MaxCrashes
  /\ crashes' = crashes + 1
  /\ Goto(w, "down")
  /\ plan' = [plan EXCEPT ![w] = NoPlan]
  /\ batch' = [batch EXCEPT ![w] = << >>]
  /\ hand' = [hand EXCEPT ![w] = << >>]
  /\ tail' = [tail EXCEPT ![w] = << >>]
  /\ unsaved' = [unsaved EXCEPT ![w] = << >>]
  /\ UNCHANGED <<queue, dlq, result, apiVars, faults>>

\* Kubernetes starts the container again.
Restart(w) ==
  /\ At(w, "down")
  /\ Goto(w, "vipDepth")
  /\ UNCHANGED <<queue, dlq, result, apiVars, plan, held, faults, crashes>>

-----------------------------------------------------------------------------
ApiStep(a) ==
  \/ \E j \in Jobs : Verify(a, j) \/ Shed(a, j) \/ VerifyFails(a, j)
  \/ \E o \in Outcomes : Enqueue(a, o)

WorkerStep(w) ==
  \/ \E o \in ReadOutcomes :
       ReadVipDepth(w, o) \/ ReadFreeDepth(w, o) \/ UpdateQueueDepthMetric(w, o)
  \/ FlushFull(w) \/ FlushTimeout(w) \/ FlushEmpty(w)
  \/ PopKeep(w) \/ PopDrop(w)
  \/ \E o \in Outcomes :
       \/ PopFails(w, o) \/ DeadLetter(w, o) \/ Bury(w, o)
       \/ Repush(w, o) \/ SaveResult(w, o)
  \/ Infer(w) \/ FinishBatch(w) \/ Restart(w)

Next ==
  \/ \E a \in Apis : ApiStep(a) \/ ApiCrash(a)
  \/ \E w \in Workers : WorkerStep(w) \/ WorkerCrash(w)

Spec == Init /\ [][Next]_vars

\* A worker process runs, and is started again when it has ended.  Nothing says
\* that a call of the model server returns: its client sets no deadline.
WorkersAreFair == \A w \in Workers : WF_vars(WorkerStep(w) /\ ~At(w, "infer"))
=============================================================================
