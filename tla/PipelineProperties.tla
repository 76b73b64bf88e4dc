------------------------- MODULE PipelineProperties -------------------------
(***************************************************************************)
(* What the inference pipeline guarantees, and what its code and docs say  *)
(* of it that it does not.                                                 *)
(***************************************************************************)
EXTENDS InferenceQueue

Holds(list, j) == \E i \in DOMAIN list : list[i].id = j

Queued(j) == \E t \in Tiers : Holds(queue[t], j)
HeldBy(w, j) ==
  Holds(batch[w], j) \/ Holds(hand[w], j) \/ Holds(tail[w], j) \/ Holds(unsaved[w], j)
InFlight(j) == Queued(j) \/ \E w \in Workers : HeldBy(w, j)

HasResult(j) == result[j] # NoJob
Buried(j) == dlq[j] > 0

-----------------------------------------------------------------------------
(* Safety *)

\* No job is twice in the pipeline: two positions of the Redis lists and of the
\* workers' memory never hold the same job, whichever commands fail, time out
\* after being executed, or are cut off by a killed process.
Distinct(list) == \A i, k \in DOMAIN list : list[i].id = list[k].id => i = k
Apart(l1, l2) == \A i \in DOMAIN l1, k \in DOMAIN l2 : l1[i].id # l2[k].id

NoDuplicateDelivery ==
  /\ \A t \in Tiers : Distinct(queue[t])
  /\ Apart(queue["VIP"], queue["FREE"])
  /\ \A w \in Workers :
       /\ Distinct(batch[w]) /\ Distinct(hand[w]) /\ Distinct(tail[w]) /\ Distinct(unsaved[w])
       /\ Apart(batch[w], hand[w]) /\ Apart(batch[w], tail[w]) /\ Apart(batch[w], unsaved[w])
       /\ Apart(hand[w], tail[w]) /\ Apart(hand[w], unsaved[w]) /\ Apart(tail[w], unsaved[w])
       /\ \A j \in Jobs : HeldBy(w, j) =>
            ~Queued(j) /\ \A v \in Workers : HeldBy(v, j) => v = w

\* A job is sent to the model at most MaxRetries times: no batch ever holds a
\* job that has used up its retries, though such jobs do go back to the queue.
AttemptsBounded ==
  /\ \A t \in Tiers : \A i \in DOMAIN queue[t] : queue[t][i].retry <= MaxRetries
  /\ \A w \in Workers : \A i \in DOMAIN batch[w] : batch[w][i].retry < MaxRetries

\* A job that was dead-lettered never gets a result, and a job with a result is
\* never dead-lettered, although the last retry leaves a dead-lettered job in
\* its queue, to be popped again.
OneOutcome == \A j \in Jobs : ~(HasResult(j) /\ Buried(j))

\* A job has at most two entries in the dead letter queue: the second one comes
\* from the copy that _requeue_or_dlq_failed_batch pushes back after burying it.
BuriedAtMostTwice == \A j \in Jobs : dlq[j] <= 2

\* Jobs are lost only to failed Redis commands and killed processes: each failed
\* command costs at most one accepted job, each kill at most one batch.  In
\* particular nothing is lost when nothing fails, whatever the model server does.
Lost == {j \in Jobs : reply[j] = "queued" /\ ~InFlight(j) /\ ~HasResult(j) /\ ~Buried(j)}
LossIsBounded == Cardinality(Lost) <= faults + MaxBatchSize * crashes

\* Refusals are kept: a request answered 429 never runs ("intentionally rejecting
\* work", docs/09-capacity-planning.md:379), and one answered 503 runs only when its push
\* (queue_service.py:87) was executed without a reply, so no more of these than
\* commands that failed, wherever the workers put the job later.
Present(j) == InFlight(j) \/ HasResult(j) \/ Buried(j)
RunsAlthoughRefused == {j \in Jobs : reply[j] = "unavailable" /\ Present(j)}
RefusalsAreKept ==
  /\ \A j \in Jobs : reply[j] = "full" => ~Present(j)
  /\ Cardinality(RunsAlthoughRefused) <= faults

\* The admission test and the push are two commands, and requeueing does not
\* consult the limit.  A queue exceeds its limit by no more than the pods that
\* may be between test and push and the jobs its workers may give back.
Overshoot(t) ==
  Cardinality(Apis) + MaxBatchSize * Cardinality({w \in Workers : QueueOf(w) = t})
QueueDepthBounded ==
  \A t \in Tiers : Len(queue[t]) <= QueueLimit(t) + Overshoot(t) - 1

\* Even when results are paired with the wrong jobs, a VIP request is answered
\* from a VIP transaction and a FREE request from a FREE one.
ResultWithinTier ==
  \A j \in Jobs : HasResult(j) => TierOf(result[j]) = TierOf(j)

\* A stored result is final: no later retry, duplicate or late reply changes
\* what the client has been told.
ResultIsFinal ==
  [][\A j \in Jobs : HasResult(j) => result'[j] = result[j]]_vars

-----------------------------------------------------------------------------
(* Liveness *)

\* A model server that does not answer strands the jobs it was asked about, and
\* the queue whose workers all wait for it.
Stranded(j) ==
  \/ \E w \in Workers : HeldBy(w, j) /\ At(w, "infer")
  \/ \A w \in Workers : QueueOf(w) = TierOf(j) => At(w, "infer")

\* The VIP queue is so deep that a shared worker which reads it now takes nothing
\* from the FREE queue, and drops nothing that has expired there either.
ShutOut(j) ==
  /\ Holds(queue["FREE"], j)
  /\ GetFreeBatchConfig(Len(queue["FREE"]), GetVipBatchConfig(Len(queue["VIP"])).ratio) = 0

\* Every job that enters the pipeline leaves it, through retries, expiry,
\* failing commands, killed processes and restarts, but for two causes: a model
\* server that never answers (inference_client.py:140), and, for a FREE job that
\* waits in its queue, VIP traffic that brings the depth of the shut-out about
\* again and again (scheduler.py:27).  Nothing else keeps a job: a VIP job is not
\* starved by traffic, a FREE job in the hands of a worker is not either, and
\* when the overload ends FREE jobs leave.
EveryJobLeaves ==
  \A j \in Jobs : []<>~InFlight(j) \/ <>[]Stranded(j) \/ []<>ShutOut(j)

-----------------------------------------------------------------------------
(* What the code or its docs say, and the code does not do *)

\* docs/01-architecture.md: "Store result in Redis", "Client polls
\* /result/{job_id}": the client is given the result of its own transaction.
ResultIsOwn == \A j \in Jobs : result[j] \in {NoJob, j}

\* process_batch returns "False if no work was processed or processing failed":
\* a failing Redis command does not end the worker process.
WorkerSurvivesRedis == crashes = 0 => \A w \in Workers : ~At(w, "down")
=============================================================================
