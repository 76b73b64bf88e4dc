# Verification of the Anomaly Inference System

TLA+ models of the online part of this repository: the asynchronous inference
pipeline (admission, Redis queues, batch workers, retries, dead letters), the
batch scheduler, the Redis circuit breaker, the model rollout inside the workers,
the sliding window of transactions in Redis, and the rule-based scores. Each module is a translation of the Python sources under `src/app`;
`PROJECT.json` maps every definition to the lines it stands for.

## The system

| Component | State it keeps | Operations | Talks to |
|---|---|---|---|
| API (`inference/routes.py`, `queue_service.py`) | none between requests | `predict_async` (depth test, push), `get_result` | Redis, through the breaker |
| Redis (external) | lists `vip_jobs`, `free_jobs`, `dead_letter_queue`; keys `job_result:<id>`, without a TTL; sorted sets `transactions`, `customer_index:<customer>`, hashes `txn:<token>` with a TTL | LLEN, RPUSH, LPOP, SET, GET; HSET, EXPIRE, ZADD, ZREMRANGEBYSCORE, ZCOUNT | - |
| Worker (`worker.py`, `batch.py`) | the batch in memory | read depths, plan, fetch, infer, requeue or dead-letter, save | Redis, inference client |
| Batch scheduler (`scheduler.py`, `config.py`) | none; threshold tables | sizes from two depths | queue service |
| Inference client (`clients/inference_client.py`) | the result list, counters | per transaction: select, ask the primary, ask the shadow | Triton, registry |
| Model selection and registry (`model_selection.py`, `model_registry/`) | the registry read at start | resolve, eligibility, mode, canary draw | - |
| Circuit breaker (`shared/circuit_breaker.py`) | state, failure count, failure time | `call`, `_on_success`, `_on_failure` | every Redis command |
| Transaction window (`api/transaction.py`) | none; the hashes and sorted sets in Redis | `append_to_redis`, `get_volume`, `get_customer_transaction_volume` | Redis, through breaker and retry |
| Retry (`api/retry.py`) | the attempt | repeat an operation, three times at most | the window's operations |
| Rule-based score (`api/anomaly_detect.py`, `shared/config.py`) | none; three bands | a score per amount or volume | - |
| Request middleware, other endpoints, metrics, training, Triton models, Kubernetes files | see `PROJECT.json` | | |

A request is one HTTP call to an API pod. The pod reads the depth of the tier's
list, compares it with the limit, and pushes the job: two Redis commands with
room for other pods in between. A worker reads both depths, plans a batch size,
reads its own depth again for a metric, pops one job at a time, hands the batch
to the inference client, requeues or dead-letters what did not get a result, and
stores results one by one. Nothing in Redis records that a job is being worked
on. Redis commands have a 0.2 s timeout and go through the breaker. Nothing
repeats them: the client is made with `retry_on_timeout=False`
(`app/shared/redis.py:19`). The models rest on that; `requirements.txt` does not pin
`redis`, and with a version that retries on its own account a push whose reply was
lost would be executed twice, against `NoDuplicateDelivery` and `LossIsBounded`.

What is hard here: every pair of commands of one process can be split by another
process; a command may be executed although its caller gets an exception; a
worker may be killed with a batch in memory; the results of a batch are matched
to its jobs by position; the retry count travels inside the job; the breaker is
shared by threads without a lock; releases are rolled out under running workers;
an append to the window is up to five commands per transaction, may fail at each
of them and is then repeated from its first one, while others trim the same sets.
`PROJECT.json` lists these hazards at their lines with the properties that
guard them.

## Modules

| Module | Models | Reads with |
|---|---|---|
| `CircuitBreaker` | the breaker of one process, any number of threads | `CircuitBreaker_proofs`, `MCCircuitBreaker` |
| `BreakerContract` | the state machine of the breaker's header comment | abstract |
| `Scheduler` | threshold tables, free ratio, rounding | `Scheduler_proofs`, `MCTables`, `Tables_proofs` |
| `AnomalyScore` | the rule-based scores | `MCTables`, `Tables_proofs` |
| `BatchPicks` | which results inference may leave out of a batch | - |
| `InferenceQueue` | API pods, Redis lists, workers; EXTENDS `Scheduler`, `BatchPicks` | `MCInferenceQueue` |
| `PipelineProperties` | what the pipeline guarantees | `Pipeline_proofs`, `PipelineBounds_proofs` |
| `VipTraffic` | VIP requests that keep coming; EXTENDS `PipelineProperties` | `MCInferenceQueue` |
| `JobLifecycle` | new, queued, held, done, dead, gone | abstract; `Lifecycle_proofs` |
| `ModelRollout` | releases, selection, inference of a batch | `ModelRollout_proofs`, `MCModelRollout` |
| `BatchInference` | a batch is handed over and a pick of it comes back; EXTENDS `BatchPicks` | abstract |
| `TransactionWindow` | appends, readers, retries, the clock | `TransactionWindow_proofs`, `MCTransactionWindow` |

A definition whose comment begins with "Mutant" is not part of a model: it is a
broken form of the definition after it, and `PROJECT.json` says which property
notices when it takes its place.

### Circuit breaker
`pc[t]` is where a thread stands in `call`. A step is the code between two points
at which CPython 3.11 may switch threads (calls and loop heads): the state test,
the recovery test, the protected call, the reset, in `_on_failure` the
increment, the time stamp and the threshold test, and each setting of the gauge
(`Show`), which comes before the reset on a success and after the change of state
on a trip or a trial. `failure_age` stands for
`time.time() - last_failure_time` up to the timeout; `CountCap` is where the
count stops growing, every value from the threshold on being tested alike.
`healthy` is Redis. `MCCircuitBreaker` maps the one-thread breaker to
`BreakerContract` (property `ImplementsContract`).

### Scheduler
The tables are constants; a ratio is kept in tenths, and `round` of a product of
tenths is computed with Python's rounding of halves to even. The wait time is
left out: it only bounds how long a partly filled batch polls, which the pipeline
model leaves open. `MCTables` puts in the tables of `config.py` and walks both
depths from empty to 205, past the last threshold of 200.

### Rule-based score
The three functions of `anomaly_detect.py` are one, applied to three bands
(two of which are equal). Scores are in hundredths; for whole values and these
bands the quotients need no rounding. `MCTables` walks a volume through the
bands. No code calls the scores today, so nothing feeds them what `get_volume` answers.

### Inference pipeline
Variables and code: `queue[t]` is a Redis list (what the JSON of `QueueJob` holds
of it: id and retry count), `dlq` counts a job's entries in the dead letter list,
`result` is `job_result:<id>` (the job whose transaction gave the value),
`admitting[a]` is a pod between depth test and push, `reply` what the client was
told; per worker `place` is the point in `worker_loop`, `plan` the scheduler's
output, `batch`, `hand`, `tail` and `unsaved` its memory. One action is one Redis
command with the code around it:

| Action | Code |
|---|---|
| `Verify`, `Shed`, `VerifyFails`, `Enqueue` | `_verify_queue_availability`, `enqueue_job` |
| `ReadVipDepth`, `ReadFreeDepth`, `UpdateQueueDepthMetric` | `get_batch_scheduler`, `_update_queue_depth_metric` |
| `FlushFull`, `FlushTimeout`, `FlushEmpty`, `PopFails`, `PopKeep`, `PopDrop`, `DeadLetter` | `fetch_batch` |
| `Infer` | `process_anomaly_detection` and the pairing in `process_batch` |
| `Bury`, `Repush` | `_requeue_or_dlq_failed_batch` |
| `SaveResult`, `FinishBatch` | `_save_result`, the rest of `process_batch` |
| `WorkerCrash`, `Restart`, `ApiCrash` | the kubelet (external) |

A command is answered, refused, or executed with its reply lost. That also stands
for a breaker that refuses the call, so the pipeline does not carry the breaker's
state. A job may expire at any pop (30 s may pass at any point). Left out: wait
and sleep times, and payloads that do not parse (only `QueueJob` writes the
lists). Results and dead letters stay in Redis for ever: results are set without
a TTL, and nothing reads the dead letter queue. A pod killed between its push and its
answer leaves in Redis what `Enqueue` leaves, so `ApiCrash` is a kill before the push.

In `Spec` each job is requested once, so traffic ends. `VipTraffic` adds `AskAgain`:
a VIP request that has left the pipeline makes room for a new one, any number of
times or for ever. One name stands for many requests, one after the other: what Redis
still holds of the old one is forgotten when the new one comes, since only the client
of the old one reads it.

### Model rollout
`release` is what is deployed (ConfigMap mode and fraction, registry entry),
`loaded[w]` what the process read at its start. A transaction goes through
select, primary and, with a shadow version, shadow and compare. A call of a version
succeeds or raises, and it may raise after its prediction has been counted, at the
score's histogram (`InferRaises`); likewise the comparison, before or after it is
counted (`CompareFails`). `failures` counts the exceptions where they end: the stages
`transaction_processing` (the transaction is left out) and `shadow_inference` (the
stable version answers all the same, `ShadowCaught`). The further failure counts of
single calls, such as `triton_request`, are left out. `results` is the
list returned to `process_batch`; `ReturnsPick` is what the pipeline's `Infer`
assumes of it. `Deploy` and `Restart` are external and may happen at any time.
The two models meet in `BatchInference`: a batch goes in, a pick of it (`Picks`)
comes out, or the process ends. `Infer` of the pipeline is its `Return`, and
`ModelRollout` implements it step by step (`ImplementsInference`).

### Transaction window
`index` and `customerIndex` hold the score of each token in the global and in its
customer's sorted set, `data` the time at which the hash of a token expires, or
`Forever` between HSET and EXPIRE. `request[a]` is a call of `append_to_redis`: the
command it is at, the transaction of its batch, the attempt; `stamp` is the `now`
of each transaction. `reader[r]` is a call of one of the two counting functions,
with the `now` it keeps through its attempts; its sleep is time that passes before
the next command.

| Action | Code |
|---|---|
| `Start`, `Retry`, `Fails`, `CountFails` | `retry_with_backoff` |
| `HSet`, `Expire`, `ZAdd`, `ZAddCustomer`, `TrimCustomer` | the loop of `append_to_redis`, once per transaction |
| `Trim` | its last command |
| `Abandon` | an open breaker, or a process that dies |
| `Ask`, `Count`, `GiveUp` | `get_volume`, `get_customer_transaction_volume` |

Commands end as in the pipeline. One clock stands for those of all pods and of
Redis. No code calls `append_to_redis` today; `get_volume` is served by
`/debug/volume` and always counts an empty window.

## Runs

| Run | Instance | Shows |
|---|---|---|
| `breaker_threads` | 3 threads, threshold 2, timeout 2 | OPEN is backed by counted and dated failures; no trip is lost; after an outage the breaker closes for good, and the gauge shows it |
| `breaker_worker` | 1 thread, as in a worker, 2 operations, threshold 3 | a trial is decided (with several threads it may not be); the breaker implements the documented machine |
| `tables` | the real tables and bands, depths and volume to 205 | sizes are monotone, and FREE is shut out in exactly two regions; only a volume above its band by more than a tenth scores above normal |
| `pipeline_workers` | 3 FREE jobs, 2 workers, 1 pod, 1 failing command, 1 kill | no duplicate delivery, bounded attempts, one outcome, at most two burials, loss bounded by failures, refusals kept, results final, job lifecycle |
| `pipeline_tiers` | VIP requests one after the other, for ever or not, and 2 FREE jobs, a VIP and a shared worker, 1 failing command, 1 kill, a model server that may fall silent | results stay within the tier; every job leaves the pipeline but for two causes: the silent model server strands it, or it is a FREE job that VIP traffic shuts out again and again |
| `pipeline_depth` | 5 jobs, 2 pods, 1 worker, limit 1 | overshoot of the queue limit is bounded by pods and batches |
| `rollout` | 2 workers, 5 releases (canary for some or all, shadow, a shadow withdrawn, a candidate promoted), 2 rollouts, batches of 1 or 2 | results in order, only eligible versions, counters add up with a raise before or after each count, harmless shadow, the last release takes hold; implements `BatchInference` |
| `window` | 2 appends (2 and 1 transactions) sharing a customer, 1 reader, window 2, 2 attempts, clock to 3, 1 fault | what was appended is kept, counted and has its details for its window, trims and retries notwithstanding |
| `breaker_one_trial`, `pipeline_wrong_result`, `pipeline_worker_dies`, `rollout_candidate` | the smallest instance | the code departs from what its docs or comments say (see below) |

Why the bounds are enough. The pipeline's hazards need two holders of a job (two
workers, or a worker and a list), a batch of two for results to shift, a retry
that is not the last and one that is (`MaxRetries` 2), one failing command
between any two steps, and one kill. `SmallBatch` and `SmallRatio` keep the shape of
the tables: sizes 1 and 2 and a VIP depth that shuts FREE out. The breaker's
count matters only against the threshold, its age only against the timeout.
Releases: two rollouts let a process be two releases behind. A process starts a
batch only if it can count within `CountCap` two predictions for each transaction:
four are enough for a batch of two with a shadow, and for a second batch after one. In `pipeline_tiers` one waiting VIP job is already an
overload (`TightRatio`), so that one VIP name that returns for ever keeps the FREE
tier shut out as a depth of 170 does. The window's hazards
need a batch of two (a retry repeats what had succeeded), a second request that
shares a customer with the first transaction, a time to live that ends within the
clock (window 2, clock 3) and one failing command, after which there is one retry;
that retry cannot fail again, so the raise of the last attempt is reached by
`Abandon` only. Nothing in it depends on which attempt it is beyond the first.
Bounds in guards are `CountCap`, `MaxFaults`, `MaxCrashes`, `MaxReleases`,
`MaxClock`, and `MaxDepth` for the walks of `MCTables`.

### Fairness
`CircuitBreaker!LiveSpec`: a started call ends (socket timeouts), time passes,
requests keep coming. `GaugeRecovers` is checked with one operation: fairness is of
calls, not of each operation, and the gauge of one that is never called again
keeps what it showed. `VipTraffic!TrafficSpec` (with `InferenceQueue!WorkersAreFair`):
weak fairness of each worker process, which includes its restart by Kubernetes; no
fairness is assumed for clients (VIP traffic may stop at any point, or go on for
ever), for pods, for success of any command (only finitely many fail, and finitely
many processes are killed), for inference giving results, or between the choices inside a worker: a process that runs may forever
get no result for a job, and the retry count is what ends it. A worker that waits
for Triton has no fairness at all, for the client sets no deadline. So
`EveryJobLeaves` has two exceptions, and no other: `Stranded` jobs, which a worker
that waits for Triton holds or which only such workers could take, and FREE jobs
waiting in a queue that is `ShutOut` again and again, at the depths of
`FreeShutOutExactly`. VIP jobs leave under any traffic, and FREE jobs do when the
overload ends. Without the second exception the property is false: TLC then shows a
shared worker that finds a VIP job whenever it looks.
`ModelRollout!LiveSpec`: a
process older than the release is eventually restarted, as the rollback
procedure of `docs/07-model-lifecycle.md` says; nothing is assumed of Triton.

## What the code does and its text does not say

Shown by a run:
- a thread that calls while a trial is under way is let through
  (`breaker_one_trial`);
- after one failed transaction the rest of the batch is stored with the results
  of the following jobs, and the tail is retried (`pipeline_wrong_result`);
- a depth that cannot be read ends the worker process, through
  `Gauge.set(None)` (`pipeline_worker_dies`);
- in shadow mode a candidate that does not resolve fails every transaction
  (`rollout_candidate`).

Observed while modelling, bounded by another property or left in prose: on its
last retry a job is dead-lettered and pushed back as well, for want of a
`continue` (`app/inference/batch.py:150`); it is dead-lettered again when popped,
never processed (`OneOutcome`, `BuriedAtMostTwice`); a queue can exceed its limit (`QueueDepthBounded` says by how much); a push whose reply
is lost is answered 503 although the job runs; a job that is dead-lettered or
lost reads as "processing" for ever; a call admitted before a trip closes an
OPEN breaker when it succeeds; with several threads a failing trial can leave
the breaker HALF_OPEN; the breaker's gauge keeps old values under the labels of
other operations until they succeed; as long as VIP traffic keeps its queue at 170 or
more (the limit is 3000), FREE jobs are not popped and hence not expired either, so
their 30 s do not end them (`EveryJobLeaves`, `ShutOut`); a prediction may be counted for a
transaction that is then left out, and a shadow prediction without a comparison:
only the failure counters tell (`PredictionsAddUp`); `docs/05-triton-serving.md:102` gives a value of
`ANOMALY_MODEL` that `determine_model_name` rejects.

`docs/09-capacity-planning.md:455-458` asks that the worker's batch size not exceed the
`max_batch_size` of the Triton model. The table of the scheduler goes to 64. That is
within the 128 of the transaction model, and against the 8 of the volume model
(`triton/model_repository/volume_anomaly_detector/config.pbtxt:8`), which workers serve
when `ANOMALY_MODEL` says so. Nothing comes of it: a worker sends one request per
transaction, of one row (`inference_client.py:96`), so no batch of a worker is ever a
batch of Triton's, and there is no run about it.

Of the window: `except redis.RedisError` in `append_to_redis` looks the class up
in `app.shared.redis`, which has none, so that a failure leaves it as an
`AttributeError`; it would not match the breaker's exceptions either. The hash of
a failed append may have no TTL (`NothingKeptForever` is about those that
returned), and `customer_index:` keys are trimmed only by the next transaction of
the same customer. On a retry, HSET keeps the old TTL, which may end before the
EXPIRE: the index then names a token without details (the condition on the first
attempt in `IndexedHasData`). `VOLUME_GAUGE` counts batches and never falls,
although its help text speaks of the last minute. A reader that fails answers 0, as
an empty window does.

## Proofs

Every theorem holds for every value of the constants under the named assumption
of its module, and under the hypotheses it states; each is checked to the last
leaf. Every safety property of the passing runs, every action property and every
refinement has one.

| Module | Theorems | Rests on |
|---|---|---|
| `CircuitBreaker_proofs` | `TypeOK`, `OpenIsBacked`, `TripIsNeverLost`; with one thread `TrialIsDecided`, `OneTrialAtATime`, `ImplementsContract` | `BreakerAssumption` |
| `Scheduler_proofs` | every readable depth has a row; VIP and FREE plans stay within the table, the FREE share with its rounding | `SchedulerAssumption`, `MonotoneAssumption` |
| `Tables_proofs` | `GrowthIsMonotone` for any tables; `FreeShutOutExactly` and `AlarmsOnlyAbove` for those of the program | the scheduler's, `TablesAssumption` |
| `Pipeline_proofs` | `TypeOK`, `AttemptsBounded`, `NoDuplicateDelivery`, `OneOutcome`, `BuriedAtMostTwice`, `ResultIsFinal` | `PipelineAssumption` and the scheduler's |
| `PipelineBounds_proofs` | `ResultWithinTier`, `LossIsBounded`, `QueueDepthBounded` | the same, `ProcessesAssumption` |
| `Lifecycle_proofs` | `ImplementsLifecycle`, `RefusalsAreKept` | the same |
| `ModelRollout_proofs` | `TypeOK`, `ReturnsPick`, `OnlyEligibleServe`, `PredictionsAddUp`, `ShadowIsHarmless`, `ImplementsInference`; with candidates that resolve `CandidateNeverAffects` | `RolloutAssumption` |
| `TransactionWindow_proofs` | `TypeOK`, `KeptForTheWindow`, `NothingKeptForever`, `CustomerWithinGlobal`, `IndexedHasData`, `ReadIsComplete` | `WindowAssumption` |

`ProcessesAssumption` says that workers and pods are finitely many and that there
is a pod: the deployments under `src/k8s` run a number of replicas. Without it the
bound on a queue's overshoot is no number.

**Breaker.** `OpenIsBacked` is not inductive: a thread at the threshold test could
open the breaker with no failure time. `StampedBeforeTest` (a thread at the test
has stamped) closes the gap; the conjunction is `IInv`. With one thread the place
of the thread and the state determine each other (`Alone`): an OPEN breaker is
seen only from outside a call, in its recovery test or while the trip is shown, a
HALF_OPEN one only from the trial, whose count is still at the threshold. From that follow the contract,
step by step, and the two promises of the header comment that several threads
break: `TrialIsDecided` and `OneTrialAtATime`, the property of the run
`breaker_one_trial`. Workers have one thread, API processes do not.

**Scheduler and scores.** A greater depth is never found in a later row
(`RowsInOrder`), and rounding to even is monotone (`RoundingGrows`), so plans
follow depths for any monotone tables. TLC walks the tables of the program up to
205; `FreeShutOutExactly` and `AlarmsOnlyAbove` are proved of the same tables and
bands at any depth and volume, with the tables as hypotheses of the theorems.

**Pipeline.** First the types, made sharp enough to carry the retry bound: jobs in
a batch have retries to spend (`Fresh`), jobs in a queue may have spent them
(`Queueable`), and where a worker stands it has what it works on (`Equipped`).
`AttemptsBounded` follows. The rest needs `Exclusive`:
- all lists a job can be in (both queues, and each worker's batch, hand, tail and
  unsaved jobs) are one family `Lists`, and no job has two entries in it;
- a job in a list has been admitted, has no result, and is not in the dead letter
  queue, but for a spent copy with its one entry there: the head of a tail that
  has been buried and is about to be pushed back (`Spent`), the same job back in
  its queue with no retry left, or in the hand of a worker that popped it and can
  only bury it a second time;
- results and dead letters exclude each other, and a job has at most two entries
  in the dead letter queue.

`OneOutcome` alone is not inductive because of those spent copies: nothing in it
keeps a buried job that is still queued from being inferred. A step of the code
does one of four things to the family, and each has a lemma: an entry moves, is
taken away, is added fresh, or a batch is divided into results and tail. The
lemmas about actions only say which of the four happens.

Bounds come next. What a worker has in memory, wherever it stands, fits in one
batch (`Fits`), and no job leaves its tier (`Tiered`); the latter gives
`ResultWithinTier`, although a result may be that of another job. The queue and
memory of a worker are its share of the jobs: each step conserves the share but
for jobs with an outcome, for one job when a command fails, and for what the
memory held when the process is killed (`Conserves`). Hence `LossIsBounded`: lost
jobs are no more than failed commands plus a batch per kill (`LostFew`).
`QueueDepthBounded` is not inductive, since a batch in memory may come back to the
queue it was taken from: `ClaimsBounded` bounds the jobs that wait in a queue, may
come back to it, or are about to be pushed, which only a new admission makes more,
and that is made only when the queue is below its limit.

`Lifecycle_proofs` maps every step to a step of `JobLifecycle`: one job moves
(`Moves`), or jobs that were queued or held are gone, or no status changes. What a
worker does not touch is settled once (`HereAndElsewhere`). `RefusalsAreKept` follows:
what was answered and is gone stays gone, so only the step that answers a request can
make a refused one run, and only with a command that failed.

**Rollout.** Per worker: while it serves it is inside its batch, with a choice its
loaded release allows (`AtWork`), results so far are in order and before the
transaction in hand (`InOrder`), what has answered is eligible in what it loaded
(`Served`), and every answer and comparison, with what is pending, has a counted
prediction, while predictions beyond those are covered by failures (`AddsUp`).
`ResultsAreAPick` is the assumption the pipeline makes of inference, so the two
models fit for batches of any size; `RolloutImplementsInference` makes the fit a
refinement: a list that ends is increasing and within the batch, hence a pick of
it and no longer than it (`IncreasingIsPick`, by counting, not by induction).
`CandidateNeverAffects`, which `rollout_candidate` violates, holds when the entry
of every shadow release resolves its candidate: nothing else in the code breaks it.

**Window.** `KeptForTheWindow` alone says nothing of an append under way. `IInv`
adds where a request stands (`Placed`), that no time is ahead of the clock
(`Timed`), what the commands the attempt under way has passed have written
(`Written`), and for the first attempt that no hash is there before its HSET
(`First`): after a retry it may be, with an older time to live, which is why
`IndexedHasData` is about first attempts. Trims of other requests take a score only when its
window has ended (`Outlived`). `CustomerWithinGlobal` is part of the invariant.
Theorems hold for any number of attempts and failing commands, so also for a
failing last attempt, which the run reaches by `Abandon` only.

Model-checked only: `RecoversAfterOutage`, `GaugeRecovers`, `EveryJobLeaves` and
`ReleaseTakesHold`, for liveness is out of the prover's reach. `ResultIsOwn` and
`WorkerSurvivesRedis` are violated by the code and have no theorem.

## Not modelled, and the plan

Written so far, in this order: breaker, scheduler, pipeline, rollout, window with
retry, scores; then proofs of every safety property and refinement. What may
follow:
1. The safety half of the liveness properties: that a worker's `plan` and `batch`
   always let some step be taken, so that only `Stranded` jobs can stay.
2. When `ResultIsOwn` does hold: batches in which no transaction fails.

Not modelled, and why:
- The request middleware adds to counters that nothing reads. An exception would
  be counted as an error twice (in `except` and in `finally`), but every handler
  answers its own errors.
- The other endpoints of `main.py` generate data or call the readers modelled.
- The Triton models and `training_model.py` are numerical and keep no state the
  workers can see.
- Metrics are write-only, but for the ones a property is about. Dashboards, load
  test and Kubernetes files are configuration; what they imply for processes is
  in the environment actions.
- A restart of Redis loses everything it holds, and the code has no handling of
  it.

## Running

`tlc -config <cfg> <module>` for a run of `PROJECT.json`, `tlapm <module>` for a
proof module.
