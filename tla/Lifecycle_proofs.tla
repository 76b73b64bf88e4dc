--------------------------- MODULE Lifecycle_proofs ---------------------------
(***************************************************************************)
(* The pipeline implements the lifecycle of JobLifecycle: each of its      *)
(* steps moves one job as the lifecycle allows, loses jobs that were       *)
(* queued or held, or changes the status of none.  What is gone does not   *)
(* come back, so refusals are kept.                                        *)
(***************************************************************************)
EXTENDS MCInferenceQueue, PipelineBounds_proofs

Status == [j \in Jobs |-> StatusOf(j)]

\* The jobs that queues hold and those that workers hold.
QueuedJobs == UNION {Ids(queue[t]) : t \in Tiers}
HeldJobs == UNION {Contents(v) : v \in Workers}

\* The status of a job in terms of the sets of jobs queued and held.
LEMMA StatusIs ==
  ASSUME NEW j \in Jobs
  PROVE  /\ Queued(j) <=> j \in QueuedJobs
         /\ (\E v \in Workers : HeldBy(v, j)) <=> j \in HeldJobs
         /\ Queued(j)' <=> j \in QueuedJobs'
         /\ (\E v \in Workers : HeldBy(v, j)') <=> j \in HeldJobs'
  BY DEF Queued, HeldBy, Holds, Ids, Contents, QueuedJobs, HeldJobs

\* What the status of a job depends on.
LEMMA SameStatus ==
  ASSUME NEW j \in Jobs, result'[j] = result[j], dlq'[j] = dlq[j],
         reply'[j] = "none" <=> reply[j] = "none",
         j \in QueuedJobs' <=> j \in QueuedJobs, j \in HeldJobs' <=> j \in HeldJobs
  PROVE  StatusOf(j)' = StatusOf(j)
  BY StatusIs DEF StatusOf, HasResult, Buried

\* A step that moves one job between two statuses.
Moves(j, from, to) ==
  /\ \A k \in Jobs : k # j => StatusOf(k)' = StatusOf(k)
  /\ StatusOf(j) = from /\ StatusOf(j)' = to

\* Such a step is a move of the lifecycle.
LEMMA MovesOne ==
  ASSUME NEW j \in Jobs, NEW from, NEW to, Moves(j, from, to)
  PROVE  Lifecycle!Move(j, from, to)
  BY DEF Moves, Lifecycle!Move

\* A step that loses some jobs that were queued or held.
LEMMA LosesSome ==
  ASSUME NEW S \in SUBSET Jobs,
         \A j \in S : StatusOf(j) \in {"queued", "held"} /\ StatusOf(j)' = "gone",
         \A j \in Jobs \ S : StatusOf(j)' = StatusOf(j)
  PROVE  Lifecycle!Lose(S)
  BY DEF Lifecycle!Lose

\* A step that changes the status of no job stutters.
LEMMA ChangesNone ==
  ASSUME \A j \in Jobs : StatusOf(j)' = StatusOf(j)
  PROVE  Status' = Status
  BY DEF Status

\* The moves that the lifecycle allows.
LEMMA AllowedMoves ==
  ASSUME NEW j \in Jobs,
         \/ Moves(j, "new", "queued") \/ Moves(j, "new", "gone")
         \/ Moves(j, "queued", "held") \/ Moves(j, "held", "queued")
         \/ Moves(j, "held", "done") \/ Moves(j, "held", "dead")
         \/ Moves(j, "queued", "gone") \/ Moves(j, "held", "gone")
  PROVE  Lifecycle!Next
  <1>1. CASE Moves(j, "new", "queued")
    BY <1>1, MovesOne DEF Lifecycle!Next, Lifecycle!Submit
  <1>2. CASE Moves(j, "new", "gone")
    BY <1>2, MovesOne DEF Lifecycle!Next, Lifecycle!Refuse
  <1>3. CASE Moves(j, "queued", "held")
    BY <1>3, MovesOne DEF Lifecycle!Next, Lifecycle!Take
  <1>4. CASE Moves(j, "held", "queued")
    BY <1>4, MovesOne DEF Lifecycle!Next, Lifecycle!Return
  <1>5. CASE Moves(j, "held", "done")
    BY <1>5, MovesOne DEF Lifecycle!Next, Lifecycle!Complete
  <1>6. CASE Moves(j, "held", "dead")
    BY <1>6, MovesOne DEF Lifecycle!Next, Lifecycle!Bury
  <1>7. CASE Moves(j, "queued", "gone") \/ Moves(j, "held", "gone")
    <2>1. Lifecycle!Lose({j})
      BY <1>7, LosesSome DEF Moves
    <2> QED BY <2>1 DEF Lifecycle!Next
  <1> QED BY <1>1, <1>2, <1>3, <1>4, <1>5, <1>6, <1>7

-----------------------------------------------------------------------------
(* Pods.                                                                    *)

\* A job without an answer is nowhere and has no outcome.
LEMMA UnansweredIsNew ==
  ASSUME Typed, Exclusive, NEW j \in Jobs, reply[j] = "none"
  PROVE  /\ StatusOf(j) = "new" /\ j \notin QueuedJobs /\ j \notin HeldJobs
         /\ ~HasResult(j) /\ ~Buried(j)
  <1>1. \A s \in Slots : j \notin Ids(Lists[s])
    BY DEF Exclusive, AllPending, Pending, Ids
  <1>2. j \notin QueuedJobs
    <2>1. ASSUME NEW t \in Tiers PROVE j \notin Ids(queue[t])
      <3>1. j \notin Ids(Lists[<<"queue", t>>])
        BY <1>1, ListsAre
      <3> QED BY <3>1, ListsAre
    <2> QED BY <2>1 DEF QueuedJobs
  <1>3. ASSUME NEW v \in Workers PROVE j \notin Contents(v)
    <2>1. /\ j \notin Ids(Lists[<<"batch", v>>]) /\ j \notin Ids(Lists[<<"hand", v>>])
          /\ j \notin Ids(Lists[<<"tail", v>>]) /\ j \notin Ids(Lists[<<"unsaved", v>>])
      BY <1>1, ListsAre
    <2> QED BY <2>1, ListsAre DEF Contents
  <1>4. j \notin HeldJobs
    BY <1>3 DEF HeldJobs
  <1>5. ~HasResult(j) /\ ~Buried(j)
    BY DEF Exclusive, Unanswered, HasResult, Buried
  <1> QED BY <1>2, <1>4, <1>5, StatusIs DEF StatusOf

\* A pod accepts a request, sheds it, or changes no status; when it is killed
\* the request it had admitted is gone.
LEMMA ApiImplements ==
  ASSUME Typed, Exclusive, NEW a \in Apis, ApiStep(a) \/ ApiCrash(a)
  PROVE  Lifecycle!Next \/ Status' = Status
  <1>1. /\ batch' = batch /\ hand' = hand /\ tail' = tail /\ unsaved' = unsaved
        /\ result' = result /\ dlq' = dlq
    BY DEF ApiStep, Verify, Shed, VerifyFails, Enqueue, ApiCrash, workerVars
  <1>2. HeldJobs' = HeldJobs
    BY <1>1 DEF HeldJobs, Contents
  <1>3. ASSUME NEW j \in Jobs, Verify(a, j) PROVE Status' = Status
    <2>1. queue' = queue /\ reply' = reply
      BY <1>3 DEF Verify
    <2>2. QueuedJobs' = QueuedJobs
      BY <2>1 DEF QueuedJobs
    <2> QED BY <1>1, <1>2, <2>1, <2>2, SameStatus, ChangesNone
  <1>4. ASSUME NEW j \in Jobs, NEW r \in Replies \ {"none"}, Answer(j, r), reply[j] = "none",
               queue' = queue
        PROVE  Lifecycle!Next
    <2>1. QueuedJobs' = QueuedJobs
      BY <1>4 DEF QueuedJobs
    <2>2. reply' = [reply EXCEPT ![j] = r]
      BY <1>4 DEF Answer
    <2>3. \A k \in Jobs : k # j => StatusOf(k)' = StatusOf(k)
      BY <1>1, <1>2, <2>1, <2>2, SameStatus DEF Typed
    <2>4. /\ StatusOf(j) = "new" /\ j \notin QueuedJobs /\ j \notin HeldJobs
          /\ ~HasResult(j) /\ ~Buried(j)
      BY <1>4, UnansweredIsNew
    <2>5. reply'[j] # "none"
      BY <2>2 DEF Typed
    <2>6. StatusOf(j)' = "gone"
      BY <1>1, <1>2, <2>1, <2>4, <2>5, StatusIs DEF StatusOf, HasResult, Buried
    <2> QED BY <2>3, <2>4, <2>6, AllowedMoves DEF Moves
  <1>5. ASSUME NEW j \in Jobs, Shed(a, j) \/ VerifyFails(a, j) PROVE Lifecycle!Next
    BY <1>4, <1>5 DEF Shed, VerifyFails, Requested, Replies
  <1>6. CASE ApiCrash(a)
    <2>1. admitting[a] \in Jobs /\ reply[admitting[a]] = "none"
      BY <1>6 DEF ApiCrash, Typed, Exclusive, Unanswered
    <2> QED BY <1>4, <1>6, <2>1 DEF ApiCrash, Replies
  <1>7. ASSUME NEW o \in Outcomes, Enqueue(a, o) PROVE Lifecycle!Next
    <2>1. PICK j \in Jobs : j = admitting[a] /\ reply[j] = "none"
      BY <1>7 DEF Enqueue, Typed, Exclusive, Unanswered
    <2>2. PICK r \in Replies \ {"none"} : Answer(j, r)
      BY <1>7, <2>1 DEF Enqueue, Replies
    <2>3. CASE ~Executed(o)
      <3>1. queue' = queue
        BY <1>7, <2>3 DEF Enqueue, Push
      <3> QED BY <1>4, <2>1, <2>2, <3>1
    <2>4. CASE Executed(o)
      <3>1. PICK job \in Queueable : job = [id |-> j, retry |-> 0] /\ job.id = j
        BY JobSets
      <3>2. queue' = [queue EXCEPT ![TierOf(j)] = Append(@, job)]
        BY <1>7, <2>1, <2>4, <3>1 DEF Enqueue, Push
      <3>3. TierOf(j) \in Tiers /\ queue[TierOf(j)] \in Seq(Queueable)
        BY DEF TierOf, Tiers, Typed
      <3>4. Ids(Append(queue[TierOf(j)], job)) = Ids(queue[TierOf(j)]) \cup {j}
        BY <3>1, <3>3, IdsPushed
      <3>5. \A t \in Tiers : Ids(queue'[t]) = IF t = TierOf(j) THEN Ids(queue[t]) \cup {j}
                                                              ELSE Ids(queue[t])
        BY <3>2, <3>4 DEF Typed
      <3>6. QueuedJobs' = QueuedJobs \cup {j}
        BY <3>3, <3>5 DEF QueuedJobs
      <3>7. reply' = [reply EXCEPT ![j] = r]
        BY <2>2 DEF Answer
      <3>8. \A k \in Jobs : k # j => StatusOf(k)' = StatusOf(k)
        BY <1>1, <1>2, <3>6, <3>7, SameStatus DEF Typed
      <3>9. StatusOf(j) = "new" /\ ~HasResult(j) /\ ~Buried(j)
        BY <2>1, UnansweredIsNew
      <3>10. StatusOf(j)' = "queued"
        BY <1>1, <3>6, <3>9, StatusIs DEF StatusOf, HasResult, Buried
      <3> QED BY <3>8, <3>9, <3>10, AllowedMoves DEF Moves
    <2> QED BY <2>3, <2>4
  <1> QED BY <1>3, <1>5, <1>6, <1>7 DEF ApiStep

-----------------------------------------------------------------------------
(* Workers.                                                                 *)

\* The jobs in the lists that a worker step leaves alone.
QueuedElsewhere(w) == UNION {Ids(queue[t]) : t \in Tiers \ {QueueOf(w)}}
HeldElsewhere(w) == UNION {Contents(v) : v \in Workers \ {w}}

\* Only what a worker's own queue and memory hold changes when it moves.
LEMMA HereAndElsewhere ==
  ASSUME NEW w \in Workers, Others(w)
  PROVE  /\ QueuedJobs = Ids(queue[QueueOf(w)]) \cup QueuedElsewhere(w)
         /\ QueuedJobs' = Ids(queue'[QueueOf(w)]) \cup QueuedElsewhere(w)
         /\ HeldJobs = Contents(w) \cup HeldElsewhere(w)
         /\ HeldJobs' = Contents(w)' \cup HeldElsewhere(w)
  <1>1. QueueOf(w) \in Tiers
    BY DEF QueueOf, Tiers
  <1>2. \A t \in Tiers \ {QueueOf(w)} : Ids(queue'[t]) = Ids(queue[t])
    BY DEF Others
  <1>3. \A v \in Workers \ {w} : Contents(v)' = Contents(v)
    BY DEF Others, Contents
  <1> QED BY <1>1, <1>2, <1>3 DEF QueuedJobs, QueuedElsewhere, HeldJobs, HeldElsewhere

\* A job is in one list only.
LEMMA InOneList ==
  ASSUME Exclusive, NEW s \in Slots, NEW t \in Slots, NEW j \in Ids(Lists[s]), j \in Ids(Lists[t])
  PROVE  s = t
  BY DEF Exclusive, Unique, Ids

\* The list that holds a job of a worker.
LEMMA HeldInAList ==
  ASSUME NEW v \in Workers, NEW j \in Contents(v)
  PROVE  \E s \in Slots : s[1] \in {"batch", "hand", "tail", "unsaved"} /\ s[2] = v /\ j \in Ids(Lists[s])
  <1>1. CASE j \in Ids(batch[v])
    <2>1. <<"batch", v>> \in Slots /\ j \in Ids(Lists[<<"batch", v>>])
      BY <1>1, ListsAre
    <2> QED BY <2>1
  <1>2. CASE j \in Ids(hand[v])
    <2>1. <<"hand", v>> \in Slots /\ j \in Ids(Lists[<<"hand", v>>])
      BY <1>2, ListsAre
    <2> QED BY <2>1
  <1>3. CASE j \in Ids(tail[v])
    <2>1. <<"tail", v>> \in Slots /\ j \in Ids(Lists[<<"tail", v>>])
      BY <1>3, ListsAre
    <2> QED BY <2>1
  <1>4. CASE j \in Ids(unsaved[v])
    <2>1. <<"unsaved", v>> \in Slots /\ j \in Ids(Lists[<<"unsaved", v>>])
      BY <1>4, ListsAre
    <2> QED BY <2>1
  <1> QED BY <1>1, <1>2, <1>3, <1>4 DEF Contents

\* A job of a worker's share is there once, nowhere else, and has no result.
LEMMA ShareIsApart ==
  ASSUME Typed, Exclusive, NEW w \in Workers, NEW j \in Share(w)
  PROVE  /\ j \notin QueuedElsewhere(w) /\ j \notin HeldElsewhere(w)
         /\ ~(j \in Ids(queue[QueueOf(w)]) /\ j \in Contents(w))
         /\ result[j] = NoJob /\ reply[j] # "none"
  <1>1. ASSUME NEW t \in Tiers
        PROVE  <<"queue", t>> \in Slots /\ Ids(Lists[<<"queue", t>>]) = Ids(queue[t])
    BY ListsAre
  <1>2. QueueOf(w) \in Tiers
    BY DEF QueueOf, Tiers
  <1>3. \E s \in Slots : j \in Ids(Lists[s])
    BY <1>1, <1>2, HeldInAList DEF Share
  <1>4. result[j] = NoJob /\ reply[j] # "none"
    BY <1>3 DEF Exclusive, AllPending, Pending, Ids
  <1>5. ASSUME NEW t \in Tiers, j \in Ids(queue[t]) PROVE t = QueueOf(w) /\ j \notin Contents(w)
    <2>1. \A s \in Slots : j \in Ids(Lists[s]) => s = <<"queue", t>>
      BY <1>1, <1>5, InOneList
    <2>2. ASSUME j \in Contents(w) PROVE FALSE
      <3>1. PICK s \in Slots : s[1] \in {"batch", "hand", "tail", "unsaved"} /\ j \in Ids(Lists[s])
        BY <2>2, HeldInAList
      <3>2. s[1] = "queue"
        BY <2>1, <3>1
      <3> QED BY <3>1, <3>2
    <2>3. j \in Ids(queue[QueueOf(w)])
      BY <2>2 DEF Share
    <2>4. <<"queue", QueueOf(w)>> = <<"queue", t>>
      BY <1>1, <1>2, <2>1, <2>3
    <2> QED BY <2>2, <2>4
  <1>6. ASSUME NEW v \in Workers, v # w, j \in Contents(v) PROVE FALSE
    <2>1. PICK s \in Slots : /\ s[1] \in {"batch", "hand", "tail", "unsaved"} /\ s[2] = v
                             /\ j \in Ids(Lists[s])
      BY <1>6, HeldInAList
    <2>2. CASE j \in Contents(w)
      <3>1. PICK t \in Slots : t[2] = w /\ j \in Ids(Lists[t])
        BY <2>2, HeldInAList
      <3> QED BY <1>6, <2>1, <3>1, InOneList
    <2>3. CASE j \in Ids(queue[QueueOf(w)])
      <3>1. s = <<"queue", QueueOf(w)>>
        BY <1>1, <1>2, <2>1, <2>3, InOneList
      <3> QED BY <2>1, <3>1
    <2> QED BY <2>2, <2>3 DEF Share
  <1> QED BY <1>2, <1>4, <1>5, <1>6 DEF QueuedElsewhere, HeldElsewhere

\* The head of a list is not in its tail.
LEMMA HeadIsOnce ==
  ASSUME Typed, Exclusive, NEW s \in Slots, Lists[s] # << >>
  PROVE  Head(Lists[s]).id \notin Ids(Tail(Lists[s])) /\ Head(Lists[s]).id \in Jobs
  <1>1. \A k \in DOMAIN Lists[s] : Lists[s][k].id = Head(Lists[s]).id => k = 1
    BY Alone DEF Exclusive
  <1>2. \A i \in DOMAIN Tail(Lists[s]) :
          Tail(Lists[s])[i] = Lists[s][i + 1] /\ i + 1 \in DOMAIN Lists[s] /\ i + 1 # 1
    BY ListsTyped, Popped
  <1>3. Head(Lists[s]).id \in Jobs
    BY Alone DEF Exclusive
  <1> QED BY <1>1, <1>2, <1>3 DEF Ids

\* A worker step on one job of its share.
LEMMA LocalStep ==
  ASSUME Typed, Exclusive, NEW w \in Workers, Others(w), NEW j \in Jobs, j \in Share(w),
         Ids(queue'[QueueOf(w)]) \ {j} = Ids(queue[QueueOf(w)]) \ {j},
         Contents(w)' \ {j} = Contents(w) \ {j},
         \A k \in Jobs : k # j => result'[k] = result[k] /\ dlq'[k] = dlq[k],
         \/ /\ j \in Ids(queue[QueueOf(w)]) /\ j \notin Ids(queue'[QueueOf(w)])
            /\ j \in Contents(w)' /\ result'[j] = result[j] /\ dlq'[j] = dlq[j]
         \/ /\ j \in Contents(w) /\ j \in Ids(queue'[QueueOf(w)])
            /\ result'[j] = result[j] /\ dlq'[j] = dlq[j]
         \/ /\ j \notin Ids(queue'[QueueOf(w)]) /\ j \notin Contents(w)'
            /\ result'[j] = result[j] /\ dlq'[j] = dlq[j]
         \/ j \in Contents(w) /\ result'[j] = result[j] /\ dlq'[j] > 0
         \/ j \in Contents(w) /\ result'[j] # NoJob /\ dlq[j] = 0
  PROVE  Lifecycle!Next \/ Status' = Status
  <1>1. /\ j \notin QueuedElsewhere(w) /\ j \notin HeldElsewhere(w)
        /\ ~(j \in Ids(queue[QueueOf(w)]) /\ j \in Contents(w))
        /\ ~HasResult(j) /\ reply[j] # "none"
    BY ShareIsApart DEF HasResult
  <1>2. reply' = reply
    BY DEF Others
  <1>3. ASSUME NEW k \in Jobs, k # j PROVE StatusOf(k)' = StatusOf(k)
    <2>1. (k \in QueuedJobs' <=> k \in QueuedJobs) /\ (k \in HeldJobs' <=> k \in HeldJobs)
      BY <1>3, HereAndElsewhere
    <2> QED BY <1>2, <1>3, <2>1, SameStatus
  <1>4. /\ j \in QueuedJobs <=> j \in Ids(queue[QueueOf(w)])
        /\ j \in QueuedJobs' <=> j \in Ids(queue'[QueueOf(w)])
        /\ j \in HeldJobs <=> j \in Contents(w)
        /\ j \in HeldJobs' <=> j \in Contents(w)'
    BY <1>1, HereAndElsewhere
  <1>5. StatusOf(j) = IF Buried(j) THEN "dead"
                      ELSE IF j \in Ids(queue[QueueOf(w)]) THEN "queued" ELSE "held"
    BY <1>1, <1>4, StatusIs DEF StatusOf, Share
  <1>6. StatusOf(j)' = IF result'[j] # NoJob THEN "done"
                       ELSE IF dlq'[j] > 0 THEN "dead"
                       ELSE IF j \in Ids(queue'[QueueOf(w)]) THEN "queued"
                       ELSE IF j \in Contents(w)' THEN "held" ELSE "gone"
    BY <1>1, <1>2, <1>4, StatusIs DEF StatusOf, HasResult, Buried
  <1>7. dlq[j] \in Nat /\ (Buried(j) <=> dlq[j] > 0) /\ result[j] = NoJob
    BY <1>1 DEF Buried, Typed, HasResult
  <1>8. \/ StatusOf(j)' = StatusOf(j)
        \/ StatusOf(j) = "queued" /\ StatusOf(j)' \in {"held", "gone"}
        \/ StatusOf(j) = "held" /\ StatusOf(j)' \in {"queued", "done", "dead", "gone"}
    BY <1>1, <1>5, <1>6, <1>7
  <1>9. CASE StatusOf(j)' = StatusOf(j)
    BY <1>3, <1>9, ChangesNone
  <1>10. CASE StatusOf(j)' # StatusOf(j)
    BY <1>3, <1>8, <1>10, AllowedMoves DEF Moves
  <1> QED BY <1>9, <1>10

-----------------------------------------------------------------------------
(* The steps of a worker.                                                   *)

\* Reading depths, planning, flushing, pairing results and going on keep every
\* job queued or held as it was.
LEMMA QuietImplements ==
  ASSUME Typed, Exclusive, Fits, NEW w \in Workers,
         \/ \E o \in ReadOutcomes :
              ReadVipDepth(w, o) \/ ReadFreeDepth(w, o) \/ UpdateQueueDepthMetric(w, o)
         \/ FlushFull(w) \/ FlushTimeout(w) \/ FlushEmpty(w)
         \/ Infer(w) \/ FinishBatch(w) \/ Restart(w)
  PROVE  Status' = Status
  <1>1. UNCHANGED <<queue, result, dlq, reply>>
    BY DEF ReadVipDepth, ReadFreeDepth, UpdateQueueDepthMetric, FlushFull, FlushTimeout,
       FlushEmpty, Infer, FinishBatch, Restart, apiVars
  <1>2. Contents(w)' = Contents(w)
    <2>1. CASE Infer(w)
      BY <2>1, InferKeeps
    <2>2. CASE ~Infer(w)
      <3>1. UNCHANGED held
        BY <2>2 DEF ReadVipDepth, ReadFreeDepth, UpdateQueueDepthMetric, FlushFull,
           FlushTimeout, FlushEmpty, FinishBatch, Restart
      <3> QED BY <3>1 DEF held, Contents
    <2> QED BY <2>1, <2>2
  <1>3. Others(w)
    BY WorkerAlone DEF WorkerStep
  <1>4. QueuedJobs' = QueuedJobs /\ HeldJobs' = HeldJobs
    BY <1>1, <1>2, <1>3, HereAndElsewhere
  <1> QED BY <1>1, <1>4, SameStatus, ChangesNone

\* A pop takes a job from queued to held, fresh or to be dropped.
LEMMA PopImplements ==
  ASSUME Typed, Exclusive, Fits, NEW w \in Workers, PopKeep(w) \/ PopDrop(w)
  PROVE  Lifecycle!Next \/ Status' = Status
  <1> DEFINE q == QueueOf(w)
             s == <<"queue", q>>
             j == Head(queue[q]).id
  <1>1. /\ q \in Tiers /\ queue[q] \in Seq(Queueable) /\ queue[q] # << >>
        /\ batch[w] \in Seq(Fresh) /\ hand[w] \in Seq(Queueable)
        /\ queue'[q] = Tail(queue[q]) /\ result' = result /\ dlq' = dlq
    BY IdsAreJobs DEF Typed, PopKeep, PopDrop, Pop, Waiting
  <1>2. j \notin Ids(Tail(queue[q])) /\ j \in Jobs
    <2>1. s \in Slots /\ Lists[s] = queue[q]
      BY <1>1, ListsAre
    <2> HIDE DEF s, q
    <2> QED BY <1>1, <2>1, HeadIsOnce
  <1>3. Ids(queue[q]) = {j} \cup Ids(Tail(queue[q])) /\ Head(queue[q]) \in Queueable
    BY <1>1, IdsPopped
  <1>4. Contents(w)' = Contents(w) \cup {j}
    <2>1. CASE PopKeep(w)
      <3>1. Head(queue[q]) \in Fresh
        BY <1>3, <2>1, JobSets DEF PopKeep, Retriable, Waiting
      <3>2. Ids(Append(batch[w], Head(queue[q]))) = Ids(batch[w]) \cup {j}
        BY <1>1, <3>1, IdsPushed
      <3>3. /\ batch'[w] = Append(batch[w], Head(queue[q]))
            /\ hand' = hand /\ tail' = tail /\ unsaved' = unsaved
        BY <2>1 DEF PopKeep, Waiting, Typed
      <3> HIDE DEF q, j
      <3> QED BY <3>2, <3>3 DEF Contents
    <2>2. CASE PopDrop(w)
      <3>1. place[w] = "fetch" /\ Len(hand[w]) = 0
        BY <2>2 DEF PopDrop, Pop, Filling, At, Fits, FitsAt
      <3>2. Ids(hand[w]) = {}
        BY <1>1, <3>1, NoneLeft, IdsOfNone
      <3>3. Ids(<<Head(queue[q])>>) = {j}
        BY DEF Ids
      <3>4. hand'[w] = <<Head(queue[q])>> /\ batch' = batch /\ tail' = tail /\ unsaved' = unsaved
        BY <2>2 DEF PopDrop, Waiting, Typed
      <3> HIDE DEF q, j
      <3> QED BY <3>2, <3>3, <3>4 DEF Contents
    <2> QED BY <2>1, <2>2
  <1>5. Others(w)
    BY WorkerAlone DEF WorkerStep
  <1>6. PICK k \in Jobs : k = j
    BY <1>2
  <1> HIDE DEF j
  <1>7. /\ k \in Share(w) /\ k \in Ids(queue[q]) /\ k \notin Ids(queue'[q]) /\ k \in Contents(w)'
        /\ Ids(queue'[q]) \ {k} = Ids(queue[q]) \ {k} /\ Contents(w)' \ {k} = Contents(w) \ {k}
    BY <1>1, <1>2, <1>3, <1>4, <1>6 DEF Share
  <1> QED BY <1>1, <1>5, <1>7, LocalStep

\* A pop that was executed without a reply loses the job.
LEMMA PopFailsImplements ==
  ASSUME Typed, Exclusive, NEW w \in Workers, NEW o \in Outcomes, PopFails(w, o)
  PROVE  Lifecycle!Next \/ Status' = Status
  <1> DEFINE q == QueueOf(w)
             s == <<"queue", q>>
  <1>1. /\ q \in Tiers /\ queue[q] \in Seq(Queueable)
        /\ result' = result /\ dlq' = dlq /\ reply' = reply
        /\ batch' = batch /\ hand' = hand /\ tail' = tail /\ unsaved' = unsaved
    BY IdsAreJobs DEF Typed, PopFails, held, apiVars
  <1>2. Contents(w)' = Contents(w)
    BY <1>1 DEF Contents
  <1>3. Others(w)
    BY WorkerAlone DEF WorkerStep
  <1>4. CASE Executed(o) /\ queue[q] # << >>
    <2>1. queue'[q] = Tail(queue[q])
      BY <1>1, <1>4 DEF PopFails, Waiting, Typed
    <2>2. PICK j \in Jobs : j = Head(queue[q]).id /\ j \notin Ids(Tail(queue[q]))
      <3>1. s \in Slots /\ Lists[s] = queue[q]
        BY <1>1, ListsAre
      <3> HIDE DEF s, q
      <3> QED BY <1>4, <3>1, HeadIsOnce
    <2>3. Ids(queue[q]) = {j} \cup Ids(Tail(queue[q]))
      BY <1>1, <1>4, <2>2, IdsPopped
    <2>4. j \in Share(w) /\ j \in Ids(queue[q])
      BY <2>3 DEF Share
    <2>5. j \notin Contents(w)'
      BY <1>2, <2>4, ShareIsApart
    <2>6. Ids(queue'[q]) \ {j} = Ids(queue[q]) \ {j} /\ j \notin Ids(queue'[q])
      BY <2>1, <2>2, <2>3
    <2> QED BY <1>1, <1>2, <1>3, <2>4, <2>5, <2>6, LocalStep
  <1>5. CASE ~(Executed(o) /\ queue[q] # << >>)
    <2>1. queue' = queue
      BY <1>5 DEF PopFails, Waiting
    <2>2. QueuedJobs' = QueuedJobs /\ HeldJobs' = HeldJobs
      BY <1>2, <1>3, <2>1, HereAndElsewhere
    <2> QED BY <1>1, <2>2, SameStatus, ChangesNone
  <1> QED BY <1>4, <1>5

\* A popped job is dead, or gone when the push fails; a spent copy was dead already.
LEMMA DeadLetterImplements ==
  ASSUME Typed, Equipped, Exclusive, Fits, NEW w \in Workers, NEW o \in Outcomes, DeadLetter(w, o)
  PROVE  Lifecycle!Next \/ Status' = Status
  <1>1. /\ hand[w] \in Seq(Queueable) /\ hand[w] # << >> /\ Len(hand[w]) = 1
        /\ place[w] = "drop"
    BY DEF DeadLetter, At, Typed, Equipped, Fits, FitsAt
  <1>2. PICK j \in Jobs : j = Head(hand[w]).id /\ Ids(hand[w]) = {j}
    <2>1. /\ Ids(hand[w]) = {Head(hand[w]).id} \cup Ids(Tail(hand[w]))
          /\ Head(hand[w]) \in Queueable
          /\ Tail(hand[w]) \in Seq(Queueable) /\ Len(Tail(hand[w])) = 0
      BY <1>1, IdsPopped
    <2>2. Ids(Tail(hand[w])) = {}
      BY <2>1, NoneLeft, IdsOfNone
    <2> QED BY <2>1, <2>2, JobSets
  <1>3. hand'[w] = << >> /\ batch' = batch /\ tail' = tail /\ unsaved' = unsaved
        /\ queue' = queue /\ result' = result
    BY DEF DeadLetter, Typed
  <1>4. dlq' = IF Executed(o) THEN [dlq EXCEPT ![j] = @ + 1] ELSE dlq
    BY <1>2 DEF DeadLetter, PushDlq
  <1>5. Others(w)
    BY WorkerAlone DEF WorkerStep
  <1>6. j \in Contents(w) /\ j \in Share(w)
    BY <1>2 DEF Share, Contents
  <1>7. j \notin Ids(queue'[QueueOf(w)])
    BY <1>3, <1>6, ShareIsApart
  <1>8. Contents(w)' \ {j} = Contents(w) \ {j}
    BY <1>2, <1>3, IdsOfNone DEF Contents
  <1>9. j \notin Ids(batch[w]) /\ j \notin Ids(tail[w]) /\ j \notin Ids(unsaved[w])
    <2>1. /\ <<"hand", w>> \in Slots /\ j \in Ids(Lists[<<"hand", w>>])
          /\ <<"batch", w>> \in Slots /\ Lists[<<"batch", w>>] = batch[w]
          /\ <<"tail", w>> \in Slots /\ Lists[<<"tail", w>>] = tail[w]
          /\ <<"unsaved", w>> \in Slots /\ Lists[<<"unsaved", w>>] = unsaved[w]
      BY <1>2, ListsAre
    <2>2. ASSUME NEW s \in Slots, j \in Ids(Lists[s]) PROVE s[1] = "hand"
      <3>1. s = <<"hand", w>>
        BY <2>1, <2>2, InOneList
      <3> QED BY <3>1
    <2>3. /\ <<"batch", w>>[1] # "hand" /\ <<"tail", w>>[1] # "hand"
          /\ <<"unsaved", w>>[1] # "hand"
      OBVIOUS
    <2> QED BY <2>1, <2>2, <2>3
  <1>10. j \notin Contents(w)'
    BY <1>3, <1>9, IdsOfNone DEF Contents
  <1>11. \A k \in Jobs : k # j => dlq'[k] = dlq[k]
    BY <1>4 DEF Typed
  <1>12. dlq'[j] = dlq[j] \/ dlq'[j] > 0
    BY <1>4 DEF Typed
  <1> QED BY <1>3, <1>5, <1>6, <1>7, <1>8, <1>10, <1>11, <1>12, LocalStep

\* A job of one list of a worker is in no other.
LEMMA OnlyThere ==
  ASSUME Typed, Exclusive, NEW w \in Workers,
         NEW kind \in {"batch", "hand", "tail", "unsaved"}, NEW j \in Ids(Lists[<<kind, w>>])
  PROVE  /\ kind # "batch" => j \notin Ids(batch[w])
         /\ kind # "hand" => j \notin Ids(hand[w])
         /\ kind # "tail" => j \notin Ids(tail[w])
         /\ kind # "unsaved" => j \notin Ids(unsaved[w])
  <1>1. <<kind, w>> \in Slots
    BY ListsAre
  <1>2. ASSUME NEW other \in {"batch", "hand", "tail", "unsaved"}, other # kind
        PROVE  j \notin Ids(Lists[<<other, w>>])
    <2>1. <<other, w>> \in Slots /\ <<other, w>> # <<kind, w>>
      BY <1>2, ListsAre
    <2> QED BY <1>1, <2>1, InOneList
  <1>3. /\ kind # "batch" => j \notin Ids(Lists[<<"batch", w>>])
        /\ kind # "hand" => j \notin Ids(Lists[<<"hand", w>>])
        /\ kind # "tail" => j \notin Ids(Lists[<<"tail", w>>])
        /\ kind # "unsaved" => j \notin Ids(Lists[<<"unsaved", w>>])
    BY <1>2
  <1> QED BY <1>3, ListsAre

\* A job on its last retry is dead at once; the copy pushed back changes nothing.
LEMMA BuryImplements ==
  ASSUME Typed, Equipped, Exclusive, NEW w \in Workers, NEW o \in Outcomes, Bury(w, o)
  PROVE  Lifecycle!Next \/ Status' = Status
  <1>1. tail[w] \in Seq(Fresh) /\ tail[w] # << >>
    BY DEF Bury, At, Equipped, Typed
  <1>2. PICK j \in Jobs : j = Head(tail[w]).id /\ j \in Ids(tail[w])
    <2>1. Head(tail[w]).id \in Ids(tail[w]) /\ Head(tail[w]) \in Fresh
      BY <1>1, IdsPopped
    <2> QED BY <2>1, JobSets
  <1>3. /\ queue' = queue /\ result' = result /\ reply' = reply
        /\ batch' = batch /\ hand' = hand /\ tail' = tail /\ unsaved' = unsaved
        /\ dlq' = IF Executed(o) THEN [dlq EXCEPT ![j] = @ + 1] ELSE dlq
    BY <1>2 DEF Bury, PushDlq, held, apiVars
  <1>4. Others(w)
    BY WorkerAlone DEF WorkerStep
  <1>5. Contents(w)' = Contents(w) /\ j \in Contents(w) /\ j \in Share(w)
    BY <1>2, <1>3 DEF Contents, Share
  <1>6. CASE Executed(o)
    <2>1. dlq'[j] > 0 /\ \A k \in Jobs : k # j => dlq'[k] = dlq[k]
      BY <1>3, <1>6 DEF Typed
    <2> QED BY <1>3, <1>4, <1>5, <2>1, LocalStep
  <1>7. CASE ~Executed(o)
    <2>1. QueuedJobs' = QueuedJobs /\ HeldJobs' = HeldJobs
      BY <1>3, <1>4, <1>5, HereAndElsewhere
    <2> QED BY <1>3, <1>7, <2>1, SameStatus, ChangesNone
  <1> QED BY <1>6, <1>7

\* A job pushed back is queued again, or gone when the push fails.
LEMMA RepushImplements ==
  ASSUME Typed, Equipped, Exclusive, NEW w \in Workers, NEW o \in Outcomes, Repush(w, o)
  PROVE  Lifecycle!Next \/ Status' = Status
  <1> DEFINE q == QueueOf(w)
             s == <<"tail", w>>
  <1>1. /\ tail[w] \in Seq(Fresh) /\ tail[w] # << >> /\ q \in Tiers
        /\ queue[q] \in Seq(Queueable)
        /\ s \in Slots /\ Lists[s] = tail[w]
    BY IdsAreJobs, ListsAre DEF Repush, At, Equipped, Typed
  <1>2. PICK j \in Jobs : j = Head(tail[w]).id /\ j \notin Ids(Tail(tail[w]))
    <2> HIDE DEF s
    <2> QED BY <1>1, HeadIsOnce
  <1>3. /\ Ids(tail[w]) = {j} \cup Ids(Tail(tail[w])) /\ Head(tail[w]) \in Fresh
    BY <1>1, <1>2, IdsPopped
  <1>4. /\ tail'[w] = Tail(tail[w]) /\ batch' = batch /\ hand' = hand /\ unsaved' = unsaved
        /\ result' = result /\ dlq' = dlq
    BY DEF Repush, Unpushed, Typed
  <1>5. Others(w)
    BY WorkerAlone DEF WorkerStep
  <1>6. j \in Contents(w) /\ j \in Share(w) /\ Contents(w)' \ {j} = Contents(w) \ {j}
    BY <1>3, <1>4 DEF Contents, Share
  <1>7. CASE Executed(o)
    <2>1. PICK job \in Queueable : /\ job = [id |-> j, retry |-> Head(tail[w]).retry + 1]
                                   /\ job.id = j
      BY <1>2, <1>3, JobSets
    <2>2. queue'[q] = Append(queue[q], job)
      BY <1>1, <1>2, <1>7, <2>1 DEF Repush, Push, RetryQueue, Typed
    <2>3. Ids(queue'[q]) = Ids(queue[q]) \cup {j}
      BY <1>1, <2>1, <2>2, IdsPushed
    <2> QED BY <1>4, <1>5, <1>6, <2>3, LocalStep
  <1>8. CASE ~Executed(o)
    <2>1. queue' = queue
      BY <1>8 DEF Repush, Push
    <2>2. j \notin Ids(queue'[q])
      BY <1>6, <2>1, ShareIsApart
    <2>3. j \notin Ids(batch[w]) /\ j \notin Ids(hand[w]) /\ j \notin Ids(unsaved[w])
      BY <1>1, <1>3, OnlyThere
    <2>4. j \notin Contents(w)'
      BY <1>2, <1>4, <2>3 DEF Contents
    <2> QED BY <1>4, <1>5, <1>6, <2>1, <2>2, <2>4, LocalStep
  <1> QED BY <1>7, <1>8

\* A saved job is done, or gone when the save fails.
LEMMA SaveImplements ==
  ASSUME Typed, Exclusive, NEW w \in Workers, NEW o \in Outcomes, SaveResult(w, o)
  PROVE  Lifecycle!Next \/ Status' = Status
  <1> DEFINE s == <<"unsaved", w>>
  <1>1. /\ unsaved[w] \in Seq(Pair) /\ unsaved[w] # << >>
        /\ s \in Slots /\ Lists[s] = unsaved[w]
    BY ListsAre DEF SaveResult, Typed
  <1>2. PICK p \in Pair : p = Head(unsaved[w]) /\ p.id \in Jobs /\ p.of \in Jobs
    BY <1>1, Popped, JobSets
  <1>3. PICK j \in Jobs : j = p.id /\ j \notin Ids(Tail(unsaved[w]))
    <2> HIDE DEF s
    <2> QED BY <1>1, <1>2, HeadIsOnce
  <1>4. Ids(unsaved[w]) = {j} \cup Ids(Tail(unsaved[w]))
    BY <1>1, <1>2, <1>3, IdsPopped
  <1>5. /\ unsaved'[w] = Tail(unsaved[w]) /\ batch' = batch /\ hand' = hand /\ tail' = tail
        /\ queue' = queue /\ dlq' = dlq
        /\ result' = IF Executed(o) THEN [result EXCEPT ![j] = p.of] ELSE result
    BY <1>2, <1>3 DEF SaveResult, Value, Typed
  <1>6. Others(w)
    BY WorkerAlone DEF WorkerStep
  <1>7. j \in Contents(w) /\ j \in Share(w) /\ Contents(w)' \ {j} = Contents(w) \ {j}
    BY <1>4, <1>5 DEF Contents, Share
  <1>8. CASE Executed(o)
    <2>1. /\ result'[j] # NoJob
          /\ \A k \in Jobs : k # j => result'[k] = result[k]
      BY <1>2, <1>5, <1>8, PipelineAssumption DEF Typed
    <2>2. dlq[j] = 0
      <3>1. PICK i \in DOMAIN Lists[s] : Lists[s][i].id = j
        BY <1>1, <1>4 DEF Ids
      <3>2. Pending(s, i) /\ s[1] = "unsaved"
        BY <1>1 DEF Exclusive, AllPending
      <3>3. dlq[j] <= 1 /\ dlq[j] # 1 /\ dlq[j] \in Nat
        BY <3>1, <3>2 DEF Pending, Typed
      <3> QED BY <3>3
    <2> QED BY <1>5, <1>6, <1>7, <2>1, <2>2, LocalStep
  <1>9. CASE ~Executed(o)
    <2>1. j \notin Ids(queue'[QueueOf(w)])
      BY <1>5, <1>7, ShareIsApart
    <2>2. j \notin Ids(batch[w]) /\ j \notin Ids(hand[w]) /\ j \notin Ids(tail[w])
      BY <1>1, <1>4, OnlyThere
    <2>3. j \notin Contents(w)'
      BY <1>3, <1>5, <2>2 DEF Contents
    <2> QED BY <1>5, <1>6, <1>7, <1>9, <2>1, <2>3, LocalStep
  <1> QED BY <1>8, <1>9

\* A killed worker loses the jobs it held that have not ended.
LEMMA CrashImplements ==
  ASSUME Typed, Exclusive, NEW w \in Workers, WorkerCrash(w)
  PROVE  Lifecycle!Next
  <1> DEFINE S == {j \in Contents(w) : ~Buried(j)}
  <1>1. /\ batch'[w] = << >> /\ hand'[w] = << >> /\ tail'[w] = << >> /\ unsaved'[w] = << >>
        /\ queue' = queue /\ result' = result /\ dlq' = dlq /\ reply' = reply
    BY DEF WorkerCrash, apiVars, Typed
  <1>2. Contents(w)' = {}
    BY <1>1, IdsOfNone DEF Contents
  <1>3. Others(w)
    BY WorkerAlone
  <1>4. QueuedJobs' = QueuedJobs /\ HeldJobs' = HeldElsewhere(w)
        /\ HeldJobs = Contents(w) \cup HeldElsewhere(w)
        /\ QueuedJobs = Ids(queue[QueueOf(w)]) \cup QueuedElsewhere(w)
    BY <1>1, <1>2, <1>3, HereAndElsewhere
  <1>5. ASSUME NEW j \in Contents(w)
        PROVE  /\ j \in Jobs /\ j \notin QueuedJobs /\ j \in HeldJobs /\ j \notin HeldJobs'
               /\ ~HasResult(j) /\ reply[j] # "none"
    BY <1>4, ShareIsApart, IdsAreJobs DEF Share, HasResult
  <1>6. ASSUME NEW j \in S PROVE StatusOf(j) = "held" /\ StatusOf(j)' = "gone"
    BY <1>1, <1>4, <1>5, StatusIs DEF StatusOf, HasResult, Buried
  <1>7. ASSUME NEW j \in Jobs \ S PROVE StatusOf(j)' = StatusOf(j)
    <2>1. CASE j \in Contents(w)
      BY <1>1, <1>5, <1>7, <2>1 DEF StatusOf, HasResult, Buried
    <2>2. CASE j \notin Contents(w)
      <3>1. j \in HeldJobs' <=> j \in HeldJobs
        BY <1>4, <2>2
      <3> QED BY <1>1, <1>4, <3>1, SameStatus
    <2> QED BY <2>1, <2>2
  <1>8. S \in SUBSET Jobs
    BY <1>5
  <1> HIDE DEF S
  <1>9. Lifecycle!Lose(S)
    BY <1>6, <1>7, <1>8, LosesSome
  <1> QED BY <1>8, <1>9 DEF Lifecycle!Next

-----------------------------------------------------------------------------
(* The theorem.                                                             *)

\* No request has been made.
LEMMA InitImplements == Init => Lifecycle!Init
  <1> SUFFICES ASSUME Init, NEW j \in Jobs PROVE StatusOf(j) = "new"
    BY DEF Lifecycle!Init
  <1>1. Typed /\ Exclusive
    BY InitTyped, InitExclusive
  <1>2. reply[j] = "none"
    BY DEF Init
  <1> QED BY <1>1, <1>2, UnansweredIsNew

\* Every step moves, loses, or changes no status.
LEMMA StepImplements ==
  ASSUME Typed, Equipped, Exclusive, Fits, [Next]_vars
  PROVE  Lifecycle!Next \/ Status' = Status
  <1>1. CASE UNCHANGED vars
    <2>1. UNCHANGED <<result, dlq, reply>> /\ QueuedJobs' = QueuedJobs /\ HeldJobs' = HeldJobs
      BY <1>1 DEF vars, QueuedJobs, HeldJobs, Contents
    <2> QED BY <2>1, SameStatus, ChangesNone
  <1>2. ASSUME NEW a \in Apis, ApiStep(a) \/ ApiCrash(a)
        PROVE  Lifecycle!Next \/ Status' = Status
    BY <1>2, ApiImplements
  <1>3. ASSUME NEW w \in Workers, WorkerStep(w) \/ WorkerCrash(w)
        PROVE  Lifecycle!Next \/ Status' = Status
    BY <1>3, QuietImplements, PopImplements, PopFailsImplements, DeadLetterImplements,
       BuryImplements, RepushImplements, SaveImplements, CrashImplements DEF WorkerStep
  <1> QED BY <1>1, <1>2, <1>3 DEF Next

\* Of each request the pipeline keeps what the lifecycle promises: one end, and
\* none left again, through requeueing, dead letters, failing commands and kills.
THEOREM PipelineImplementsLifecycle == Spec => ImplementsLifecycle
  <1>1. Typed /\ Equipped /\ Exclusive /\ Fits /\ [Next]_vars
          => [Lifecycle!Next]_Status
    BY StepImplements
  <1>2. [Lifecycle!Next]_Status => [Lifecycle!Next]_[j \in Jobs |-> StatusOf(j)]
    BY DEF Status
  <1> QED BY <1>1, <1>2, InitImplements, PipelineBounded, PTL
             DEF Spec, ImplementsLifecycle, Lifecycle!Spec
-----------------------------------------------------------------------------
(* Refused requests.                                                        *)

\* What runs has left the statuses "new" and "gone".
LEMMA PresentIs ==
  ASSUME NEW j \in Jobs
  PROVE  /\ Present(j) <=> StatusOf(j) \notin {"new", "gone"}
         /\ Present(j)' <=> StatusOf(j)' \notin {"new", "gone"}
  BY DEF Present, InFlight, StatusOf

\* What was answered and is gone does not come back.
LEMMA AnsweredStayAway ==
  ASSUME Lifecycle!Next \/ Status' = Status,
         NEW j \in Jobs, reply[j] # "none", ~Present(j)
  PROVE  ~Present(j)'
  <1>1. StatusOf(j) = "gone"
    BY DEF Present, InFlight, StatusOf
  <1>2. CASE Lifecycle!Next
    <2>1. ASSUME NEW k, NEW from, NEW to, from # "gone", Lifecycle!Move(k, from, to)
          PROVE  StatusOf(j)' = "gone"
      BY <1>1, <2>1 DEF Lifecycle!Move
    <2>2. ASSUME NEW S, Lifecycle!Lose(S) PROVE StatusOf(j)' = "gone"
      BY <1>1, <2>2 DEF Lifecycle!Lose
    <2>3. StatusOf(j)' = "gone"
      BY <1>2, <2>1, <2>2 DEF Lifecycle!Next, Lifecycle!Submit, Lifecycle!Refuse, Lifecycle!Take,
                              Lifecycle!Return, Lifecycle!Complete, Lifecycle!Bury
    <2> QED BY <2>3, PresentIs
  <1>3. CASE Status' = Status
    <2>1. StatusOf(j)' = StatusOf(j)
      BY <1>3 DEF Status
    <2> QED BY <1>1, <2>1, PresentIs
  <1> QED BY <1>2, <1>3

RefusedFew ==
  /\ IsFiniteSet(RunsAlthoughRefused)
  /\ RefusalsAreKept

\* A step that answers at most the request k: it runs only if it was accepted, or
\* answered 503 by a command that failed.
LEMMA KeepsRefusals ==
  ASSUME Typed, Typed', RefusedFew, Lifecycle!Next \/ Status' = Status, NEW k,
         \A j \in Jobs : j # k => reply'[j] = reply[j],
         k \in Jobs => reply'[k] \in {"none", "queued"} \/ ~Present(k)'
                         \/ (reply'[k] = "unavailable" /\ faults' >= faults + 1),
         \A j \in Jobs : reply[j] = "none" => ~Present(j),
         faults' >= faults
  PROVE  RefusedFew'
  <1>1. faults \in Nat /\ faults' \in Nat
    BY PipelineAssumption DEF Typed
  <1>2. ASSUME NEW j \in Jobs, j # k, Present(j)', reply'[j] # "none" PROVE Present(j)
    BY <1>2, AnsweredStayAway
  <1>3. ASSUME NEW j \in Jobs, reply'[j] = "full" PROVE ~Present(j)'
    <2>1. CASE j = k
      BY <1>3, <2>1
    <2>2. CASE j # k
      BY <1>2, <1>3, <2>2 DEF RefusedFew, RefusalsAreKept
    <2> QED BY <2>1, <2>2
  <1>4. IsFiniteSet(RunsAlthoughRefused) /\ Cardinality(RunsAlthoughRefused) <= faults
    BY DEF RefusedFew, RefusalsAreKept
  <1>5. RunsAlthoughRefused' \subseteq RunsAlthoughRefused \cup {k}
    BY <1>2 DEF RunsAlthoughRefused
  <1>6. CASE faults' >= faults + 1
    <2>1. IsFiniteSet({k}) /\ Cardinality({k}) <= 1
      <3>1. IsFiniteSet({k}) /\ Cardinality({k}) = 1
        BY FS_Singleton, Zenon
      <3> QED BY <3>1
    <2>2. /\ IsFiniteSet(RunsAlthoughRefused \cup {k})
          /\ Cardinality(RunsAlthoughRefused \cup {k}) \in Nat
          /\ Cardinality(RunsAlthoughRefused \cup {k}) <= faults + 1
      BY <1>1, <1>4, <2>1, UnionCounted
    <2>3. /\ IsFiniteSet(RunsAlthoughRefused') /\ Cardinality(RunsAlthoughRefused') \in Nat
          /\ Cardinality(RunsAlthoughRefused') <= Cardinality(RunsAlthoughRefused \cup {k})
      BY <1>5, <2>2, FS_Subset, FS_CardinalityType
    <2>4. Cardinality(RunsAlthoughRefused') <= faults'
      BY <1>1, <1>6, <2>2, <2>3
    <2> QED BY <1>3, <2>3, <2>4 DEF RefusedFew, RefusalsAreKept
  <1>7. CASE ~(faults' >= faults + 1)
    <2>1. RunsAlthoughRefused' \subseteq RunsAlthoughRefused
      BY <1>2, <1>7 DEF RunsAlthoughRefused
    <2>2. /\ IsFiniteSet(RunsAlthoughRefused') /\ Cardinality(RunsAlthoughRefused') \in Nat
          /\ Cardinality(RunsAlthoughRefused) \in Nat
          /\ Cardinality(RunsAlthoughRefused') <= Cardinality(RunsAlthoughRefused)
      BY <1>4, <2>1, FS_Subset, FS_CardinalityType
    <2>3. Cardinality(RunsAlthoughRefused') <= faults'
      BY <1>1, <1>4, <2>2
    <2> QED BY <1>3, <2>2, <2>3 DEF RefusedFew, RefusalsAreKept
  <1> QED BY <1>6, <1>7

\* A pod answers one request; what it refuses has not been pushed, or its push
\* has failed.
LEMMA ApiRefuses ==
  ASSUME Typed, Typed', Exclusive, RefusedFew, NEW a \in Apis, ApiStep(a) \/ ApiCrash(a)
  PROVE  RefusedFew'
  <1>1. Lifecycle!Next \/ Status' = Status
    BY ApiImplements
  <1>2. \A j \in Jobs : reply[j] = "none" => ~Present(j)
    BY UnansweredIsNew, PresentIs
  <1>3. faults' >= faults
    BY PipelineAssumption DEF Typed, ApiStep, Verify, Shed, VerifyFails, Enqueue, ApiCrash, Redis
  <1>4. ASSUME queue' = queue, NEW k \in Jobs PROVE Present(k)' <=> Present(k)
    <2>1. UNCHANGED <<queue, dlq, result, batch, hand, tail, unsaved>>
      BY <1>4 DEF ApiStep, Verify, Shed, VerifyFails, Enqueue, ApiCrash, workerVars
    <2> QED BY <2>1 DEF Present, InFlight, Queued, HeldBy, Holds, HasResult, Buried
  <1>5. ASSUME NEW j \in Jobs, Verify(a, j) PROVE RefusedFew'
    <2>1. \A i \in Jobs : i # j => reply'[i] = reply[i]
      BY <1>5 DEF Verify
    <2>2. reply'[j] = "none"
      BY <1>5 DEF Verify, Requested
    <2> QED BY <1>1, <1>2, <1>3, <2>1, <2>2, KeepsRefusals
  <1>6. ASSUME NEW j \in Jobs, reply[j] = "none", queue' = queue, NEW r, Answer(j, r)
        PROVE  RefusedFew'
    <2>1. \A i \in Jobs : i # j => reply'[i] = reply[i]
      BY <1>6 DEF Answer, Typed
    <2>2. ~Present(j)'
      BY <1>2, <1>4, <1>6
    <2> QED BY <1>1, <1>2, <1>3, <2>1, <2>2, KeepsRefusals
  <1>7. ASSUME NEW j \in Jobs, Shed(a, j) \/ VerifyFails(a, j) PROVE RefusedFew'
    BY <1>6, <1>7 DEF Shed, VerifyFails, Requested
  <1>8. CASE ApiCrash(a)
    <2>1. admitting[a] \in Jobs /\ reply[admitting[a]] = "none"
      BY <1>8 DEF ApiCrash, Typed, Exclusive, Unanswered
    <2> QED BY <1>6, <1>8, <2>1 DEF ApiCrash
  <1>9. ASSUME NEW o \in Outcomes, Enqueue(a, o) PROVE RefusedFew'
    <2>1. PICK j \in Jobs : j = admitting[a]
      BY <1>9 DEF Enqueue, Typed
    <2>2. reply' = [reply EXCEPT ![j] = IF o = "ok" THEN "queued" ELSE "unavailable"]
      BY <1>9, <2>1 DEF Enqueue, Answer
    <2>3. \A i \in Jobs : i # j => reply'[i] = reply[i]
      BY <2>2 DEF Typed
    <2>4. reply'[j] = IF o = "ok" THEN "queued" ELSE "unavailable"
      BY <2>2 DEF Typed
    <2>5. o = "ok" \/ faults' >= faults + 1
      BY <1>9, PipelineAssumption DEF Enqueue, Redis, Typed
    <2> QED BY <1>1, <1>2, <1>3, <2>3, <2>4, <2>5, KeepsRefusals
  <1> QED BY <1>5, <1>7, <1>8, <1>9 DEF ApiStep

\* Workers answer no request.
LEMMA StepRefuses ==
  ASSUME Typed, Typed', Equipped, Exclusive, Fits, RefusedFew, [Next]_vars
  PROVE  RefusedFew'
  <1>1. CASE \E a \in Apis : ApiStep(a) \/ ApiCrash(a)
    BY <1>1, ApiRefuses
  <1>2. CASE UNCHANGED vars \/ \E w \in Workers : WorkerStep(w) \/ WorkerCrash(w)
    <2>1. reply' = reply
      <3>1. ASSUME NEW w \in Workers, WorkerStep(w) \/ WorkerCrash(w) PROVE reply' = reply
        BY <3>1, WorkerAlone DEF Others
      <3> QED BY <1>2, <3>1 DEF vars
    <2>2. faults' >= faults
      <3>1. faults \in Nat
        BY PipelineAssumption DEF Typed
      <3>2. ASSUME NEW w \in Workers, WorkerStep(w) \/ WorkerCrash(w) PROVE faults' >= faults
        BY <3>1, <3>2 DEF WorkerStep, WorkerCrash, ReadVipDepth, ReadFreeDepth,
          UpdateQueueDepthMetric, FlushFull, FlushTimeout, FlushEmpty, PopFails, PopKeep, PopDrop,
          DeadLetter, Infer, Bury, Repush, SaveResult, FinishBatch, Restart, Redis
      <3> QED BY <1>2, <3>1, <3>2 DEF vars
    <2>3. \A j \in Jobs : reply[j] = "none" => ~Present(j)
      BY UnansweredIsNew, PresentIs
    <2>4. Lifecycle!Next \/ Status' = Status
      BY StepImplements
    <2>5. NoJob \notin Jobs
      BY PipelineAssumption DEF PipelineAssumption
    <2> QED BY <2>1, <2>2, <2>3, <2>4, <2>5, KeepsRefusals
  <1> QED BY <1>1, <1>2 DEF Next

\* A request answered 429 never runs, and those answered 503 that run all the
\* same are no more than the commands that failed, for any number of pods,
\* workers, retries and kills.
THEOREM RefusalsAreAlwaysKept == Spec => []RefusalsAreKept
  <1>1. Init => RefusedFew
    <2> SUFFICES ASSUME Init PROVE RefusedFew
      OBVIOUS
    <2>1. RunsAlthoughRefused = {} /\ faults = 0 /\ \A j \in Jobs : reply[j] = "none"
      BY DEF Init, RunsAlthoughRefused
    <2>2. IsFiniteSet({}) /\ Cardinality({}) = 0
      BY FS_EmptySet
    <2> QED BY <2>1, <2>2 DEF RefusedFew, RefusalsAreKept
  <1>2. Typed /\ Typed' /\ Equipped /\ Exclusive /\ Fits /\ RefusedFew /\ [Next]_vars
          => RefusedFew'
    BY StepRefuses
  <1>3. RefusedFew => RefusalsAreKept
    BY DEF RefusedFew
  <1> QED BY <1>1, <1>2, <1>3, PipelineBounded, PTL DEF Spec
=============================================================================
