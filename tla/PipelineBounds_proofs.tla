------------------------- MODULE PipelineBounds_proofs -------------------------
(***************************************************************************)
(* Where the jobs of the pipeline are, and how many: none changes its      *)
(* tier, a queue exceeds its limit by a bounded number, and each failed    *)
(* command or killed process loses a bounded number.  For any jobs,        *)
(* workers, pods, limits, tables, retry bound, failures and kills.         *)
(***************************************************************************)
EXTENDS Pipeline_proofs, FiniteSetTheorems

\* The jobs of a list; the jobs a worker has in memory; those and the ones that
\* wait in its queue.
Ids(list) == {list[i].id : i \in DOMAIN list}
Contents(w) == Ids(batch[w]) \cup Ids(hand[w]) \cup Ids(tail[w]) \cup Ids(unsaved[w])
Share(w) == Ids(queue[QueueOf(w)]) \cup Contents(w)

-----------------------------------------------------------------------------
(* The inductive invariants.                                                *)

\* Jobs, and the transactions their results are from, stay in their tier.
TierJobs(t) == {j \in Jobs : TierOf(j) = t}

Tiered ==
  /\ \A t \in Tiers : Ids(queue[t]) \subseteq TierJobs(t)
  /\ \A w \in Workers : Contents(w) \subseteq TierJobs(QueueOf(w))
  /\ \A w \in Workers : \A i \in DOMAIN unsaved[w] : TierOf(unsaved[w][i].of) = QueueOf(w)
  /\ ResultWithinTier

\* Results and retries share the batch they come from.
SharesBatch(w) == Len(tail[w]) + Len(unsaved[w]) <= MaxBatchSize

\* What a worker has in memory, wherever it stands, fits in one batch: no job
\* is popped when the batch of the plan is full.
FitsAt(w) ==
  /\ plan[w].size <= MaxBatchSize
  /\ place[w] \notin {"fetch", "drop", "infer"} => Len(batch[w]) = 0
  /\ place[w] = "fetch" => Len(batch[w]) <= plan[w].size
  /\ place[w] = "drop" => Len(batch[w]) < plan[w].size
  /\ place[w] = "infer" => Len(batch[w]) <= MaxBatchSize
  /\ place[w] # "drop" => Len(hand[w]) = 0
  /\ place[w] = "drop" => Len(hand[w]) = 1
  /\ place[w] \notin {"requeue", "repush"} => Len(tail[w]) = 0
  /\ place[w] \notin {"requeue", "repush", "save"} => Len(unsaved[w]) = 0
  /\ SharesBatch(w)

Fits == \A w \in Workers : FitsAt(w)

-----------------------------------------------------------------------------
(* Lists of jobs.                                                           *)

\* The jobs of the empty list.
LEMMA IdsOfNone == Ids(<< >>) = {}
  BY Empty DEF Ids

\* A list of length 0.
LEMMA NoneLeft ==
  ASSUME NEW S, NEW s \in Seq(S)
  PROVE  /\ Len(s) \in Nat
         /\ Len(s) = 0 <=> s = << >>
  BY EmptySeq

\* The jobs of a list with one more entry.
LEMMA IdsPushed ==
  ASSUME NEW S, NEW s \in Seq(S), NEW e \in S
  PROVE  /\ Ids(Append(s, e)) = Ids(s) \cup {e.id}
         /\ Len(Append(s, e)) = Len(s) + 1
  <1>1. /\ Len(s) \in Nat /\ DOMAIN s = 1..Len(s)
        /\ DOMAIN Append(s, e) = 1..(Len(s) + 1)
        /\ \A i \in DOMAIN s : Append(s, e)[i] = s[i]
        /\ Append(s, e)[Len(s) + 1] = e
    BY Pushed
  <1>2. 1..(Len(s) + 1) = (1..Len(s)) \cup {Len(s) + 1}
    BY <1>1
  <1>3. Len(Append(s, e)) = Len(s) + 1
    BY AppendProperties
  <1> QED BY <1>1, <1>2, <1>3 DEF Ids

\* The jobs of a list are those of its head and its tail.
LEMMA IdsPopped ==
  ASSUME NEW S, NEW s \in Seq(S), s # << >>
  PROVE  /\ Ids(s) = {Head(s).id} \cup Ids(Tail(s))
         /\ Head(s) \in S /\ Tail(s) \in Seq(S)
         /\ Len(s) \in Nat \ {0} /\ Len(Tail(s)) = Len(s) - 1
  <1>1. /\ Len(s) \in Nat \ {0} /\ DOMAIN s = 1..Len(s)
        /\ Head(s) \in S /\ Head(s) = s[1]
        /\ Tail(s) \in Seq(S) /\ DOMAIN Tail(s) = 1..(Len(s) - 1)
        /\ \A i \in DOMAIN Tail(s) : Tail(s)[i] = s[i + 1] /\ i + 1 \in DOMAIN s
    BY Popped
  <1>2. Len(Tail(s)) = Len(s) - 1
    BY HeadTailProperties, EmptySeq
  <1>3. Ids(s) \subseteq {Head(s).id} \cup Ids(Tail(s))
    <2> SUFFICES ASSUME NEW i \in DOMAIN s PROVE s[i].id \in {Head(s).id} \cup Ids(Tail(s))
      BY DEF Ids
    <2>1. CASE i = 1
      BY <1>1, <2>1
    <2>2. CASE i # 1
      <3>1. i - 1 \in DOMAIN Tail(s) /\ (i - 1) + 1 = i
        BY <1>1, <2>2
      <3>2. Tail(s)[i - 1].id \in Ids(Tail(s)) /\ Tail(s)[i - 1] = s[i]
        BY <1>1, <3>1 DEF Ids
      <3> QED BY <3>2
    <2> QED BY <2>1, <2>2
  <1>4. {Head(s).id} \cup Ids(Tail(s)) \subseteq Ids(s)
    BY <1>1 DEF Ids
  <1> QED BY <1>1, <1>2, <1>3, <1>4

\* A list of jobs in memory names jobs.
LEMMA IdsAreJobs ==
  ASSUME Typed
  PROVE  /\ \A t \in Tiers : Ids(queue[t]) \subseteq Jobs
         /\ \A w \in Workers : Contents(w) \subseteq Jobs /\ Share(w) \subseteq Jobs
         /\ \A w \in Workers : QueueOf(w) \in Tiers
  <1>1. \A w \in Workers : QueueOf(w) \in Tiers
    BY DEF QueueOf, Tiers
  <1>2. ASSUME NEW s \in Slots PROVE Ids(Lists[s]) \subseteq Jobs
    BY ListsTyped DEF Ids
  <1>3. \A t \in Tiers : Ids(queue[t]) \subseteq Jobs
    BY <1>2, ListsAre
  <1>4. ASSUME NEW w \in Workers
        PROVE  /\ Ids(batch[w]) \subseteq Jobs /\ Ids(hand[w]) \subseteq Jobs
               /\ Ids(tail[w]) \subseteq Jobs /\ Ids(unsaved[w]) \subseteq Jobs
    <2>1. /\ <<"batch", w>> \in Slots /\ Lists[<<"batch", w>>] = batch[w]
          /\ <<"hand", w>> \in Slots /\ Lists[<<"hand", w>>] = hand[w]
          /\ <<"tail", w>> \in Slots /\ Lists[<<"tail", w>>] = tail[w]
          /\ <<"unsaved", w>> \in Slots /\ Lists[<<"unsaved", w>>] = unsaved[w]
      BY ListsAre
    <2>2. Ids(Lists[<<"batch", w>>]) \subseteq Jobs /\ Ids(Lists[<<"hand", w>>]) \subseteq Jobs
      BY <1>2, <2>1
    <2>3. Ids(Lists[<<"tail", w>>]) \subseteq Jobs /\ Ids(Lists[<<"unsaved", w>>]) \subseteq Jobs
      BY <1>2, <2>1
    <2> QED BY <2>1, <2>2, <2>3
  <1> QED BY <1>1, <1>3, <1>4 DEF Contents, Share

-----------------------------------------------------------------------------
(* What a worker step leaves alone.                                         *)

\* Other workers' memory, the other queue and the pods.
Others(w) ==
  /\ \A v \in Workers : v # w =>
       batch'[v] = batch[v] /\ hand'[v] = hand[v] /\ tail'[v] = tail[v] /\ unsaved'[v] = unsaved[v]
  /\ \A t \in Tiers : t # QueueOf(w) => queue'[t] = queue[t]
  /\ admitting' = admitting /\ reply' = reply

\* A step of a worker leaves the memory of the others and the other queue alone.
LEMMA WorkerAlone ==
  ASSUME Typed, NEW w \in Workers, WorkerStep(w) \/ WorkerCrash(w)
  PROVE  /\ Others(w)
         /\ \A v \in Workers : v # w => place'[v] = place[v] /\ plan'[v] = plan[v]
  <1> USE DEF Others, apiVars, held, Typed
  <1>1. ASSUME NEW o \in ReadOutcomes,
               ReadVipDepth(w, o) \/ ReadFreeDepth(w, o) \/ UpdateQueueDepthMetric(w, o)
        PROVE  Others(w) /\ \A v \in Workers : v # w => place'[v] = place[v] /\ plan'[v] = plan[v]
    BY <1>1 DEF ReadVipDepth, ReadFreeDepth, UpdateQueueDepthMetric, Goto
  <1>2. CASE FlushFull(w) \/ FlushTimeout(w) \/ FlushEmpty(w)
    BY <1>2 DEF FlushFull, FlushTimeout, FlushEmpty, Flush, StartOver, Goto
  <1>3. CASE PopKeep(w)
    BY <1>3 DEF PopKeep, Pop
  <1>4. CASE PopDrop(w)
    BY <1>4 DEF PopDrop, Pop, Goto
  <1>5. ASSUME NEW o \in Outcomes, PopFails(w, o)
        PROVE  Others(w) /\ \A v \in Workers : v # w => place'[v] = place[v] /\ plan'[v] = plan[v]
    BY <1>5 DEF PopFails, Flush, StartOver, Goto
  <1>6. ASSUME NEW o \in Outcomes, DeadLetter(w, o) \/ Bury(w, o)
        PROVE  Others(w) /\ \A v \in Workers : v # w => place'[v] = place[v] /\ plan'[v] = plan[v]
    BY <1>6 DEF DeadLetter, Bury, Goto
  <1>7. ASSUME NEW o \in Outcomes, Repush(w, o)
        PROVE  Others(w) /\ \A v \in Workers : v # w => place'[v] = place[v] /\ plan'[v] = plan[v]
    BY <1>7 DEF Repush, Push, RetryQueue, Goto
  <1>8. ASSUME NEW o \in Outcomes, SaveResult(w, o)
        PROVE  Others(w) /\ \A v \in Workers : v # w => place'[v] = place[v] /\ plan'[v] = plan[v]
    BY <1>8 DEF SaveResult
  <1>9. CASE Infer(w)
    BY <1>9 DEF Infer, Goto
  <1>10. CASE FinishBatch(w) \/ Restart(w) \/ WorkerCrash(w)
    BY <1>10 DEF FinishBatch, Restart, WorkerCrash, StartOver, Goto
  <1> QED BY <1>1, <1>2, <1>3, <1>4, <1>5, <1>6, <1>7, <1>8, <1>9, <1>10 DEF WorkerStep

-----------------------------------------------------------------------------
(* Conservation: a worker step makes no job up, and it loses none without   *)
(* a failed command, which loses one, or a kill, which loses its memory.    *)

Decided(j) == HasResult(j) \/ Buried(j)

Conserves(w) ==
  /\ Share(w)' \subseteq Share(w)
  /\ \/ /\ faults' >= faults /\ crashes' = crashes
        /\ \A j \in Share(w) : j \in Share(w)' \/ Decided(j)'
     \/ /\ faults' = faults + 1 /\ crashes' = crashes
        /\ \E e \in Jobs : \A j \in Share(w) : j = e \/ j \in Share(w)' \/ Decided(j)'
     \/ /\ faults' = faults /\ crashes' = crashes + 1
        /\ \A j \in Share(w) : j \in Contents(w) \/ j \in Share(w)'

\* A command counts as a fault unless it is answered.
LEMMA FaultOrNot ==
  ASSUME Typed, NEW o \in Outcomes, Redis(o)
  PROVE  /\ faults' >= faults /\ faults \in Nat
         /\ o # "ok" => faults' = faults + 1
  BY PipelineAssumption DEF Redis, Typed

\* Steps that leave the lists of the worker and its queue as they are.
LEMMA StillConserves ==
  ASSUME Typed, NEW w \in Workers,
         \/ \E o \in ReadOutcomes :
              ReadVipDepth(w, o) \/ ReadFreeDepth(w, o) \/ UpdateQueueDepthMetric(w, o)
         \/ FlushFull(w) \/ FlushTimeout(w) \/ FlushEmpty(w)
         \/ \E o \in Outcomes : Bury(w, o)
         \/ FinishBatch(w) \/ Restart(w)
  PROVE  Conserves(w)
  <1>1. faults \in Nat
    BY PipelineAssumption DEF Typed
  <1>2. faults' >= faults
    BY <1>1, FaultOrNot DEF ReadVipDepth, ReadFreeDepth, UpdateQueueDepthMetric, FlushFull,
       FlushTimeout, FlushEmpty, Bury, FinishBatch, Restart, ReadOutcomes, Outcomes
  <1>3. UNCHANGED <<queue, batch, hand, tail, unsaved, crashes>>
    BY DEF ReadVipDepth, ReadFreeDepth, UpdateQueueDepthMetric, FlushFull, FlushTimeout,
       FlushEmpty, Bury, FinishBatch, Restart, held
  <1>4. Share(w)' = Share(w)
    BY <1>3 DEF Share, Contents
  <1> QED BY <1>2, <1>3, <1>4 DEF Conserves

\* A popped job goes into the batch, or into the hand to be dead-lettered.
LEMMA PopConserves ==
  ASSUME Typed, Fits, NEW w \in Workers, PopKeep(w) \/ PopDrop(w)
  PROVE  Conserves(w)
  <1> DEFINE q == QueueOf(w)
             e == Head(queue[q])
  <1>1. /\ q \in Tiers /\ queue[q] \in Seq(Queueable) /\ queue[q] # << >>
        /\ batch[w] \in Seq(Fresh) /\ hand[w] \in Seq(Queueable)
        /\ queue' = [queue EXCEPT ![q] = Tail(@)] /\ queue \in [Tiers -> Seq(Queueable)]
    BY IdsAreJobs DEF Typed, PopKeep, PopDrop, Pop, Waiting
  <1>2. /\ Ids(queue[q]) = {e.id} \cup Ids(Tail(queue[q])) /\ e \in Queueable
    BY <1>1, IdsPopped
  <1>3. queue'[q] = Tail(queue[q])
    BY <1>1
  <1>4. faults' = faults /\ crashes' = crashes /\ faults \in Nat
    BY PipelineAssumption DEF PopKeep, PopDrop, Typed
  <1>5. Share(w)' = Share(w)
    <2>1. CASE PopKeep(w)
      <3>1. e \in Fresh
        BY <1>2, <2>1, JobSets DEF PopKeep, Retriable, Waiting
      <3>2. Ids(Append(batch[w], e)) = Ids(batch[w]) \cup {e.id}
        BY <1>1, <3>1, IdsPushed
      <3>3. /\ batch'[w] = Append(batch[w], e)
            /\ hand' = hand /\ tail' = tail /\ unsaved' = unsaved
        BY <2>1 DEF PopKeep, Waiting, Typed
      <3> HIDE DEF q, e
      <3> QED BY <1>2, <1>3, <3>2, <3>3 DEF Share, Contents, q
    <2>2. CASE PopDrop(w)
      <3>1. place[w] = "fetch" /\ Len(hand[w]) = 0
        BY <2>2 DEF PopDrop, Pop, Filling, At, Fits, FitsAt, SharesBatch
      <3>2. Ids(hand[w]) = {}
        BY <1>1, <3>1, NoneLeft, IdsOfNone
      <3>3. Ids(<<e>>) = {e.id}
        BY DEF Ids
      <3>4. hand'[w] = <<e>> /\ batch' = batch /\ tail' = tail /\ unsaved' = unsaved
        BY <2>2 DEF PopDrop, Waiting, Typed
      <3> HIDE DEF q, e
      <3> QED BY <1>2, <1>3, <3>2, <3>3, <3>4 DEF Share, Contents, q
    <2> QED BY <2>1, <2>2
  <1> QED BY <1>4, <1>5 DEF Conserves

\* A pop whose reply is lost loses the job it removed.
LEMMA PopFailsConserves ==
  ASSUME Typed, NEW w \in Workers, NEW o \in Outcomes, PopFails(w, o)
  PROVE  Conserves(w)
  <1> DEFINE q == QueueOf(w)
  <1>1. faults' = faults + 1 /\ faults \in Nat /\ crashes' = crashes
        /\ batch' = batch /\ hand' = hand /\ tail' = tail /\ unsaved' = unsaved
    BY FaultOrNot DEF PopFails, held
  <1>2. q \in Tiers /\ queue[q] \in Seq(Queueable) /\ Ids(queue[q]) \subseteq Jobs
    BY IdsAreJobs DEF Typed
  <1>3. CASE Executed(o) /\ queue[q] # << >>
    <2>1. queue'[q] = Tail(queue[q])
      BY <1>2, <1>3 DEF PopFails, Waiting, Typed
    <2>2. Ids(queue[q]) = {Head(queue[q]).id} \cup Ids(queue'[q])
      BY <1>2, <1>3, <2>1, IdsPopped
    <2> DEFINE e == Head(queue[q]).id
    <2>3. e \in Jobs
      BY <1>2, <2>2
    <2>4. Share(w) = Share(w)' \cup {e}
      BY <1>1, <2>2 DEF Share, Contents
    <2> HIDE DEF q, e
    <2> QED BY <1>1, <2>3, <2>4 DEF Conserves
  <1>4. CASE ~(Executed(o) /\ queue[q] # << >>)
    <2>1. queue' = queue
      BY <1>4 DEF PopFails, Waiting
    <2>2. Share(w)' = Share(w)
      BY <1>1, <2>1 DEF Share, Contents
    <2> QED BY <1>1, <2>2 DEF Conserves
  <1> QED BY <1>3, <1>4

\* A dropped job is buried, or lost when the command is refused.
LEMMA DeadLetterConserves ==
  ASSUME Typed, Equipped, Fits, NEW w \in Workers, NEW o \in Outcomes, DeadLetter(w, o)
  PROVE  Conserves(w)
  <1>1. /\ hand[w] \in Seq(Queueable) /\ hand[w] # << >> /\ Len(hand[w]) = 1
        /\ place[w] = "drop"
    BY DEF DeadLetter, At, Typed, Equipped, Fits, FitsAt, SharesBatch
  <1>2. Ids(hand[w]) = {Head(hand[w]).id} /\ Head(hand[w]).id \in Jobs
    <2>1. /\ Ids(hand[w]) = {Head(hand[w]).id} \cup Ids(Tail(hand[w]))
          /\ Head(hand[w]) \in Queueable
          /\ Tail(hand[w]) \in Seq(Queueable) /\ Len(Tail(hand[w])) = 0
      BY <1>1, IdsPopped
    <2>2. Ids(Tail(hand[w])) = {}
      BY <2>1, NoneLeft, IdsOfNone
    <2> QED BY <2>1, <2>2, JobSets
  <1>3. PICK e \in Jobs : e = Head(hand[w]).id
    BY <1>2
  <1>4. hand'[w] = << >> /\ batch' = batch /\ tail' = tail /\ unsaved' = unsaved
        /\ queue' = queue /\ crashes' = crashes
    BY DEF DeadLetter, Typed
  <1>5. faults' >= faults /\ (o # "ok" => faults' = faults + 1)
    BY FaultOrNot DEF DeadLetter
  <1>6. o = "ok" => Decided(e)'
    <2> SUFFICES ASSUME o = "ok" PROVE dlq'[e] > 0
      BY DEF Decided, Buried
    <2>1. dlq' = [dlq EXCEPT ![e] = @ + 1]
      BY <1>3 DEF DeadLetter, PushDlq, Executed
    <2> QED BY <2>1 DEF Typed
  <1>7. Share(w) = Share(w)' \cup {e}
    BY <1>2, <1>3, <1>4, IdsOfNone DEF Share, Contents
  <1>8. CASE o = "ok"
    BY <1>4, <1>5, <1>6, <1>7, <1>8 DEF Conserves
  <1>9. CASE o # "ok"
    BY <1>4, <1>5, <1>7, <1>9 DEF Conserves
  <1> QED BY <1>8, <1>9

\* The jobs of the batch are those with a result and those left over.
LEMMA InferKeeps ==
  ASSUME Typed, Fits, NEW w \in Workers, Infer(w)
  PROVE  Contents(w)' = Contents(w)
  <1>1. batch[w] \in Seq(Fresh) /\ place[w] = "infer"
    BY DEF Typed, Infer, At
  <1>2. Ids(tail[w]) = {} /\ Ids(unsaved[w]) = {}
    <2>1. tail[w] \in Seq(Fresh) /\ Len(tail[w]) = 0 /\ unsaved[w] \in Seq(Pair) /\ Len(unsaved[w]) = 0
      BY <1>1 DEF Typed, Fits, FitsAt, SharesBatch
    <2> QED BY <2>1, NoneLeft, IdsOfNone
  <1>3. PICK n \in 0..Len(batch[w]) : \E pick \in Picks(n, Len(batch[w])) :
          /\ unsaved' = [unsaved EXCEPT ![w] =
               [i \in 1..n |-> [id |-> batch[w][i].id, of |-> batch[w][pick[i]].id]]]
          /\ tail' = [tail EXCEPT ![w] = SubSeq(batch[w], n + 1, Len(batch[w]))]
    BY DEF Infer, Failed
  <1>4. PICK pick \in Picks(n, Len(batch[w])) :
          unsaved' = [unsaved EXCEPT ![w] =
            [i \in 1..n |-> [id |-> batch[w][i].id, of |-> batch[w][pick[i]].id]]]
    BY <1>3
  <1>5. /\ Len(batch[w]) \in Nat /\ DOMAIN batch[w] = 1..Len(batch[w])
        /\ n \in Nat /\ n <= Len(batch[w])
    BY <1>1
  <1> DEFINE r == SubSeq(batch[w], n + 1, Len(batch[w]))
             u == [i \in 1..n |-> [id |-> batch[w][i].id, of |-> batch[w][pick[i]].id]]
  <1>6. /\ DOMAIN r = 1..(Len(batch[w]) - n)
        /\ \A i \in 1..(Len(batch[w]) - n) : r[i] = batch[w][i + n] /\ i + n \in DOMAIN batch[w]
    BY <1>1, Suffix
  <1>7. Ids(u) = {batch[w][i].id : i \in 1..n}
    BY DEF Ids
  <1>8. tail'[w] = r /\ unsaved'[w] = u
    BY <1>3, <1>4 DEF Typed
  <1>9. /\ batch'[w] = << >> /\ queue' = queue /\ hand' = hand
        /\ faults' = faults /\ crashes' = crashes /\ faults \in Nat
    BY PipelineAssumption DEF Infer, Typed
  <1> HIDE DEF r, u
  <1>10. Ids(r) \cup Ids(u) = Ids(batch[w])
    <2>1. Ids(r) \subseteq Ids(batch[w])
      BY <1>6 DEF Ids
    <2>2. Ids(u) \subseteq Ids(batch[w])
      <3>1. 1..n \subseteq DOMAIN batch[w]
        BY <1>5
      <3> QED BY <1>7, <3>1 DEF Ids
    <2>3. ASSUME NEW i \in DOMAIN batch[w] PROVE batch[w][i].id \in Ids(r) \cup Ids(u)
      <3>1. CASE i <= n
        BY <1>5, <1>7, <3>1
      <3>2. CASE ~(i <= n)
        <4>1. i - n \in DOMAIN r /\ (i - n) + n = i
          BY <1>5, <1>6, <3>2
        <4>2. r[i - n].id \in Ids(r) /\ r[i - n] = batch[w][i]
          BY <1>6, <4>1 DEF Ids
        <4> QED BY <4>2
      <3> QED BY <3>1, <3>2
    <2> QED BY <2>1, <2>2, <2>3 DEF Ids
  <1> QED BY <1>2, <1>8, <1>9, <1>10, IdsOfNone DEF Contents

\* Pairing results with jobs keeps the jobs of the batch.
LEMMA InferConserves ==
  ASSUME Typed, Fits, NEW w \in Workers, Infer(w)
  PROVE  Conserves(w)
  <1>1. queue' = queue /\ faults' = faults /\ crashes' = crashes /\ faults \in Nat
    BY PipelineAssumption DEF Infer, Typed
  <1>2. Share(w)' = Share(w)
    BY <1>1, InferKeeps DEF Share
  <1> QED BY <1>1, <1>2 DEF Conserves

\* A retry goes back to the worker's queue, or is lost when the push is refused.
LEMMA RepushConserves ==
  ASSUME Typed, Equipped, NEW w \in Workers, NEW o \in Outcomes, Repush(w, o)
  PROVE  Conserves(w)
  <1> DEFINE q == QueueOf(w)
             e == Head(tail[w]).id
             job == [id |-> e, retry |-> Head(tail[w]).retry + 1]
  <1>1. /\ tail[w] \in Seq(Fresh) /\ tail[w] # << >> /\ q \in Tiers
        /\ queue[q] \in Seq(Queueable) /\ queue \in [Tiers -> Seq(Queueable)]
    BY IdsAreJobs DEF Repush, At, Equipped, Typed
  <1>2. /\ Ids(tail[w]) = {e} \cup Ids(Tail(tail[w])) /\ Head(tail[w]) \in Fresh
    BY <1>1, IdsPopped
  <1>3. e \in Jobs /\ job \in Queueable
    BY <1>2, JobSets
  <1>4. /\ tail'[w] = Tail(tail[w]) /\ batch' = batch /\ hand' = hand /\ unsaved' = unsaved
        /\ crashes' = crashes
    BY DEF Repush, Unpushed, Typed
  <1>5. faults' >= faults /\ (o # "ok" => faults' = faults + 1)
    BY FaultOrNot DEF Repush
  <1>6. CASE Executed(o)
    <2>1. queue' = [queue EXCEPT ![q] = Append(@, job)]
      BY <1>6 DEF Repush, Push, RetryQueue
    <2>2. Ids(queue'[q]) = Ids(queue[q]) \cup {e}
      <3>1. job.id = e
        OBVIOUS
      <3> HIDE DEF job, e, q
      <3> QED BY <1>1, <1>3, <2>1, <3>1, IdsPushed
    <2>3. Share(w)' = Share(w)
      <3> HIDE DEF e
      <3> QED BY <1>2, <1>4, <2>2 DEF Share, Contents
    <2> QED BY <1>4, <1>5, <2>3 DEF Conserves
  <1>7. CASE ~Executed(o)
    <2>1. queue' = queue /\ o # "ok"
      BY <1>7 DEF Repush, Push, Executed
    <2>2. Share(w) = Share(w)' \cup {e}
      <3> HIDE DEF e
      <3> QED BY <1>2, <1>4, <2>1 DEF Share, Contents
    <2> HIDE DEF e
    <2> QED BY <1>3, <1>4, <1>5, <2>1, <2>2 DEF Conserves
  <1> QED BY <1>6, <1>7

\* A result is stored, or lost with its job when the command is refused.
LEMMA SaveConserves ==
  ASSUME Typed, NEW w \in Workers, NEW o \in Outcomes, SaveResult(w, o)
  PROVE  Conserves(w)
  <1>1. unsaved[w] \in Seq(Pair) /\ unsaved[w] # << >>
    BY DEF SaveResult, Typed
  <1>2. /\ Ids(unsaved[w]) = {Head(unsaved[w]).id} \cup Ids(Tail(unsaved[w]))
        /\ Head(unsaved[w]) \in Pair
    BY <1>1, IdsPopped
  <1>3. PICK p \in Pair : p = Head(unsaved[w]) /\ p.id \in Jobs /\ p.of \in Jobs
    BY <1>2, JobSets
  <1>4. /\ unsaved'[w] = Tail(unsaved[w]) /\ batch' = batch /\ hand' = hand /\ tail' = tail
        /\ queue' = queue /\ crashes' = crashes
    BY DEF SaveResult, Typed
  <1>5. faults' >= faults /\ (o # "ok" => faults' = faults + 1)
    BY FaultOrNot DEF SaveResult
  <1>6. o = "ok" => Decided(p.id)'
    <2> SUFFICES ASSUME o = "ok" PROVE result'[p.id] # NoJob
      BY DEF Decided, HasResult
    <2>1. result' = [result EXCEPT ![p.id] = p.of]
      BY <1>3 DEF SaveResult, Executed, Value
    <2> QED BY <1>3, <2>1, PipelineAssumption DEF Typed
  <1>7. Share(w) = Share(w)' \cup {p.id}
    BY <1>2, <1>3, <1>4 DEF Share, Contents
  <1>8. CASE o = "ok"
    BY <1>4, <1>5, <1>6, <1>7, <1>8 DEF Conserves
  <1>9. CASE o # "ok"
    BY <1>3, <1>4, <1>5, <1>7, <1>9 DEF Conserves
  <1> QED BY <1>8, <1>9

\* A killed worker loses its memory.
LEMMA CrashConserves ==
  ASSUME Typed, NEW w \in Workers, WorkerCrash(w)
  PROVE  Conserves(w)
  <1>1. /\ batch'[w] = << >> /\ hand'[w] = << >> /\ tail'[w] = << >> /\ unsaved'[w] = << >>
        /\ queue' = queue /\ faults' = faults /\ crashes' = crashes + 1
    BY DEF WorkerCrash, Typed
  <1>2. Contents(w)' = {} /\ Share(w)' = Ids(queue[QueueOf(w)])
    BY <1>1, IdsOfNone DEF Share, Contents
  <1> QED BY <1>1, <1>2 DEF Conserves, Share

\* Every step of a worker keeps its share, decides a job, or loses as many as the
\* failure or the kill accounts for.
LEMMA WorkerConserves ==
  ASSUME Typed, Equipped, Fits, NEW w \in Workers, WorkerStep(w) \/ WorkerCrash(w)
  PROVE  Conserves(w)
  BY StillConserves, PopConserves, PopFailsConserves, DeadLetterConserves, InferConserves,
     RepushConserves, SaveConserves, CrashConserves DEF WorkerStep

-----------------------------------------------------------------------------
(* A worker's memory fits in one batch.                                     *)

\* Nobody holds anything.
LEMMA InitFits == Init => Fits
  <1>1. MaxBatchSize \in Nat /\ Len(<< >>) = 0
    BY TablesTyped, Empty
  <1> QED BY <1>1 DEF Init, Fits, FitsAt, SharesBatch, NoPlan

\* The lengths of a worker's lists.
Measured(w) ==
  /\ Len(batch[w]) \in Nat /\ Len(hand[w]) \in Nat /\ Len(tail[w]) \in Nat
  /\ Len(unsaved[w]) \in Nat /\ plan[w].size \in Nat /\ MaxBatchSize \in Nat
  /\ batch[w] = << >> => Len(batch[w]) = 0
  /\ unsaved[w] = << >> => Len(unsaved[w]) = 0

\* The lengths of what a worker holds are numbers.
LEMMA Lengths == ASSUME Typed PROVE \A w \in Workers : Measured(w)
  <1> SUFFICES ASSUME NEW w \in Workers PROVE Measured(w)
    OBVIOUS
  <1>1. /\ batch[w] \in Seq(Fresh) /\ hand[w] \in Seq(Queueable) /\ tail[w] \in Seq(Fresh)
        /\ unsaved[w] \in Seq(Pair) /\ plan[w] \in Plans
    BY DEF Typed
  <1> QED BY <1>1, NoneLeft, TablesTyped DEF Plans, Measured

\* A plan is within the tables.
LEMMA PlanFits ==
  ASSUME Typed, NEW w \in Workers, FitsAt(w), NEW o \in ReadOutcomes,
         ReadVipDepth(w, o) \/ ReadFreeDepth(w, o) \/ UpdateQueueDepthMetric(w, o)
  PROVE  FitsAt(w)'
  <1>1. batch' = batch /\ hand' = hand /\ tail' = tail /\ unsaved' = unsaved
    BY DEF ReadVipDepth, ReadFreeDepth, UpdateQueueDepthMetric, held
  <1>2. /\ place[w] \in {"vipDepth", "freeDepth", "metric"}
        /\ place'[w] \in {"freeDepth", "metric", "fetch", "down"}
    BY DEF ReadVipDepth, ReadFreeDepth, UpdateQueueDepthMetric, At, Goto, Typed
  <1>3. plan'[w].size \in 0..MaxBatchSize
    <2>1. Depth("VIP", o) \in Nat \cup {NoDepth} /\ Depth("FREE", o) \in Nat \cup {NoDepth}
      BY LenProperties DEF Depth, Typed, Tiers
    <2>2. plan[w].size \in Nat /\ plan[w].ratio \in 0..10 /\ MaxBatchSize \in Nat
      BY TablesTyped DEF Typed, Plans
    <2>3. CASE ReadVipDepth(w, o)
      <3>1. GetVipBatchConfig(Depth("VIP", o)) \in [size : 0..MaxBatchSize, ratio : 0..10]
        BY <2>1, VipPlan
      <3>2. plan'[w] = GetVipBatchConfig(Depth("VIP", o))
        BY <2>3 DEF ReadVipDepth, Typed
      <3> QED BY <2>2, <3>1, <3>2
    <2>4. CASE ReadFreeDepth(w, o)
      <3>1. GetFreeBatchConfig(Depth("FREE", o), plan[w].ratio) \in 0..MaxBatchSize
        BY <2>1, <2>2, FreePlan
      <3>2. plan'[w].size = IF w \in VipWorkers THEN plan[w].size
                            ELSE GetFreeBatchConfig(Depth("FREE", o), plan[w].ratio)
        BY <2>4 DEF ReadFreeDepth, Typed
      <3> QED BY <2>2, <3>1, <3>2 DEF FitsAt, SharesBatch
    <2>5. CASE UpdateQueueDepthMetric(w, o)
      BY <2>2, <2>5 DEF UpdateQueueDepthMetric, Typed, NoPlan, FitsAt
    <2> QED BY <2>3, <2>4, <2>5
  <1>4. SharesBatch(w)'
    BY <1>1 DEF FitsAt, SharesBatch
  <1> QED BY <1>1, <1>2, <1>3, <1>4 DEF FitsAt

\* Ending a fetch leaves an empty memory, or a batch for the model.
LEMMA FlushFits ==
  ASSUME Typed, NEW w \in Workers, FitsAt(w), At(w, "fetch"), Flush(w), UNCHANGED held
  PROVE  FitsAt(w)'
  <1>m. /\ Len(batch[w]) \in Nat /\ plan[w].size \in Nat /\ MaxBatchSize \in Nat
        /\ batch[w] = << >> => Len(batch[w]) = 0
    BY Lengths, Empty DEF Measured
  <1>1. /\ place[w] = "fetch"
        /\ batch' = batch /\ hand' = hand /\ tail' = tail /\ unsaved' = unsaved
    BY DEF At, held
  <1>2. CASE batch[w] = << >>
    <2>1. place'[w] = "vipDepth" /\ plan'[w] = NoPlan
      BY <1>2 DEF Flush, StartOver, Goto, Typed
    <2>2. SharesBatch(w)'
      BY <1>1 DEF FitsAt, SharesBatch
    <2> QED BY <1>1, <1>2, <2>1, <2>2, <1>m DEF FitsAt, NoPlan
  <1>3. CASE batch[w] # << >>
    <2>1. place'[w] = "infer" /\ plan' = plan
      BY <1>3 DEF Flush, Goto, Typed
    <2>2. SharesBatch(w)'
      BY <1>1 DEF FitsAt, SharesBatch
    <2> QED BY <1>1, <2>1, <2>2, <1>m DEF FitsAt
  <1> QED BY <1>2, <1>3

\* A pop is made only while the batch is smaller than the plan.
LEMMA FetchFits ==
  ASSUME Typed, NEW w \in Workers, FitsAt(w),
         \/ FlushFull(w) \/ FlushTimeout(w) \/ FlushEmpty(w)
         \/ PopKeep(w) \/ PopDrop(w)
         \/ \E o \in Outcomes : PopFails(w, o)
  PROVE  FitsAt(w)'
  <1>m. Len(batch[w]) \in Nat /\ plan[w].size \in Nat
    BY Lengths, Empty DEF Measured
  <1>1. CASE FlushFull(w) \/ FlushTimeout(w) \/ FlushEmpty(w) \/ \E o \in Outcomes : PopFails(w, o)
    BY <1>1, FlushFits DEF FlushFull, FlushTimeout, FlushEmpty, PopFails, Filling
  <1>2. CASE PopKeep(w)
    <2>1. /\ place[w] = "fetch" /\ place'[w] = "fetch" /\ plan' = plan
          /\ Len(batch[w]) < plan[w].size
          /\ hand' = hand /\ tail' = tail /\ unsaved' = unsaved
          /\ batch'[w] = Append(batch[w], Head(queue[QueueOf(w)]))
      BY <1>2 DEF PopKeep, Pop, Filling, At, Waiting, Typed
    <2>2. Len(batch'[w]) = Len(batch[w]) + 1
      <3>1. Head(queue[QueueOf(w)]) \in Queueable
        BY <1>2, IdsAreJobs, Popped DEF PopKeep, Pop, Waiting, Typed
      <3>2. Head(queue[QueueOf(w)]) \in Fresh /\ batch[w] \in Seq(Fresh)
        BY <1>2, <3>1, JobSets DEF PopKeep, Retriable, Waiting, Typed
      <3> QED BY <2>1, <3>2, IdsPushed
    <2>3. SharesBatch(w)'
      BY <2>1 DEF FitsAt, SharesBatch
    <2> QED BY <2>1, <2>2, <2>3, <1>m DEF FitsAt
  <1>3. CASE PopDrop(w)
    <2>1. /\ place[w] = "fetch" /\ place'[w] = "drop" /\ plan' = plan
          /\ Len(batch[w]) < plan[w].size
          /\ batch' = batch /\ tail' = tail /\ unsaved' = unsaved
          /\ hand'[w] = <<Head(queue[QueueOf(w)])>>
      BY <1>3 DEF PopDrop, Pop, Filling, At, Waiting, Goto, Typed
    <2>2. Len(hand'[w]) = 1
      BY <2>1
    <2>3. SharesBatch(w)'
      BY <2>1 DEF FitsAt, SharesBatch
    <2> QED BY <2>1, <2>2, <2>3, <1>m DEF FitsAt
  <1> QED BY <1>1, <1>2, <1>3

\* A hand is emptied.
LEMMA DropFits ==
  ASSUME Typed, NEW w \in Workers, FitsAt(w), NEW o \in Outcomes, DeadLetter(w, o)
  PROVE  FitsAt(w)'
  <1>m. Len(batch[w]) \in Nat /\ plan[w].size \in Nat /\ Len(<< >>) = 0
    BY Lengths, Empty DEF Measured
  <1>1. /\ place[w] = "drop" /\ place'[w] = "fetch" /\ plan' = plan
        /\ batch' = batch /\ tail' = tail /\ unsaved' = unsaved /\ hand'[w] = << >>
    BY DEF DeadLetter, At, Goto, Typed
  <1>2. SharesBatch(w)'
    BY <1>1 DEF FitsAt, SharesBatch
  <1> QED BY <1>1, <1>m, <1>2 DEF FitsAt

\* Results and retries divide the batch.
LEMMA InferFits ==
  ASSUME Typed, NEW w \in Workers, FitsAt(w), Infer(w)
  PROVE  FitsAt(w)'
  <1>m. Len(<< >>) = 0 /\ MaxBatchSize \in Nat
    BY Lengths, Empty DEF Measured
  <1>1. batch[w] \in Seq(Fresh) /\ place[w] = "infer"
    BY DEF Typed, Infer, At
  <1>2. PICK n \in 0..Len(batch[w]) : \E pick \in Picks(n, Len(batch[w])) :
          /\ unsaved' = [unsaved EXCEPT ![w] =
               [i \in 1..n |-> [id |-> batch[w][i].id, of |-> batch[w][pick[i]].id]]]
          /\ tail' = [tail EXCEPT ![w] = SubSeq(batch[w], n + 1, Len(batch[w]))]
          /\ Goto(w, IF SubSeq(batch[w], n + 1, Len(batch[w])) # << >> THEN "requeue" ELSE "save")
    BY DEF Infer, Failed
  <1>3. PICK pick \in Picks(n, Len(batch[w])) :
          unsaved' = [unsaved EXCEPT ![w] =
            [i \in 1..n |-> [id |-> batch[w][i].id, of |-> batch[w][pick[i]].id]]]
    BY <1>2
  <1> DEFINE r == SubSeq(batch[w], n + 1, Len(batch[w]))
             u == [i \in 1..n |-> [id |-> batch[w][i].id, of |-> batch[w][pick[i]].id]]
  <1>4. Len(batch[w]) \in Nat /\ n \in Nat /\ n <= Len(batch[w])
    BY <1>1
  <1>5. r \in Seq(Fresh) /\ DOMAIN r = 1..(Len(batch[w]) - n)
    BY <1>1, Suffix
  <1>6. Len(r) = Len(batch[w]) - n
    <2> HIDE DEF r
    <2>1. Len(r) \in Nat /\ DOMAIN r = 1..Len(r) /\ Len(batch[w]) - n \in Nat
      BY <1>4, <1>5, LenProperties
    <2> QED BY <1>5, <2>1
  <1>7. Len(u) = n
    BY <1>4
  <1>8. tail'[w] = r /\ unsaved'[w] = u /\ place'[w] = IF r # << >> THEN "requeue" ELSE "save"
    BY <1>2, <1>3 DEF Goto, Typed
  <1>9. r = << >> => Len(r) = 0
    BY <1>5, NoneLeft
  <1>10. batch'[w] = << >> /\ hand' = hand /\ plan' = plan
    BY DEF Infer, Typed
  <1> HIDE DEF r, u
  <1> QED BY <1>1, <1>4, <1>6, <1>7, <1>8, <1>9, <1>10, <1>m DEF FitsAt, SharesBatch

\* A retry leaves the tail.
LEMMA RequeueFits ==
  ASSUME Typed, Equipped, NEW w \in Workers, FitsAt(w), NEW o \in Outcomes,
         Bury(w, o) \/ Repush(w, o)
  PROVE  FitsAt(w)'
  <1>m. Len(tail[w]) \in Nat /\ Len(unsaved[w]) \in Nat /\ MaxBatchSize \in Nat
    BY Lengths, Empty DEF Measured
  <1>1. tail[w] \in Seq(Fresh) /\ tail[w] # << >> /\ place[w] \in {"requeue", "repush"}
    BY DEF Bury, Repush, At, Equipped, Typed
  <1>2. CASE Bury(w, o)
    <2>1. /\ place'[w] = "repush" /\ plan' = plan
          /\ batch' = batch /\ hand' = hand /\ tail' = tail /\ unsaved' = unsaved
      BY <1>2 DEF Bury, Goto, Typed, held
    <2> QED BY <1>1, <2>1 DEF FitsAt, SharesBatch
  <1>3. CASE Repush(w, o)
    <2>1. /\ place'[w] = IF Tail(tail[w]) = << >> THEN "save" ELSE "requeue"
          /\ plan' = plan /\ batch' = batch /\ hand' = hand /\ unsaved' = unsaved
          /\ tail'[w] = Tail(tail[w])
      BY <1>3 DEF Repush, Unpushed, Goto, Typed
    <2>2. /\ Len(Tail(tail[w])) = Len(tail[w]) - 1 /\ Tail(tail[w]) \in Seq(Fresh)
          /\ Len(tail[w]) \in Nat
      BY <1>1, IdsPopped
    <2>3. Tail(tail[w]) = << >> => Len(Tail(tail[w])) = 0
      BY <2>2, NoneLeft
    <2>4. SharesBatch(w)'
      <3>1. Len(tail'[w]) = Len(tail[w]) - 1 /\ Len(unsaved'[w]) = Len(unsaved[w])
        BY <2>1, <2>2
      <3>2. Len(tail[w]) + Len(unsaved[w]) <= MaxBatchSize
        BY DEF FitsAt, SharesBatch
      <3>3. \A x, y, m \in Nat : x + y <= m => (x - 1) + y <= m
        OBVIOUS
      <3>4. (Len(tail[w]) - 1) + Len(unsaved[w]) <= MaxBatchSize
        BY <3>2, <3>3, <1>m
      <3> QED BY <3>1, <3>4 DEF SharesBatch
    <2> QED BY <1>1, <2>1, <2>2, <2>3, <2>4 DEF FitsAt
  <1> QED BY <1>2, <1>3

\* A save leaves the unsaved results.
LEMMA SaveFits ==
  ASSUME Typed, NEW w \in Workers, FitsAt(w), NEW o \in Outcomes, SaveResult(w, o)
  PROVE  FitsAt(w)'
  <1>m. Len(tail[w]) \in Nat /\ Len(unsaved[w]) \in Nat /\ MaxBatchSize \in Nat
    BY Lengths, Empty DEF Measured
  <1>1. /\ place[w] = "save" /\ place' = place /\ plan' = plan
        /\ batch' = batch /\ hand' = hand /\ tail' = tail
        /\ unsaved[w] \in Seq(Pair) /\ unsaved[w] # << >> /\ unsaved'[w] = Tail(unsaved[w])
    BY DEF SaveResult, At, Typed
  <1>2. Len(Tail(unsaved[w])) = Len(unsaved[w]) - 1
    BY <1>1, IdsPopped
  <1>3. SharesBatch(w)'
    <2>1. Len(unsaved'[w]) = Len(unsaved[w]) - 1 /\ Len(tail'[w]) = Len(tail[w])
      BY <1>1, <1>2
    <2>2. Len(tail[w]) + Len(unsaved[w]) <= MaxBatchSize
      BY DEF FitsAt, SharesBatch
    <2>3. \A x, y, m \in Nat : x + y <= m => x + (y - 1) <= m
      OBVIOUS
    <2>4. Len(tail[w]) + (Len(unsaved[w]) - 1) <= MaxBatchSize
      BY <2>2, <2>3, <1>m
    <2> QED BY <2>1, <2>4 DEF SharesBatch
  <1> QED BY <1>1, <1>2, <1>3, <1>m DEF FitsAt

\* A worker that goes on, ends or starts holds nothing.
LEMMA RestartFits ==
  ASSUME Typed, NEW w \in Workers, FitsAt(w), FinishBatch(w) \/ WorkerCrash(w) \/ Restart(w)
  PROVE  FitsAt(w)'
  <1>m. unsaved[w] = << >> => Len(unsaved[w]) = 0
    BY Lengths, Empty DEF Measured
  <1>1. MaxBatchSize \in Nat /\ Len(<< >>) = 0
    BY TablesTyped, Empty
  <1>2. CASE FinishBatch(w)
    <2>1. /\ place[w] = "save" /\ unsaved[w] = << >> /\ place'[w] = "vipDepth" /\ plan'[w] = NoPlan
          /\ batch' = batch /\ hand' = hand /\ tail' = tail /\ unsaved' = unsaved
      BY <1>2 DEF FinishBatch, StartOver, Goto, At, held, Typed
    <2>2. SharesBatch(w)'
      BY <2>1 DEF FitsAt, SharesBatch
    <2> QED BY <1>1, <2>1, <2>2, <1>m DEF FitsAt, NoPlan
  <1>3. CASE WorkerCrash(w)
    <2>1. /\ place'[w] = "down" /\ plan'[w] = NoPlan
          /\ batch'[w] = << >> /\ hand'[w] = << >> /\ tail'[w] = << >> /\ unsaved'[w] = << >>
      BY <1>3 DEF WorkerCrash, Goto, Typed
    <2> QED BY <1>1, <2>1 DEF FitsAt, SharesBatch, NoPlan
  <1>4. CASE Restart(w)
    <2>1. /\ place[w] = "down" /\ place'[w] = "vipDepth" /\ plan' = plan
          /\ batch' = batch /\ hand' = hand /\ tail' = tail /\ unsaved' = unsaved
      BY <1>4 DEF Restart, Goto, At, held, Typed
    <2> QED BY <2>1 DEF FitsAt, SharesBatch
  <1> QED BY <1>2, <1>3, <1>4

\* Every step keeps each memory within one batch.
LEMMA StepFits ==
  ASSUME Typed, Equipped, Fits, [Next]_vars
  PROVE  Fits'
  <1>1. CASE UNCHANGED vars
    BY <1>1 DEF vars, Fits, FitsAt, SharesBatch
  <1>2. ASSUME NEW a \in Apis, ApiStep(a) \/ ApiCrash(a) PROVE Fits'
    <2>1. UNCHANGED <<place, plan, batch, hand, tail, unsaved>>
      BY <1>2 DEF ApiStep, Verify, Shed, VerifyFails, Enqueue, ApiCrash, workerVars
    <2> QED BY <2>1 DEF Fits, FitsAt, SharesBatch
  <1>3. ASSUME NEW w \in Workers, WorkerStep(w) \/ WorkerCrash(w) PROVE Fits'
    <2> SUFFICES ASSUME NEW v \in Workers PROVE FitsAt(v)'
      BY DEF Fits
    <2>1. FitsAt(v)
      BY DEF Fits
    <2>2. CASE v = w
      BY <1>3, <2>1, <2>2, PlanFits, FetchFits, DropFits, InferFits, RequeueFits, SaveFits,
         RestartFits DEF WorkerStep
    <2>3. CASE v # w
      <3>1. /\ place'[v] = place[v] /\ plan'[v] = plan[v] /\ batch'[v] = batch[v]
            /\ hand'[v] = hand[v] /\ tail'[v] = tail[v] /\ unsaved'[v] = unsaved[v]
        BY <1>3, <2>3, WorkerAlone DEF Others
      <3>2. SharesBatch(v)'
        BY <2>1, <3>1 DEF FitsAt, SharesBatch
      <3> QED BY <2>1, <3>1, <3>2 DEF FitsAt
    <2> QED BY <2>2, <2>3
  <1> QED BY <1>1, <1>2, <1>3 DEF Next

-----------------------------------------------------------------------------
(* Tiers.                                                                   *)

\* There is no job in any tier.
LEMMA InitTiered == Init => Tiered
  BY IdsOfNone, Empty DEF Init, Tiered, Contents, ResultWithinTier, HasResult

\* A pod pushes a job into the queue of its tier.
LEMMA ApiTiered ==
  ASSUME Typed, Tiered, NEW a \in Apis, ApiStep(a) \/ ApiCrash(a)
  PROVE  Tiered'
  <1>1. batch' = batch /\ hand' = hand /\ tail' = tail /\ unsaved' = unsaved /\ result' = result
    BY DEF ApiStep, Verify, Shed, VerifyFails, Enqueue, ApiCrash, workerVars
  <1>2. \A t \in Tiers : Ids(queue'[t]) \subseteq TierJobs(t)
    <2>1. CASE \E o \in Outcomes : Enqueue(a, o) /\ Executed(o)
      <3>1. admitting[a] \in Jobs /\ TierOf(admitting[a]) \in Tiers
        BY <2>1 DEF Enqueue, Typed, TierOf, Tiers
      <3>2. PICK job \in Queueable : job = [id |-> admitting[a], retry |-> 0]
        BY <3>1, JobSets
      <3>3. job.id = admitting[a] /\ job.id \in TierJobs(TierOf(admitting[a]))
        BY <3>1, <3>2 DEF TierJobs
      <3>4. queue' = [queue EXCEPT ![TierOf(admitting[a])] = Append(@, job)]
        BY <2>1, <3>2 DEF Enqueue, Push
      <3>5. Ids(Append(queue[TierOf(admitting[a])], job))
              = Ids(queue[TierOf(admitting[a])]) \cup {job.id}
        BY <3>1, IdsPushed DEF Typed
      <3> QED BY <3>1, <3>3, <3>4, <3>5 DEF Typed, Tiered
    <2>2. CASE ~\E o \in Outcomes : Enqueue(a, o) /\ Executed(o)
      <3>1. queue' = queue
        BY <2>2 DEF ApiStep, Verify, Shed, VerifyFails, Enqueue, ApiCrash, Push
      <3> QED BY <3>1 DEF Tiered
    <2> QED BY <2>1, <2>2
  <1> QED BY <1>1, <1>2 DEF Tiered, Contents, ResultWithinTier, HasResult

\* Results of a batch are from the batch, and a worker's queue, its memory and
\* the jobs it answers are of one tier.
LEMMA WorkerTiered ==
  ASSUME Typed, Equipped, Fits, Tiered, NEW w \in Workers, WorkerStep(w) \/ WorkerCrash(w)
  PROVE  Tiered'
  <1>1. /\ Others(w) /\ QueueOf(w) \in Tiers
        /\ Share(w)' \subseteq Share(w) /\ Share(w) \subseteq TierJobs(QueueOf(w))
    BY WorkerAlone, WorkerConserves, IdsAreJobs DEF Conserves, Share, Tiered
  <1>2. \A t \in Tiers : Ids(queue'[t]) \subseteq TierJobs(t)
    BY <1>1 DEF Tiered, Share, Others
  <1>3. \A v \in Workers : Contents(v)' \subseteq TierJobs(QueueOf(v))
    BY <1>1 DEF Tiered, Share, Others, Contents
  <1>4. CASE Infer(w)
    <2>1. batch[w] \in Seq(Fresh)
      BY DEF Typed
    <2>2. PICK n \in 0..Len(batch[w]) : \E pick \in Picks(n, Len(batch[w])) :
            unsaved' = [unsaved EXCEPT ![w] =
              [i \in 1..n |-> [id |-> batch[w][i].id, of |-> batch[w][pick[i]].id]]]
      BY <1>4 DEF Infer
    <2>3. PICK pick \in Picks(n, Len(batch[w])) :
            unsaved' = [unsaved EXCEPT ![w] =
              [i \in 1..n |-> [id |-> batch[w][i].id, of |-> batch[w][pick[i]].id]]]
      BY <2>2
    <2>4. ASSUME NEW i \in DOMAIN unsaved'[w] PROVE TierOf(unsaved'[w][i].of) = QueueOf(w)
      <3>1. i \in 1..n /\ unsaved'[w][i].of = batch[w][pick[i]].id
        BY <2>3 DEF Typed
      <3>2. pick[i] \in DOMAIN batch[w]
        BY <2>1, <3>1 DEF Picks
      <3>3. unsaved'[w][i].of \in Contents(w)
        BY <3>1, <3>2 DEF Contents, Ids
      <3> QED BY <3>3 DEF Tiered, TierJobs
    <2>5. result' = result
      BY <1>4 DEF Infer
    <2> QED BY <1>1, <1>2, <1>3, <2>4, <2>5 DEF Tiered, Others, ResultWithinTier, HasResult
  <1>5. ASSUME NEW o \in Outcomes, SaveResult(w, o) PROVE Tiered'
    <2>1. unsaved[w] \in Seq(Pair) /\ unsaved[w] # << >>
      BY <1>5 DEF SaveResult, Typed
    <2>2. /\ 1 \in DOMAIN unsaved[w] /\ Head(unsaved[w]) = unsaved[w][1]
          /\ Head(unsaved[w]) \in Pair
          /\ \A i \in DOMAIN Tail(unsaved[w]) :
               Tail(unsaved[w])[i] = unsaved[w][i + 1] /\ i + 1 \in DOMAIN unsaved[w]
      BY <2>1, Popped
    <2>3. PICK p \in Pair : p = Head(unsaved[w]) /\ p.id \in Jobs /\ p.of \in Jobs
      BY <2>2, JobSets
    <2>4. TierOf(p.of) = QueueOf(w) /\ TierOf(p.id) = QueueOf(w)
      <3>1. p.id \in Contents(w)
        BY <2>2, <2>3 DEF Contents, Ids
      <3> QED BY <2>2, <2>3, <3>1 DEF Tiered, TierJobs
    <2>5. unsaved'[w] = Tail(unsaved[w])
      BY <1>5 DEF SaveResult, Typed
    <2>6. \A i \in DOMAIN unsaved'[w] : TierOf(unsaved'[w][i].of) = QueueOf(w)
      BY <2>2, <2>5 DEF Tiered
    <2>7. result' = result \/ result' = [result EXCEPT ![p.id] = p.of]
      BY <1>5, <2>3 DEF SaveResult, Value
    <2>8. ResultWithinTier'
      BY <2>3, <2>4, <2>7 DEF Tiered, ResultWithinTier, HasResult, Typed
    <2> QED BY <1>1, <1>2, <1>3, <2>6, <2>8 DEF Tiered, Others
  <1>6. CASE WorkerCrash(w)
    <2>1. unsaved'[w] = << >> /\ result' = result
      BY <1>6 DEF WorkerCrash, Typed
    <2>2. DOMAIN unsaved'[w] = {}
      BY <2>1, Empty
    <2> QED BY <1>1, <1>2, <1>3, <2>1, <2>2 DEF Tiered, Others, ResultWithinTier, HasResult
  <1>7. CASE ~(Infer(w) \/ WorkerCrash(w) \/ \E o \in Outcomes : SaveResult(w, o))
    <2>1. unsaved' = unsaved /\ result' = result
      BY <1>7 DEF WorkerStep, ReadVipDepth, ReadFreeDepth, UpdateQueueDepthMetric, FlushFull,
         FlushTimeout, FlushEmpty, PopKeep, PopDrop, PopFails, DeadLetter, Bury, Repush,
         FinishBatch, Restart, held
    <2> QED BY <1>1, <1>2, <1>3, <2>1 DEF Tiered, ResultWithinTier, HasResult
  <1> QED BY <1>4, <1>5, <1>6, <1>7

\* Every step keeps jobs in their tier.
LEMMA StepTiered ==
  ASSUME Typed, Equipped, Fits, Tiered, [Next]_vars
  PROVE  Tiered'
  <1>1. CASE UNCHANGED vars
    BY <1>1 DEF vars, Tiered, Contents, ResultWithinTier, HasResult
  <1> QED BY <1>1, ApiTiered, WorkerTiered DEF Next

-----------------------------------------------------------------------------
(* The theorems on tiers and on the size of a batch.                        *)

\* The inductive invariant of places, sizes and tiers.
THEOREM PipelineBounded == Spec => [](Typed /\ Equipped /\ Exclusive /\ Fits /\ Tiered)
  <1>1. Init => Fits /\ Tiered
    BY InitFits, InitTiered
  <1>2. Typed /\ Equipped /\ Fits /\ Tiered /\ [Next]_vars => Fits' /\ Tiered'
    BY StepFits, StepTiered
  <1> QED BY <1>1, <1>2, PipelineInvariant, PTL DEF Spec

\* A VIP request is only ever answered from a VIP transaction and a FREE one from
\* a FREE one, even where process_batch pairs results with the wrong jobs
\* (batch.py:275).
THEOREM ResultsWithinTier == Spec => []ResultWithinTier
  <1>1. Tiered => ResultWithinTier
    BY DEF Tiered
  <1> QED BY <1>1, PipelineBounded, PTL

-----------------------------------------------------------------------------
(* How many jobs are lost.                                                  *)

\* As many numbers as counted.
LEMMA CountedUp ==
  ASSUME NEW n \in Nat
  PROVE  IsFiniteSet(1..n) /\ Cardinality(1..n) = n
  <1>1. 1 \in Int /\ n \in Int
    OBVIOUS
  <1>2. IsFiniteSet(1..n) /\ Cardinality(1..n) = IF 1 > n THEN 0 ELSE n - 1 + 1
    BY <1>1, FS_Interval, Zenon
  <1> QED BY <1>2

\* A list has no more jobs than entries.
LEMMA IdsCounted ==
  ASSUME NEW S, NEW s \in Seq(S)
  PROVE  IsFiniteSet(Ids(s)) /\ Cardinality(Ids(s)) \in Nat /\ Cardinality(Ids(s)) <= Len(s)
  <1> DEFINE f == [i \in 1..Len(s) |-> s[i].id]
  <1>1. Len(s) \in Nat /\ DOMAIN s = 1..Len(s)
    BY LenProperties
  <1>2. IsFiniteSet(1..Len(s)) /\ Cardinality(1..Len(s)) = Len(s)
    BY <1>1, CountedUp
  <1>3. f \in Surjection(1..Len(s), Ids(s))
    BY <1>1 DEF Surjection, Ids
  <1>4. IsFiniteSet(Ids(s)) /\ Cardinality(Ids(s)) <= Len(s)
    BY <1>2, <1>3, FS_Surjection
  <1> QED BY <1>4, FS_CardinalityType

\* A union has no more members than its parts together.
LEMMA UnionCounted ==
  ASSUME NEW S, NEW T, IsFiniteSet(S), IsFiniteSet(T), NEW m \in Nat, NEW n \in Nat,
         Cardinality(S) <= m, Cardinality(T) <= n
  PROVE  IsFiniteSet(S \cup T) /\ Cardinality(S \cup T) \in Nat /\ Cardinality(S \cup T) <= m + n
  <1>1. /\ IsFiniteSet(S \cup T)
        /\ Cardinality(S \cup T) = Cardinality(S) + Cardinality(T) - Cardinality(S \cap T)
    BY FS_Union
  <1>2. IsFiniteSet(S \cap T)
    BY FS_Intersection
  <1>3. /\ Cardinality(S) \in Nat /\ Cardinality(T) \in Nat /\ Cardinality(S \cap T) \in Nat
        /\ Cardinality(S \cup T) \in Nat
    BY <1>1, <1>2, FS_CardinalityType
  <1> QED BY <1>1, <1>3

\* What a worker has in memory is at most a batch.
LEMMA ContentsCounted ==
  ASSUME Typed, Fits, NEW w \in Workers
  PROVE  /\ IsFiniteSet(Contents(w)) /\ Cardinality(Contents(w)) \in Nat
         /\ Cardinality(Contents(w)) <= MaxBatchSize /\ MaxBatchSize \in Nat
  <1>1. /\ batch[w] \in Seq(Fresh) /\ hand[w] \in Seq(Queueable) /\ tail[w] \in Seq(Fresh)
        /\ unsaved[w] \in Seq(Pair)
    BY DEF Typed
  <1> DEFINE b == Len(batch[w])
             h == Len(hand[w])
             r == Len(tail[w])
             u == Len(unsaved[w])
  <1>2. b \in Nat /\ h \in Nat /\ r \in Nat /\ u \in Nat /\ plan[w].size \in Nat /\ MaxBatchSize \in Nat
    BY Lengths DEF Measured
  <1>3. (b + h) + (r + u) <= MaxBatchSize
    <2>1. r + u <= MaxBatchSize
      BY DEF Fits, FitsAt, SharesBatch
    <2>2. \/ b = 0 /\ h = 0
          \/ b + h <= MaxBatchSize /\ r = 0 /\ u = 0
      <3> HIDE DEF b, h, r, u
      <3>1. /\ plan[w].size <= MaxBatchSize
            /\ place[w] \notin {"fetch", "drop", "infer"} => b = 0
            /\ place[w] = "fetch" => b <= plan[w].size
            /\ place[w] = "drop" => b < plan[w].size
            /\ place[w] = "infer" => b <= MaxBatchSize
            /\ place[w] # "drop" => h = 0
            /\ place[w] = "drop" => h = 1
            /\ place[w] \notin {"requeue", "repush"} => r = 0
            /\ place[w] \notin {"requeue", "repush", "save"} => u = 0
        BY DEF Fits, FitsAt, b, h, r, u
      <3>2. CASE place[w] = "fetch"
        BY <1>2, <3>1, <3>2
      <3>3. CASE place[w] = "drop"
        BY <1>2, <3>1, <3>3
      <3>4. CASE place[w] = "infer"
        BY <1>2, <3>1, <3>4
      <3>5. CASE place[w] \notin {"fetch", "drop", "infer"}
        BY <1>2, <3>1, <3>5
      <3> QED BY <3>2, <3>3, <3>4, <3>5
    <2> HIDE DEF b, h, r, u
    <2> QED BY <1>2, <2>1, <2>2
  <1>4. IsFiniteSet(Ids(batch[w]) \cup Ids(hand[w])) /\ Cardinality(Ids(batch[w]) \cup Ids(hand[w])) <= b + h
    BY <1>1, <1>2, IdsCounted, UnionCounted
  <1>5. IsFiniteSet(Ids(tail[w]) \cup Ids(unsaved[w])) /\ Cardinality(Ids(tail[w]) \cup Ids(unsaved[w])) <= r + u
    BY <1>1, <1>2, IdsCounted, UnionCounted
  <1>6. Contents(w) = (Ids(batch[w]) \cup Ids(hand[w])) \cup (Ids(tail[w]) \cup Ids(unsaved[w]))
    BY DEF Contents
  <1> HIDE DEF b, h, r, u
  <1>7. b + h \in Nat /\ r + u \in Nat
    BY <1>2
  <1>8. /\ IsFiniteSet(Contents(w)) /\ Cardinality(Contents(w)) \in Nat
        /\ Cardinality(Contents(w)) <= (b + h) + (r + u)
    BY <1>4, <1>5, <1>6, <1>7, UnionCounted
  <1> QED BY <1>2, <1>3, <1>7, <1>8

\* A job is in the pipeline if a queue or a worker's memory has it.
LEMMA InFlightIs ==
  ASSUME NEW j
  PROVE  /\ InFlight(j) <=> (\E t \in Tiers : j \in Ids(queue[t])) \/ (\E v \in Workers : j \in Contents(v))
         /\ InFlight(j)' <=>
              (\E t \in Tiers : j \in Ids(queue'[t])) \/ (\E v \in Workers : j \in Contents(v)')
  BY DEF InFlight, Queued, HeldBy, Holds, Ids, Contents

-----------------------------------------------------------------------------
LostFew ==
  /\ IsFiniteSet(Lost)
  /\ LossIsBounded

\* Losing the members of a set to as many failures keeps the bound.
LEMMA LosesAtMost ==
  ASSUME Typed, LostFew, NEW X, IsFiniteSet(X), NEW k \in Nat, Cardinality(X) <= k,
         Lost' \subseteq Lost \cup X,
         faults' + MaxBatchSize * crashes' >= (faults + MaxBatchSize * crashes) + k,
         faults' \in Nat, crashes' \in Nat
  PROVE  LostFew'
  <1> DEFINE old == faults + MaxBatchSize * crashes
             new == faults' + MaxBatchSize * crashes'
  <1>1. MaxBatchSize \in Nat /\ faults \in Nat /\ crashes \in Nat
    BY TablesTyped, PipelineAssumption DEF Typed
  <1>2. old \in Nat /\ new \in Nat
    <2>1. \A x, y, z \in Nat : x + y * z \in Nat
      OBVIOUS
    <2> QED BY <1>1, <2>1
  <1>3. Cardinality(Lost) <= old /\ IsFiniteSet(Lost)
    BY DEF LostFew, LossIsBounded
  <1> HIDE DEF old
  <1>4. /\ IsFiniteSet(Lost \cup X) /\ Cardinality(Lost \cup X) \in Nat
        /\ Cardinality(Lost \cup X) <= old + k
    BY <1>2, <1>3, UnionCounted
  <1>5. /\ IsFiniteSet(Lost') /\ Cardinality(Lost') \in Nat
        /\ Cardinality(Lost') <= Cardinality(Lost \cup X)
    BY <1>4, FS_Subset, FS_CardinalityType
  <1>6. old + k <= new
    BY DEF old
  <1> HIDE DEF new
  <1>7. Cardinality(Lost') <= new
    BY <1>2, <1>4, <1>5, <1>6
  <1> QED BY <1>5, <1>7 DEF LostFew, LossIsBounded, new

\* Pods lose no job: one answered "queued" is in the queue.
LEMMA ApiLosesNone ==
  ASSUME Typed, NEW a \in Apis, ApiStep(a) \/ ApiCrash(a)
  PROVE  Lost' \subseteq Lost
  <1>1. /\ batch' = batch /\ hand' = hand /\ tail' = tail /\ unsaved' = unsaved
        /\ result' = result /\ dlq' = dlq
    BY DEF ApiStep, Verify, Shed, VerifyFails, Enqueue, ApiCrash, workerVars
  <1>2. \A v \in Workers : Contents(v)' = Contents(v)
    BY <1>1 DEF Contents
  <1>3. \A j \in Jobs : (HasResult(j)' <=> HasResult(j)) /\ (Buried(j)' <=> Buried(j))
    BY <1>1 DEF HasResult, Buried
  <1>4. CASE \E o \in Outcomes : Enqueue(a, o)
    <2>1. PICK o \in Outcomes : Enqueue(a, o)
      BY <1>4
    <2>2. PICK j \in Jobs : j = admitting[a]
      BY <2>1 DEF Enqueue, Typed
    <2> DEFINE t == TierOf(j)
               job == [id |-> j, retry |-> 0]
    <2>3. t \in Tiers /\ queue[t] \in Seq(Queueable) /\ job \in Queueable
      BY JobSets DEF TierOf, Tiers, Typed
    <2>4. queue' = IF Executed(o) THEN [queue EXCEPT ![t] = Append(@, job)] ELSE queue
      BY <2>1, <2>2 DEF Enqueue, Push
    <2>5. reply' = [reply EXCEPT ![j] = IF o = "ok" THEN "queued" ELSE "unavailable"]
      BY <2>1, <2>2 DEF Enqueue, Answer
    <2>6. /\ \A u \in Tiers : Ids(queue[u]) \subseteq Ids(queue'[u])
          /\ o = "ok" => j \in Ids(queue'[t])
      <3>1. CASE Executed(o)
        <4>1. Ids(Append(queue[t], job)) = Ids(queue[t]) \cup {j}
          <5>1. job.id = j
            OBVIOUS
          <5> HIDE DEF job, t
          <5> QED BY <2>3, <5>1, IdsPushed
        <4> HIDE DEF job, t
        <4> QED BY <2>3, <2>4, <3>1, <4>1 DEF Typed
      <3>2. CASE ~Executed(o)
        BY <2>4, <3>2 DEF Executed
      <3> QED BY <3>1, <3>2
    <2> SUFFICES ASSUME NEW k \in Lost', k \notin Lost PROVE FALSE
      OBVIOUS
    <2>7. /\ k \in Jobs /\ reply'[k] = "queued"
          /\ ~InFlight(k)' /\ ~HasResult(k)' /\ ~Buried(k)'
          /\ reply[k] = "queued" => InFlight(k) \/ HasResult(k) \/ Buried(k)
      BY DEF Lost
    <2>8. CASE reply[k] = "queued"
      <3>1. InFlight(k)
        BY <1>3, <2>7, <2>8
      <3> QED BY <1>2, <2>6, <2>7, <3>1, InFlightIs
    <2>9. CASE reply[k] # "queued"
      <3>1. k = j /\ o = "ok"
        BY <2>5, <2>7, <2>9 DEF Typed
      <3> QED BY <2>3, <2>6, <2>7, <3>1, InFlightIs
    <2> QED BY <2>8, <2>9
  <1>5. CASE ~\E o \in Outcomes : Enqueue(a, o)
    <2>1. queue' = queue
      BY <1>5 DEF ApiStep, Verify, Shed, VerifyFails, ApiCrash
    <2>2. \A j \in Jobs : InFlight(j)' <=> InFlight(j)
      BY <1>2, <2>1, InFlightIs
    <2>3. \A j \in Jobs : reply'[j] = "queued" => reply[j] = "queued"
      BY <1>5 DEF ApiStep, Verify, Shed, VerifyFails, ApiCrash, Answer, Typed
    <2> QED BY <1>3, <2>2, <2>3 DEF Lost
  <1> QED BY <1>4, <1>5

\* Outcomes last.
LEMMA OutcomesLast ==
  ASSUME Typed, Equipped, NEW w \in Workers, WorkerStep(w) \/ WorkerCrash(w), NEW j \in Jobs
  PROVE  Decided(j) => Decided(j)'
  <1>1. ASSUME NEW o \in Outcomes, SaveResult(w, o) PROVE Decided(j) => Decided(j)'
    <2>1. unsaved[w] \in Seq(Pair) /\ unsaved[w] # << >>
      BY <1>1 DEF SaveResult, Typed
    <2>2. PICK p \in Pair : p = Head(unsaved[w]) /\ p.id \in Jobs /\ p.of \in Jobs
      BY <2>1, Popped, JobSets
    <2>3. result' = result \/ result' = [result EXCEPT ![p.id] = p.of]
      BY <1>1, <2>2 DEF SaveResult, Value
    <2>4. dlq' = dlq
      BY <1>1 DEF SaveResult
    <2> QED BY <2>2, <2>3, <2>4, PipelineAssumption DEF Decided, HasResult, Buried, Typed
  <1>2. ASSUME NEW o \in Outcomes, DeadLetter(w, o) \/ Bury(w, o) PROVE Decided(j) => Decided(j)'
    <2>1. \E k : PushDlq(k, o) /\ result' = result
      BY <1>2 DEF DeadLetter, Bury
    <2> QED BY <2>1 DEF PushDlq, Decided, HasResult, Buried, Typed
  <1>3. CASE ~\E o \in Outcomes : SaveResult(w, o) \/ DeadLetter(w, o) \/ Bury(w, o)
    <2>1. result' = result /\ dlq' = dlq
      BY <1>3 DEF WorkerStep, WorkerCrash, ReadVipDepth, ReadFreeDepth, UpdateQueueDepthMetric,
         FlushFull, FlushTimeout, FlushEmpty, PopKeep, PopDrop, PopFails, Repush, Infer,
         FinishBatch, Restart
    <2> QED BY <2>1 DEF Decided, HasResult, Buried
  <1> QED BY <1>1, <1>2, <1>3

\* A job a worker step loses was in the worker's memory or queue, and is in
\* neither any more.
LEMMA WorkerLosesItsShare ==
  ASSUME Typed, Equipped, Fits, NEW w \in Workers, WorkerStep(w) \/ WorkerCrash(w),
         NEW j \in Lost', j \notin Lost
  PROVE  j \in Jobs /\ j \in Share(w) /\ j \notin Share(w)' /\ ~Decided(j)'
  <1>1. Others(w) /\ QueueOf(w) \in Tiers
    BY WorkerAlone, IdsAreJobs
  <1>2. /\ j \in Jobs /\ reply'[j] = "queued" /\ ~InFlight(j)' /\ ~Decided(j)'
        /\ reply[j] = "queued" => InFlight(j) \/ Decided(j)
    BY DEF Lost, Decided
  <1>3. reply[j] = "queued" /\ ~Decided(j)
    BY <1>1, <1>2, OutcomesLast DEF Others
  <1>4. InFlight(j)
    BY <1>2, <1>3
  <1>5. j \notin Share(w)'
    BY <1>1, <1>2, InFlightIs DEF Share
  <1>6. j \in Share(w)
    <2>1. CASE \E t \in Tiers : j \in Ids(queue[t])
      BY <1>1, <1>2, <2>1, InFlightIs DEF Others, Share
    <2>2. CASE \E v \in Workers : j \in Contents(v)
      <3>1. PICK v \in Workers : j \in Contents(v)
        BY <2>2
      <3>2. CASE v = w
        BY <3>1, <3>2 DEF Share
      <3>3. CASE v # w
        <4>1. Contents(v)' = Contents(v)
          BY <1>1, <3>3 DEF Others, Contents
        <4> QED BY <1>2, <3>1, <4>1, InFlightIs
      <3> QED BY <3>2, <3>3
    <2> QED BY <1>4, <2>1, <2>2, InFlightIs
  <1> QED BY <1>2, <1>5, <1>6

\* A worker step loses nothing, one job to a failed command, or a batch to a kill.
LEMMA WorkerLosesFew ==
  ASSUME Typed, Equipped, Fits, LostFew, NEW w \in Workers, WorkerStep(w) \/ WorkerCrash(w)
  PROVE  LostFew'
  <1>1. /\ faults \in Nat /\ crashes \in Nat /\ MaxBatchSize \in Nat
        /\ MaxBatchSize * crashes \in Nat
        /\ MaxBatchSize * (crashes + 1) = MaxBatchSize * crashes + MaxBatchSize
    <2>1. /\ \A x, y \in Nat : x * y \in Nat /\ x * (y + 1) = x * y + x
      OBVIOUS
    <2>2. faults \in Nat /\ crashes \in Nat /\ MaxBatchSize \in Nat
      BY TablesTyped, PipelineAssumption DEF Typed
    <2> QED BY <2>1, <2>2
  <1>2. Conserves(w)
    BY WorkerConserves
  <1>3. faults' \in Nat /\ crashes' \in Nat
    <2>1. faults' \in 0..MaxFaults /\ crashes' \in 0..MaxCrashes
      <3>1. Typed'
        BY PlanTyped, FetchTyped, DropTyped, InferTyped, RequeueTyped, SaveTyped, RestartTyped
           DEF WorkerStep
      <3> QED BY <3>1 DEF Typed
    <2> QED BY <2>1, PipelineAssumption
  <1>4. CASE /\ faults' >= faults /\ crashes' = crashes
             /\ \A j \in Share(w) : j \in Share(w)' \/ Decided(j)'
    <2>1. Lost' \subseteq Lost \cup {}
      BY <1>4, WorkerLosesItsShare
    <2>2. faults' + MaxBatchSize * crashes' >= (faults + MaxBatchSize * crashes) + 0
      <3>1. \A f, g, x \in Nat : g >= f => g + x >= (f + x) + 0
        OBVIOUS
      <3>2. MaxBatchSize * crashes' = MaxBatchSize * crashes
        BY <1>4
      <3> QED BY <1>1, <1>3, <1>4, <3>1, <3>2
    <2>3. IsFiniteSet({}) /\ Cardinality({}) <= 0
      BY FS_EmptySet
    <2> QED BY <1>3, <2>1, <2>2, <2>3, LosesAtMost
  <1>5. CASE /\ faults' = faults + 1 /\ crashes' = crashes
             /\ \E e \in Jobs : \A j \in Share(w) : j = e \/ j \in Share(w)' \/ Decided(j)'
    <2>1. PICK e \in Jobs : \A j \in Share(w) : j = e \/ j \in Share(w)' \/ Decided(j)'
      BY <1>5
    <2>2. Lost' \subseteq Lost \cup {e}
      BY <2>1, WorkerLosesItsShare
    <2>3. faults' + MaxBatchSize * crashes' >= (faults + MaxBatchSize * crashes) + 1
      BY <1>1, <1>5
    <2>4. IsFiniteSet({e}) /\ Cardinality({e}) <= 1
      <3>1. IsFiniteSet({e}) /\ Cardinality({e}) = 1
        BY FS_Singleton
      <3> QED BY <3>1
    <2> QED BY <1>3, <2>2, <2>3, <2>4, LosesAtMost
  <1>6. CASE /\ faults' = faults /\ crashes' = crashes + 1
             /\ \A j \in Share(w) : j \in Contents(w) \/ j \in Share(w)'
    <2>1. Lost' \subseteq Lost \cup Contents(w)
      BY <1>6, WorkerLosesItsShare
    <2>2. faults' + MaxBatchSize * crashes' >= (faults + MaxBatchSize * crashes) + MaxBatchSize
      BY <1>1, <1>6
    <2>3. IsFiniteSet(Contents(w)) /\ Cardinality(Contents(w)) <= MaxBatchSize
      BY ContentsCounted
    <2> QED BY <1>1, <1>3, <2>1, <2>2, <2>3, LosesAtMost
  <1> QED BY <1>2, <1>4, <1>5, <1>6 DEF Conserves

\* Every step loses no more than its failure or kill accounts for.
LEMMA StepLosesFew ==
  ASSUME Typed, Typed', Equipped, Fits, LostFew, [Next]_vars
  PROVE  LostFew'
  <1>1. CASE UNCHANGED vars
    BY <1>1 DEF vars, LostFew, LossIsBounded, Lost, InFlight, Queued, HeldBy, Holds, HasResult, Buried
  <1>2. ASSUME NEW a \in Apis, ApiStep(a) \/ ApiCrash(a) PROVE LostFew'
    <2>1. /\ faults \in Nat /\ crashes \in Nat /\ faults' \in Nat /\ crashes' \in Nat
          /\ MaxBatchSize \in Nat
      BY TablesTyped, PipelineAssumption DEF Typed
    <2>2. faults' >= faults /\ crashes' >= crashes
      BY <1>2, <2>1 DEF ApiStep, Verify, Shed, VerifyFails, Enqueue, ApiCrash, Redis
    <2>3. faults' + MaxBatchSize * crashes' >= (faults + MaxBatchSize * crashes) + 0
      <3>1. \A m, x, y \in Nat : y >= x => m * y >= m * x /\ m * x \in Nat /\ m * y \in Nat
        OBVIOUS
      <3>2. /\ MaxBatchSize * crashes' >= MaxBatchSize * crashes
            /\ MaxBatchSize * crashes' \in Nat /\ MaxBatchSize * crashes \in Nat
        BY <2>1, <2>2, <3>1
      <3>3. \A f, g, x, y \in Nat : g >= f /\ y >= x => g + y >= (f + x) + 0
        OBVIOUS
      <3> QED BY <2>1, <2>2, <3>2, <3>3
    <2>4. Lost' \subseteq Lost \cup {}
      BY <1>2, ApiLosesNone
    <2>5. IsFiniteSet({}) /\ Cardinality({}) <= 0
      BY FS_EmptySet
    <2> QED BY <2>1, <2>3, <2>4, <2>5, LosesAtMost
  <1>3. ASSUME NEW w \in Workers, WorkerStep(w) \/ WorkerCrash(w) PROVE LostFew'
    BY <1>3, WorkerLosesFew
  <1> QED BY <1>1, <1>2, <1>3 DEF Next

\* No accepted job is lost unless a Redis command fails or a process is killed:
\* each failed command loses at most one, each kill at most a batch, whichever
\* commands were executed before they failed and however the retries interleave.
THEOREM LossBounded == Spec => []LossIsBounded
  <1>1. Init => LostFew
    <2> SUFFICES ASSUME Init PROVE LostFew
      OBVIOUS
    <2>1. Lost = {} /\ faults = 0 /\ crashes = 0
      BY DEF Init, Lost
    <2>2. IsFiniteSet({}) /\ Cardinality({}) = 0
      BY FS_EmptySet
    <2>3. MaxBatchSize \in Nat
      BY TablesTyped
    <2> QED BY <2>1, <2>2, <2>3 DEF LostFew, LossIsBounded
  <1>2. Typed /\ Typed' /\ Equipped /\ Fits /\ LostFew /\ [Next]_vars => LostFew'
    BY StepLosesFew
  <1>3. LostFew => LossIsBounded
    BY DEF LostFew
  <1> QED BY <1>1, <1>2, <1>3, PipelineBounded, PTL DEF Spec

-----------------------------------------------------------------------------
(* How long a queue gets.                                                   *)

\* Finitely many sets of at most m members have at most m times as many.
LEMMA UnionOfFew ==
  ASSUME NEW W, IsFiniteSet(W), NEW m \in Nat, NEW C,
         \A v \in W : IsFiniteSet(C[v]) /\ Cardinality(C[v]) <= m
  PROVE  LET U == UNION {C[v] : v \in W}
         IN  IsFiniteSet(U) /\ Cardinality(U) \in Nat /\ Cardinality(U) <= m * Cardinality(W)
  <1> DEFINE U == UNION {C[v] : v \in W}
             Into(v, f) == /\ f \in [C[v] -> 1..m]
                           /\ \A x, y \in C[v] : f[x] = f[y] => x = y
             inj == [v \in W |-> CHOOSE f : Into(v, f)]
             at == [x \in U |-> CHOOSE v \in W : x \in C[v]]
             g == [x \in U |-> <<at[x], inj[at[x]][x]>>]
  <1>1. ASSUME NEW v \in W PROVE \E f : Into(v, f)
    <2>1. Cardinality(C[v]) \in Nat /\ ExistsBijection(1..Cardinality(C[v]), C[v])
      BY FS_CardinalityType
    <2>2. PICK b \in Bijection(1..Cardinality(C[v]), C[v]) : TRUE
      BY <2>1 DEF ExistsBijection
    <2>3. /\ \A i \in 1..Cardinality(C[v]) : i \in 1..m
          /\ \A x \in C[v] : \E i \in 1..Cardinality(C[v]) : b[i] = x
      BY <2>1, <2>2 DEF Bijection, Surjection
    <2> DEFINE f == [x \in C[v] |-> CHOOSE i \in 1..Cardinality(C[v]) : b[i] = x]
    <2>4. \A x \in C[v] : f[x] \in 1..Cardinality(C[v]) /\ b[f[x]] = x
      BY <2>3
    <2>5. f \in [C[v] -> 1..m]
      BY <2>3, <2>4
    <2> HIDE DEF f
    <2>6. Into(v, f)
      BY <2>4, <2>5
    <2> QED BY <2>6
  <1>2. \A v \in W : Into(v, inj[v])
    BY <1>1
  <1>3. \A x \in U : at[x] \in W /\ x \in C[at[x]]
    OBVIOUS
  <1> HIDE DEF inj, at, U
  <1>4. g \in [U -> W \X (1..m)]
    BY <1>2, <1>3
  <1>5. \A x, y \in U : g[x] = g[y] => x = y
    <2> SUFFICES ASSUME NEW x \in U, NEW y \in U, g[x] = g[y] PROVE x = y
      OBVIOUS
    <2>1. at[x] = at[y] /\ inj[at[x]][x] = inj[at[y]][y]
      OBVIOUS
    <2>2. x \in C[at[x]] /\ y \in C[at[x]] /\ Into(at[x], inj[at[x]])
      BY <1>2, <1>3, <2>1
    <2> QED BY <2>1, <2>2
  <1>6. g \in Injection(U, W \X (1..m))
    BY <1>4, <1>5 DEF Injection, IsInjective
  <1>7. IsFiniteSet(1..m) /\ Cardinality(1..m) = m
    BY CountedUp
  <1>8. /\ IsFiniteSet(W \X (1..m))
        /\ Cardinality(W \X (1..m)) = Cardinality(W) * m
    BY <1>7, FS_Product
  <1>9. IsFiniteSet(U) /\ Cardinality(U) <= Cardinality(W) * m
    BY <1>6, <1>8, FS_Injection
  <1>10. Cardinality(W) * m = m * Cardinality(W) /\ Cardinality(U) \in Nat
    BY <1>9, FS_CardinalityType
  <1> QED BY <1>9, <1>10 DEF U

\* A list that names no job twice has as many jobs as entries.
LEMMA IdsOfDistinct ==
  ASSUME NEW S, NEW s \in Seq(S), Distinct(s)
  PROVE  IsFiniteSet(Ids(s)) /\ Cardinality(Ids(s)) = Len(s)
  <1> DEFINE f == [i \in 1..Len(s) |-> s[i].id]
  <1>1. Len(s) \in Nat /\ DOMAIN s = 1..Len(s)
    BY LenProperties
  <1>2. IsFiniteSet(1..Len(s)) /\ Cardinality(1..Len(s)) = Len(s)
    BY <1>1, CountedUp
  <1>3. f \in Surjection(1..Len(s), Ids(s)) /\ f \in Injection(1..Len(s), Ids(s))
    BY <1>1 DEF Surjection, Injection, IsInjective, Ids, Distinct
  <1> QED BY <1>2, <1>3, FS_Surjection

\* The jobs with a claim on the queue of a tier: those in it, those its workers
\* may give back and those its pods may push.
Servers(t) == {w \in Workers : QueueOf(w) = t}
Returnable(t) == UNION {Contents(v) : v \in Servers(t)}
Admitted(t) == {j \in TierJobs(t) : \E a \in Apis : admitting[a] = j}
Claims(t) == Ids(queue[t]) \cup Returnable(t) \cup Admitted(t)

ClaimsWithinBound(t) ==
  /\ IsFiniteSet(Claims(t))
  /\ Cardinality(Claims(t)) <= QueueLimit(t) + Overshoot(t) - 1
ClaimsBounded == \A t \in Tiers : ClaimsWithinBound(t)

\* The bound on a queue is a number made of pods and batches.
LEMMA BoundsAreNumbers ==
  ASSUME NEW t \in Tiers
  PROVE  /\ QueueLimit(t) \in Nat /\ Overshoot(t) \in Nat \ {0}
         /\ IsFiniteSet(Servers(t)) /\ Cardinality(Servers(t)) \in Nat
         /\ IsFiniteSet(Apis) /\ Cardinality(Apis) \in Nat \ {0}
         /\ Overshoot(t) = Cardinality(Apis) + MaxBatchSize * Cardinality(Servers(t))
  <1>1. QueueLimit(t) \in Nat /\ MaxBatchSize \in Nat
    BY PipelineAssumption, TablesTyped DEF QueueLimit
  <1>2. IsFiniteSet(Servers(t)) /\ Cardinality(Servers(t)) \in Nat
    <2>1. Servers(t) \in SUBSET Workers
      BY DEF Servers
    <2>2. IsFiniteSet(Servers(t))
      BY <2>1, ProcessesAssumption, FS_Subset
    <2> QED BY <2>2, FS_CardinalityType
  <1>3. IsFiniteSet(Apis) /\ Cardinality(Apis) \in Nat \ {0}
    BY ProcessesAssumption, FS_CardinalityType, FS_EmptySet
  <1>4. Overshoot(t) = Cardinality(Apis) + MaxBatchSize * Cardinality(Servers(t))
    BY DEF Overshoot, Servers
  <1>5. \A n \in Nat \ {0}, x, y \in Nat : n + x * y \in Nat \ {0}
    OBVIOUS
  <1> QED BY <1>1, <1>2, <1>3, <1>4, <1>5

\* What the workers of a tier may give back is at most a batch each.
LEMMA ReturnableCounted ==
  ASSUME Typed, Fits, NEW t \in Tiers
  PROVE  /\ IsFiniteSet(Returnable(t)) /\ Cardinality(Returnable(t)) \in Nat
         /\ Cardinality(Returnable(t)) <= MaxBatchSize * Cardinality(Servers(t))
  <1> DEFINE C == [v \in Servers(t) |-> Contents(v)]
  <1>1. IsFiniteSet(Servers(t)) /\ MaxBatchSize \in Nat
    <2>1. IsFiniteSet(Servers(t))
      BY BoundsAreNumbers
    <2>2. MaxBatchSize \in Nat
      BY TablesTyped
    <2> QED BY <2>1, <2>2
  <1>2. \A v \in Servers(t) : IsFiniteSet(C[v]) /\ Cardinality(C[v]) <= MaxBatchSize
    BY ContentsCounted DEF Servers
  <1>3. Returnable(t) = UNION {C[v] : v \in Servers(t)}
    BY DEF Returnable
  <1> DEFINE U == UNION {C[v] : v \in Servers(t)}
  <1> HIDE DEF C
  <1>4. /\ IsFiniteSet(U) /\ Cardinality(U) \in Nat
        /\ Cardinality(U) <= MaxBatchSize * Cardinality(Servers(t))
    BY <1>1, <1>2, UnionOfFew
  <1>5. Returnable(t) = U
    BY <1>3
  <1> HIDE DEF U
  <1> QED BY <1>4, <1>5

\* A pod is between test and push for at most one job.
LEMMA AdmittedCounted ==
  ASSUME NEW t \in Tiers, NEW now
  PROVE  LET A == {j \in TierJobs(t) : \E a \in Apis : now[a] = j}
         IN  IsFiniteSet(A) /\ Cardinality(A) \in Nat /\ Cardinality(A) <= Cardinality(Apis)
  <1> DEFINE A == {j \in TierJobs(t) : \E a \in Apis : now[a] = j}
             B == {a \in Apis : now[a] \in A}
             f == [a \in B |-> now[a]]
  <1>1. IsFiniteSet(Apis) /\ Cardinality(Apis) \in Nat /\ B \in SUBSET Apis
    BY BoundsAreNumbers
  <1>2. IsFiniteSet(B) /\ Cardinality(B) <= Cardinality(Apis) /\ Cardinality(B) \in Nat
    BY <1>1, FS_Subset, FS_CardinalityType
  <1>3. f \in Surjection(B, A)
    BY DEF Surjection
  <1>4. IsFiniteSet(A) /\ Cardinality(A) <= Cardinality(B)
    BY <1>2, <1>3, FS_Surjection
  <1>5. Cardinality(A) \in Nat
    BY <1>4, FS_CardinalityType
  <1> QED BY <1>1, <1>2, <1>4, <1>5

\* The bound holds outright when a pod finds the queue below its limit ...
LEMMA BelowLimit ==
  ASSUME Typed, Fits, NEW t \in Tiers, Len(queue[t]) < QueueLimit(t), queue' = queue,
         Returnable(t)' = Returnable(t)
  PROVE  ClaimsWithinBound(t)'
  <1> DEFINE q == Cardinality(Ids(queue[t]))
             n == Len(queue[t])
             A == Cardinality(Apis)
             R == MaxBatchSize * Cardinality(Servers(t))
  <1>1. queue[t] \in Seq(Queueable) /\ n \in Nat
    BY LenProperties DEF Typed
  <1>2. IsFiniteSet(Ids(queue[t])) /\ q <= n
    BY <1>1, IdsCounted
  <1>3. /\ QueueLimit(t) \in Nat /\ A \in Nat
        /\ MaxBatchSize \in Nat /\ Cardinality(Servers(t)) \in Nat
        /\ Overshoot(t) = A + R
    BY BoundsAreNumbers, TablesTyped
  <1>4. R \in Nat
    <2>1. \A x, y \in Nat : x * y \in Nat
      OBVIOUS
    <2> QED BY <1>3, <2>1
  <1> HIDE DEF n, A, R
  <1>5. IsFiniteSet(Returnable(t)) /\ Cardinality(Returnable(t)) <= R
    BY ReturnableCounted DEF R
  <1>6. IsFiniteSet(Admitted(t)') /\ Cardinality(Admitted(t)') <= A
    BY AdmittedCounted DEF A, Admitted, TierJobs
  <1>7. /\ IsFiniteSet(Ids(queue[t]) \cup Returnable(t))
        /\ Cardinality(Ids(queue[t]) \cup Returnable(t)) <= n + R
    BY <1>1, <1>2, <1>4, <1>5, UnionCounted
  <1>8. n + R \in Nat
    BY <1>1, <1>4
  <1>9. /\ IsFiniteSet(Claims(t)') /\ Cardinality(Claims(t)') \in Nat
        /\ Cardinality(Claims(t)') <= (n + R) + A
    BY <1>3, <1>6, <1>7, <1>8, UnionCounted DEF Claims
  <1>10. n < QueueLimit(t)
    BY DEF n
  <1>11. (n + R) + A <= QueueLimit(t) + (A + R) - 1
    BY <1>1, <1>3, <1>4, <1>10
  <1>12. Cardinality(Claims(t)') <= QueueLimit(t) + Overshoot(t) - 1
    BY <1>1, <1>3, <1>4, <1>9, <1>11
  <1>13. QueueLimit(t)' = QueueLimit(t) /\ Overshoot(t)' = Overshoot(t)
    BY DEF QueueLimit, Overshoot
  <1> QED BY <1>9, <1>12, <1>13 DEF ClaimsWithinBound

\* ... and is kept by every step that adds no claim.
LEMMA NoMoreClaims ==
  ASSUME NEW t \in Tiers, ClaimsWithinBound(t), Claims(t)' \subseteq Claims(t)
  PROVE  ClaimsWithinBound(t)'
  <1>1. /\ IsFiniteSet(Claims(t)) /\ Cardinality(Claims(t)) \in Nat
        /\ Cardinality(Claims(t)) <= QueueLimit(t) + Overshoot(t) - 1
    BY FS_CardinalityType DEF ClaimsWithinBound
  <1>2. /\ IsFiniteSet(Claims(t)') /\ Cardinality(Claims(t)') \in Nat
        /\ Cardinality(Claims(t)') <= Cardinality(Claims(t))
    BY <1>1, FS_Subset, FS_CardinalityType
  <1>3. QueueLimit(t) \in Nat /\ Overshoot(t) \in Nat
    BY BoundsAreNumbers
  <1>4. Cardinality(Claims(t)') <= QueueLimit(t) + Overshoot(t) - 1
    BY <1>1, <1>2, <1>3
  <1>5. QueueLimit(t)' = QueueLimit(t) /\ Overshoot(t)' = Overshoot(t)
    BY DEF QueueLimit, Overshoot
  <1> QED BY <1>2, <1>4, <1>5 DEF ClaimsWithinBound

\* A pod claims a place by testing the depth, and turns its claim into a place.
LEMMA ApiClaims ==
  ASSUME Typed, Typed', Fits, Fits', ClaimsBounded, NEW a \in Apis, ApiStep(a) \/ ApiCrash(a)
  PROVE  ClaimsBounded'
  <1> SUFFICES ASSUME NEW t \in Tiers PROVE ClaimsWithinBound(t)'
    BY DEF ClaimsBounded
  <1>1. batch' = batch /\ hand' = hand /\ tail' = tail /\ unsaved' = unsaved
    BY DEF ApiStep, Verify, Shed, VerifyFails, Enqueue, ApiCrash, workerVars
  <1>2. Returnable(t)' = Returnable(t)
    BY <1>1 DEF Returnable, Contents, Servers
  <1>3. ClaimsWithinBound(t)
    BY DEF ClaimsBounded
  <1>4. ASSUME NEW j \in Jobs, Verify(a, j) PROVE ClaimsWithinBound(t)'
    <2>1. queue' = queue /\ Len(queue[TierOf(j)]) < QueueLimit(TierOf(j))
          /\ admitting' = [admitting EXCEPT ![a] = j]
      BY <1>4 DEF Verify, Admissible
    <2>2. CASE TierOf(j) = t
      BY <1>2, <2>1, <2>2, BelowLimit
    <2>3. CASE TierOf(j) # t
      <3>1. Admitted(t)' \subseteq Admitted(t)
        BY <2>1, <2>3 DEF Admitted, TierJobs, Typed
      <3> QED BY <1>2, <1>3, <2>1, <3>1, NoMoreClaims DEF Claims
    <2> QED BY <2>2, <2>3
  <1>5. ASSUME NEW o \in Outcomes, Enqueue(a, o) PROVE ClaimsWithinBound(t)'
    <2>1. PICK j \in Jobs : j = admitting[a]
      BY <1>5 DEF Enqueue, Typed
    <2>2. PICK job \in Queueable : job = [id |-> j, retry |-> 0] /\ job.id = j
      BY JobSets
    <2>3. queue' = IF Executed(o) THEN [queue EXCEPT ![TierOf(j)] = Append(@, job)] ELSE queue
      BY <1>5, <2>1, <2>2 DEF Enqueue, Push
    <2>4. TierOf(j) \in Tiers /\ queue[TierOf(j)] \in Seq(Queueable)
      BY DEF TierOf, Tiers, Typed
    <2>5. Ids(Append(queue[TierOf(j)], job)) = Ids(queue[TierOf(j)]) \cup {j}
      BY <2>2, <2>4, IdsPushed
    <2>6. j \in Admitted(TierOf(j))
      BY <2>1 DEF Admitted, TierJobs
    <2>7. Ids(queue'[t]) \subseteq Ids(queue[t]) \cup Admitted(t)
      BY <2>3, <2>4, <2>5, <2>6 DEF Typed
    <2>8. Admitted(t)' \subseteq Admitted(t)
      BY <1>5, PipelineAssumption DEF Enqueue, Admitted, TierJobs, Typed
    <2> QED BY <1>2, <1>3, <2>7, <2>8, NoMoreClaims DEF Claims
  <1>6. CASE ~((\E j \in Jobs : Verify(a, j)) \/ \E o \in Outcomes : Enqueue(a, o))
    <2>1. queue' = queue /\ (admitting' = admitting \/ admitting' = [admitting EXCEPT ![a] = NoJob])
      BY <1>6 DEF ApiStep, Shed, VerifyFails, ApiCrash
    <2>2. Admitted(t)' \subseteq Admitted(t)
      BY <2>1, PipelineAssumption DEF Admitted, TierJobs, Typed
    <2> QED BY <1>2, <1>3, <2>1, <2>2, NoMoreClaims DEF Claims
  <1> QED BY <1>4, <1>5, <1>6

\* A worker gives back what it took.
LEMMA WorkerClaims ==
  ASSUME Typed, Equipped, Fits, ClaimsBounded, NEW w \in Workers, WorkerStep(w) \/ WorkerCrash(w)
  PROVE  ClaimsBounded'
  <1> SUFFICES ASSUME NEW t \in Tiers PROVE ClaimsWithinBound(t)'
    BY DEF ClaimsBounded
  <1>1. Others(w) /\ Share(w)' \subseteq Share(w)
    BY WorkerAlone, WorkerConserves DEF Conserves
  <1>2. Admitted(t)' = Admitted(t)
    BY <1>1 DEF Admitted, Others
  <1>3. \A v \in Workers : v # w => Contents(v)' = Contents(v)
    BY <1>1 DEF Others, Contents
  <1>4. CASE QueueOf(w) = t
    <2>1. w \in Servers(t) /\ Servers(t)' = Servers(t)
      BY <1>4 DEF Servers, QueueOf
    <2>2. Share(w) \subseteq Claims(t)
      BY <1>4, <2>1 DEF Share, Claims, Returnable
    <2>3. Ids(queue[t])' \subseteq Claims(t) /\ Contents(w)' \subseteq Claims(t)
      BY <1>1, <1>4, <2>2 DEF Share
    <2>4. Returnable(t)' \subseteq Claims(t)
      <3> SUFFICES ASSUME NEW v \in Servers(t) PROVE Contents(v)' \subseteq Claims(t)
        BY <2>1 DEF Returnable
      <3>1. v \in Workers
        BY DEF Servers
      <3> QED BY <1>3, <2>3, <3>1 DEF Claims, Returnable
    <2> QED BY <1>2, <2>3, <2>4, NoMoreClaims DEF Claims, ClaimsBounded
  <1>5. CASE QueueOf(w) # t
    <2>1. queue'[t] = queue[t]
      BY <1>1, <1>5 DEF Others
    <2>2. \A v \in Servers(t) : Contents(v)' = Contents(v)
      BY <1>3, <1>5 DEF Servers
    <2>3. Returnable(t)' = Returnable(t)
      BY <2>2 DEF Returnable, Servers
    <2> QED BY <1>2, <2>1, <2>3, NoMoreClaims DEF Claims, ClaimsBounded
  <1> QED BY <1>4, <1>5

\* Every step keeps a tier's claims within their bound.
LEMMA StepClaims ==
  ASSUME Typed, Typed', Equipped, Fits, Fits', ClaimsBounded, [Next]_vars
  PROVE  ClaimsBounded'
  <1>1. CASE UNCHANGED vars
    BY <1>1 DEF vars, ClaimsBounded, ClaimsWithinBound, Claims, Returnable, Admitted, Contents,
       Servers, QueueLimit, Overshoot
  <1> QED BY <1>1, ApiClaims, WorkerClaims DEF Next

\* There are none at the start.
LEMMA InitClaims == Init => ClaimsBounded
  <1> SUFFICES ASSUME Init, NEW t \in Tiers PROVE ClaimsWithinBound(t)
    BY DEF ClaimsBounded
  <1>1. Claims(t) = {}
    BY IdsOfNone, PipelineAssumption
       DEF Init, Claims, Returnable, Contents, Servers, Admitted, TierJobs
  <1>2. IsFiniteSet({}) /\ Cardinality({}) = 0
    BY FS_EmptySet
  <1>3. QueueLimit(t) \in Nat /\ Overshoot(t) \in Nat \ {0}
    BY BoundsAreNumbers
  <1>4. 0 <= QueueLimit(t) + Overshoot(t) - 1
    BY <1>3
  <1> QED BY <1>1, <1>2, <1>4 DEF ClaimsWithinBound

\* However the tests and pushes of the pods interleave with each other and with
\* the workers' retries, a queue never exceeds its limit by more than one job
\* per pod and one batch per worker that serves it (queue_service.py, batch.py).
THEOREM QueueDepthIsBounded == Spec => []QueueDepthBounded
  <1>1. Typed /\ Exclusive /\ ClaimsBounded => QueueDepthBounded
    <2> SUFFICES ASSUME Typed, Exclusive, ClaimsBounded, NEW t \in Tiers
                 PROVE  Len(queue[t]) <= QueueLimit(t) + Overshoot(t) - 1
      BY DEF QueueDepthBounded
    <2>1. queue[t] \in Seq(Queueable) /\ Len(queue[t]) \in Nat
      BY LenProperties DEF Typed
    <2>2. Distinct(queue[t])
      <3> DEFINE s == <<"queue", t>>
      <3>1. s \in Slots /\ Lists[s] = queue[t]
        BY ListsAre
      <3> HIDE DEF s
      <3> QED BY <3>1 DEF Exclusive, Unique, Distinct
    <2>3. Cardinality(Ids(queue[t])) = Len(queue[t])
      BY <2>1, <2>2, IdsOfDistinct
    <2>4. /\ IsFiniteSet(Claims(t)) /\ Cardinality(Claims(t)) \in Nat
          /\ Cardinality(Claims(t)) <= QueueLimit(t) + Overshoot(t) - 1
      BY FS_CardinalityType DEF ClaimsBounded, ClaimsWithinBound
    <2>5. Ids(queue[t]) \in SUBSET Claims(t)
      BY DEF Claims
    <2>6. Cardinality(Ids(queue[t])) <= Cardinality(Claims(t))
      BY <2>4, <2>5, FS_Subset
    <2>7. QueueLimit(t) \in Nat /\ Overshoot(t) \in Nat
      BY BoundsAreNumbers
    <2> QED BY <2>1, <2>3, <2>4, <2>6, <2>7
  <1>2. Typed /\ Typed' /\ Equipped /\ Fits /\ Fits' /\ ClaimsBounded /\ [Next]_vars => ClaimsBounded'
    BY StepClaims
  <1> QED BY <1>1, <1>2, InitClaims, PipelineBounded, PTL DEF Spec
=============================================================================
