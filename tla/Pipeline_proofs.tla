--------------------------- MODULE Pipeline_proofs ---------------------------
(***************************************************************************)
(* Safety of the inference pipeline for any jobs, workers, pods, limits,   *)
(* threshold tables and retry bound, and any number of failing commands    *)
(* and killed processes.                                                   *)
(***************************************************************************)
EXTENDS PipelineProperties, Scheduler_proofs, SequenceTheorems

(***************************************************************************)
(* Sequences.                                                              *)
(***************************************************************************)

\* The empty list.
LEMMA Empty == Len(<< >>) = 0 /\ DOMAIN << >> = {}
  <1>1. << >> \in Seq(Nat) /\ Len(<< >>) = 0
    BY EmptySeq
  <1>2. DOMAIN << >> = 1..0
    BY <1>1, LenProperties
  <1> QED BY <1>1, <1>2

\* The head of a list, and what is left when it is popped.
LEMMA Popped ==
  ASSUME NEW S, NEW s \in Seq(S), s # << >>
  PROVE  /\ Len(s) \in Nat \ {0} /\ DOMAIN s = 1..Len(s)
         /\ Head(s) \in S /\ Head(s) = s[1]
         /\ Tail(s) \in Seq(S) /\ DOMAIN Tail(s) = 1..(Len(s) - 1)
         /\ \A i \in DOMAIN Tail(s) : Tail(s)[i] = s[i + 1] /\ i + 1 \in DOMAIN s /\ i + 1 # 1
         /\ Len(s) # 1 => Tail(s) # << >>
  <1>1. /\ Len(s) \in Nat \ {0} /\ DOMAIN s = 1..Len(s) /\ Head(s) = s[1]
        /\ Tail(s) \in Seq(S) /\ Head(s) \in S /\ Len(Tail(s)) = Len(s) - 1
        /\ \A i \in 1..Len(Tail(s)) : Tail(s)[i] = s[i + 1]
    BY HeadTailProperties, EmptySeq
  <1>2. DOMAIN Tail(s) = 1..(Len(s) - 1)
    BY <1>1
  <1>3. Len(s) # 1 => Tail(s) # << >>
    <2>1. ASSUME Tail(s) = << >> PROVE Len(Tail(s)) = 0
      BY <2>1, Empty, Zenon
    <2> QED BY <1>1, <2>1
  <1> QED BY <1>1, <1>2, <1>3

\* A list without its head is another list.
LEMMA Shorter ==
  ASSUME NEW S, NEW s \in Seq(S), s # << >>
  PROVE  Tail(s) # s
  <1>1. Len(s) \in Nat \ {0} /\ Len(Tail(s)) = Len(s) - 1
    BY HeadTailProperties, EmptySeq
  <1>2. ASSUME Tail(s) = s PROVE Len(Tail(s)) = Len(s)
    BY <1>2, Zenon
  <1>3. \A n \in Nat : n # n - 1
    OBVIOUS
  <1>4. Len(Tail(s)) # Len(s)
    BY <1>1, <1>3
  <1> QED BY <1>2, <1>4, Zenon

\* A list with one more element at its end.
LEMMA Pushed ==
  ASSUME NEW S, NEW s \in Seq(S), NEW e \in S
  PROVE  /\ Append(s, e) \in Seq(S) /\ Len(s) \in Nat /\ DOMAIN s = 1..Len(s)
         /\ DOMAIN Append(s, e) = 1..(Len(s) + 1)
         /\ \A i \in DOMAIN s : Append(s, e)[i] = s[i]
         /\ Append(s, e)[Len(s) + 1] = e
  BY AppendProperties

\* The rest of a list from a position on.
LEMMA Suffix ==
  ASSUME NEW S, NEW s \in Seq(S), NEW n \in 0..Len(s)
  PROVE  /\ SubSeq(s, n + 1, Len(s)) \in Seq(S)
         /\ DOMAIN SubSeq(s, n + 1, Len(s)) = 1..(Len(s) - n)
         /\ \A i \in 1..(Len(s) - n) :
              SubSeq(s, n + 1, Len(s))[i] = s[i + n] /\ i + n \in DOMAIN s
         /\ n < Len(s) => SubSeq(s, n + 1, Len(s)) # << >>
  <1>1. Len(s) \in Nat /\ DOMAIN s = 1..Len(s) /\ n \in Nat /\ n <= Len(s)
    OBVIOUS
  <1>2. \A i \in (n + 1)..Len(s) : s[i] \in S
    BY <1>1
  <1> DEFINE r == SubSeq(s, n + 1, Len(s))
  <1>3. /\ r \in Seq(S)
        /\ Len(r) = IF n + 1 <= Len(s) THEN Len(s) - (n + 1) + 1 ELSE 0
        /\ \A i \in 1..(Len(s) - (n + 1) + 1) : r[i] = s[(n + 1) + i - 1]
    BY <1>1, <1>2, SubSeqProperties
  <1> HIDE DEF r
  <1>4. Len(r) = Len(s) - n
    <2>1. (IF n + 1 <= Len(s) THEN Len(s) - (n + 1) + 1 ELSE 0) = Len(s) - n
      <3>1. \A len \in Nat : n <= len => (IF n + 1 <= len THEN len - (n + 1) + 1 ELSE 0) = len - n
        BY <1>1
      <3> QED BY <1>1, <3>1
    <2> QED BY <2>1, <1>3
  <1>5. DOMAIN r = 1..Len(r)
    BY <1>3
  <1>6. n < Len(s) => r # << >>
    BY <1>1, <1>4, Empty
  <1>7. ASSUME NEW i \in 1..(Len(s) - n) PROVE r[i] = s[i + n] /\ i + n \in DOMAIN s
    <2>1. (n + 1) + i - 1 = i + n /\ i \in 1..(Len(s) - (n + 1) + 1) /\ i + n \in 1..Len(s)
      BY <1>1
    <2>2. r[i] = s[(n + 1) + i - 1]
      BY <1>3, <2>1
    <2> QED BY <1>1, <2>1, <2>2
  <1> QED BY <1>3, <1>4, <1>5, <1>6, <1>7 DEF r
-----------------------------------------------------------------------------
(***************************************************************************)
(* Types and retry counts.  PopKeep keeps only jobs that have a retry left *)
(* and Repush spends it, so the lists hold more than TypeOK says: no count *)
(* passes MaxRetries, and a batch holds none at MaxRetries.                *)
(***************************************************************************)

Fresh == [id : Jobs, retry : 0..(MaxRetries - 1)]
Queueable == [id : Jobs, retry : 0..MaxRetries]
Plans == [size : Nat, ratio : 0..10]

Typed ==
  /\ queue \in [Tiers -> Seq(Queueable)]
  /\ dlq \in [Jobs -> Nat]
  /\ result \in [Jobs -> Jobs \cup {NoJob}]
  /\ admitting \in [Apis -> Jobs \cup {NoJob}]
  /\ reply \in [Jobs -> Replies]
  /\ place \in [Workers -> Places]
  /\ plan \in [Workers -> Plans]
  /\ batch \in [Workers -> Seq(Fresh)]
  /\ hand \in [Workers -> Seq(Queueable)]
  /\ tail \in [Workers -> Seq(Fresh)]
  /\ unsaved \in [Workers -> Seq(Pair)]
  /\ faults \in 0..MaxFaults
  /\ crashes \in 0..MaxCrashes

\* Where a worker stands it has what it works on.
Equipped ==
  \A w \in Workers :
    /\ place[w] = "drop" => hand[w] # << >>
    /\ place[w] \in {"requeue", "repush"} => tail[w] # << >>

\* The jobs the lists may hold.
LEMMA JobSets ==
  /\ \A j \in Jobs : [id |-> j, retry |-> 0] \in Queueable
  /\ \A q \in Queueable : /\ q.id \in Jobs /\ q.retry \in Nat /\ q.retry <= MaxRetries
                          /\ q.retry < MaxRetries => q \in Fresh
                          /\ q \in QueueJob
  /\ \A q \in Fresh : /\ q.id \in Jobs /\ q.retry \in Nat /\ q.retry < MaxRetries
                      /\ q \in Queueable /\ q \in QueueJob
                      /\ [id |-> q.id, retry |-> q.retry + 1] \in Queueable
  /\ \A p \in Pair : p.id \in Jobs /\ p.of \in Jobs
  /\ \A j, k \in Jobs : [id |-> j, of |-> k] \in Pair
  BY PipelineAssumption DEF PipelineAssumption, Fresh, Queueable, QueueJob, Pair

\* The initial state.
LEMMA InitTyped == Init => Typed /\ Equipped
  <1> SUFFICES ASSUME Init PROVE Typed /\ Equipped
    OBVIOUS
  <1>1. << >> \in Seq(Queueable) /\ << >> \in Seq(Fresh) /\ << >> \in Seq(Pair)
    BY EmptySeq
  <1>2. NoPlan \in Plans
    BY DEF NoPlan, Plans
  <1>3. "none" \in Replies /\ "vipDepth" \in Places
    BY DEF Replies, Places
  <1>4. 0 \in 0..MaxFaults /\ 0 \in 0..MaxCrashes
    BY PipelineAssumption DEF PipelineAssumption
  <1> QED BY <1>1, <1>2, <1>3, <1>4 DEF Init, Typed, Equipped

\* A counted command leaves the count of failed commands within its bound.
LEMMA FaultsCounted ==
  ASSUME Typed, NEW o \in Outcomes, Redis(o)
  PROVE  faults' \in 0..MaxFaults
  BY PipelineAssumption DEF PipelineAssumption, Typed, Redis

\* The API pods keep the types.
LEMMA ApiTyped ==
  ASSUME Typed, Equipped, NEW a \in Apis, ApiStep(a) \/ ApiCrash(a)
  PROVE  Typed' /\ Equipped'
  <1> USE DEF workerVars
  <1>r. {"full", "unavailable", "queued", "disconnected"} \subseteq Replies
    BY DEF Replies
  <1>1. ASSUME NEW j \in Jobs, Verify(a, j) PROVE Typed' /\ Equipped'
    BY <1>1 DEF Verify, Typed, Equipped
  <1>2. ASSUME NEW j \in Jobs, Shed(a, j) PROVE Typed' /\ Equipped'
    BY <1>2, <1>r DEF Shed, Answer, Typed, Equipped
  <1>3. ASSUME NEW j \in Jobs, VerifyFails(a, j) PROVE Typed' /\ Equipped'
    <2>1. faults' \in 0..MaxFaults
      BY <1>3, FaultsCounted DEF VerifyFails, Outcomes
    <2> QED BY <1>3, <1>r, <2>1 DEF VerifyFails, Answer, Typed, Equipped
  <1>4. ASSUME NEW o \in Outcomes, Enqueue(a, o) PROVE Typed' /\ Equipped'
    <2>1. faults' \in 0..MaxFaults
      BY <1>4, FaultsCounted DEF Enqueue
    <2>2. admitting[a] \in Jobs /\ TierOf(admitting[a]) \in Tiers
      BY <1>4 DEF Enqueue, Typed, TierOf, Tiers
    <2>3. queue' \in [Tiers -> Seq(Queueable)]
      <3>1. [id |-> admitting[a], retry |-> 0] \in Queueable
        BY <2>2, JobSets
      <3> QED BY <1>4, <2>2, <3>1, Pushed DEF Enqueue, Push, Typed
    <2>4. reply' \in [Jobs -> Replies]
      BY <1>4, <1>r, <2>2 DEF Enqueue, Answer, Typed
    <2> QED BY <1>4, <2>1, <2>3, <2>4 DEF Enqueue, Typed, Equipped
  <1>5. ASSUME ApiCrash(a) PROVE Typed' /\ Equipped'
    BY <1>5, <1>r, PipelineAssumption DEF PipelineAssumption, ApiCrash, Answer, Typed, Equipped
  <1> QED BY <1>1, <1>2, <1>3, <1>4, <1>5 DEF ApiStep

\* Reading the depths and planning a batch keeps the types.
LEMMA PlanTyped ==
  ASSUME Typed, Equipped, NEW w \in Workers, NEW o \in ReadOutcomes,
         ReadVipDepth(w, o) \/ ReadFreeDepth(w, o) \/ UpdateQueueDepthMetric(w, o)
  PROVE  Typed' /\ Equipped'
  <1> USE DEF apiVars, held
  <1>1. faults' \in 0..MaxFaults
    BY FaultsCounted DEF ReadVipDepth, ReadFreeDepth, UpdateQueueDepthMetric, Outcomes, ReadOutcomes
  <1>2. Depth("VIP", o) \in Nat \cup {NoDepth} /\ Depth("FREE", o) \in Nat \cup {NoDepth}
    BY LenProperties DEF Depth, Typed, Tiers
  <1>3. plan' \in [Workers -> Plans]
    <2>1. CASE ReadVipDepth(w, o)
      <3>1. GetVipBatchConfig(Depth("VIP", o)) \in Plans
        <4>1. [size : 0..MaxBatchSize, ratio : 0..10] \subseteq Plans
          BY TablesTyped DEF Plans
        <4> QED BY <1>2, <4>1, VipPlan
      <3> QED BY <2>1, <3>1 DEF ReadVipDepth, Typed
    <2>2. CASE ReadFreeDepth(w, o)
      <3>1. plan[w].size \in Nat /\ plan[w].ratio \in 0..10
        BY DEF Typed, Plans
      <3>2. GetFreeBatchConfig(Depth("FREE", o), plan[w].ratio) \in Nat
        <4>1. GetFreeBatchConfig(Depth("FREE", o), plan[w].ratio) \in 0..MaxBatchSize
          BY <1>2, <3>1, FreePlan
        <4> QED BY <4>1, TablesTyped
      <3> QED BY <2>2, <3>1, <3>2 DEF ReadFreeDepth, Typed, Plans
    <2>3. CASE UpdateQueueDepthMetric(w, o)
      BY <2>3 DEF UpdateQueueDepthMetric, Typed, Plans, NoPlan
    <2> QED BY <2>1, <2>2, <2>3
  <1>4. place' \in [Workers -> Places] /\ Equipped'
    BY DEF ReadVipDepth, ReadFreeDepth, UpdateQueueDepthMetric, Goto, Places, Typed, Equipped
  <1>5. UNCHANGED <<queue, dlq, result, admitting, reply, batch, hand, tail, unsaved, crashes>>
    BY DEF ReadVipDepth, ReadFreeDepth, UpdateQueueDepthMetric
  <1> QED BY <1>1, <1>3, <1>4, <1>5 DEF Typed

\* Ending a fetch: the batch goes to the model, or the loop starts over.
LEMMA FlushTyped ==
  ASSUME Typed, Equipped, NEW w \in Workers, At(w, "fetch"), Flush(w), UNCHANGED held
  PROVE  place' \in [Workers -> Places] /\ plan' \in [Workers -> Plans] /\ Equipped'
  <1>1. NoPlan \in Plans
    BY DEF NoPlan, Plans
  <1>2. CASE batch[w] = << >>
    <2>1. place' = [place EXCEPT ![w] = "vipDepth"] /\ plan' = [plan EXCEPT ![w] = NoPlan]
      BY <1>2 DEF Flush, StartOver, Goto
    <2>2. "vipDepth" \in Places
      BY DEF Places
    <2>3. Equipped'
      BY <2>1 DEF Typed, Equipped, held
    <2> QED BY <1>1, <2>1, <2>2, <2>3 DEF Typed
  <1>3. CASE batch[w] # << >>
    BY <1>3 DEF Flush, Goto, Places, Typed, Equipped, held
  <1> QED BY <1>2, <1>3

\* fetch_batch keeps the types: only a job with a retry left joins the batch.
LEMMA FetchTyped ==
  ASSUME Typed, Equipped, NEW w \in Workers,
         \/ FlushFull(w) \/ FlushTimeout(w) \/ FlushEmpty(w)
         \/ PopKeep(w) \/ PopDrop(w)
         \/ \E o \in Outcomes : PopFails(w, o)
  PROVE  Typed' /\ Equipped'
  <1> USE DEF apiVars, workerVars
  <1>q. QueueOf(w) \in Tiers /\ queue[QueueOf(w)] \in Seq(Queueable)
    BY DEF QueueOf, Tiers, Typed
  <1>t. queue[QueueOf(w)] # << >> =>
          /\ Head(queue[QueueOf(w)]) \in Queueable
          /\ [queue EXCEPT ![QueueOf(w)] = Tail(@)] \in [Tiers -> Seq(Queueable)]
    BY <1>q, Popped DEF Typed
  <1>1. CASE FlushFull(w) \/ FlushTimeout(w) \/ FlushEmpty(w)
    <2>1. At(w, "fetch") /\ Flush(w) /\ UNCHANGED held
      BY <1>1 DEF FlushFull, FlushTimeout, FlushEmpty, Filling
    <2>2. UNCHANGED <<queue, dlq, result, admitting, reply, batch, hand, tail, unsaved, faults, crashes>>
      BY <1>1 DEF FlushFull, FlushTimeout, FlushEmpty, held
    <2> QED BY <2>1, <2>2, FlushTyped DEF Typed
  <1>2. CASE PopKeep(w)
    <2>1. Head(queue[QueueOf(w)]) \in Fresh
      BY <1>2, <1>t, JobSets DEF PopKeep, Retriable, Pop, Waiting
    <2>2. batch' \in [Workers -> Seq(Fresh)]
      BY <1>2, <2>1, Pushed DEF PopKeep, Waiting, Typed
    <2>3. queue' \in [Tiers -> Seq(Queueable)]
      BY <1>2, <1>t DEF PopKeep, Pop, Waiting
    <2> QED BY <1>2, <2>2, <2>3 DEF PopKeep, Typed, Equipped
  <1>3. CASE PopDrop(w)
    <2>1. queue' \in [Tiers -> Seq(Queueable)] /\ Head(queue[QueueOf(w)]) \in Queueable
      BY <1>3, <1>t DEF PopDrop, Pop, Waiting
    <2>2. <<Head(queue[QueueOf(w)])>> \in Seq(Queueable) /\ <<Head(queue[QueueOf(w)])>> # << >>
      BY <2>1
    <2>3. hand' \in [Workers -> Seq(Queueable)] /\ place' \in [Workers -> Places] /\ Equipped'
      BY <1>3, <2>2 DEF PopDrop, Waiting, Goto, Places, Typed, Equipped
    <2> QED BY <1>3, <2>1, <2>3 DEF PopDrop, Typed
  <1>4. ASSUME NEW o \in Outcomes, PopFails(w, o) PROVE Typed' /\ Equipped'
    <2>1. At(w, "fetch") /\ Flush(w) /\ UNCHANGED held
      BY <1>4 DEF PopFails, Filling
    <2>2. faults' \in 0..MaxFaults
      BY <1>4, FaultsCounted DEF PopFails
    <2>3. queue' \in [Tiers -> Seq(Queueable)]
      BY <1>4, <1>t DEF PopFails, Waiting, Typed
    <2>4. UNCHANGED <<dlq, result, admitting, reply, batch, hand, tail, unsaved, crashes>>
      BY <1>4 DEF PopFails, held
    <2> QED BY <2>1, <2>2, <2>3, <2>4, FlushTyped DEF Typed
  <1> QED BY <1>1, <1>2, <1>3, <1>4

\* A burial is counted.
LEMMA DlqTyped ==
  ASSUME Typed, NEW j \in Jobs, NEW o, PushDlq(j, o)
  PROVE  dlq' \in [Jobs -> Nat]
  BY DEF Typed, PushDlq

\* The dead letter queue of dropped jobs keeps the types.
LEMMA DropTyped ==
  ASSUME Typed, Equipped, NEW w \in Workers, NEW o \in Outcomes, DeadLetter(w, o)
  PROVE  Typed' /\ Equipped'
  <1> USE DEF apiVars
  <1>1. Head(hand[w]).id \in Jobs
    BY Popped, JobSets DEF DeadLetter, At, Equipped, Typed
  <1>2. faults' \in 0..MaxFaults /\ dlq' \in [Jobs -> Nat]
    BY <1>1, FaultsCounted, DlqTyped DEF DeadLetter
  <1>3. hand' \in [Workers -> Seq(Queueable)] /\ place' \in [Workers -> Places] /\ Equipped'
    BY EmptySeq DEF DeadLetter, Goto, Places, Typed, Equipped
  <1> QED BY <1>2, <1>3 DEF DeadLetter, Typed

\* Inference keeps the types: the results pair jobs of the batch, and what is
\* left to requeue is the rest of the batch.
LEMMA InferTyped ==
  ASSUME Typed, Equipped, NEW w \in Workers, Infer(w)
  PROVE  Typed' /\ Equipped'
  <1> USE DEF apiVars
  <1>1. batch[w] \in Seq(Fresh)
    BY DEF Typed
  <1>2. PICK n \in 0..Len(batch[w]) : \E pick \in Picks(n, Len(batch[w])) :
          /\ unsaved' = [unsaved EXCEPT ![w] =
               [i \in 1..n |-> [id |-> batch[w][i].id, of |-> batch[w][pick[i]].id]]]
          /\ tail' = [tail EXCEPT ![w] = SubSeq(batch[w], n + 1, Len(batch[w]))]
          /\ Goto(w, IF SubSeq(batch[w], n + 1, Len(batch[w])) # << >> THEN "requeue" ELSE "save")
    BY DEF Infer, Failed
  <1>3. PICK pick \in Picks(n, Len(batch[w])) :
          unsaved' = [unsaved EXCEPT ![w] =
            [i \in 1..n |-> [id |-> batch[w][i].id, of |-> batch[w][pick[i]].id]]]
    BY <1>2
  <1>4. [i \in 1..n |-> [id |-> batch[w][i].id, of |-> batch[w][pick[i]].id]] \in Seq(Pair)
    <2>1. n \in Nat /\ \A i \in 1..n : i \in 1..Len(batch[w]) /\ pick[i] \in 1..Len(batch[w])
      BY <1>1 DEF Picks
    <2>2. ASSUME NEW i \in 1..n
          PROVE  [id |-> batch[w][i].id, of |-> batch[w][pick[i]].id] \in Pair
      <3>1. batch[w][i] \in Fresh /\ batch[w][pick[i]] \in Fresh
        BY <1>1, <2>1, ElementOfSeq
      <3> QED BY <3>1, JobSets
    <2> QED BY <2>1, <2>2, IsASeq
  <1>5. unsaved' \in [Workers -> Seq(Pair)]
    BY <1>3, <1>4 DEF Typed
  <1>6. SubSeq(batch[w], n + 1, Len(batch[w])) \in Seq(Fresh)
    BY <1>1, Suffix
  <1> DEFINE rest == SubSeq(batch[w], n + 1, Len(batch[w]))
  <1>7. tail' \in [Workers -> Seq(Fresh)] /\ place' \in [Workers -> Places] /\ Equipped'
    <2>1. /\ rest \in Seq(Fresh) /\ tail' = [tail EXCEPT ![w] = rest]
          /\ Goto(w, IF rest # << >> THEN "requeue" ELSE "save")
      BY <1>2, <1>6
    <2> HIDE DEF rest
    <2> QED BY <2>1 DEF Infer, Goto, Places, Typed, Equipped
  <1>8. batch' \in [Workers -> Seq(Fresh)]
    BY EmptySeq DEF Infer, Typed
  <1> QED BY <1>5, <1>7, <1>8 DEF Infer, Typed

\* Requeueing and burying keep the types: a retry is spent, never past MaxRetries.
LEMMA RequeueTyped ==
  ASSUME Typed, Equipped, NEW w \in Workers, NEW o \in Outcomes, Bury(w, o) \/ Repush(w, o)
  PROVE  Typed' /\ Equipped'
  <1> USE DEF apiVars, held
  <1>1. tail[w] \in Seq(Fresh) /\ tail[w] # << >>
    BY DEF Bury, Repush, At, Equipped, Typed
  <1>2. /\ Head(tail[w]).id \in Jobs /\ Tail(tail[w]) \in Seq(Fresh)
        /\ [id |-> Head(tail[w]).id, retry |-> Head(tail[w]).retry + 1] \in Queueable
        /\ Len(tail[w]) # 1 => Tail(tail[w]) # << >>
    BY <1>1, Popped, JobSets
  <1>3. faults' \in 0..MaxFaults
    BY FaultsCounted DEF Bury, Repush
  <1>4. CASE Bury(w, o)
    <2>1. dlq' \in [Jobs -> Nat]
      BY <1>2, <1>4, DlqTyped DEF Bury
    <2>2. place' \in [Workers -> Places] /\ Equipped'
      BY <1>1, <1>4 DEF Bury, Goto, Places, Typed, Equipped
    <2> QED BY <1>3, <1>4, <2>1, <2>2 DEF Bury, Typed
  <1>5. CASE Repush(w, o)
    <2>1. queue' \in [Tiers -> Seq(Queueable)]
      <3>1. QueueOf(w) \in Tiers
        BY DEF QueueOf, Tiers
      <3> QED BY <1>2, <1>5, <3>1, Pushed DEF Repush, RetryQueue, Push, Typed
    <2>2. tail' \in [Workers -> Seq(Fresh)]
      BY <1>2, <1>5 DEF Repush, Unpushed, Typed
    <2>3. place' \in [Workers -> Places] /\ Equipped'
      BY <1>2, <1>5 DEF Repush, Unpushed, Goto, Places, Typed, Equipped
    <2> QED BY <1>3, <1>5, <2>1, <2>2, <2>3 DEF Repush, Typed
  <1> QED BY <1>4, <1>5

\* Storing results keeps the types.
LEMMA SaveTyped ==
  ASSUME Typed, Equipped, NEW w \in Workers, NEW o \in Outcomes, SaveResult(w, o)
  PROVE  Typed' /\ Equipped'
  <1> USE DEF apiVars
  <1>1. Head(unsaved[w]).id \in Jobs /\ Head(unsaved[w]).of \in Jobs /\ Tail(unsaved[w]) \in Seq(Pair)
    BY Popped, JobSets DEF SaveResult, Typed
  <1>2. faults' \in 0..MaxFaults
    BY FaultsCounted DEF SaveResult
  <1>3. result' \in [Jobs -> Jobs \cup {NoJob}] /\ unsaved' \in [Workers -> Seq(Pair)]
    BY <1>1 DEF SaveResult, Value, Typed
  <1> QED BY <1>2, <1>3 DEF SaveResult, Typed, Equipped

\* Starting over, ending and restarting keep the types.
LEMMA RestartTyped ==
  ASSUME Typed, Equipped, NEW w \in Workers,
         FinishBatch(w) \/ WorkerCrash(w) \/ Restart(w)
  PROVE  Typed' /\ Equipped'
  <1> USE DEF apiVars, held
  <1>1. << >> \in Seq(Queueable) /\ << >> \in Seq(Fresh) /\ << >> \in Seq(Pair)
    BY EmptySeq
  <1>2. NoPlan \in Plans
    BY DEF NoPlan, Plans
  <1>3. CASE FinishBatch(w)
    BY <1>2, <1>3 DEF FinishBatch, StartOver, Goto, Places, Typed, Equipped
  <1>4. CASE WorkerCrash(w)
    <2>1. crashes' \in 0..MaxCrashes
      BY <1>4, PipelineAssumption DEF PipelineAssumption, WorkerCrash, Typed
    <2> QED BY <1>1, <1>2, <1>4, <2>1 DEF WorkerCrash, Goto, Places, Typed, Equipped
  <1>5. CASE Restart(w)
    BY <1>5 DEF Restart, Goto, Places, Typed, Equipped
  <1> QED BY <1>3, <1>4, <1>5

\* The strengthened types are an invariant of the pipeline.
THEOREM PipelineTyped == Spec => [](Typed /\ Equipped)
  <1>1. Typed /\ Equipped /\ [Next]_vars => Typed' /\ Equipped'
    <2> SUFFICES ASSUME Typed, Equipped, [Next]_vars PROVE Typed' /\ Equipped'
      OBVIOUS
    <2>1. CASE UNCHANGED vars
      BY <2>1 DEF vars, Typed, Equipped
    <2>2. ASSUME NEW a \in Apis, ApiStep(a) \/ ApiCrash(a) PROVE Typed' /\ Equipped'
      BY <2>2, ApiTyped
    <2>3. ASSUME NEW w \in Workers, WorkerStep(w) \/ WorkerCrash(w) PROVE Typed' /\ Equipped'
      BY <2>3, PlanTyped, FetchTyped, DropTyped, InferTyped, RequeueTyped, SaveTyped,
         RestartTyped DEF WorkerStep
    <2> QED BY <2>1, <2>2, <2>3 DEF Next
  <1> QED BY <1>1, InitTyped, PTL DEF Spec

\* Type correctness of the pipeline: every list holds jobs, every worker stands
\* at one of its places, whatever fails and whoever is killed.
THEOREM PipelineTypes == Spec => []TypeOK
  <1>1. Typed => TypeOK
    <2> SUFFICES ASSUME Typed PROVE TypeOK
      OBVIOUS
    <2>1. /\ \A s \in Seq(Queueable) : s \in Seq(QueueJob)
          /\ \A s \in Seq(Fresh) : s \in Seq(QueueJob)
      BY JobSets, SeqMonotonic
    <2> QED BY <2>1 DEF Typed, TypeOK, Plans
  <1> QED BY <1>1, PipelineTyped, PTL

\* No job is sent to the model more than MaxRetries times: a batch never holds
\* a job that has used up its retries, though Repush returns such jobs.
THEOREM AttemptsAreBounded == Spec => []AttemptsBounded
  <1>1. Typed => AttemptsBounded
    <2> SUFFICES ASSUME Typed PROVE AttemptsBounded
      OBVIOUS
    <2>1. ASSUME NEW t \in Tiers, NEW i \in DOMAIN queue[t]
          PROVE  queue[t][i].retry <= MaxRetries
      BY JobSets, LenProperties, ElementOfSeq DEF Typed
    <2>2. ASSUME NEW w \in Workers, NEW i \in DOMAIN batch[w]
          PROVE  batch[w][i].retry < MaxRetries
      BY JobSets, LenProperties, ElementOfSeq DEF Typed
    <2> QED BY <2>1, <2>2 DEF AttemptsBounded
  <1> QED BY <1>1, PipelineTyped, PTL
-----------------------------------------------------------------------------
(***************************************************************************)
(* No duplicates, and one outcome per job.  Redis's two lists and the      *)
(* workers' four lists are looked at as one family, indexed by slots: a    *)
(* step either moves an entry from one slot to another, takes it away, or  *)
(* adds a job that no slot holds.                                          *)
(***************************************************************************)

Entry == Queueable \cup Pair
Slots == ({"queue"} \X Tiers) \cup ({"batch", "hand", "tail", "unsaved"} \X Workers)

Lists == [s \in Slots |->
  CASE s[1] = "queue" -> queue[s[2]]
    [] s[1] = "batch" -> batch[s[2]]
    [] s[1] = "hand" -> hand[s[2]]
    [] s[1] = "tail" -> tail[s[2]]
    [] s[1] = "unsaved" -> unsaved[s[2]]]

\* Two positions that hold the same job are the same position.
Unique(F) ==
  \A s, t \in Slots : \A i \in DOMAIN F[s], k \in DOMAIN F[t] :
    F[s][i].id = F[t][k].id => s = t /\ i = k

\* What is true of the job at a position: it was requested, it has no outcome,
\* and if it was buried once it is a spent copy on its way to be dropped.
Pending(s, i) ==
  /\ reply[Lists[s][i].id] # "none"
  /\ result[Lists[s][i].id] = NoJob
  /\ dlq[Lists[s][i].id] <= 1
  /\ dlq[Lists[s][i].id] = 1 =>
       \/ s[1] = "queue" /\ Lists[s][i].retry = MaxRetries
       \/ s[1] = "hand"
       \/ s[1] = "tail" /\ i = 1 /\ place[s[2]] = "repush"
AllPending == \A s \in Slots : \A i \in DOMAIN Lists[s] : Pending(s, i)

\* A pod admits a job that has no answer, alone, and so without an outcome.
Unanswered ==
  /\ \A a \in Apis : admitting[a] # NoJob => reply[admitting[a]] = "none"
  /\ \A a, b \in Apis : admitting[a] # NoJob /\ admitting[a] = admitting[b] => a = b
  /\ \A j \in Jobs : reply[j] = "none" => result[j] = NoJob /\ dlq[j] = 0

\* No job has both outcomes, and none is buried three times.
Settled == \A j \in Jobs : (result[j] # NoJob => dlq[j] = 0) /\ dlq[j] <= 2

\* Only a job on its last retry is buried before it is pushed back.
Spent == \A w \in Workers : place[w] = "repush" => LastRetry(w)

Exclusive == Unique(Lists) /\ AllPending /\ Unanswered /\ Settled /\ Spent

\* Where the entries of G come from when heads of lists of F were taken away.
RemoveOrigins(F, G) ==
  \A s \in Slots : \A i \in DOMAIN G[s] :
    \/ G[s] = F[s] /\ i \in DOMAIN F[s]
    \/ G[s] # F[s] /\ i + 1 \in DOMAIN F[s] /\ i + 1 # 1 /\ G[s][i] = F[s][i + 1]

\* The same lists after entries were taken from the front of some of them and
\* others were emptied.
LEMMA Removed ==
  ASSUME NEW F, NEW G, Unique(F),
         \A s \in Slots : F[s] \in Seq(Entry),
         \A s \in Slots : \/ G[s] = F[s]
                          \/ G[s] = << >>
                          \/ F[s] # << >> /\ G[s] = Tail(F[s])
  PROVE  /\ Unique(G)
         /\ RemoveOrigins(F, G)
  <1>1. ASSUME NEW s \in Slots, NEW i \in DOMAIN G[s]
        PROVE  /\ i \in Nat
               /\ \/ G[s] = F[s] /\ i \in DOMAIN F[s]
                  \/ /\ G[s] # F[s] /\ i + 1 \in DOMAIN F[s] /\ i + 1 # 1
                     /\ G[s][i] = F[s][i + 1]
    <2>0. F[s] \in Seq(Entry)
      OBVIOUS
    <2>1. CASE G[s] = F[s]
      BY <2>0, <2>1, LenProperties
    <2>2. CASE G[s] = << >>
      BY <2>2, Empty
    <2>3. CASE F[s] # << >> /\ G[s] = Tail(F[s]) /\ G[s] # F[s]
      BY <2>0, <2>3, Popped
    <2> QED BY <2>1, <2>2, <2>3
  <1>2. Unique(G)
    <2> SUFFICES ASSUME NEW s \in Slots, NEW t \in Slots,
                        NEW i \in DOMAIN G[s], NEW k \in DOMAIN G[t],
                        G[s][i].id = G[t][k].id
                 PROVE  s = t /\ i = k
      BY DEF Unique
    <2>1. /\ i \in Nat
          /\ \/ G[s] = F[s] /\ i \in DOMAIN F[s]
             \/ /\ G[s] # F[s] /\ i + 1 \in DOMAIN F[s]
                /\ G[s][i] = F[s][i + 1]
      BY <1>1
    <2>2. /\ k \in Nat
          /\ \/ G[t] = F[t] /\ k \in DOMAIN F[t]
             \/ /\ G[t] # F[t] /\ k + 1 \in DOMAIN F[t]
                /\ G[t][k] = F[t][k + 1]
      BY <1>1
    <2>3. s = t
      BY <2>1, <2>2 DEF Unique
    <2> QED BY <2>1, <2>2, <2>3 DEF Unique
  <1> QED BY <1>1, <1>2 DEF RemoveOrigins

\* Where the entries of G come from when the head of x became e in y.
MoveOrigins(F, G, x, y, e) ==
  \A s \in Slots : \A i \in DOMAIN G[s] :
    \/ s = x /\ i + 1 \in DOMAIN F[x] /\ i + 1 # 1 /\ G[s][i] = F[x][i + 1]
    \/ s = y /\ i \in DOMAIN F[y] /\ G[s][i] = F[y][i]
    \/ s = y /\ G[s][i] = e
    \/ s # x /\ s # y /\ i \in DOMAIN F[s] /\ G[s][i] = F[s][i]

\* The same family after the first entry of list x became the last of list y.
LEMMA Moved ==
  ASSUME NEW F, NEW G, Unique(F),
         \A s \in Slots : F[s] \in Seq(Entry),
         NEW x \in Slots, NEW y \in Slots, x # y, F[x] # << >>,
         NEW e \in Entry, e.id = Head(F[x]).id,
         G[x] = Tail(F[x]),
         G[y] = Append(F[y], e) \/ G[y] = <<e>>,
         \A s \in Slots : s # x /\ s # y => G[s] = F[s]
  PROVE  /\ Unique(G)
         /\ MoveOrigins(F, G, x, y, e)
  <1> DEFINE last == IF G[y] = <<e>> THEN 1 ELSE Len(F[y]) + 1
  <1>f. F[x] \in Seq(Entry) /\ F[y] \in Seq(Entry)
    OBVIOUS
  <1>x. /\ 1 \in DOMAIN F[x] /\ Head(F[x]) = F[x][1] /\ DOMAIN G[x] \subseteq Nat
        /\ \A i \in DOMAIN G[x] : G[x][i] = F[x][i + 1] /\ i + 1 \in DOMAIN F[x] /\ i + 1 # 1
    BY <1>f, Popped
  <1>y. \A i \in DOMAIN G[y] : \/ i \in DOMAIN F[y] /\ G[y][i] = F[y][i] /\ i # last
                               \/ i = last /\ G[y][i] = e
    <2>1. CASE G[y] = <<e>>
      BY <2>1
    <2>2. CASE G[y] = Append(F[y], e) /\ G[y] # <<e>>
      BY <2>2, <1>f, Pushed
    <2> QED BY <2>1, <2>2
  <1> HIDE DEF last
  \* Where each position of G comes from.
  <1> DEFINE from(s, i) == IF s = y /\ i = last THEN x ELSE s
             pos(s, i) == IF s = x THEN i + 1 ELSE IF s = y /\ i = last THEN 1 ELSE i
  <1>1. ASSUME NEW s \in Slots, NEW i \in DOMAIN G[s]
        PROVE  /\ from(s, i) \in Slots
               /\ pos(s, i) \in DOMAIN F[from(s, i)]
               /\ G[s][i].id = F[from(s, i)][pos(s, i)].id
    <2>1. CASE s = x
      BY <2>1, <1>x
    <2>2. CASE s = y
      BY <2>2, <1>x, <1>y
    <2>3. CASE s # x /\ s # y
      BY <2>3
    <2> QED BY <2>1, <2>2, <2>3
  <1>2. ASSUME NEW s \in Slots, NEW t \in Slots, NEW i \in DOMAIN G[s], NEW k \in DOMAIN G[t],
               from(s, i) = from(t, k), pos(s, i) = pos(t, k)
        PROVE  s = t /\ i = k
    <2>1. CASE s = x /\ t = x
      <3>1. i + 1 = k + 1
        BY <2>1, <1>2
      <3>2. i \in Nat /\ k \in Nat
        BY <2>1, <1>x
      <3> QED BY <2>1, <3>1, <3>2
    <2>2. CASE s = x /\ t # x
      BY <2>2, <1>2, <1>x
    <2>3. CASE s # x /\ t = x
      BY <2>3, <1>2, <1>x
    <2>4. CASE s # x /\ t # x
      <3>1. CASE (s = y /\ i = last) /\ (t = y /\ k = last)
        BY <3>1
      <3>2. CASE ~(s = y /\ i = last) /\ ~(t = y /\ k = last)
        BY <2>4, <3>2, <1>2
      <3>3. CASE (s = y /\ i = last) /\ ~(t = y /\ k = last)
        BY <2>4, <3>3, <1>2
      <3>4. CASE ~(s = y /\ i = last) /\ (t = y /\ k = last)
        BY <2>4, <3>4, <1>2
      <3> QED BY <3>1, <3>2, <3>3, <3>4
    <2> QED BY <2>1, <2>2, <2>3, <2>4
  <1>3. Unique(G)
    <2> SUFFICES ASSUME NEW s \in Slots, NEW t \in Slots,
                        NEW i \in DOMAIN G[s], NEW k \in DOMAIN G[t],
                        G[s][i].id = G[t][k].id
                 PROVE  s = t /\ i = k
      BY DEF Unique
    <2> DEFINE a == from(s, i)
               p == pos(s, i)
               b == from(t, k)
               q == pos(t, k)
    <2>1. /\ a \in Slots /\ p \in DOMAIN F[a] /\ G[s][i].id = F[a][p].id
          /\ b \in Slots /\ q \in DOMAIN F[b] /\ G[t][k].id = F[b][q].id
      BY <1>1
    <2> HIDE DEF a, b, p, q
    <2>2. F[a][p].id = F[b][q].id
      BY <2>1
    <2>3. a = b /\ p = q
      BY <2>1, <2>2 DEF Unique
    <2> QED BY <1>2, <2>3 DEF a, b, p, q
  <1> QED BY <1>3, <1>x, <1>y DEF MoveOrigins

\* Where the entries of G come from when e was added to y.
AddOrigins(F, G, y, e) ==
  \A s \in Slots : \A i \in DOMAIN G[s] :
    \/ i \in DOMAIN F[s] /\ G[s][i] = F[s][i]
    \/ s = y /\ G[s][i] = e

\* The same family after list y was given a job no list holds.
LEMMA Added ==
  ASSUME NEW F, NEW G, Unique(F),
         \A s \in Slots : F[s] \in Seq(Entry),
         NEW y \in Slots, NEW e \in Entry,
         \A s \in Slots : \A i \in DOMAIN F[s] : F[s][i].id # e.id,
         G[y] = Append(F[y], e),
         \A s \in Slots : s # y => G[s] = F[s]
  PROVE  /\ Unique(G)
         /\ AddOrigins(F, G, y, e)
  <1>f. F[y] \in Seq(Entry)
    OBVIOUS
  <1>1. /\ Len(F[y]) + 1 \notin DOMAIN F[y]
        /\ \A i \in DOMAIN G[y] : \/ i \in DOMAIN F[y] /\ G[y][i] = F[y][i]
                                  \/ i = Len(F[y]) + 1 /\ G[y][i] = e
    BY <1>f, Pushed
  <1>2. Unique(G)
    <2> SUFFICES ASSUME NEW s \in Slots, NEW t \in Slots,
                        NEW i \in DOMAIN G[s], NEW k \in DOMAIN G[t],
                        G[s][i].id = G[t][k].id
                 PROVE  s = t /\ i = k
      BY DEF Unique
    <2>1. /\ \/ i \in DOMAIN F[s] /\ G[s][i] = F[s][i]
             \/ s = y /\ i = Len(F[y]) + 1 /\ G[s][i] = e
          /\ \/ k \in DOMAIN F[t] /\ G[t][k] = F[t][k]
             \/ t = y /\ k = Len(F[y]) + 1 /\ G[t][k] = e
      BY <1>1
    <2> QED BY <2>1 DEF Unique
  <1> QED BY <1>1, <1>2 DEF AddOrigins

\* Where the entries of G come from when x was divided into y and z.
DivideOrigins(F, G, x, y, z) ==
  \A s \in Slots : \A i \in DOMAIN G[s] :
    \/ s \in {y, z} /\ \E k \in DOMAIN F[x] : G[s][i].id = F[x][k].id
    \/ s \notin {x, y, z} /\ i \in DOMAIN F[s] /\ G[s][i] = F[s][i]

\* The same family after the first n entries of list x gave entries of list y and
\* the others became list z.
LEMMA Divided ==
  ASSUME NEW F, NEW G, Unique(F),
         \A s \in Slots : F[s] \in Seq(Entry),
         NEW x \in Slots, NEW y \in Slots, NEW z \in Slots, x # y, y # z, x # z,
         NEW n \in 0..Len(F[x]),
         G[x] = << >>,
         DOMAIN G[y] = 1..n, \A i \in 1..n : G[y][i].id = F[x][i].id,
         G[z] = SubSeq(F[x], n + 1, Len(F[x])),
         \A s \in Slots : s \notin {x, y, z} => G[s] = F[s]
  PROVE  /\ Unique(G)
         /\ DivideOrigins(F, G, x, y, z)
  <1>f. F[x] \in Seq(Entry)
    OBVIOUS
  <1>n. /\ n \in Nat /\ Len(F[x]) \in Nat /\ n <= Len(F[x]) /\ DOMAIN F[x] = 1..Len(F[x])
        /\ DOMAIN G[x] = {}
        /\ \A i \in DOMAIN G[y] : i \in DOMAIN F[x] /\ G[y][i].id = F[x][i].id
        /\ DOMAIN G[z] = 1..(Len(F[x]) - n)
        /\ \A i \in DOMAIN G[z] : G[z][i] = F[x][i + n] /\ i + n \in DOMAIN F[x]
    BY <1>f, Suffix, LenProperties, Empty
  <1> DEFINE from(s, i) == IF s = y \/ s = z THEN x ELSE s
             pos(s, i) == IF s = z THEN i + n ELSE i
  <1>1. ASSUME NEW s \in Slots, NEW i \in DOMAIN G[s]
        PROVE  /\ from(s, i) \in Slots
               /\ pos(s, i) \in DOMAIN F[from(s, i)]
               /\ G[s][i].id = F[from(s, i)][pos(s, i)].id
    <2>1. CASE s = y
      BY <2>1, <1>n
    <2>2. CASE s = z
      BY <2>2, <1>n
    <2>3. CASE s = x
      BY <2>3, <1>n
    <2>4. CASE s \notin {x, y, z}
      BY <2>4
    <2> QED BY <2>1, <2>2, <2>3, <2>4
  <1>2. ASSUME NEW s \in Slots, NEW t \in Slots, NEW i \in DOMAIN G[s], NEW k \in DOMAIN G[t],
               from(s, i) = from(t, k), pos(s, i) = pos(t, k)
        PROVE  s = t /\ i = k
    <2>0. s # x /\ t # x
      BY <1>n
    <2>1. CASE s = y /\ t = y
      BY <2>1, <1>2
    <2>2. CASE s = y /\ t = z
      BY <2>2, <1>2, <1>n
    <2>3. CASE s = z /\ t = y
      BY <2>3, <1>2, <1>n
    <2>4. CASE s = z /\ t = z
      BY <2>4, <1>2, <1>n
    <2>5. CASE s \notin {x, y, z} \/ t \notin {x, y, z}
      BY <2>0, <2>5, <1>2
    <2> QED BY <2>0, <2>1, <2>2, <2>3, <2>4, <2>5
  <1>3. Unique(G)
    <2> SUFFICES ASSUME NEW s \in Slots, NEW t \in Slots,
                        NEW i \in DOMAIN G[s], NEW k \in DOMAIN G[t],
                        G[s][i].id = G[t][k].id
                 PROVE  s = t /\ i = k
      BY DEF Unique
    <2> DEFINE a == from(s, i)
               p == pos(s, i)
               b == from(t, k)
               q == pos(t, k)
    <2>1. /\ a \in Slots /\ p \in DOMAIN F[a] /\ G[s][i].id = F[a][p].id
          /\ b \in Slots /\ q \in DOMAIN F[b] /\ G[t][k].id = F[b][q].id
      BY <1>1
    <2> HIDE DEF a, b, p, q
    <2>2. F[a][p].id = F[b][q].id
      BY <2>1
    <2>3. a = b /\ p = q
      BY <2>1, <2>2 DEF Unique
    <2> QED BY <1>2, <2>3 DEF a, b, p, q
  <1>4. ASSUME NEW s \in Slots, NEW i \in DOMAIN G[s]
        PROVE  \/ s \in {y, z} /\ \E k \in DOMAIN F[x] : G[s][i].id = F[x][k].id
               \/ s \notin {x, y, z} /\ i \in DOMAIN F[s] /\ G[s][i] = F[s][i]
    <2>1. CASE s = y
      BY <2>1, <1>n
    <2>2. CASE s = z
      <3>1. G[s][i].id = F[x][i + n].id /\ i + n \in DOMAIN F[x]
        BY <2>2, <1>n
      <3> QED BY <2>2, <3>1
    <2>3. CASE s \notin {y, z}
      BY <2>3, <1>n
    <2> QED BY <2>1, <2>2, <2>3
  <1> QED BY <1>3, <1>4 DEF DivideOrigins

-----------------------------------------------------------------------------
(* The slots of a state, and steps that add nothing to them. *)

\* What the slots are, before a step ...
LEMMA ListsAre ==
  /\ \A t \in Tiers : <<"queue", t>> \in Slots /\ Lists[<<"queue", t>>] = queue[t]
  /\ \A w \in Workers :
       /\ <<"batch", w>> \in Slots /\ Lists[<<"batch", w>>] = batch[w]
       /\ <<"hand", w>> \in Slots /\ Lists[<<"hand", w>>] = hand[w]
       /\ <<"tail", w>> \in Slots /\ Lists[<<"tail", w>>] = tail[w]
       /\ <<"unsaved", w>> \in Slots /\ Lists[<<"unsaved", w>>] = unsaved[w]
  /\ \A s \in Slots :
       \/ \E t \in Tiers : s = <<"queue", t>>
       \/ \E w \in Workers : s \in {<<"batch", w>>, <<"hand", w>>, <<"tail", w>>, <<"unsaved", w>>}
  <1>1. \A t \in Tiers : <<"queue", t>> \in Slots
    BY DEF Slots
  <1>2. \A w \in Workers : /\ <<"batch", w>> \in Slots /\ <<"hand", w>> \in Slots
                           /\ <<"tail", w>> \in Slots /\ <<"unsaved", w>> \in Slots
    BY DEF Slots
  <1>3. \A t \in Tiers : Lists[<<"queue", t>>] = queue[t]
    BY <1>1 DEF Lists
  <1>4. ASSUME NEW w \in Workers
        PROVE  /\ Lists[<<"batch", w>>] = batch[w] /\ Lists[<<"hand", w>>] = hand[w]
               /\ Lists[<<"tail", w>>] = tail[w] /\ Lists[<<"unsaved", w>>] = unsaved[w]
    BY <1>2 DEF Lists
  <1>5. ASSUME NEW s \in Slots
        PROVE  \/ \E t \in Tiers : s = <<"queue", t>>
               \/ \E w \in Workers : s \in {<<"batch", w>>, <<"hand", w>>, <<"tail", w>>, <<"unsaved", w>>}
    BY DEF Slots
  <1> QED BY <1>1, <1>2, <1>3, <1>4, <1>5

\* ... and after it.
LEMMA ListsWillBe ==
  /\ \A t \in Tiers : Lists'[<<"queue", t>>] = queue'[t]
  /\ \A w \in Workers :
       /\ Lists'[<<"batch", w>>] = batch'[w]
       /\ Lists'[<<"hand", w>>] = hand'[w]
       /\ Lists'[<<"tail", w>>] = tail'[w]
       /\ Lists'[<<"unsaved", w>>] = unsaved'[w]
  <1>1. \A t \in Tiers : Lists'[<<"queue", t>>] = queue'[t]
    BY ListsAre DEF Lists
  <1>2. ASSUME NEW w \in Workers
        PROVE  /\ Lists'[<<"batch", w>>] = batch'[w] /\ Lists'[<<"hand", w>>] = hand'[w]
               /\ Lists'[<<"tail", w>>] = tail'[w] /\ Lists'[<<"unsaved", w>>] = unsaved'[w]
    BY ListsAre DEF Lists
  <1> QED BY <1>1, <1>2

\* The slots hold entries, and entries name jobs.
LEMMA ListsTyped ==
  ASSUME Typed
  PROVE  /\ \A s \in Slots : Lists[s] \in Seq(Entry)
         /\ \A e \in Entry : e.id \in Jobs
         /\ \A s \in Slots : \A i \in DOMAIN Lists[s] : i \in Nat \ {0} /\ Lists[s][i].id \in Jobs
  <1>1. \A e \in Entry : e.id \in Jobs
    BY JobSets DEF Entry
  <1>2. /\ \A l \in Seq(Queueable) : l \in Seq(Entry)
        /\ \A l \in Seq(Fresh) : l \in Seq(Entry)
        /\ \A l \in Seq(Pair) : l \in Seq(Entry)
    BY JobSets, SeqMonotonic DEF Entry
  <1>3. ASSUME NEW s \in Slots PROVE Lists[s] \in Seq(Entry)
    <2>1. CASE \E t \in Tiers : s = <<"queue", t>>
      BY <2>1, <1>2, ListsAre DEF Typed
    <2>2. ASSUME NEW w \in Workers, s \in {<<"batch", w>>, <<"hand", w>>, <<"tail", w>>, <<"unsaved", w>>}
          PROVE  Lists[s] \in Seq(Entry)
      <3>1. /\ batch[w] \in Seq(Entry) /\ hand[w] \in Seq(Entry)
            /\ tail[w] \in Seq(Entry) /\ unsaved[w] \in Seq(Entry)
        BY <1>2 DEF Typed
      <3>2. Lists[s] \in {batch[w], hand[w], tail[w], unsaved[w]}
        BY <2>2, ListsAre
      <3> QED BY <3>1, <3>2
    <2> QED BY <2>1, <2>2, ListsAre
  <1>4. ASSUME NEW s \in Slots, NEW i \in DOMAIN Lists[s]
        PROVE  i \in Nat \ {0} /\ Lists[s][i].id \in Jobs
    <2>1. Lists[s] \in Seq(Entry)
      BY <1>3
    <2>2. i \in 1..Len(Lists[s]) /\ Len(Lists[s]) \in Nat
      BY <2>1, LenProperties
    <2> QED BY <1>1, <2>1, <2>2, ElementOfSeq
  <1> QED BY <1>1, <1>3, <1>4

\* Nothing else holds the job at the head of a list.
LEMMA Alone ==
  ASSUME Typed, Unique(Lists), NEW x \in Slots, Lists[x] # << >>
  PROVE  /\ 1 \in DOMAIN Lists[x] /\ Head(Lists[x]) = Lists[x][1]
         /\ Head(Lists[x]).id \in Jobs
         /\ \A s \in Slots : \A k \in DOMAIN Lists[s] :
              Lists[s][k].id = Head(Lists[x]).id => s = x /\ k = 1
  <1>1. Lists[x] \in Seq(Entry)
    BY ListsTyped
  <1>2. 1 \in DOMAIN Lists[x] /\ Head(Lists[x]) = Lists[x][1]
    BY <1>1, Popped
  <1> QED BY <1>2, ListsTyped DEF Unique

\* A position left by a step that takes entries away.
Left(s, k) == Lists'[s] = Lists[s] \/ (k # 1 /\ Lists'[s] # << >>)

\* A step that only takes entries away keeps the lists apart, and the jobs they
\* still hold pending if their answers and outcomes do not change.
LEMMA TakenAway ==
  ASSUME Typed, Exclusive,
         \A s \in Slots : \/ Lists'[s] = Lists[s]
                          \/ Lists'[s] = << >>
                          \/ Lists[s] # << >> /\ Lists'[s] = Tail(Lists[s]),
         \A s \in Slots : \A k \in DOMAIN Lists[s] : Left(s, k) =>
           /\ reply'[Lists[s][k].id] # "none"
           /\ result'[Lists[s][k].id] = result[Lists[s][k].id]
           /\ dlq'[Lists[s][k].id] = dlq[Lists[s][k].id],
         \A w \in Workers : place[w] = "repush" => place'[w] = "repush" \/ tail'[w] # tail[w]
  PROVE  Unique(Lists)' /\ AllPending'
  <1>0. Unique(Lists) /\ AllPending
    BY DEF Exclusive
  <1>1. Unique(Lists') /\ RemoveOrigins(Lists, Lists')
    <2>1. \A s \in Slots : Lists[s] \in Seq(Entry)
      BY ListsTyped
    <2> DEFINE F == Lists
               G == Lists'
    <2>2. /\ Unique(F) /\ \A s \in Slots : F[s] \in Seq(Entry)
          /\ \A s \in Slots : \/ G[s] = F[s]
                              \/ G[s] = << >>
                              \/ F[s] # << >> /\ G[s] = Tail(F[s])
      BY <1>0, <2>1
    <2> HIDE DEF F, G
    <2>3. Unique(G) /\ RemoveOrigins(F, G)
      BY <2>2, Removed
    <2> QED BY <2>3 DEF F, G
  <1>2. ASSUME NEW s \in Slots, NEW i \in DOMAIN Lists'[s] PROVE Pending(s, i)'
    <2>1. PICK k \in DOMAIN Lists[s] : /\ Lists'[s][i] = Lists[s][k]
                                       /\ Lists'[s] = Lists[s] => k = i
                                       /\ Lists'[s] # Lists[s] => k # 1
      BY <1>1 DEF RemoveOrigins
    <2>2. Pending(s, k)
      BY <1>0 DEF AllPending
    <2>3. Left(s, k)
      <3>1. Lists'[s] # << >>
        BY Empty
      <3> QED BY <2>1, <3>1 DEF Left
    <2>4. /\ reply'[Lists[s][k].id] # "none"
          /\ result'[Lists[s][k].id] = result[Lists[s][k].id]
          /\ dlq'[Lists[s][k].id] = dlq[Lists[s][k].id]
      BY <2>3
    <2>5. ASSUME s[1] = "tail", k = 1, place[s[2]] = "repush" PROVE i = 1 /\ place'[s[2]] = "repush"
      <3>1. PICK w \in Workers : s = <<"tail", w>>
        BY <2>5, ListsAre
      <3>2. tail'[w] = tail[w]
        BY <2>1, <2>5, <3>1, ListsAre, ListsWillBe
      <3>3. Lists'[s] = Lists[s]
        BY <3>1, <3>2, ListsAre, ListsWillBe
      <3> QED BY <2>1, <2>5, <3>1, <3>2, <3>3
    <2> QED BY <2>1, <2>2, <2>4, <2>5 DEF Pending
  <1> QED BY <1>1, <1>2 DEF Unique, AllPending

\* A list that a step does not touch.
LEMMA Elsewhere ==
  ASSUME NEW s \in Slots,
         \A t \in Tiers : s = <<"queue", t>> => queue'[t] = queue[t],
         \A w \in Workers : /\ s = <<"batch", w>> => batch'[w] = batch[w]
                            /\ s = <<"hand", w>> => hand'[w] = hand[w]
                            /\ s = <<"tail", w>> => tail'[w] = tail[w]
                            /\ s = <<"unsaved", w>> => unsaved'[w] = unsaved[w]
  PROVE  Lists'[s] = Lists[s]
  <1>1. CASE \E t \in Tiers : s = <<"queue", t>>
    BY <1>1, ListsAre, ListsWillBe
  <1>2. ASSUME NEW w \in Workers, s \in {<<"batch", w>>, <<"hand", w>>, <<"tail", w>>, <<"unsaved", w>>}
        PROVE  Lists'[s] = Lists[s]
    <2>1. CASE s = <<"batch", w>>
      <3>1. batch'[w] = batch[w]
        BY <2>1
      <3>2. Lists'[s] = batch'[w] /\ Lists[s] = batch[w]
        BY <2>1, ListsAre, ListsWillBe
      <3> QED BY <3>1, <3>2
    <2>2. CASE s = <<"hand", w>>
      <3>1. hand'[w] = hand[w]
        BY <2>2
      <3>2. Lists'[s] = hand'[w] /\ Lists[s] = hand[w]
        BY <2>2, ListsAre, ListsWillBe
      <3> QED BY <3>1, <3>2
    <2>3. CASE s = <<"tail", w>>
      <3>1. tail'[w] = tail[w]
        BY <2>3
      <3>2. Lists'[s] = tail'[w] /\ Lists[s] = tail[w]
        BY <2>3, ListsAre, ListsWillBe
      <3> QED BY <3>1, <3>2
    <2>4. CASE s = <<"unsaved", w>>
      <3>1. unsaved'[w] = unsaved[w]
        BY <2>4
      <3>2. Lists'[s] = unsaved'[w] /\ Lists[s] = unsaved[w]
        BY <2>4, ListsAre, ListsWillBe
      <3> QED BY <3>1, <3>2
    <2> QED BY <1>2, <2>1, <2>2, <2>3, <2>4
  <1> QED BY <1>1, <1>2, ListsAre

\* A step that changes no list and no outcome.
LEMMA QuietStep ==
  ASSUME Typed, Exclusive, UNCHANGED <<queue, dlq, result, held>>,
         \A j \in Jobs : reply[j] # "none" => reply'[j] # "none",
         \A w \in Workers : place'[w] = "repush" <=> place[w] = "repush"
  PROVE  Unique(Lists)' /\ AllPending' /\ Settled' /\ Spent'
  <1>1. \A s \in Slots : Lists'[s] = Lists[s]
    BY Elsewhere DEF held
  <1>2. ASSUME NEW s \in Slots, NEW k \in DOMAIN Lists[s]
        PROVE  /\ reply'[Lists[s][k].id] # "none"
               /\ result'[Lists[s][k].id] = result[Lists[s][k].id]
               /\ dlq'[Lists[s][k].id] = dlq[Lists[s][k].id]
    BY ListsTyped DEF Exclusive, AllPending, Pending
  <1>3. Unique(Lists)' /\ AllPending'
    BY <1>1, <1>2, TakenAway
  <1>4. Settled' /\ Spent'
    BY DEF Exclusive, Settled, Spent, LastRetry, held
  <1> QED BY <1>3, <1>4

\* What the pods do: only a job that no list holds is pushed.
LEMMA ApiExclusive ==
  ASSUME Typed, Exclusive, NEW a \in Apis, ApiStep(a) \/ ApiCrash(a)
  PROVE  Exclusive'
  <1> USE DEF workerVars, held
  <1>u. Unanswered
    BY DEF Exclusive
  <1>n. NoJob \notin Jobs /\ \A b \in Apis : admitting[b] # NoJob => admitting[b] \in Jobs
    BY PipelineAssumption DEF PipelineAssumption, Typed
  <1>1. ASSUME NEW j \in Jobs, Verify(a, j) PROVE Exclusive'
    <2>1. Unanswered'
      BY <1>1, <1>u, <1>n DEF Unanswered, Verify, Requested, Typed
    <2>2. Unique(Lists)' /\ AllPending' /\ Settled' /\ Spent'
      BY <1>1, QuietStep DEF Verify
    <2> QED BY <2>1, <2>2 DEF Exclusive
  <1>2. ASSUME NEW j \in Jobs, Shed(a, j) \/ VerifyFails(a, j) PROVE Exclusive'
    <2>1. /\ Requested(a, j) /\ UNCHANGED <<queue, dlq, result, admitting, workerVars>>
          /\ reply' = [reply EXCEPT ![j] = "full"] \/ reply' = [reply EXCEPT ![j] = "unavailable"]
      BY <1>2 DEF Shed, VerifyFails, Answer
    <2>2. Unanswered'
      BY <2>1, <1>u, <1>n DEF Unanswered, Requested, Typed
    <2>3. \A k \in Jobs : reply[k] # "none" => reply'[k] # "none"
      BY <2>1 DEF Typed
    <2>4. Unique(Lists)' /\ AllPending' /\ Settled' /\ Spent'
      BY <2>1, <2>3, QuietStep
    <2> QED BY <2>2, <2>4 DEF Exclusive
  <1>3. ASSUME NEW o \in Outcomes, Enqueue(a, o) PROVE Exclusive'
    <2> DEFINE j == admitting[a]
               y == <<"queue", TierOf(j)>>
               e == [id |-> j, retry |-> 0]
    <2>1. j \in Jobs /\ TierOf(j) \in Tiers /\ reply[j] = "none" /\ result[j] = NoJob /\ dlq[j] = 0
      BY <1>3, <1>u, <1>n DEF Enqueue, Unanswered, TierOf, Tiers
    <2>2. /\ UNCHANGED <<dlq, result, place, batch, hand, tail, unsaved>>
          /\ admitting' = [admitting EXCEPT ![a] = NoJob]
          /\ reply' = [reply EXCEPT ![j] = "queued"] \/ reply' = [reply EXCEPT ![j] = "unavailable"]
      BY <1>3 DEF Enqueue, Answer
    <2>3. Unanswered'
      BY <2>1, <2>2, <1>u, <1>n DEF Unanswered, Typed
    <2>4. \A k \in Jobs : reply[k] # "none" => reply'[k] # "none"
      BY <2>2 DEF Typed
    <2>5. CASE ~Executed(o)
      <3>1. UNCHANGED queue
        BY <1>3, <2>5 DEF Enqueue, Push
      <3>2. Unique(Lists)' /\ AllPending' /\ Settled' /\ Spent'
        BY <2>2, <2>4, <3>1, QuietStep
      <3> QED BY <2>3, <3>2 DEF Exclusive
    <2>6. CASE Executed(o)
      <3>1. queue' = [queue EXCEPT ![TierOf(j)] = Append(@, e)]
        BY <1>3, <2>6 DEF Enqueue, Push
      <3>2. y \in Slots /\ e \in Entry
        BY <2>1, ListsAre, JobSets DEF Entry
      <3>3. Lists'[y] = Append(Lists[y], e)
        <4>1. queue'[TierOf(j)] = Append(queue[TierOf(j)], e)
          BY <2>1, <3>1 DEF Typed
        <4>2. Lists[y] = queue[TierOf(j)] /\ Lists'[y] = queue'[TierOf(j)]
          BY <2>1, ListsAre, ListsWillBe
        <4> QED BY <4>1, <4>2
      <3>4. ASSUME NEW s \in Slots, s # y PROVE Lists'[s] = Lists[s]
        BY <2>1, <2>2, <3>1, <3>4, Elsewhere DEF Typed
      <3>5. \A s \in Slots : \A i \in DOMAIN Lists[s] : Lists[s][i].id # e.id
        BY <2>1 DEF Exclusive, AllPending, Pending
      <3>6. Unique(Lists) /\ \A s \in Slots : Lists[s] \in Seq(Entry)
        BY ListsTyped DEF Exclusive
      <3> DEFINE F == Lists
                 G == Lists'
      <3>7. /\ Unique(F) /\ \A s \in Slots : F[s] \in Seq(Entry)
            /\ \A s \in Slots : \A i \in DOMAIN F[s] : F[s][i].id # e.id
            /\ G[y] = Append(F[y], e) /\ \A s \in Slots : s # y => G[s] = F[s]
        BY <3>3, <3>4, <3>5, <3>6
      <3>8. Unique(G) /\ AddOrigins(F, G, y, e)
        <4> HIDE DEF F, G, e, y
        <4> QED BY <3>2, <3>7, Added
      <3>9. ASSUME NEW s \in Slots, NEW i \in DOMAIN Lists'[s] PROVE Pending(s, i)'
        <4>1. CASE s = y /\ Lists'[s][i] = e
          <5>1. reply'[j] # "none" /\ result'[j] = NoJob /\ dlq'[j] = 0
            BY <2>1, <2>2 DEF Typed
          <5> QED BY <4>1, <5>1 DEF Pending
        <4>2. CASE i \in DOMAIN Lists[s] /\ Lists'[s][i] = Lists[s][i]
          <5>1. Pending(s, i) /\ Lists[s][i].id \in Jobs
            BY <4>2, ListsTyped DEF Exclusive, AllPending
          <5> QED BY <2>2, <2>4, <4>2, <5>1 DEF Pending
        <4> QED BY <3>8, <4>1, <4>2 DEF AddOrigins
      <3>10. Settled' /\ Spent'
        BY <2>2 DEF Exclusive, Settled, Spent, LastRetry
      <3> QED BY <2>3, <3>8, <3>9, <3>10 DEF Exclusive, AllPending, Unique
    <2> QED BY <2>5, <2>6
  <1>4. ASSUME ApiCrash(a) PROVE Exclusive'
    <2>1. /\ UNCHANGED <<queue, dlq, result, workerVars>>
          /\ admitting' = [admitting EXCEPT ![a] = NoJob] /\ admitting[a] \in Jobs
          /\ reply' = [reply EXCEPT ![admitting[a]] = "disconnected"]
      BY <1>4, <1>n DEF ApiCrash, Answer
    <2>2. Unanswered'
      BY <2>1, <1>u, <1>n DEF Unanswered, Typed
    <2>3. \A k \in Jobs : reply[k] # "none" => reply'[k] # "none"
      BY <2>1 DEF Typed
    <2>4. Unique(Lists)' /\ AllPending' /\ Settled' /\ Spent'
      BY <2>1, <2>3, QuietStep
    <2> QED BY <2>2, <2>4 DEF Exclusive
  <1> QED BY <1>1, <1>2, <1>3, <1>4 DEF ApiStep

\* Steps of a worker that change no list and no outcome.
LEMMA IdleExclusive ==
  ASSUME Typed, Exclusive, NEW w \in Workers,
         \/ \E o \in ReadOutcomes :
              ReadVipDepth(w, o) \/ ReadFreeDepth(w, o) \/ UpdateQueueDepthMetric(w, o)
         \/ FlushFull(w) \/ FlushTimeout(w) \/ FlushEmpty(w) \/ FinishBatch(w) \/ Restart(w)
  PROVE  Exclusive'
  <1>1. UNCHANGED <<queue, dlq, result, held>> /\ UNCHANGED apiVars
    BY DEF ReadVipDepth, ReadFreeDepth, UpdateQueueDepthMetric, FlushFull, FlushTimeout,
           FlushEmpty, FinishBatch, Restart
  <1>2. /\ place[w] # "repush"
        /\ \E p \in Places \ {"repush"} : place' = [place EXCEPT ![w] = p]
    BY DEF ReadVipDepth, ReadFreeDepth, UpdateQueueDepthMetric, FlushFull, FlushTimeout,
           FlushEmpty, FinishBatch, Restart, Filling, Flush, StartOver, At, Goto, Places
  <1>3. Unique(Lists)' /\ AllPending' /\ Settled' /\ Spent'
    BY <1>1, <1>2, QuietStep DEF apiVars, Typed
  <1>4. Unanswered'
    BY <1>1 DEF Exclusive, Unanswered, apiVars
  <1> QED BY <1>3, <1>4 DEF Exclusive

\* A pop that fails may have removed the job: it is lost, not duplicated.
LEMMA PopFailsExclusive ==
  ASSUME Typed, Exclusive, NEW w \in Workers, NEW o \in Outcomes, PopFails(w, o)
  PROVE  Exclusive'
  <1> DEFINE x == <<"queue", QueueOf(w)>>
  <1>1. UNCHANGED <<dlq, result, reply, admitting, batch, hand, tail, unsaved>>
    BY DEF PopFails, held, apiVars
  <1>2. /\ place[w] # "repush"
        /\ \E p \in Places \ {"repush"} : place' = [place EXCEPT ![w] = p]
    BY DEF PopFails, Filling, Flush, StartOver, At, Goto, Places
  <1>3. QueueOf(w) \in Tiers
    BY DEF QueueOf, Tiers
  <1>4. ASSUME NEW s \in Slots
        PROVE  \/ Lists'[s] = Lists[s]
               \/ Lists[s] # << >> /\ Lists'[s] = Tail(Lists[s])
    <2>1. CASE s = x
      <3>1. \/ queue'[QueueOf(w)] = queue[QueueOf(w)]
            \/ /\ queue[QueueOf(w)] # << >>
               /\ queue'[QueueOf(w)] = Tail(queue[QueueOf(w)])
        BY <1>3 DEF PopFails, Waiting, Typed
      <3>2. Lists[s] = queue[QueueOf(w)] /\ Lists'[s] = queue'[QueueOf(w)]
        BY <1>3, <2>1, ListsAre, ListsWillBe
      <3> QED BY <3>1, <3>2
    <2>2. CASE s # x
      BY <1>1, <1>3, <2>2, Elsewhere DEF PopFails, Typed
    <2> QED BY <2>1, <2>2
  <1>5. ASSUME NEW s \in Slots, NEW k \in DOMAIN Lists[s]
        PROVE  /\ reply'[Lists[s][k].id] # "none"
               /\ result'[Lists[s][k].id] = result[Lists[s][k].id]
               /\ dlq'[Lists[s][k].id] = dlq[Lists[s][k].id]
    BY <1>1 DEF Exclusive, AllPending, Pending
  <1>6. \A v \in Workers : place[v] = "repush" => place'[v] = "repush"
    BY <1>2 DEF Typed
  <1>7. Unique(Lists)' /\ AllPending'
    BY <1>4, <1>5, <1>6, TakenAway
  <1>8. Unanswered' /\ Settled' /\ Spent'
    BY <1>1, <1>2 DEF Exclusive, Unanswered, Settled, Spent, LastRetry, Typed
  <1> QED BY <1>7, <1>8 DEF Exclusive

\* A kill empties what the worker held.
LEMMA CrashExclusive ==
  ASSUME Typed, Equipped, Exclusive, NEW w \in Workers, WorkerCrash(w)
  PROVE  Exclusive'
  <1>1. /\ UNCHANGED <<queue, dlq, result, reply, admitting>>
        /\ place' = [place EXCEPT ![w] = "down"]
        /\ batch' = [batch EXCEPT ![w] = << >>] /\ hand' = [hand EXCEPT ![w] = << >>]
        /\ tail' = [tail EXCEPT ![w] = << >>] /\ unsaved' = [unsaved EXCEPT ![w] = << >>]
    BY DEF WorkerCrash, Goto, apiVars
  <1>2. ASSUME NEW s \in Slots PROVE Lists'[s] = Lists[s] \/ Lists'[s] = << >>
    <2>1. CASE s \in {<<"batch", w>>, <<"hand", w>>, <<"tail", w>>, <<"unsaved", w>>}
      <3>1. /\ batch'[w] = << >> /\ hand'[w] = << >>
            /\ tail'[w] = << >> /\ unsaved'[w] = << >>
        BY <1>1 DEF Typed
      <3>2. Lists'[s] \in {batch'[w], hand'[w], tail'[w], unsaved'[w]}
        BY <2>1, ListsWillBe
      <3> QED BY <3>1, <3>2
    <2>2. CASE s \notin {<<"batch", w>>, <<"hand", w>>, <<"tail", w>>, <<"unsaved", w>>}
      BY <1>1, <2>2, Elsewhere DEF Typed
    <2> QED BY <2>1, <2>2
  <1>3. ASSUME NEW s \in Slots, NEW k \in DOMAIN Lists[s]
        PROVE  /\ reply'[Lists[s][k].id] # "none"
               /\ result'[Lists[s][k].id] = result[Lists[s][k].id]
               /\ dlq'[Lists[s][k].id] = dlq[Lists[s][k].id]
    BY <1>1 DEF Exclusive, AllPending, Pending
  <1>4. \A v \in Workers : place[v] = "repush" => place'[v] = "repush" \/ tail'[v] # tail[v]
    BY <1>1 DEF Equipped, Typed
  <1>5. Unique(Lists)' /\ AllPending'
    BY <1>2, <1>3, <1>4, TakenAway
  <1>6. Unanswered' /\ Settled' /\ Spent'
    BY <1>1 DEF Exclusive, Unanswered, Settled, Spent, LastRetry, Typed
  <1> QED BY <1>5, <1>6 DEF Exclusive

\* A dropped job leaves the pipeline with its entry in the dead letter queue, or
\* without it: no list holds it afterwards.
LEMMA DropExclusive ==
  ASSUME Typed, Equipped, Exclusive, NEW w \in Workers, NEW o \in Outcomes, DeadLetter(w, o)
  PROVE  Exclusive'
  <1> DEFINE x == <<"hand", w>>
             j == Head(hand[w]).id
  <1>1. /\ UNCHANGED <<queue, result, reply, admitting, batch, tail, unsaved>>
        /\ place[w] = "drop" /\ place' = [place EXCEPT ![w] = "fetch"]
        /\ hand' = [hand EXCEPT ![w] = << >>] /\ PushDlq(j, o)
    BY DEF DeadLetter, Goto, At, apiVars
  <1>2. x \in Slots /\ Lists[x] = hand[w] /\ Lists[x] # << >> /\ Lists'[x] = << >>
    BY <1>1, ListsAre, ListsWillBe DEF Equipped, Typed
  <1>3. /\ j \in Jobs /\ 1 \in DOMAIN Lists[x] /\ Lists[x][1].id = j
        /\ \A s \in Slots : \A k \in DOMAIN Lists[s] : Lists[s][k].id = j => s = x /\ k = 1
    BY <1>2, Alone DEF Exclusive
  <1> HIDE DEF j
  <1>4. Pending(x, 1)
    BY <1>2, <1>3 DEF Exclusive, AllPending
  <1>5. /\ \A k \in Jobs : k # j => dlq'[k] = dlq[k]
        /\ dlq'[j] <= 2 /\ result[j] = NoJob /\ reply[j] # "none"
    BY <1>1, <1>2, <1>3, <1>4 DEF Pending, PushDlq, Typed
  <1>6. ASSUME NEW s \in Slots, s # x PROVE Lists'[s] = Lists[s]
    BY <1>1, <1>6, Elsewhere DEF Typed
  <1>7. ASSUME NEW s \in Slots, NEW k \in DOMAIN Lists[s], Left(s, k)
        PROVE  /\ reply'[Lists[s][k].id] # "none"
               /\ result'[Lists[s][k].id] = result[Lists[s][k].id]
               /\ dlq'[Lists[s][k].id] = dlq[Lists[s][k].id]
    <2>1. s # x
      BY <1>2, <1>7 DEF Left
    <2>2. Lists[s][k].id # j /\ Lists[s][k].id \in Jobs /\ Pending(s, k)
      BY <1>3, <2>1, ListsTyped DEF Exclusive, AllPending
    <2> QED BY <1>1, <1>5, <2>2 DEF Pending
  <1>8. \A v \in Workers : place[v] = "repush" => place'[v] = "repush"
    BY <1>1 DEF Typed
  <1>9. Unique(Lists)' /\ AllPending'
    BY <1>2, <1>6, <1>7, <1>8, TakenAway
  <1>10. Unanswered'
    BY <1>1, <1>5 DEF Exclusive, Unanswered
  <1>11. Settled' /\ Spent'
    BY <1>1, <1>3, <1>5 DEF Exclusive, Settled, Spent, LastRetry, Typed
  <1> QED BY <1>9, <1>10, <1>11 DEF Exclusive

\* A result is stored for a job that was never buried and that no list holds
\* afterwards.
LEMMA SaveExclusive ==
  ASSUME Typed, Exclusive, NEW w \in Workers, NEW o \in Outcomes, SaveResult(w, o)
  PROVE  Exclusive' /\ \A j \in Jobs : HasResult(j) => result'[j] = result[j]
  <1> DEFINE x == <<"unsaved", w>>
             j == Head(unsaved[w]).id
  <1>1. /\ UNCHANGED <<queue, dlq, reply, admitting, batch, hand, tail, place>>
        /\ unsaved[w] # << >> /\ unsaved' = [unsaved EXCEPT ![w] = Tail(@)]
        /\ result' = result \/ result' = [result EXCEPT ![j] = Head(unsaved[w]).of]
    BY DEF SaveResult, Value, apiVars
  <1>2. x \in Slots /\ Lists[x] = unsaved[w] /\ Lists[x] # << >> /\ Lists'[x] = Tail(Lists[x])
    <2>1. unsaved'[w] = Tail(unsaved[w])
      BY <1>1 DEF Typed
    <2>2. x \in Slots /\ Lists[x] = unsaved[w] /\ Lists'[x] = unsaved'[w]
      BY ListsAre, ListsWillBe
    <2> QED BY <1>1, <2>1, <2>2
  <1>3. /\ j \in Jobs /\ 1 \in DOMAIN Lists[x] /\ Lists[x][1].id = j
        /\ \A s \in Slots : \A k \in DOMAIN Lists[s] : Lists[s][k].id = j => s = x /\ k = 1
    BY <1>2, Alone DEF Exclusive
  <1> HIDE DEF j
  <1>4. Pending(x, 1)
    BY <1>2, <1>3 DEF Exclusive, AllPending
  <1>5. /\ \A k \in Jobs : k # j => result'[k] = result[k]
        /\ dlq[j] = 0 /\ result[j] = NoJob /\ reply[j] # "none"
    <2>1. \A k \in Jobs : k # j => result'[k] = result[k]
      BY <1>1, <1>3 DEF Typed
    <2>2. result[j] = NoJob /\ reply[j] # "none" /\ dlq[j] = 0
      BY <1>3, <1>4 DEF Pending, Typed
    <2> QED BY <2>1, <2>2
  <1>6. ASSUME NEW s \in Slots, s # x PROVE Lists'[s] = Lists[s]
    BY <1>1, <1>6, Elsewhere DEF Typed
  <1>7. ASSUME NEW s \in Slots, NEW k \in DOMAIN Lists[s], Left(s, k)
        PROVE  /\ reply'[Lists[s][k].id] # "none"
               /\ result'[Lists[s][k].id] = result[Lists[s][k].id]
               /\ dlq'[Lists[s][k].id] = dlq[Lists[s][k].id]
    <2>1. ~(s = x /\ k = 1)
      <3>1. Lists[x] \in Seq(Entry)
        BY <1>2, ListsTyped
      <3>2. Tail(Lists[x]) # Lists[x]
        BY <1>2, <3>1, Shorter
      <3> QED BY <1>2, <1>7, <3>2 DEF Left
    <2>2. Lists[s][k].id # j /\ Lists[s][k].id \in Jobs /\ Pending(s, k)
      BY <1>3, <2>1, ListsTyped DEF Exclusive, AllPending
    <2> QED BY <1>1, <1>5, <2>2 DEF Pending
  <1>9. Unique(Lists)' /\ AllPending'
    BY <1>1, <1>2, <1>6, <1>7, TakenAway
  <1>10. Unanswered'
    BY <1>1, <1>5 DEF Exclusive, Unanswered
  <1>11. Settled' /\ Spent'
    BY <1>1, <1>5 DEF Exclusive, Settled, Spent, LastRetry
  <1>12. \A k \in Jobs : HasResult(k) => result'[k] = result[k]
    BY <1>5 DEF HasResult
  <1> QED BY <1>9, <1>10, <1>11, <1>12 DEF Exclusive

\* A job that moves from the head of one list to the end of another one stays
\* alone, and pending if the list it moves to may hold it.
LEMMA HeadMoves ==
  ASSUME Typed, Exclusive, UNCHANGED <<dlq, result, reply>>,
         NEW x \in Slots, NEW y \in Slots, x # y, y[1] # "tail", Lists[x] # << >>,
         NEW e \in Entry, e.id = Head(Lists[x]).id,
         dlq[e.id] = 1 => (y[1] = "queue" /\ e.retry = MaxRetries) \/ y[1] = "hand",
         Lists'[x] = Tail(Lists[x]),
         Lists'[y] = Append(Lists[y], e) \/ Lists'[y] = <<e>>,
         \A s \in Slots : s # x /\ s # y => Lists'[s] = Lists[s],
         \A w \in Workers : place[w] = "repush" /\ x # <<"tail", w>> => place'[w] = "repush"
  PROVE  Unique(Lists)' /\ AllPending'
  <1> DEFINE F == Lists
             G == Lists'
  <1>1. /\ Unique(F) /\ \A s \in Slots : F[s] \in Seq(Entry)
        /\ F[x] # << >> /\ e.id = Head(F[x]).id
        /\ G[x] = Tail(F[x]) /\ (G[y] = Append(F[y], e) \/ G[y] = <<e>>)
        /\ \A s \in Slots : s # x /\ s # y => G[s] = F[s]
    BY ListsTyped DEF Exclusive
  <1>2. Unique(G) /\ MoveOrigins(F, G, x, y, e)
    <2> HIDE DEF F, G
    <2> QED BY <1>1, Moved
  <1>3. 1 \in DOMAIN Lists[x] /\ Head(Lists[x]) = Lists[x][1]
    BY Alone DEF Exclusive
  <1>4. \A s \in Slots : \A k \in DOMAIN Lists[s] : Pending(s, k)
    BY DEF Exclusive, AllPending
  <1>5. ASSUME NEW s \in Slots, NEW i \in DOMAIN Lists'[s] PROVE Pending(s, i)'
    <2>1. CASE s = x /\ i + 1 \in DOMAIN Lists[x] /\ i + 1 # 1 /\ Lists'[s][i] = Lists[x][i + 1]
      <3>1. Pending(x, i + 1)
        BY <2>1, <1>4
      <3> QED BY <2>1, <3>1 DEF Pending
    <2>2. CASE s = y /\ i \in DOMAIN Lists[y] /\ Lists'[s][i] = Lists[y][i]
      <3>1. Pending(y, i)
        BY <2>2, <1>4
      <3> QED BY <2>2, <3>1 DEF Pending
    <2>3. CASE s = y /\ Lists'[s][i] = e
      <3>1. Pending(x, 1)
        BY <1>3, <1>4
      <3> QED BY <2>3, <3>1, <1>3 DEF Pending
    <2>4. CASE s # x /\ s # y /\ i \in DOMAIN Lists[s] /\ Lists'[s][i] = Lists[s][i]
      <3>1. Pending(s, i)
        BY <2>4, <1>4
      <3>2. s[1] = "tail" /\ place[s[2]] = "repush" => place'[s[2]] = "repush"
        BY <2>4, ListsAre
      <3> QED BY <2>4, <3>1, <3>2 DEF Pending
    <2> QED BY <1>2, <2>1, <2>2, <2>3, <2>4 DEF MoveOrigins
  <1> QED BY <1>2, <1>5 DEF Unique, AllPending

\* A popped job joins the batch only with a retry left, and so not buried, or is
\* on its way to be dropped.
LEMMA PopExclusive ==
  ASSUME Typed, Exclusive, NEW w \in Workers, PopKeep(w) \/ PopDrop(w)
  PROVE  Exclusive'
  <1> DEFINE x == <<"queue", QueueOf(w)>>
             e == Head(queue[QueueOf(w)])
             y == IF PopKeep(w) THEN <<"batch", w>> ELSE <<"hand", w>>
  <1>0. QueueOf(w) \in Tiers
    BY DEF QueueOf, Tiers
  <1>1. /\ UNCHANGED <<dlq, result, reply, admitting, tail, unsaved>>
        /\ place[w] = "fetch" /\ (place' = place \/ place' = [place EXCEPT ![w] = "drop"])
        /\ queue[QueueOf(w)] # << >>
        /\ queue' = [queue EXCEPT ![QueueOf(w)] = Tail(@)]
        /\ \/ /\ PopKeep(w) /\ e.retry < MaxRetries /\ UNCHANGED hand
              /\ batch' = [batch EXCEPT ![w] = Append(@, e)]
           \/ /\ ~PopKeep(w) /\ UNCHANGED batch
              /\ hand' = [hand EXCEPT ![w] = <<e>>]
    BY DEF PopKeep, Retriable, PopDrop, Pop, Filling, Waiting, At, Goto, apiVars
  <1>2. /\ x \in Slots /\ Lists[x] = queue[QueueOf(w)] /\ Lists[x] # << >>
        /\ Lists'[x] = Tail(Lists[x])
    <2>1. queue'[QueueOf(w)] = Tail(queue[QueueOf(w)])
      BY <1>0, <1>1 DEF Typed
    <2>2. /\ x \in Slots /\ Lists[x] = queue[QueueOf(w)]
          /\ Lists'[x] = queue'[QueueOf(w)]
      BY <1>0, ListsAre, ListsWillBe
    <2> QED BY <1>1, <2>1, <2>2
  <1>3. y \in Slots /\ x # y /\ y[1] # "tail"
    BY ListsAre
  <1>4. e \in Entry /\ e \in Queueable /\ e.id \in Jobs
    BY <1>0, <1>1, Popped, JobSets DEF Entry, Typed
  <1>5. Lists'[y] = Append(Lists[y], e) \/ Lists'[y] = <<e>>
    <2>1. CASE PopKeep(w)
      <3>1. batch'[w] = Append(batch[w], e)
        BY <1>1, <2>1 DEF Typed
      <3>2. Lists'[y] = batch'[w] /\ Lists[y] = batch[w]
        BY <2>1, ListsAre, ListsWillBe
      <3> QED BY <3>1, <3>2
    <2>2. CASE ~PopKeep(w)
      <3>1. hand'[w] = <<e>>
        BY <1>1, <2>2 DEF Typed
      <3>2. Lists'[y] = hand'[w]
        BY <2>2, ListsWillBe
      <3> QED BY <3>1, <3>2
    <2> QED BY <2>1, <2>2
  <1>6. ASSUME NEW s \in Slots, s # x, s # y PROVE Lists'[s] = Lists[s]
    BY <1>0, <1>1, <1>6, Elsewhere DEF Typed
  <1>7. PopKeep(w) => dlq[e.id] # 1
    <2>1. 1 \in DOMAIN Lists[x] /\ Lists[x][1] = e
      BY <1>2, Alone DEF Exclusive
    <2>2. Pending(x, 1)
      BY <1>2, <2>1 DEF Exclusive, AllPending
    <2>3. e.retry \in Nat /\ MaxRetries \in Nat
      BY <1>4, JobSets, PipelineAssumption DEF PipelineAssumption
    <2> QED BY <1>1, <2>1, <2>2, <2>3 DEF Pending
  <1>8. dlq[e.id] = 1 => y[1] = "hand"
    BY <1>7
  <1>9. \A v \in Workers : place[v] = "repush" => place'[v] = "repush"
    BY <1>1 DEF Typed
  <1>10. Unique(Lists)' /\ AllPending'
    <2>1. e.id = Head(Lists[x]).id
      BY <1>2
    <2> HIDE DEF x, y, e
    <2>2. UNCHANGED <<dlq, result, reply>>
      BY <1>1
    <2> QED BY <1>2, <1>3, <1>4, <1>5, <1>6, <1>8, <1>9, <2>1, <2>2, HeadMoves
  <1>11. Unanswered' /\ Settled' /\ Spent'
    BY <1>1 DEF Exclusive, Unanswered, Settled, Spent, LastRetry, Typed
  <1> QED BY <1>10, <1>11 DEF Exclusive

\* A failed job goes back to its queue, or is lost with the command: if it was
\* buried first, the copy in the queue has no retry left.
LEMMA RepushExclusive ==
  ASSUME Typed, Equipped, Exclusive, NEW w \in Workers, NEW o \in Outcomes, Repush(w, o)
  PROVE  Exclusive'
  <1> DEFINE x == <<"tail", w>>
             y == <<"queue", QueueOf(w)>>
             h == Head(tail[w])
             e == [id |-> h.id, retry |-> h.retry + 1]
  <1>0. QueueOf(w) \in Tiers
    BY DEF QueueOf, Tiers
  <1>1. /\ UNCHANGED <<dlq, result, reply, admitting, batch, hand, unsaved>>
        /\ place[w] = "repush" \/ (place[w] = "requeue" /\ ~LastRetry(w))
        /\ tail[w] # << >> /\ tail' = [tail EXCEPT ![w] = Tail(@)]
        /\ \E p \in Places \ {"repush"} : place' = [place EXCEPT ![w] = p]
        /\ Push(QueueOf(w), e, o)
    BY DEF Repush, RetryQueue, Unpushed, At, Goto, Places, apiVars, Equipped
  <1>2. /\ x \in Slots /\ Lists[x] = tail[w] /\ Lists[x] # << >>
        /\ Lists'[x] = Tail(Lists[x])
    <2>1. tail'[w] = Tail(tail[w])
      BY <1>1 DEF Typed
    <2>2. x \in Slots /\ Lists[x] = tail[w] /\ Lists'[x] = tail'[w]
      BY ListsAre, ListsWillBe
    <2> QED BY <1>1, <2>1, <2>2
  <1>3. y \in Slots /\ x # y
    BY <1>0, ListsAre
  <1>4. h \in Fresh /\ h.retry \in Nat /\ h.retry < MaxRetries /\ e \in Entry
    BY <1>1, Popped, JobSets DEF Entry, Typed
  <1>5. 1 \in DOMAIN Lists[x] /\ Lists[x][1] = h /\ Pending(x, 1)
    BY <1>2, Alone DEF Exclusive, AllPending
  <1>6. dlq[h.id] = 1 => e.retry = MaxRetries
    <2>1. dlq[h.id] = 1 => place[w] = "repush"
      BY <1>5 DEF Pending
    <2>2. place[w] = "repush" => h.retry + 1 >= MaxRetries
      BY DEF Exclusive, Spent, LastRetry
    <2>3. MaxRetries \in Nat
      BY PipelineAssumption DEF PipelineAssumption
    <2> QED BY <1>4, <2>1, <2>2, <2>3
  <1>7. \A v \in Workers : place[v] = "repush" /\ x # <<"tail", v>> => place'[v] = "repush"
    BY <1>1 DEF Typed
  <1>8. CASE Executed(o)
    <2>1. queue' = [queue EXCEPT ![QueueOf(w)] = Append(@, e)]
      BY <1>1, <1>8 DEF Push
    <2>2. Lists'[y] = Append(Lists[y], e)
      <3>1. queue'[QueueOf(w)] = Append(queue[QueueOf(w)], e)
        BY <1>0, <2>1 DEF Typed
      <3>2. Lists[y] = queue[QueueOf(w)] /\ Lists'[y] = queue'[QueueOf(w)]
        BY <1>0, ListsAre, ListsWillBe
      <3> QED BY <3>1, <3>2
    <2>3. ASSUME NEW s \in Slots, s # x, s # y PROVE Lists'[s] = Lists[s]
      BY <1>0, <1>1, <2>1, <2>3, Elsewhere DEF Typed
    <2>4. Unique(Lists)' /\ AllPending'
      <3>1. e.id = Head(Lists[x]).id /\ y[1] = "queue" /\ dlq[e.id] = dlq[h.id]
        BY <1>2
      <3>2. dlq[e.id] = 1 => y[1] = "queue" /\ e.retry = MaxRetries
        BY <1>6, <3>1
      <3>3. UNCHANGED <<dlq, result, reply>>
        BY <1>1
      <3> HIDE DEF x, y, e
      <3> QED BY <1>2, <1>3, <1>4, <1>7, <2>2, <2>3, <3>1, <3>2, <3>3, HeadMoves
    <2>5. Unanswered' /\ Settled' /\ Spent'
      BY <1>1 DEF Exclusive, Unanswered, Settled, Spent, LastRetry, Typed
    <2> QED BY <2>4, <2>5 DEF Exclusive
  <1>9. CASE ~Executed(o)
    <2>1. UNCHANGED queue
      BY <1>1, <1>9 DEF Push
    <2>2. ASSUME NEW s \in Slots, s # x PROVE Lists'[s] = Lists[s]
      BY <1>1, <2>1, <2>2, Elsewhere DEF Typed
    <2>3. ASSUME NEW s \in Slots, NEW k \in DOMAIN Lists[s]
          PROVE  /\ reply'[Lists[s][k].id] # "none"
                 /\ result'[Lists[s][k].id] = result[Lists[s][k].id]
                 /\ dlq'[Lists[s][k].id] = dlq[Lists[s][k].id]
      BY <1>1 DEF Exclusive, AllPending, Pending
    <2>4. tail'[w] # tail[w]
      <3>1. tail[w] \in Seq(Fresh)
        BY DEF Typed
      <3>2. Tail(tail[w]) # tail[w]
        BY <1>1, <3>1, Shorter
      <3> QED BY <1>1, <3>2 DEF Typed
    <2>5. \A v \in Workers : place[v] = "repush" => place'[v] = "repush" \/ tail'[v] # tail[v]
      BY <1>1, <2>4 DEF Typed
    <2>6. Unique(Lists)' /\ AllPending'
      BY <1>2, <2>2, <2>3, <2>5, TakenAway
    <2>7. Unanswered' /\ Settled' /\ Spent'
      BY <1>1 DEF Exclusive, Unanswered, Settled, Spent, LastRetry, Typed
    <2> QED BY <2>6, <2>7 DEF Exclusive
  <1> QED BY <1>8, <1>9

\* Burying a job on its last retry leaves it at the head of the jobs to requeue.
LEMMA BuryExclusive ==
  ASSUME Typed, Equipped, Exclusive, NEW w \in Workers, NEW o \in Outcomes, Bury(w, o)
  PROVE  Exclusive'
  <1> DEFINE x == <<"tail", w>>
             j == Head(tail[w]).id
  <1>1. /\ UNCHANGED <<queue, result, reply, admitting, batch, hand, tail, unsaved>>
        /\ place[w] = "requeue" /\ place' = [place EXCEPT ![w] = "repush"]
        /\ tail[w] # << >> /\ LastRetry(w) /\ PushDlq(j, o)
    BY DEF Bury, Goto, At, apiVars, held, Equipped
  <1>2. x \in Slots /\ Lists[x] = tail[w] /\ Lists[x] # << >>
    BY <1>1, ListsAre
  <1>3. /\ j \in Jobs /\ 1 \in DOMAIN Lists[x] /\ Lists[x][1].id = j
        /\ \A s \in Slots : \A k \in DOMAIN Lists[s] : Lists[s][k].id = j => s = x /\ k = 1
    BY <1>2, Alone DEF Exclusive
  <1> HIDE DEF j
  <1>4. Pending(x, 1)
    BY <1>2, <1>3 DEF Exclusive, AllPending
  <1>5. /\ \A k \in Jobs : k # j => dlq'[k] = dlq[k]
        /\ dlq'[j] \in {0, 1} /\ result[j] = NoJob /\ reply[j] # "none"
    <2>1. dlq[j] = 0
      BY <1>1, <1>3, <1>4 DEF Pending, Typed
    <2> QED BY <1>1, <1>3, <1>4, <2>1 DEF Pending, PushDlq, Typed
  <1>6. ASSUME NEW s \in Slots PROVE Lists'[s] = Lists[s]
    BY <1>1, Elsewhere
  <1>7. Unique(Lists)'
    BY <1>6 DEF Exclusive, Unique
  <1>8. ASSUME NEW s \in Slots, NEW i \in DOMAIN Lists'[s] PROVE Pending(s, i)'
    <2>1. Lists'[s] = Lists[s] /\ i \in DOMAIN Lists[s] /\ Pending(s, i) /\ Lists[s][i].id \in Jobs
      BY <1>6, ListsTyped DEF Exclusive, AllPending
    <2>2. CASE Lists[s][i].id = j
      <3>1. s = x /\ i = 1
        BY <1>3, <2>1, <2>2
      <3>2. place'[w] = "repush"
        BY <1>1 DEF Typed
      <3>3. s[1] = "tail" /\ s[2] = w /\ Lists'[s][i].id = j
        BY <2>1, <2>2, <3>1
      <3>4. reply'[j] # "none" /\ result'[j] = NoJob /\ dlq'[j] <= 1
        BY <1>1, <1>5
      <3>5. s[1] = "tail" /\ i = 1 /\ place'[s[2]] = "repush"
        BY <3>1, <3>2, <3>3
      <3>6. /\ reply'[Lists'[s][i].id] # "none" /\ result'[Lists'[s][i].id] = NoJob
            /\ dlq'[Lists'[s][i].id] <= 1
        BY <3>3, <3>4
      <3> QED BY <3>5, <3>6, Zenon DEF Pending
    <2>3. CASE Lists[s][i].id # j
      <3>1. s[1] = "tail" /\ place[s[2]] = "repush" => place'[s[2]] = "repush"
        <4>1. \A v \in Workers : place[v] = "repush" => place'[v] = "repush"
          BY <1>1 DEF Typed
        <4> QED BY <4>1, ListsAre
      <3> QED BY <1>1, <1>5, <2>1, <2>3, <3>1 DEF Pending
    <2> QED BY <2>2, <2>3
  <1>9. Unanswered' /\ Settled'
    BY <1>1, <1>3, <1>5 DEF Exclusive, Unanswered, Settled
  <1>10. Spent'
    BY <1>1 DEF Exclusive, Spent, LastRetry, Typed
  <1> QED BY <1>7, <1>8, <1>9, <1>10 DEF Exclusive, AllPending

\* Inference divides the batch: each of its jobs gets a result or is requeued,
\* and none both.
LEMMA InferExclusive ==
  ASSUME Typed, Exclusive, NEW w \in Workers, Infer(w)
  PROVE  Exclusive'
  <1> DEFINE x == <<"batch", w>>
             y == <<"unsaved", w>>
             z == <<"tail", w>>
  <1>1. /\ UNCHANGED <<queue, dlq, result, reply, admitting, hand>>
        /\ place[w] = "infer" /\ batch' = [batch EXCEPT ![w] = << >>]
    BY DEF Infer, At, apiVars
  <1>2. PICK n \in 0..Len(batch[w]) : \E pick \in Picks(n, Len(batch[w])) :
          /\ unsaved' = [unsaved EXCEPT ![w] =
               [i \in 1..n |-> [id |-> batch[w][i].id, of |-> batch[w][pick[i]].id]]]
          /\ tail' = [tail EXCEPT ![w] = SubSeq(batch[w], n + 1, Len(batch[w]))]
          /\ Goto(w, IF SubSeq(batch[w], n + 1, Len(batch[w])) # << >> THEN "requeue" ELSE "save")
    BY DEF Infer, Failed
  <1>3. /\ DOMAIN unsaved'[w] = 1..n /\ \A i \in 1..n : unsaved'[w][i].id = batch[w][i].id
        /\ \A v \in Workers : v # w => unsaved'[v] = unsaved[v]
    BY <1>2 DEF Typed
  <1>4. /\ tail' = [tail EXCEPT ![w] = SubSeq(batch[w], n + 1, Len(batch[w]))]
        /\ place'[w] # "repush" /\ \A v \in Workers : v # w => place'[v] = place[v]
    BY <1>2 DEF Goto, Typed
  <1>5. x \in Slots /\ y \in Slots /\ z \in Slots /\ x # y /\ y # z /\ x # z
    BY ListsAre
  <1>6. Lists[x] = batch[w] /\ n \in 0..Len(Lists[x])
    BY ListsAre
  <1>7. /\ Lists'[x] = << >>
        /\ DOMAIN Lists'[y] = 1..n /\ \A i \in 1..n : Lists'[y][i].id = Lists[x][i].id
        /\ Lists'[z] = SubSeq(Lists[x], n + 1, Len(Lists[x]))
    <2>1. batch'[w] = << >> /\ tail'[w] = SubSeq(batch[w], n + 1, Len(batch[w]))
      BY <1>1, <1>4 DEF Typed
    <2>2. Lists'[x] = batch'[w] /\ Lists'[y] = unsaved'[w] /\ Lists'[z] = tail'[w]
      BY ListsWillBe
    <2> QED BY <1>3, <1>6, <2>1, <2>2
  <1>8. ASSUME NEW s \in Slots, s \notin {x, y, z} PROVE Lists'[s] = Lists[s]
    BY <1>1, <1>3, <1>4, <1>8, Elsewhere DEF Typed
  <1> DEFINE F == Lists
             G == Lists'
  <1>9. /\ Unique(F) /\ \A s \in Slots : F[s] \in Seq(Entry)
        /\ n \in 0..Len(F[x]) /\ G[x] = << >>
        /\ DOMAIN G[y] = 1..n /\ \A i \in 1..n : G[y][i].id = F[x][i].id
        /\ G[z] = SubSeq(F[x], n + 1, Len(F[x]))
        /\ \A s \in Slots : s \notin {x, y, z} => G[s] = F[s]
    BY <1>6, <1>7, <1>8, ListsTyped DEF Exclusive
  <1>10. Unique(G) /\ DivideOrigins(F, G, x, y, z)
    <2> HIDE DEF F, G, x, y, z
    <2> QED BY <1>5, <1>9, Divided
  <1>11. ASSUME NEW s \in Slots, NEW i \in DOMAIN Lists'[s] PROVE Pending(s, i)'
    <2>1. CASE s \in {y, z} /\ \E k \in DOMAIN Lists[x] : Lists'[s][i].id = Lists[x][k].id
      <3>1. PICK k \in DOMAIN Lists[x] : Lists'[s][i].id = Lists[x][k].id
        BY <2>1
      <3>2. Pending(x, k) /\ Lists[x][k].id \in Jobs
        BY <1>5, ListsTyped DEF Exclusive, AllPending
      <3>3. dlq[Lists[x][k].id] # 1
        BY <3>2 DEF Pending
      <3> QED BY <1>1, <3>1, <3>2, <3>3 DEF Pending
    <2>2. CASE s \notin {x, y, z} /\ i \in DOMAIN Lists[s] /\ Lists'[s][i] = Lists[s][i]
      <3>1. Pending(s, i)
        BY <2>2 DEF Exclusive, AllPending
      <3>2. s[1] = "tail" /\ place[s[2]] = "repush" => place'[s[2]] = "repush"
        BY <1>4, <2>2, ListsAre
      <3> QED BY <1>1, <2>2, <3>1, <3>2 DEF Pending
    <2> QED BY <1>10, <2>1, <2>2 DEF DivideOrigins
  <1>12. Unanswered' /\ Settled'
    BY <1>1 DEF Exclusive, Unanswered, Settled
  <1>13. Spent'
    BY <1>4 DEF Exclusive, Spent, LastRetry, Typed
  <1> QED BY <1>10, <1>11, <1>12, <1>13 DEF Exclusive, AllPending, Unique

-----------------------------------------------------------------------------
(* The invariant of the pipeline, and what follows from it. *)

\* At the start no list holds a job and no job has an answer.
LEMMA InitExclusive == Init => Exclusive
  <1> SUFFICES ASSUME Init PROVE Exclusive
    OBVIOUS
  <1>1. ASSUME NEW s \in Slots PROVE DOMAIN Lists[s] = {}
    <2>1. Lists[s] = << >>
      <3>1. CASE \E t \in Tiers : s = <<"queue", t>>
        BY <3>1, ListsAre DEF Init
      <3>2. ASSUME NEW w \in Workers, s \in {<<"batch", w>>, <<"hand", w>>, <<"tail", w>>, <<"unsaved", w>>}
            PROVE  Lists[s] = << >>
        <4>1. batch[w] = << >> /\ hand[w] = << >> /\ tail[w] = << >> /\ unsaved[w] = << >>
          BY DEF Init
        <4>2. Lists[s] \in {batch[w], hand[w], tail[w], unsaved[w]}
          BY <3>2, ListsAre
        <4> QED BY <4>1, <4>2
      <3> QED BY <3>1, <3>2, ListsAre
    <2> QED BY <2>1, Empty
  <1>2. Unique(Lists) /\ AllPending
    BY <1>1 DEF Unique, AllPending
  <1>3. Unanswered /\ Settled /\ Spent
    BY DEF Init, Unanswered, Settled, Spent
  <1> QED BY <1>2, <1>3 DEF Exclusive

\* A step of the system keeps the lists apart and changes no stored result.
LEMMA StepExclusive ==
  ASSUME Typed, Equipped, Exclusive, [Next]_vars
  PROVE  Exclusive' /\ \A j \in Jobs : HasResult(j) => result'[j] = result[j]
  <1>1. CASE UNCHANGED vars
    <2>1. UNCHANGED <<queue, dlq, result, held>> /\ UNCHANGED <<admitting, reply, place>>
      BY <1>1 DEF vars, held
    <2>2. Unique(Lists)' /\ AllPending' /\ Settled' /\ Spent'
      BY <2>1, QuietStep
    <2>3. Unanswered'
      BY <2>1 DEF Exclusive, Unanswered
    <2> QED BY <2>1, <2>2, <2>3 DEF Exclusive
  <1>2. ASSUME NEW a \in Apis, ApiStep(a) \/ ApiCrash(a)
        PROVE  Exclusive' /\ \A j \in Jobs : HasResult(j) => result'[j] = result[j]
    <2>1. UNCHANGED result
      BY <1>2 DEF ApiStep, Verify, Shed, VerifyFails, Enqueue, ApiCrash
    <2> QED BY <1>2, <2>1, ApiExclusive
  <1>3. ASSUME NEW w \in Workers, WorkerStep(w) \/ WorkerCrash(w)
        PROVE  Exclusive' /\ \A j \in Jobs : HasResult(j) => result'[j] = result[j]
    <2>1. CASE \E o \in Outcomes : SaveResult(w, o)
      BY <2>1, SaveExclusive
    <2>2. CASE ~\E o \in Outcomes : SaveResult(w, o)
      <3>1. UNCHANGED result
        BY <1>3, <2>2 DEF WorkerStep, WorkerCrash, ReadVipDepth, ReadFreeDepth,
           UpdateQueueDepthMetric, FlushFull, FlushTimeout, FlushEmpty, PopKeep, PopDrop,
           PopFails, DeadLetter, Bury, Repush, Infer, FinishBatch, Restart
      <3>2. Exclusive'
        BY <1>3, <2>2, IdleExclusive, PopExclusive, PopFailsExclusive, DropExclusive,
           BuryExclusive, RepushExclusive, InferExclusive, CrashExclusive DEF WorkerStep
      <3> QED BY <3>1, <3>2
    <2> QED BY <2>1, <2>2
  <1> QED BY <1>1, <1>2, <1>3 DEF Next

\* The inductive invariant of the pipeline.
THEOREM PipelineInvariant == Spec => [](Typed /\ Equipped /\ Exclusive)
  <1>1. Typed /\ Equipped /\ Exclusive /\ [Next]_vars => Exclusive'
    BY StepExclusive
  <1> QED BY <1>1, InitExclusive, PipelineTyped, PTL DEF Spec

\* No job is dead-lettered and answered as well, whatever fails in between.
THEOREM OutcomesExclude == Spec => []OneOutcome
  <1>1. Typed /\ Exclusive => OneOutcome
    BY DEF Exclusive, Settled, OneOutcome, HasResult, Buried, Typed
  <1> QED BY <1>1, PipelineInvariant, PTL

\* No job has more than two entries in the dead letter queue.
THEOREM BurialsAreFew == Spec => []BuriedAtMostTwice
  <1>1. Exclusive => BuriedAtMostTwice
    BY DEF Exclusive, Settled, BuriedAtMostTwice
  <1> QED BY <1>1, PipelineInvariant, PTL

\* A stored result is final: no retry, duplicate or late reply changes it.
THEOREM ResultsAreFinal == Spec => ResultIsFinal
  <1>1. Typed /\ Equipped /\ Exclusive /\ [Next]_vars
          => [\A j \in Jobs : HasResult(j) => result'[j] = result[j]]_vars
    BY StepExclusive
  <1> QED BY <1>1, PipelineInvariant, PTL DEF Spec, ResultIsFinal

\* The lists are apart: no job is twice in the queues and the workers' memory,
\* whichever commands fail after being executed and whoever is killed.
THEOREM NoDuplicates == Spec => []NoDuplicateDelivery
  <1>1. Typed /\ Exclusive => NoDuplicateDelivery
    <2> SUFFICES ASSUME Typed, Exclusive PROVE NoDuplicateDelivery
      OBVIOUS
    <2>1. \A s \in Slots : Distinct(Lists[s])
      BY DEF Exclusive, Unique, Distinct
    <2>2. \A s, t \in Slots : s # t => Apart(Lists[s], Lists[t])
      BY DEF Exclusive, Unique, Apart
    <2>3. \A s, t \in Slots : \A j : Holds(Lists[s], j) /\ Holds(Lists[t], j) => s = t
      BY DEF Exclusive, Unique, Holds
    <2>4. /\ \A t \in Tiers : Distinct(queue[t])
          /\ Apart(queue["VIP"], queue["FREE"])
      <3>1. "VIP" \in Tiers /\ "FREE" \in Tiers /\ <<"queue", "VIP">> # <<"queue", "FREE">>
        BY DEF Tiers
      <3>2. ASSUME NEW t \in Tiers PROVE Distinct(queue[t])
        BY <2>1, ListsAre
      <3>3. Apart(Lists[<<"queue", "VIP">>], Lists[<<"queue", "FREE">>])
        BY <2>2, <3>1, ListsAre
      <3> QED BY <3>1, <3>2, <3>3, ListsAre
    <2>5. ASSUME NEW w \in Workers
          PROVE  /\ Distinct(batch[w]) /\ Distinct(hand[w])
                 /\ Distinct(tail[w]) /\ Distinct(unsaved[w])
                 /\ Apart(batch[w], hand[w]) /\ Apart(batch[w], tail[w])
                 /\ Apart(batch[w], unsaved[w]) /\ Apart(hand[w], tail[w])
                 /\ Apart(hand[w], unsaved[w]) /\ Apart(tail[w], unsaved[w])
      <3> DEFINE b == <<"batch", w>>
                 h == <<"hand", w>>
                 t == <<"tail", w>>
                 u == <<"unsaved", w>>
      <3>1. /\ b \in Slots /\ h \in Slots /\ t \in Slots /\ u \in Slots
            /\ Lists[b] = batch[w] /\ Lists[h] = hand[w]
            /\ Lists[t] = tail[w] /\ Lists[u] = unsaved[w]
        BY ListsAre
      <3>2. b # h /\ b # t /\ b # u /\ h # t /\ h # u /\ t # u
        OBVIOUS
      <3> HIDE DEF b, h, t, u
      <3>3. Distinct(Lists[b]) /\ Distinct(Lists[h]) /\ Distinct(Lists[t]) /\ Distinct(Lists[u])
        BY <2>1, <3>1
      <3>4. /\ Apart(Lists[b], Lists[h]) /\ Apart(Lists[b], Lists[t]) /\ Apart(Lists[b], Lists[u])
            /\ Apart(Lists[h], Lists[t]) /\ Apart(Lists[h], Lists[u]) /\ Apart(Lists[t], Lists[u])
        BY <2>2, <3>1, <3>2
      <3> QED BY <3>1, <3>3, <3>4
    <2>6. ASSUME NEW w \in Workers, NEW j \in Jobs, HeldBy(w, j)
          PROVE  ~Queued(j) /\ \A v \in Workers : HeldBy(v, j) => v = w
      <3>1. ASSUME NEW v \in Workers, HeldBy(v, j)
            PROVE  \E s \in Slots : s[1] # "queue" /\ s[2] = v /\ Holds(Lists[s], j)
        <4>1. CASE Holds(batch[v], j)
          <5>1. <<"batch", v>> \in Slots /\ Holds(Lists[<<"batch", v>>], j)
            BY <4>1, ListsAre
          <5> QED BY <5>1
        <4>2. CASE Holds(hand[v], j)
          <5>1. <<"hand", v>> \in Slots /\ Holds(Lists[<<"hand", v>>], j)
            BY <4>2, ListsAre
          <5> QED BY <5>1
        <4>3. CASE Holds(tail[v], j)
          <5>1. <<"tail", v>> \in Slots /\ Holds(Lists[<<"tail", v>>], j)
            BY <4>3, ListsAre
          <5> QED BY <5>1
        <4>4. CASE Holds(unsaved[v], j)
          <5>1. <<"unsaved", v>> \in Slots /\ Holds(Lists[<<"unsaved", v>>], j)
            BY <4>4, ListsAre
          <5> QED BY <5>1
        <4> QED BY <3>1, <4>1, <4>2, <4>3, <4>4 DEF HeldBy
      <3>2. PICK s \in Slots : s[1] # "queue" /\ s[2] = w /\ Holds(Lists[s], j)
        BY <2>6, <3>1
      <3>3. ASSUME NEW t \in Tiers, Holds(queue[t], j) PROVE FALSE
        <4>1. <<"queue", t>> \in Slots /\ Holds(Lists[<<"queue", t>>], j)
          BY <3>3, ListsAre
        <4> QED BY <2>3, <3>2, <4>1
      <3>4. ASSUME NEW v \in Workers, HeldBy(v, j) PROVE v = w
        BY <2>3, <3>1, <3>2, <3>4
      <3> QED BY <3>3, <3>4 DEF Queued
    <2> QED BY <2>4, <2>5, <2>6 DEF NoDuplicateDelivery
  <1> QED BY <1>1, PipelineInvariant, PTL
=============================================================================
