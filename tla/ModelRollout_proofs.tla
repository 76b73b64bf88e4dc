------------------------ MODULE ModelRollout_proofs ------------------------
(***************************************************************************)
(* Safety of a rollout for any workers, versions and releases, any batch   *)
(* size and any number of releases.                                        *)
(***************************************************************************)
EXTENDS MCModelRollout, FiniteSets, FiniteSetTheorems, TLAPS

\* A release lets only eligible versions be chosen, for either role.
LEMMA SelectionsEligible ==
  ASSUME NEW r \in Releases, NEW c \in Selections(r)
  PROVE  /\ c \in [primary : Versions, shadow : Versions \cup {NoVersion}]
         /\ c.primary \in r.entry.eligible
         /\ c.shadow # NoVersion => c.shadow \in r.entry.eligible
  <1> DEFINE stable == ResolveEligible(r.entry, "stable")
             other  == ResolveEligible(r.entry, r.mode)
  <1>1. r.entry.eligible \subseteq Versions /\ NoVersion \notin Versions
    BY RolloutAssumption DEF RolloutAssumption, IsEntry
  <1>2. r.fraction \in {"none", "some", "all"} /\ r.mode \in Modes
    BY RolloutAssumption DEF RolloutAssumption
  <1>3. \A name : ResolveEligible(r.entry, name) \in r.entry.eligible \cup {NoVersion}
    BY DEF ResolveEligible
  <1>4. stable # NoVersion /\ other # NoVersion
    BY DEF Selections
  <1>5. stable \in r.entry.eligible /\ other \in r.entry.eligible
    BY <1>3, <1>4
  <1> HIDE DEF stable, other
  <1>6. CanaryChoices(r.fraction, stable, other) \subseteq {stable, other}
    BY <1>2 DEF CanaryChoices
  <1>7. c \in {[primary |-> v, shadow |-> s] : v \in {stable, other}, s \in {other, NoVersion}}
    BY <1>2, <1>4, <1>6 DEF Selections, stable, other, Modes
  <1> QED BY <1>1, <1>5, <1>7

-----------------------------------------------------------------------------
(* The inductive invariant.  What the safety properties lack is where a     *)
(* worker may be: inside the batch while it works on a transaction, with a   *)
(* choice its release allows once it has selected.                           *)

AtWork(w) ==
  /\ place[w] # "idle" => position[w] <= size[w]
  /\ place[w] \in {"primary"} \cup ShadowStages => chosen[w] \in Selections(loaded[w])
  /\ place[w] \in ShadowStages => chosen[w].shadow # NoVersion

InOrder(w) ==
  /\ \A i, k \in DOMAIN results[w] : i < k => results[w][i].of < results[w][k].of
  /\ \A i \in DOMAIN results[w] : results[w][i].of < position[w]
  /\ position[w] <= size[w] + 1

Served(w) ==
  \A i \in DOMAIN results[w] : results[w][i].version \in loaded[w].entry.eligible

AddsUp(w) ==
  /\ answers[w] + comparisons[w] + Pending(w) <= predictions[w]
  /\ predictions[w] <= answers[w] + comparisons[w] + Pending(w) + failures[w]

WorkerInv(w) == AtWork(w) /\ InOrder(w) /\ Served(w) /\ AddsUp(w)
IInv == TypeOK /\ \A w \in Workers : WorkerInv(w)

\* No process has started a batch.
LEMMA InitIInv == Init => IInv
  <1> SUFFICES ASSUME Init PROVE IInv
    OBVIOUS
  <1> USE RolloutAssumption DEF RolloutAssumption
  <1>1. TypeOK
    BY DEF Init, TypeOK, NoChoice, SelectedModelVersions, Places
  <1>2. ASSUME NEW w \in Workers PROVE WorkerInv(w)
    BY DEF Init, WorkerInv, AtWork, InOrder, Served, AddsUp, Pending, ShadowStages
  <1> QED BY <1>1, <1>2 DEF IInv

\* A process that does not move keeps its part of the invariant.
LEMMA OthersStay ==
  ASSUME NEW w \in Workers, WorkerInv(w),
         loaded'[w] = loaded[w], place'[w] = place[w], size'[w] = size[w],
         position'[w] = position[w], chosen'[w] = chosen[w], results'[w] = results[w],
         predictions'[w] = predictions[w], comparisons'[w] = comparisons[w],
         failures'[w] = failures[w], answers'[w] = answers[w]
  PROVE  WorkerInv(w)'
  BY DEF WorkerInv, AtWork, InOrder, Served, AddsUp, Pending

\* An answer extends the list in order and by an eligible version.
LEMMA AnswerKeeps ==
  ASSUME NEW w \in Workers, IInv, Answer(w), UNCHANGED <<Deployment, size, chosen>>,
         place[w] \in {"primary"} \cup ShadowStages
  PROVE  /\ results' \in [Workers -> Seq(Result)]
         /\ answers' \in [Workers -> Nat] /\ answers'[w] = answers[w] + 1
         /\ position' \in [Workers -> 1..(MaxBatch + 1)]
         /\ place' \in [Workers -> Places]
         /\ AtWork(w)' /\ InOrder(w)' /\ Served(w)'
         /\ place'[w] \in {"idle", "select"}
         /\ \A v \in Workers \ {w} :
              /\ results'[v] = results[v] /\ answers'[v] = answers[v]
              /\ position'[v] = position[v] /\ place'[v] = place[v]
  <1> DEFINE new == [of |-> position[w], version |-> chosen[w].primary]
  <1>0. MaxBatch \in Nat
    BY RolloutAssumption DEF RolloutAssumption
  <1>1. /\ results[w] \in Seq(Result) /\ position[w] \in 1..size[w] /\ size[w] \in 0..MaxBatch
        /\ chosen[w] \in Selections(loaded[w]) /\ loaded[w] \in Releases
    <2>1. WorkerInv(w) /\ TypeOK
      BY DEF IInv
    <2>2. results[w] \in Seq(Result)
      BY <2>1 DEF TypeOK
    <2>3. size[w] \in 0..MaxBatch /\ position[w] \in 1..(MaxBatch + 1) /\ loaded[w] \in Releases
      BY <2>1 DEF TypeOK
    <2>4. position[w] <= size[w] /\ chosen[w] \in Selections(loaded[w])
      BY <2>1 DEF WorkerInv, AtWork, ShadowStages
    <2> QED BY <1>0, <2>2, <2>3, <2>4
  <1>2. chosen[w].primary \in loaded[w].entry.eligible /\ chosen[w].primary \in Versions
    BY <1>1, SelectionsEligible
  <1>3. new \in Result
    BY <1>0, <1>1, <1>2 DEF Result
  <1>4. results' = [results EXCEPT ![w] = Append(results[w], new)]
    BY DEF Answer
  <1>5. results'[w] = Append(results[w], new) /\ Append(results[w], new) \in Seq(Result)
    <2> HIDE DEF new
    <2> QED BY <1>1, <1>3, <1>4 DEF IInv, TypeOK
  <1>6. /\ Len(results[w]) \in Nat
        /\ DOMAIN results'[w] = 1..(Len(results[w]) + 1)
        /\ \A i \in 1..Len(results[w]) : results'[w][i] = results[w][i]
        /\ results'[w][Len(results[w]) + 1] = new
        /\ DOMAIN results[w] = 1..Len(results[w])
    <2> HIDE DEF new
    <2> QED BY <1>1, <1>3, <1>5
  <1>7. position' = [position EXCEPT ![w] = position[w] + 1]
    BY DEF Answer, Advance, Last
  <1>8. place' = [place EXCEPT ![w] = IF position[w] = size[w] THEN "idle" ELSE "select"]
    BY DEF Answer, Advance, Last, Goto
  <1>9. results' \in [Workers -> Seq(Result)]
    <2> HIDE DEF new
    <2>1. results \in [Workers -> Seq(Result)]
      BY DEF IInv, TypeOK
    <2> QED BY <1>4, <1>5, <2>1
  <1>10. answers' \in [Workers -> Nat] /\ answers'[w] = answers[w] + 1
    BY DEF IInv, TypeOK, Answer
  <1>11. position' \in [Workers -> 1..(MaxBatch + 1)]
    BY <1>0, <1>1, <1>7 DEF IInv, TypeOK
  <1>12. place' \in [Workers -> Places]
    BY <1>8 DEF IInv, TypeOK, Places
  <1>13. AtWork(w)'
    <2>1. position'[w] = position[w] + 1 /\ size'[w] = size[w]
      BY <1>7 DEF IInv, TypeOK
    <2>2. place'[w] = IF position[w] = size[w] THEN "idle" ELSE "select"
      BY <1>8 DEF IInv, TypeOK
    <2> QED BY <1>0, <1>1, <2>1, <2>2 DEF AtWork, ShadowStages
  <1>14. InOrder(w)'
    <2>1. position'[w] = position[w] + 1 /\ size'[w] = size[w] /\ position[w] \in Nat
      BY <1>1, <1>7 DEF IInv, TypeOK
    <2>2. \A i \in 1..Len(results[w]) : results[w][i] \in Result
      BY <1>1
    <2>3. \A i \in 1..Len(results[w]) : results[w][i].of \in Nat
      BY <2>2 DEF Result
    <2>4. new.of = position[w]
      OBVIOUS
    <2>5. /\ \A i, k \in 1..Len(results[w]) : i < k => results[w][i].of < results[w][k].of
          /\ \A i \in 1..Len(results[w]) : results[w][i].of < position[w]
      BY <1>6 DEF IInv, WorkerInv, InOrder
    <2>6. position[w] + 1 <= size[w] + 1
      BY <1>1
    <2>7. \A i \in DOMAIN results'[w] : results'[w][i].of < position[w] + 1
      <3>1. \A i \in 1..Len(results[w]) : results'[w][i].of < position[w] + 1
        <4>1. ASSUME NEW i \in 1..Len(results[w]) PROVE results'[w][i].of < position[w] + 1
          <5>1. results'[w][i] = results[w][i] /\ results[w][i].of < position[w]
            BY <1>6, <2>5
          <5>2. results[w][i].of \in Nat /\ position[w] \in Nat
            BY <2>1, <2>3
          <5> QED BY <5>1, <5>2
        <4> QED BY <4>1
      <3>2. results'[w][Len(results[w]) + 1].of < position[w] + 1
        BY <1>6, <2>1, <2>4
      <3> QED BY <1>6, <3>1, <3>2
    <2>8. ASSUME NEW i \in DOMAIN results'[w], NEW k \in DOMAIN results'[w], i < k
          PROVE  results'[w][i].of < results'[w][k].of
      <3>1. i \in 1..Len(results[w])
        BY <1>6, <2>8
      <3>2. CASE k \in 1..Len(results[w])
        BY <1>6, <2>5, <2>8, <3>1, <3>2
      <3>3. CASE k = Len(results[w]) + 1
        <4> HIDE DEF new
        <4> QED BY <1>6, <2>4, <2>5, <3>1, <3>3
      <3> QED BY <1>6, <3>2, <3>3
    <2> QED BY <2>1, <2>6, <2>7, <2>8 DEF InOrder
  <1>15. Served(w)'
    <2>1. \A i \in 1..Len(results[w]) : results[w][i].version \in loaded[w].entry.eligible
      BY <1>6 DEF IInv, WorkerInv, Served
    <2>2. new.version \in loaded[w].entry.eligible
      BY <1>2
    <2>3. loaded' = loaded
      BY DEF Deployment
    <2> HIDE DEF new
    <2> QED BY <1>6, <2>1, <2>2, <2>3 DEF Served
  <1>16. place'[w] \in {"idle", "select"}
    BY <1>8 DEF IInv, TypeOK
  <1>17. \A v \in Workers \ {w} :
           /\ results'[v] = results[v] /\ answers'[v] = answers[v]
           /\ position'[v] = position[v] /\ place'[v] = place[v]
    BY <1>7, <1>8 DEF IInv, TypeOK, Answer
  <1> QED BY <1>9, <1>10, <1>11, <1>12, <1>13, <1>14, <1>15, <1>16, <1>17

\* An answer preserves the invariant when the counters that go with it add up.
LEMMA AnswerIInv ==
  ASSUME NEW w \in Workers, IInv, Answer(w), UNCHANGED <<Deployment, size, chosen>>,
         place[w] \in {"primary"} \cup ShadowStages,
         NEW p \in Nat, NEW c \in Nat, NEW f \in Nat,
         predictions' = [predictions EXCEPT ![w] = p],
         comparisons' = [comparisons EXCEPT ![w] = c],
         failures' = [failures EXCEPT ![w] = f],
         answers[w] + 1 + c <= p, p <= answers[w] + 1 + c + f
  PROVE  IInv'
  <1>1. TypeOK
    BY DEF IInv
  <1>2. TypeOK'
    <2>1. /\ predictions' \in [Workers -> Nat] /\ comparisons' \in [Workers -> Nat]
          /\ failures' \in [Workers -> Nat]
      BY <1>1 DEF TypeOK
    <2>2. /\ results' \in [Workers -> Seq(Result)] /\ answers' \in [Workers -> Nat]
          /\ position' \in [Workers -> 1..(MaxBatch + 1)] /\ place' \in [Workers -> Places]
      BY AnswerKeeps
    <2> QED BY <1>1, <2>1, <2>2 DEF TypeOK, Deployment
  <1>3. WorkerInv(w)'
    <2>1. /\ AtWork(w)' /\ InOrder(w)' /\ Served(w)'
          /\ answers'[w] = answers[w] + 1 /\ place'[w] \in {"idle", "select"}
      BY AnswerKeeps
    <2>2. predictions'[w] = p /\ comparisons'[w] = c /\ failures'[w] = f /\ answers[w] \in Nat
      BY <1>1 DEF TypeOK
    <2>3. AddsUp(w)'
      BY <2>1, <2>2 DEF AddsUp, Pending
    <2> QED BY <2>1, <2>3 DEF WorkerInv
  <1>4. ASSUME NEW v \in Workers, v # w PROVE WorkerInv(v)'
    <2>1. /\ results'[v] = results[v] /\ answers'[v] = answers[v]
          /\ position'[v] = position[v] /\ place'[v] = place[v]
      BY <1>4, AnswerKeeps
    <2>2. loaded'[v] = loaded[v] /\ size'[v] = size[v] /\ chosen'[v] = chosen[v]
      BY DEF Deployment
    <2>3. /\ predictions'[v] = predictions[v] /\ comparisons'[v] = comparisons[v]
          /\ failures'[v] = failures[v]
      BY <1>1, <1>4 DEF TypeOK
    <2> QED BY <2>1, <2>2, <2>3, OthersStay DEF IInv
  <1> QED BY <1>2, <1>3, <1>4 DEF IInv

\* A transaction that is left out moves the position, and records a failure that
\* stands for a prediction which may have been counted.
LEMMA SkipKeeps ==
  ASSUME NEW w \in Workers, IInv, Skip(w), place[w] \in {"select", "primary"},
         UNCHANGED <<Deployment, size, chosen, comparisons>>,
         InferRaises(w)
  PROVE  IInv'
  <1> USE RolloutAssumption DEF RolloutAssumption
  <1>1. /\ position' = [position EXCEPT ![w] = position[w] + 1]
        /\ place' = [place EXCEPT ![w] = IF position[w] = size[w] THEN "idle" ELSE "select"]
        /\ failures' = [failures EXCEPT ![w] = failures[w] + 1]
        /\ results' = results /\ answers' = answers
    BY DEF Skip, Advance, Last, Goto, RecordFailure
  <1>2. TypeOK /\ WorkerInv(w) /\ position[w] <= size[w]
    BY DEF IInv, WorkerInv, AtWork
  <1>3. position[w] + 1 \in 1..(MaxBatch + 1)
    BY <1>2 DEF TypeOK
  <1>4. PICK p \in {predictions[w], predictions[w] + 1} : predictions' = [predictions EXCEPT ![w] = p]
    BY <1>2 DEF InferRaises, CountPrediction, TypeOK
  <1>5. p \in Nat /\ failures[w] + 1 \in Nat
    BY <1>2, <1>4 DEF TypeOK
  <1>6. TypeOK'
    <2>1. place' \in [Workers -> Places] /\ position' \in [Workers -> 1..(MaxBatch + 1)]
      BY <1>1, <1>2, <1>3 DEF TypeOK, Places
    <2>2. predictions' \in [Workers -> Nat] /\ failures' \in [Workers -> Nat]
      BY <1>1, <1>2, <1>4, <1>5 DEF TypeOK
    <2> QED BY <1>1, <1>2, <2>1, <2>2 DEF TypeOK, Deployment
  <1>7. position'[w] = position[w] + 1 /\ position[w] \in Nat /\ size[w] \in Nat
    BY <1>1, <1>2 DEF TypeOK
  <1>8. place'[w] = IF position[w] = size[w] THEN "idle" ELSE "select"
    BY <1>1, <1>2 DEF TypeOK
  <1>9. \A i \in DOMAIN results[w] : results[w][i].of \in Nat
    <2>1. \A r \in Result : r.of \in Nat
      BY DEF Result
    <2>2. results[w] \in Seq(Result)
      BY <1>2 DEF TypeOK
    <2> QED BY <2>1, <2>2
  <1>10. WorkerInv(w)'
    <2>1. AtWork(w)'
      BY <1>2, <1>7, <1>8 DEF AtWork, ShadowStages
    <2>2. InOrder(w)'
      BY <1>1, <1>2, <1>7, <1>9 DEF WorkerInv, InOrder
    <2>3. Served(w)'
      BY <1>1, <1>2 DEF WorkerInv, Served, Deployment
    <2>4. AddsUp(w)'
      <3>1. predictions'[w] = p /\ failures'[w] = failures[w] + 1
        BY <1>1, <1>2, <1>4 DEF TypeOK
      <3>2. Pending(w) = 0 /\ Pending(w)' = 0
        BY <1>8 DEF Pending
      <3>3. answers[w] \in Nat /\ comparisons[w] \in Nat /\ predictions[w] \in Nat /\ failures[w] \in Nat
        BY <1>2 DEF TypeOK
      <3>4. AddsUp(w)
        BY <1>2 DEF WorkerInv
      <3> QED BY <1>1, <1>4, <3>1, <3>2, <3>3, <3>4 DEF AddsUp
    <2> QED BY <2>1, <2>2, <2>3, <2>4 DEF WorkerInv
  <1>11. ASSUME NEW v \in Workers, v # w PROVE WorkerInv(v)'
    BY <1>1, <1>2, <1>4, <1>11, OthersStay DEF IInv, TypeOK, Deployment
  <1> QED BY <1>6, <1>10, <1>11 DEF IInv

\* The counters of a process are natural numbers.
LEMMA CountersTyped ==
  ASSUME NEW w \in Workers, IInv
  PROVE  /\ predictions[w] \in Nat /\ comparisons[w] \in Nat
         /\ failures[w] \in Nat /\ answers[w] \in Nat
         /\ predictions[w] + 1 \in Nat /\ comparisons[w] + 1 \in Nat /\ failures[w] + 1 \in Nat
  BY DEF IInv, TypeOK

\* A counted prediction that is followed by another stage waits for it.
LEMMA MovesOn ==
  ASSUME NEW w \in Workers, IInv, chosen[w].shadow # NoVersion, NEW next,
         \/ place[w] = "primary" /\ next = "shadow"
         \/ place[w] = "shadow" /\ next = "compare",
         predictions' = [predictions EXCEPT ![w] = predictions[w] + 1],
         place' = [place EXCEPT ![w] = next],
         UNCHANGED <<Deployment, size, position, chosen, results, comparisons, failures, answers>>
  PROVE  IInv'
  <1>1. TypeOK /\ WorkerInv(w) /\ next \in ShadowStages
    BY DEF IInv, ShadowStages
  <1>2. TypeOK'
    <2>1. place' \in [Workers -> Places] /\ predictions' \in [Workers -> Nat]
      BY <1>1 DEF TypeOK, Places
    <2> QED BY <1>1, <2>1 DEF TypeOK, Deployment
  <1>3. place'[w] = next /\ predictions'[w] = predictions[w] + 1
    BY <1>1 DEF TypeOK
  <1>4. WorkerInv(w)'
    <2>1. AtWork(w)'
      BY <1>1, <1>3 DEF WorkerInv, AtWork, ShadowStages, Deployment
    <2>2. InOrder(w)' /\ Served(w)'
      BY <1>1 DEF WorkerInv, InOrder, Served, Deployment
    <2>3. Pending(w)' = Pending(w) + 1 /\ Pending(w) \in Nat
      BY <1>3 DEF Pending
    <2>4. AddsUp(w)'
      BY <1>1, <1>3, <2>3, CountersTyped DEF WorkerInv, AddsUp
    <2> QED BY <2>1, <2>2, <2>4 DEF WorkerInv
  <1>5. ASSUME NEW v \in Workers, v # w PROVE WorkerInv(v)'
    BY <1>1, <1>5, OthersStay DEF IInv, TypeOK, Deployment
  <1> QED BY <1>2, <1>4, <1>5 DEF IInv

\* Every step of process_anomaly_detection preserves the invariant.
LEMMA WorkerStepIInv ==
  ASSUME NEW w \in Workers, IInv, WorkerStep(w)
  PROVE  IInv'
  <1> USE RolloutAssumption DEF RolloutAssumption
  <1>0. TypeOK /\ WorkerInv(w)
    BY DEF IInv
  <1>1. CASE StartBatch(w)
    <2>1. TypeOK'
      <3>1. size' \in [Workers -> 0..MaxBatch]
        BY <1>0, <1>1 DEF StartBatch, TypeOK
      <3>2. position' \in [Workers -> 1..(MaxBatch + 1)]
        BY <1>0, <1>1 DEF StartBatch, TypeOK
      <3>3. results' \in [Workers -> Seq(Result)]
        <4>1. << >> \in Seq(Result)
          OBVIOUS
        <4> QED BY <1>0, <1>1, <4>1 DEF StartBatch, TypeOK
      <3>4. place' \in [Workers -> Places]
        BY <1>0, <1>1 DEF StartBatch, Goto, TypeOK, Places
      <3>5. UNCHANGED <<release, releases, loaded, chosen, predictions, comparisons, failures, answers>>
        BY <1>1 DEF StartBatch, Deployment, Counters
      <3> QED BY <1>0, <3>1, <3>2, <3>3, <3>4, <3>5 DEF TypeOK
    <2>2. WorkerInv(w)'
      BY <1>0, <1>1 DEF StartBatch, Goto, TypeOK, Deployment, Counters,
         WorkerInv, AtWork, InOrder, Served, AddsUp, Pending, ShadowStages
    <2>3. ASSUME NEW v \in Workers, v # w PROVE WorkerInv(v)'
      BY <1>0, <1>1, <2>3, OthersStay DEF StartBatch, Goto, IInv, TypeOK, Deployment, Counters
    <2> QED BY <2>1, <2>2, <2>3 DEF IInv
  <1>2. CASE Select(w)
    <2>1. PICK c \in Selections(loaded[w]) : chosen' = [chosen EXCEPT ![w] = c]
      BY <1>2 DEF Select
    <2>2. c \in SelectedModelVersions
      BY <1>0, SelectionsEligible DEF TypeOK, SelectedModelVersions
    <2>3. TypeOK'
      BY <1>0, <1>2, <2>1, <2>2 DEF Select, Goto, TypeOK, Places, Deployment, Counters
    <2>4. WorkerInv(w)'
      BY <1>0, <1>2, <2>1 DEF Select, Goto, TypeOK, Deployment, Counters,
         WorkerInv, AtWork, InOrder, Served, AddsUp, Pending, ShadowStages
    <2>5. ASSUME NEW v \in Workers, v # w PROVE WorkerInv(v)'
      BY <1>0, <1>2, <2>1, <2>5, OthersStay DEF Select, Goto, IInv, TypeOK, Deployment, Counters
    <2> QED BY <2>3, <2>4, <2>5 DEF IInv
  <1>3. CASE SelectFails(w)
    BY <1>3, SkipKeeps DEF SelectFails, InferRaises
  <1>4. CASE PrimaryFails(w)
    BY <1>4, SkipKeeps DEF PrimaryFails
  <1>5. CASE InferPrimary(w) /\ chosen[w].shadow = NoVersion
    <2>1. Answer(w) /\ UNCHANGED <<Deployment, size, chosen>> /\ place[w] = "primary"
      BY <1>5 DEF InferPrimary
    <2>2. /\ predictions' = [predictions EXCEPT ![w] = predictions[w] + 1]
          /\ comparisons' = [comparisons EXCEPT ![w] = comparisons[w]]
          /\ failures' = [failures EXCEPT ![w] = failures[w]]
      BY <1>0, <1>5 DEF InferPrimary, CountPrediction, TypeOK
    <2>3. /\ answers[w] + 1 + comparisons[w] <= predictions[w] + 1
          /\ predictions[w] + 1 <= answers[w] + 1 + comparisons[w] + failures[w]
      BY <1>0, <2>1, CountersTyped DEF WorkerInv, AddsUp, Pending
    <2> QED BY <2>1, <2>2, <2>3, CountersTyped, AnswerIInv
  <1>6. CASE InferPrimary(w) /\ chosen[w].shadow # NoVersion
    <2>1. /\ place[w] = "primary"
          /\ predictions' = [predictions EXCEPT ![w] = predictions[w] + 1]
          /\ place' = [place EXCEPT ![w] = "shadow"]
          /\ UNCHANGED <<Deployment, size, position, chosen, comparisons, failures, answers>>
      BY <1>6 DEF InferPrimary, CountPrediction, Goto
    <2>2. results' = results
      <3>1. results' = [results EXCEPT ![w] = results[w]]
        BY <1>6 DEF InferPrimary, BeforeShadow
      <3> QED BY <1>0, <3>1 DEF TypeOK
    <2>3. "shadow" \in Places /\ "primary" \notin ShadowStages
      BY DEF Places, ShadowStages
    <2> QED BY <1>0, <1>6, <2>1, <2>2, <2>3, MovesOn
  <1>7. CASE InferShadow(w)
    <2>1. /\ place[w] = "shadow"
          /\ predictions' = [predictions EXCEPT ![w] = predictions[w] + 1]
          /\ place' = [place EXCEPT ![w] = "compare"]
          /\ UNCHANGED <<Deployment, size, position, chosen, results, comparisons, failures, answers>>
      BY <1>7 DEF InferShadow, CountPrediction, Goto
    <2>2. chosen[w].shadow # NoVersion
      BY <1>0, <2>1 DEF WorkerInv, AtWork, ShadowStages
    <2> QED BY <2>1, <2>2, MovesOn
  <1>8. CASE Compare(w)
    <2>1. Answer(w) /\ UNCHANGED <<Deployment, size, chosen>> /\ place[w] = "compare"
      BY <1>8 DEF Compare
    <2>2. /\ predictions' = [predictions EXCEPT ![w] = predictions[w]]
          /\ comparisons' = [comparisons EXCEPT ![w] = comparisons[w] + 1]
          /\ failures' = [failures EXCEPT ![w] = failures[w]]
      BY <1>0, <1>8 DEF Compare, CountComparison, Compared, TypeOK
    <2>3. /\ answers[w] + 1 + (comparisons[w] + 1) <= predictions[w]
          /\ predictions[w] <= answers[w] + 1 + (comparisons[w] + 1) + failures[w]
      BY <1>0, <2>1, CountersTyped DEF WorkerInv, AddsUp, Pending
    <2>4. place[w] \in {"primary"} \cup ShadowStages
      BY <2>1 DEF ShadowStages
    <2> QED BY <2>1, <2>2, <2>3, <2>4, CountersTyped, AnswerIInv
  <1>9. CASE ShadowFails(w)
    <2>1. Answer(w) /\ UNCHANGED <<Deployment, size, chosen>> /\ place[w] = "shadow"
      BY <1>9 DEF ShadowFails, ShadowCaught
    <2>2. PICK p \in {predictions[w], predictions[w] + 1} : predictions' = [predictions EXCEPT ![w] = p]
      BY <1>0, <1>9 DEF ShadowFails, InferRaises, CountPrediction, TypeOK
    <2>3. /\ comparisons' = [comparisons EXCEPT ![w] = comparisons[w]]
          /\ failures' = [failures EXCEPT ![w] = failures[w] + 1]
      BY <1>0, <1>9 DEF ShadowFails, ShadowCaught, RecordFailure, TypeOK
    <2>4. /\ answers[w] + 1 + comparisons[w] <= p
          /\ p <= answers[w] + 1 + comparisons[w] + (failures[w] + 1)
      BY <1>0, <2>1, <2>2, CountersTyped DEF WorkerInv, AddsUp, Pending
    <2>5. place[w] \in {"primary"} \cup ShadowStages
      BY <2>1 DEF ShadowStages
    <2> QED BY <2>1, <2>2, <2>3, <2>4, <2>5, CountersTyped, AnswerIInv
  <1>10. CASE CompareFails(w)
    <2>1. Answer(w) /\ UNCHANGED <<Deployment, size, chosen>> /\ place[w] = "compare"
      BY <1>10 DEF CompareFails, ShadowCaught
    <2>2. PICK c \in {comparisons[w], comparisons[w] + 1} : comparisons' = [comparisons EXCEPT ![w] = c]
      BY <1>0, <1>10 DEF CompareFails, CountComparison, Compared, TypeOK
    <2>3. /\ predictions' = [predictions EXCEPT ![w] = predictions[w]]
          /\ failures' = [failures EXCEPT ![w] = failures[w] + 1]
      BY <1>0, <1>10 DEF CompareFails, ShadowCaught, RecordFailure, TypeOK
    <2>4. /\ answers[w] + 1 + c <= predictions[w]
          /\ predictions[w] <= answers[w] + 1 + c + (failures[w] + 1)
      BY <1>0, <2>1, <2>2, CountersTyped DEF WorkerInv, AddsUp, Pending
    <2>5. place[w] \in {"primary"} \cup ShadowStages
      BY <2>1 DEF ShadowStages
    <2> QED BY <2>1, <2>2, <2>3, <2>4, <2>5, CountersTyped, AnswerIInv
  <1> QED BY <1>1, <1>2, <1>3, <1>4, <1>5, <1>6, <1>7, <1>8, <1>9, <1>10 DEF WorkerStep

\* So does the replacement of a process, wherever it stands.
LEMMA RestartIInv ==
  ASSUME NEW w \in Workers, IInv, Restart(w)
  PROVE  IInv'
  <1> USE RolloutAssumption DEF RolloutAssumption
  <1>1. TypeOK
    BY DEF IInv
  <1>2. TypeOK'
    <2>1. NoChoice \in SelectedModelVersions
      BY DEF NoChoice, SelectedModelVersions
    <2>2. loaded' \in [Workers -> Releases] /\ UNCHANGED <<release, releases>>
      BY <1>1 DEF Restart, ReadAtStart, TypeOK
    <2>3. /\ place' \in [Workers -> Places]
          /\ size' \in [Workers -> 0..MaxBatch]
          /\ position' \in [Workers -> 1..(MaxBatch + 1)]
      BY <1>1 DEF Restart, ReadAtStart, Goto, TypeOK, Places
    <2>4. chosen' \in [Workers -> SelectedModelVersions] /\ results' \in [Workers -> Seq(Result)]
      BY <1>1, <2>1 DEF Restart, ReadAtStart, TypeOK
    <2>5. /\ predictions' \in [Workers -> Nat] /\ comparisons' \in [Workers -> Nat]
          /\ failures' \in [Workers -> Nat] /\ answers' \in [Workers -> Nat]
      BY <1>1 DEF Restart, ReadAtStart, TypeOK
    <2> QED BY <1>1, <2>2, <2>3, <2>4, <2>5 DEF TypeOK
  <1>3. WorkerInv(w)'
    BY <1>1 DEF Restart, ReadAtStart, Goto, TypeOK, WorkerInv, AtWork, InOrder, Served, AddsUp, Pending, ShadowStages
  <1>4. ASSUME NEW v \in Workers, v # w PROVE WorkerInv(v)'
    BY <1>1, <1>4, OthersStay DEF Restart, ReadAtStart, Goto, IInv, TypeOK
  <1> QED BY <1>2, <1>3, <1>4 DEF IInv

\* A release reaches no process by itself.
LEMMA DeployIInv == IInv /\ (Deploy \/ UNCHANGED vars) => IInv'
  <1> USE RolloutAssumption DEF RolloutAssumption
  <1>1. ASSUME IInv, Deploy PROVE IInv'
    <2>1. TypeOK'
      BY <1>1 DEF IInv, Deploy, TypeOK, Counters
    <2>2. ASSUME NEW v \in Workers PROVE WorkerInv(v)'
      BY <1>1, OthersStay DEF IInv, Deploy, Counters
    <2> QED BY <2>1, <2>2 DEF IInv
  <1>2. ASSUME IInv, UNCHANGED vars PROVE IInv'
    <2>1. TypeOK'
      BY <1>2 DEF IInv, vars, TypeOK
    <2>2. ASSUME NEW v \in Workers PROVE WorkerInv(v)'
      BY <1>2, OthersStay DEF IInv, vars
    <2> QED BY <2>1, <2>2 DEF IInv
  <1> QED BY <1>1, <1>2

\* Every step preserves the invariant.
LEMMA NextIInv == IInv /\ [Next]_vars => IInv'
  BY WorkerStepIInv, RestartIInv, DeployIInv DEF Next

\* The invariant gives each safety property.
LEMMA IInvSafe == IInv => TypeOK /\ ReturnsPick /\ OnlyEligibleServe /\ PredictionsAddUp
  <1> SUFFICES ASSUME IInv PROVE TypeOK /\ ReturnsPick /\ OnlyEligibleServe /\ PredictionsAddUp
    OBVIOUS
  <1>1. TypeOK /\ ReturnsPick /\ PredictionsAddUp
    BY DEF IInv, WorkerInv, InOrder, AddsUp, ReturnsPick, PredictionsAddUp
  <1>2. ASSUME NEW w \in Workers
        PROVE  LET eligible == loaded[w].entry.eligible
               IN  /\ place[w] \in {"primary"} \cup ShadowStages => chosen[w].primary \in eligible
                   /\ place[w] \in ShadowStages => chosen[w].shadow \in eligible
                   /\ \A i \in DOMAIN results[w] : results[w][i].version \in eligible
    BY SelectionsEligible DEF IInv, TypeOK, WorkerInv, AtWork, Served
  <1> QED BY <1>1, <1>2 DEF OnlyEligibleServe

\* A choice with a shadow has the stable version for its primary.
LEMMA ShadowedIsStable ==
  ASSUME NEW r \in Releases, NEW c \in Selections(r), c.shadow # NoVersion
  PROVE  c.primary = ResolveEligible(r.entry, "stable")
  <1> DEFINE stable == ResolveEligible(r.entry, "stable")
             other  == ResolveEligible(r.entry, r.mode)
  <1>1. c \in {[primary |-> stable, shadow |-> other]} \cup
              {[primary |-> v, shadow |-> NoVersion] : v \in {stable, other}}
    <2>1. r.mode \in Modes /\ r.fraction \in {"none", "some", "all"}
      BY RolloutAssumption DEF RolloutAssumption
    <2> HIDE DEF stable, other
    <2>2. CanaryChoices(r.fraction, stable, other) \subseteq {stable, other}
      BY <2>1 DEF CanaryChoices
    <2> QED BY <2>1, <2>2 DEF Selections, Modes, stable, other
  <1> QED BY <1>1

\* Whoever leaves the shadow stage answers with the stable version or is replaced.
LEMMA ShadowStep ==
  ASSUME NEW w \in Workers, IInv, [Next]_vars
  PROVE  StableAnswers(w)
  <1> SUFFICES ASSUME place[w] \in ShadowStages, place'[w] \notin ShadowStages
               PROVE  \/ results'[w] = Append(results[w],
                           [of |-> position[w],
                            version |-> ResolveEligible(loaded[w].entry, "stable")])
                      \/ results'[w] = << >> /\ position'[w] = 1
    BY DEF StableAnswers
  <1>1. TypeOK /\ chosen[w] \in Selections(loaded[w]) /\ chosen[w].shadow # NoVersion
    BY DEF IInv, WorkerInv, AtWork
  <1>2. chosen[w].primary = ResolveEligible(loaded[w].entry, "stable")
    BY <1>1, ShadowedIsStable DEF TypeOK
  <1>3. PICK v \in Workers : WorkerStep(v) \/ Restart(v)
    BY DEF Next, Deploy, vars
  <1>4. v = w
    <2>1. SUFFICES ASSUME v # w PROVE place'[w] = place[w]
      OBVIOUS
    <2>2. CASE Restart(v)
      BY <1>1, <2>1, <2>2 DEF Restart, ReadAtStart, Goto, TypeOK
    <2>3. CASE WorkerStep(v)
      BY <1>1, <2>1, <2>3 DEF WorkerStep, StartBatch, Select, SelectFails, InferPrimary, BeforeShadow,
         PrimaryFails, InferShadow, ShadowFails, Compare, CompareFails, ShadowCaught,
         Skip, Answer, Advance, Goto, TypeOK
    <2> QED BY <1>3, <2>2, <2>3
  <1>5. CASE Restart(w)
    BY <1>1, <1>5 DEF Restart, ReadAtStart, TypeOK
  <1>6. CASE WorkerStep(w)
    <2>1. ~InferShadow(w)
      <3>1. SUFFICES ASSUME InferShadow(w) PROVE place'[w] \in ShadowStages
        OBVIOUS
      <3> QED BY <1>1, <3>1 DEF InferShadow, Goto, TypeOK, ShadowStages
    <2>2. ShadowFails(w) \/ Compare(w) \/ CompareFails(w)
      BY <1>6, <2>1 DEF WorkerStep, StartBatch, Select, SelectFails, InferPrimary,
         PrimaryFails, ShadowStages
    <2>3. Answer(w)
      BY <2>2 DEF ShadowFails, Compare, CompareFails, ShadowCaught
    <2> QED BY <1>1, <1>2, <2>3 DEF Answer, TypeOK
  <1> QED BY <1>3, <1>4, <1>5, <1>6

-----------------------------------------------------------------------------
\* The inductive invariant of a rollout.
THEOREM RolloutInvariant == Spec => []IInv
  BY InitIInv, NextIInv, PTL DEF Spec

\* process_anomaly_detection returns its batch with some transactions left out,
\* in order and without repetition, whichever stage fails and whenever processes
\* are replaced: the assumption under which the pipeline models inference.
THEOREM ResultsAreAPick == Spec => []ReturnsPick
  BY RolloutInvariant, IInvSafe, PTL

\* No version that is not eligible in the registry of its process is asked for
\* an answer or a shadow, or has answered.
THEOREM EligibleVersionsServe == Spec => []OnlyEligibleServe
  BY RolloutInvariant, IInvSafe, PTL

\* Counted predictions are what has been answered, compared or is about to be,
\* and beyond that no more than the recorded failures.
THEOREM DashboardsAddUp == Spec => []PredictionsAddUp
  BY RolloutInvariant, IInvSafe, PTL

\* Every variable of a rollout keeps its type.
THEOREM RolloutTypes == Spec => []TypeOK
  BY RolloutInvariant, IInvSafe, PTL

\* In shadow mode a transaction the stable version has predicted is answered by
\* it, however the shadow call ends, unless its process is replaced.
THEOREM ShadowsAreHarmless == Spec => ShadowIsHarmless
  <1>1. IInv /\ [Next]_vars => [\A w \in Workers : StableAnswers(w)]_vars
    BY ShadowStep
  <1> QED BY <1>1, RolloutInvariant, PTL DEF Spec, ShadowIsHarmless

\* With a shadow that can be resolved, a transaction is given up only after the
\* stable version has been asked.
LEMMA NotGivenUp ==
  ASSUME \A r \in Releases : r.mode = "shadow" => ResolveEligible(r.entry, "shadow") # NoVersion,
         NEW w \in Workers, IInv, [Next]_vars,
         place[w] = "select", loaded[w].mode = "shadow",
         ResolveEligible(loaded[w].entry, "stable") # NoVersion
  PROVE  position'[w] <= position[w]
  <1>1. TypeOK /\ loaded[w] \in Releases /\ position[w] \in Nat /\ position[w] >= 1
    <2>1. TypeOK /\ loaded[w] \in Releases /\ position[w] \in 1..(MaxBatch + 1)
      BY DEF IInv, TypeOK
    <2>2. MaxBatch \in Nat
      BY RolloutAssumption DEF RolloutAssumption
    <2> QED BY <2>1, <2>2
  <1>2. Selections(loaded[w]) # {}
    BY <1>1 DEF Selections
  <1>3. CASE UNCHANGED position
    BY <1>1, <1>3
  <1>4. ASSUME NEW v \in Workers, WorkerStep(v) \/ Restart(v), v # w PROVE position'[w] = position[w]
    <2>1. CASE Restart(v) \/ StartBatch(v)
      BY <1>1, <1>4, <2>1 DEF Restart, StartBatch, TypeOK
    <2>2. CASE WorkerStep(v) /\ ~StartBatch(v)
      BY <1>1, <1>4, <2>2 DEF WorkerStep, Select, SelectFails, InferPrimary, PrimaryFails,
         InferShadow, ShadowFails, Compare, CompareFails, ShadowCaught, Skip, Answer, Advance, TypeOK
    <2> QED BY <1>4, <2>1, <2>2
  <1>5. CASE Restart(w)
    BY <1>1, <1>5 DEF Restart, TypeOK
  <1>6. CASE WorkerStep(w)
    <2>1. Select(w)
      BY <1>2, <1>6 DEF WorkerStep, StartBatch, SelectFails, InferPrimary, PrimaryFails,
         InferShadow, ShadowFails, Compare, CompareFails, ShadowCaught
    <2> QED BY <1>3, <2>1 DEF Select
  <1> QED BY <1>1, <1>3, <1>4, <1>5, <1>6 DEF Next, Deploy, vars

-----------------------------------------------------------------------------
(* Inference as one step of a worker.                                       *)

\* The numbers from 1 to n are n.
LEMMA CountedUp ==
  ASSUME NEW n \in Nat
  PROVE  IsFiniteSet(1..n) /\ Cardinality(1..n) = n
  <1>1. 1 \in Int /\ n \in Int
    OBVIOUS
  <1>2. IsFiniteSet(1..n) /\ Cardinality(1..n) = IF 1 > n THEN 0 ELSE n - 1 + 1
    BY <1>1, FS_Interval, Zenon
  <1> QED BY <1>2

\* A list in the order of its batch is a pick of the batch, and no longer than it.
LEMMA IncreasingIsPick ==
  ASSUME NEW list \in Seq(Result), NEW m \in Nat,
         \A i, k \in DOMAIN list : i < k => list[i].of < list[k].of,
         \A i \in DOMAIN list : list[i].of <= m
  PROVE  /\ Len(list) \in 0..m
         /\ [i \in DOMAIN list |-> list[i].of] \in Inference!Picks(Len(list), m)
  <1> DEFINE pick == [i \in DOMAIN list |-> list[i].of]
  <1>1. DOMAIN list = 1..Len(list) /\ Len(list) \in Nat
    OBVIOUS
  <1>2. MaxBatch \in Nat /\ \A r \in Result : r.of \in 1..MaxBatch
    BY RolloutAssumption DEF RolloutAssumption, Result
  <1>3. \A i \in 1..Len(list) : list[i].of \in 1..m
    <2>1. ASSUME NEW i \in 1..Len(list) PROVE list[i].of \in 1..m
      <3>1. list[i] \in Result
        OBVIOUS
      <3> QED BY <1>1, <1>2, <3>1
    <2> QED BY <2>1
  <1>4. pick \in [1..Len(list) -> 1..m]
    BY <1>1, <1>3
  <1>5. \A i, k \in 1..Len(list) : i < k => pick[i] < pick[k]
    BY <1>1
  <1>6. \A i, k \in 1..Len(list) : pick[i] = pick[k] => i = k
    <2> HIDE DEF pick
    <2>1. \A i \in 1..Len(list) : pick[i] \in Nat
      BY <1>4
    <2> QED BY <1>1, <1>5, <2>1
  <1>7. pick \in Injection(1..Len(list), 1..m)
    <2> HIDE DEF pick
    <2> QED BY <1>4, <1>6 DEF Injection, IsInjective
  <1>8. Cardinality(1..Len(list)) <= Cardinality(1..m)
    <2> HIDE DEF pick
    <2>1. IsFiniteSet(1..m)
      BY CountedUp
    <2> QED BY <1>7, <2>1, FS_Injection
  <1>9. Len(list) <= m
    BY <1>1, <1>8, CountedUp
  <1>10. Len(list) \in 0..m
    BY <1>1, <1>9
  <1>11. pick \in Inference!Picks(Len(list), m)
    <2> HIDE DEF pick
    <2> QED BY <1>4, <1>5 DEF Inference!Picks
  <1> QED BY <1>10, <1>11

\* What the worker has handed over, and whose results it has got back.
HandedOver(w) == IF place[w] = "idle" THEN 0 ELSE size[w]
GotBack(w) == IF place[w] = "idle" THEN [i \in DOMAIN results[w] |-> results[w][i].of] ELSE << >>

Batches == [w \in Workers |-> HandedOver(w)]
Returns == [w \in Workers |-> GotBack(w)]

\* A worker's step leaves the other processes as they are.
LEMMA OthersUnmoved ==
  ASSUME NEW w \in Workers, IInv, WorkerStep(w) \/ Restart(w), NEW v \in Workers, v # w
  PROVE  HandedOver(v)' = HandedOver(v) /\ GotBack(v)' = GotBack(v)
  <1>1. TypeOK
    BY DEF IInv
  <1>2. place'[v] = place[v] /\ size'[v] = size[v] /\ results'[v] = results[v]
    <2>1. CASE StartBatch(w) \/ Restart(w)
      BY <1>1, <2>1 DEF StartBatch, Restart, Goto, TypeOK
    <2>2. CASE Select(w) \/ SelectFails(w) \/ PrimaryFails(w)
      BY <1>1, <2>2 DEF Select, SelectFails, PrimaryFails, Skip, Advance, Goto, TypeOK
    <2>3. CASE InferPrimary(w)
      BY <1>1, <2>3 DEF InferPrimary, BeforeShadow, Answer, Advance, Goto, TypeOK
    <2>4. CASE InferShadow(w) \/ ShadowFails(w) \/ Compare(w) \/ CompareFails(w)
      BY <1>1, <2>4 DEF InferShadow, ShadowFails, Compare, CompareFails, ShadowCaught,
         Answer, Advance, Goto, TypeOK
    <2> QED BY <2>1, <2>2, <2>3, <2>4 DEF WorkerStep
  <1> QED BY <1>2 DEF HandedOver, GotBack

\* An update of one worker is an update of both functions.
LEMMA OneWorker ==
  ASSUME NEW w \in Workers, IInv, WorkerStep(w) \/ Restart(w)
  PROVE  /\ Batches' = [Batches EXCEPT ![w] = HandedOver(w)']
         /\ Returns' = [Returns EXCEPT ![w] = GotBack(w)']
  BY OthersUnmoved DEF Batches, Returns

\* The end of a list: what comes back is a pick of what was handed over.
LEMMA ListEnds ==
  ASSUME NEW w \in Workers, IInv, IInv', WorkerStep(w), place[w] # "idle", place'[w] = "idle"
  PROVE  Inference!Return(w)
  <1>1. size'[w] = size[w] /\ size[w] \in Nat /\ size[w] > 0
    <2>1. size' = size
      BY DEF WorkerStep, StartBatch, Select, SelectFails, PrimaryFails, InferPrimary,
         InferShadow, ShadowFails, Compare, CompareFails, ShadowCaught
    <2>2. size[w] \in Nat /\ position[w] \in Nat /\ position[w] >= 1 /\ position[w] <= size[w]
      <3>1. size[w] \in 0..MaxBatch /\ position[w] \in 1..(MaxBatch + 1)
        BY DEF IInv, TypeOK
      <3>2. position[w] <= size[w]
        BY DEF IInv, WorkerInv, AtWork
      <3>3. MaxBatch \in Nat
        BY RolloutAssumption DEF RolloutAssumption
      <3> QED BY <3>1, <3>2, <3>3
    <2> QED BY <2>1, <2>2
  <1>2. results'[w] \in Seq(Result) /\ position'[w] \in Nat
    <2>1. results'[w] \in Seq(Result) /\ position'[w] \in 1..(MaxBatch + 1)
      BY DEF IInv, TypeOK
    <2>2. MaxBatch \in Nat
      BY RolloutAssumption DEF RolloutAssumption
    <2> QED BY <2>1, <2>2
  <1>3. /\ \A i, k \in DOMAIN results'[w] : i < k => results'[w][i].of < results'[w][k].of
        /\ \A i \in DOMAIN results'[w] : results'[w][i].of < position'[w]
        /\ position'[w] <= size[w] + 1
    BY <1>1 DEF IInv, WorkerInv, InOrder
  <1>4. \A i \in DOMAIN results'[w] : results'[w][i].of <= size[w]
    <2>1. ASSUME NEW i \in DOMAIN results'[w] PROVE results'[w][i].of <= size[w]
      <3>1. results'[w][i] \in Result
        BY <1>2
      <3>2. results'[w][i].of \in Nat
        BY <3>1 DEF Result
      <3> QED BY <1>1, <1>2, <1>3, <3>2
    <2> QED BY <2>1
  <1>5. /\ Len(results'[w]) \in 0..size[w]
        /\ [i \in DOMAIN results'[w] |-> results'[w][i].of]
             \in Inference!Picks(Len(results'[w]), size[w])
    BY <1>1, <1>2, <1>3, <1>4, IncreasingIsPick
  <1>6. /\ HandedOver(w) = size[w] /\ HandedOver(w)' = 0
        /\ GotBack(w)' = [i \in DOMAIN results'[w] |-> results'[w][i].of]
    BY DEF HandedOver, GotBack
  <1>7. Batches[w] = size[w] /\ Batches' = [Batches EXCEPT ![w] = 0]
    BY <1>6, OneWorker DEF Batches
  <1>8. Returns' = [Returns EXCEPT ![w] = [i \in DOMAIN results'[w] |-> results'[w][i].of]]
    BY <1>6, OneWorker
  <1> QED BY <1>1, <1>5, <1>7, <1>8 DEF Inference!Return, Batches, Returns, HandedOver, GotBack

\* Each step is a step of a worker that hands over, gets back or ends, or shows
\* nothing to it.
LEMMA InferenceStep ==
  ASSUME IInv, IInv', [Next]_vars
  PROVE  Inference!Next \/ UNCHANGED <<Batches, Returns>>
  <1>1. CASE Deploy \/ UNCHANGED vars
    <2>1. UNCHANGED <<place, size, results>>
      BY <1>1 DEF Deploy, vars
    <2> QED BY <2>1 DEF Batches, Returns, HandedOver, GotBack
  <1>2. ASSUME NEW w \in Workers, StartBatch(w) PROVE Inference!Next
    <2>1. PICK n \in 1..MaxBatch : size' = [size EXCEPT ![w] = n]
      BY <1>2 DEF StartBatch
    <2>2. HandedOver(w) = 0 /\ HandedOver(w)' = n /\ GotBack(w)' = << >>
      BY <1>2, <2>1 DEF StartBatch, Goto, IInv, TypeOK, HandedOver, GotBack
    <2>3. Batches[w] = 0 /\ Batches' = [Batches EXCEPT ![w] = n]
          /\ Returns' = [Returns EXCEPT ![w] = << >>]
      BY <1>2, <2>2, OneWorker DEF WorkerStep, Batches
    <2>4. Inference!HandOver(w)
      BY <2>3 DEF Inference!HandOver, Batches, Returns, HandedOver, GotBack
    <2> QED BY <2>4 DEF Inference!Next
  <1>3. ASSUME NEW w \in Workers, Restart(w) PROVE Inference!Next
    <2>1. HandedOver(w)' = 0 /\ GotBack(w)' = << >>
      <3>1. place'[w] = "idle" /\ results'[w] = << >>
        BY <1>3 DEF Restart, Goto, IInv, TypeOK
      <3> QED BY <3>1 DEF HandedOver, GotBack
    <2>2. Batches' = [Batches EXCEPT ![w] = 0] /\ Returns' = [Returns EXCEPT ![w] = << >>]
      BY <1>3, <2>1, OneWorker
    <2>3. Inference!End(w)
      BY <2>2 DEF Inference!End, Batches, Returns, HandedOver, GotBack
    <2> QED BY <2>3 DEF Inference!Next
  <1>4. ASSUME NEW w \in Workers, WorkerStep(w), ~StartBatch(w)
        PROVE  Inference!Next \/ UNCHANGED <<Batches, Returns>>
    <2>1. place[w] # "idle" /\ size' = size
      BY <1>4 DEF WorkerStep, Select, SelectFails, PrimaryFails, InferPrimary,
         InferShadow, ShadowFails, Compare, CompareFails, ShadowCaught
    <2>2. CASE place'[w] = "idle"
      BY <1>4, <2>1, <2>2, ListEnds DEF Inference!Next
    <2>3. CASE place'[w] # "idle"
      <3>1. HandedOver(w)' = HandedOver(w) /\ GotBack(w)' = GotBack(w)
        BY <2>1, <2>3 DEF HandedOver, GotBack
      <3> QED BY <1>4, <3>1, OneWorker DEF Batches, Returns
    <2> QED BY <2>2, <2>3
  <1> QED BY <1>1, <1>2, <1>3, <1>4 DEF Next

\* The documentation's promise of shadow mode is kept by releases whose registry
\* entry resolves the candidate, and broken only by the others.
THEOREM ResolvedCandidatesNeverAffect ==
  ASSUME \A r \in Releases : r.mode = "shadow" => ResolveEligible(r.entry, "shadow") # NoVersion
  PROVE  Spec => CandidateNeverAffects
  <1>1. IInv /\ [Next]_vars =>
          [\A w \in Workers :
             /\ place[w] = "select" /\ loaded[w].mode = "shadow"
             /\ ResolveEligible(loaded[w].entry, "stable") # NoVersion
             => position'[w] <= position[w]]_vars
    BY NotGivenUp
  <1> QED BY <1>1, RolloutInvariant, PTL DEF Spec, CandidateNeverAffects

\* Inference step by step, with stages that fail, releases that change and
\* processes that are replaced, implements the one step the pipeline takes it for.
THEOREM RolloutImplementsInference == Spec => ImplementsInference
  <1>1. Init => Inference!Init
    <2> SUFFICES ASSUME Init PROVE Inference!Init
      OBVIOUS
    <2>1. ASSUME NEW w \in Workers PROVE HandedOver(w) = 0 /\ GotBack(w) = << >>
      <3>1. place[w] = "idle" /\ results[w] = << >>
        BY DEF Init
      <3>2. [i \in DOMAIN results[w] |-> results[w][i].of] = << >>
        BY <3>1
      <3> QED BY <3>1, <3>2 DEF HandedOver, GotBack
    <2> QED BY <2>1 DEF Inference!Init, HandedOver, GotBack
  <1>2. IInv /\ IInv' /\ [Next]_vars => [Inference!Next]_<<Batches, Returns>>
    BY InferenceStep
  <1>3. [Inference!Next]_<<Batches, Returns>> => [Inference!Next]_Inference!vars
    BY DEF Inference!vars, Batches, Returns, HandedOver, GotBack
  <1> QED BY <1>1, <1>2, <1>3, RolloutInvariant, PTL
             DEF Spec, ImplementsInference, Inference!Spec
=============================================================================
