---------------------------- MODULE ModelRollout ----------------------------
(***************************************************************************)
(* Model selection and inference inside the workers                        *)
(* (app/inference/model_selection.py, app/model_registry/                  *)
(* model_registry.py, app/inference/clients/inference_client.py) while     *)
(* releases are rolled out: a release is the ConfigMap's rollout mode and  *)
(* the registry entry of the model, and a process keeps the one it was     *)
(* started with.  A batch is worked off one transaction after the other;   *)
(* each call of Triton is a step that may fail, and the process may be     *)
(* replaced between any two.                                               *)
(***************************************************************************)
EXTENDS Naturals, Sequences

CONSTANTS
  Workers,       \* the worker processes
  Versions,      \* model versions
  NoVersion,     \* None
  Releases,      \* the releases an operator may deploy
  MaxBatch,      \* the largest batch
  CountCap,      \* bound: predictions and failures counted by one process
  MaxReleases    \* bound: releases deployed in a behaviour

Modes == {"stable", "canary", "shadow", "unknown"}
Aliases == {"stable", "canary", "shadow"}

\* An entry of models.yaml: aliases, versions, and which of those are eligible.
IsEntry(e) ==
  /\ DOMAIN e.aliases \subseteq Aliases
  /\ \A a \in DOMAIN e.aliases : e.aliases[a] \in Versions
  /\ e.versions \subseteq Versions
  /\ e.eligible \subseteq e.versions

ASSUME RolloutAssumption ==
  /\ NoVersion \notin Versions
  /\ Versions \cap Modes = {}
  /\ \A r \in Releases : r.mode \in Modes /\ IsEntry(r.entry)
  /\ \A r \in Releases : r.fraction \in {"none", "some", "all"}
  /\ MaxBatch \in Nat /\ CountCap \in Nat /\ MaxReleases \in Nat

VARIABLES
  release,     \* what is deployed
  releases,    \* how many releases have been deployed
  loaded,      \* per worker: the release its process was started with
  place,       \* per worker: where it stands in process_anomaly_detection
  size,        \* per worker: the number of transactions of its batch
  position,    \* per worker: the transaction at hand
  chosen,      \* per worker: SelectedModelVersions
  results,     \* per worker: the result list, as (transaction, version)
  predictions, \* per worker: PREDICTION_RESULT_TOTAL
  comparisons, \* per worker: PREDICTION_AGREEMENT_TOTAL + ..._DISAGREEMENT_TOTAL
  failures,    \* per worker: WORKER_PROCESSING_FAILURES_TOTAL of the stages where
               \* an exception ends: transaction_processing, shadow_inference
  answers      \* per worker: results put in a list since the process started

vars == <<release, releases, loaded, place, size, position, chosen, results,
          predictions, comparisons, failures, answers>>

\* The transaction at hand is at the shadow version, or about to be compared.
ShadowStages == {"shadow", "compare"}
Places == {"idle", "select", "primary"} \cup ShadowStages

NoChoice == [primary |-> NoVersion, shadow |-> NoVersion]

\* What is kept of a PredictionResult: its transaction and model_version.
Result == [of : 1..MaxBatch, version : Versions]
SelectedModelVersions == [primary : Versions \cup {NoVersion}, shadow : Versions \cup {NoVersion}]

TypeOK ==
  /\ release \in Releases
  /\ releases \in 0..MaxReleases
  /\ loaded \in [Workers -> Releases]
  /\ place \in [Workers -> Places]
  /\ size \in [Workers -> 0..MaxBatch]
  /\ position \in [Workers -> 1..(MaxBatch + 1)]
  /\ chosen \in [Workers -> SelectedModelVersions]
  /\ results \in [Workers -> Seq(Result)]
  /\ predictions \in [Workers -> Nat]
  /\ comparisons \in [Workers -> Nat]
  /\ failures \in [Workers -> Nat]
  /\ answers \in [Workers -> Nat]

Init ==
  /\ release \in Releases
  /\ releases = 0
  /\ loaded = [w \in Workers |-> release]
  /\ place = [w \in Workers |-> "idle"]
  /\ size = [w \in Workers |-> 0]
  /\ position = [w \in Workers |-> 1]
  /\ chosen = [w \in Workers |-> NoChoice]
  /\ results = [w \in Workers |-> << >>]
  /\ predictions = [w \in Workers |-> 0]
  /\ comparisons = [w \in Workers |-> 0]
  /\ failures = [w \in Workers |-> 0]
  /\ answers = [w \in Workers |-> 0]

-----------------------------------------------------------------------------
(* The registry and the choice of versions.  NoVersion stands for a raise.  *)

\* resolve_version: an alias, or else a version named as such.
Resolve(e, name) ==
  IF name \in DOMAIN e.aliases THEN e.aliases[name]
  ELSE IF name \in e.versions THEN name ELSE NoVersion

\* Mutant: the version need only be registered.
ResolveEligible_AnyVersion(e, name) ==
  IF Resolve(e, name) \in e.versions THEN Resolve(e, name) ELSE NoVersion

\* resolve_rollout_eligible_version; an alias of an unregistered version raises
\* a KeyError.
ResolveEligible(e, name) ==
  IF Resolve(e, name) \in e.eligible THEN Resolve(e, name) ELSE NoVersion

\* random() is in [0, 1): a fraction of 0 never takes the candidate, 1 always.
CanaryChoices(fraction, stable, candidate) ==
  CASE fraction = "none" -> {stable}
    [] fraction = "some" -> {stable, candidate}
    [] fraction = "all" -> {candidate}

\* determine_model_versions_based_on_rollout_mode: what may be chosen, and
\* nothing when it raises.  An unsupported model has an empty entry.
Selections(r) ==
  LET stable == ResolveEligible(r.entry, "stable")
      other  == ResolveEligible(r.entry, r.mode)
  IN  IF stable = NoVersion \/ other = NoVersion THEN {} ELSE
      CASE r.mode = "stable" -> {[primary |-> stable, shadow |-> NoVersion]}
        [] r.mode = "canary" ->
             {[primary |-> v, shadow |-> NoVersion] :
                v \in CanaryChoices(r.fraction, stable, other)}
        [] r.mode = "shadow" -> {[primary |-> stable, shadow |-> other]}
        [] OTHER -> {}

-----------------------------------------------------------------------------
(* process_anomaly_detection                                                *)

Goto(w, p) == place' = [place EXCEPT ![w] = p]
Counters == <<predictions, comparisons, failures, answers>>
Deployment == <<release, releases, loaded>>

\* Mutant: the loop runs one transaction too far.
Last_Beyond(w) == position[w] > size[w]

Last(w) == position[w] = size[w]

\* The next transaction, or the end of the loop.
Advance(w) ==
  /\ position' = [position EXCEPT ![w] = @ + 1]
  /\ Goto(w, IF Last(w) THEN "idle" ELSE "select")

\* record_worker_failure in the handler that ends the exception.
RecordFailure(w) == failures' = [failures EXCEPT ![w] = @ + 1]

\* "continue": the transaction is left out of the result list.
Skip(w) == Advance(w) /\ RecordFailure(w) /\ UNCHANGED <<results, answers>>

\* results.append(result): the answer is the primary version's.
Answer(w) ==
  /\ results' = [results EXCEPT ![w] =
       Append(@, [of |-> position[w], version |-> chosen[w].primary])]
  /\ answers' = [answers EXCEPT ![w] = @ + 1]
  /\ Advance(w)

\* process_batch hands over a batch that is not empty.
StartBatch(w) ==
  /\ place[w] = "idle"
  /\ \E n \in 1..MaxBatch :
       /\ predictions[w] + failures[w] + 2 * n <= CountCap
       /\ size' = [size EXCEPT ![w] = n]
  /\ position' = [position EXCEPT ![w] = 1]
  /\ results' = [results EXCEPT ![w] = << >>]
  /\ Goto(w, "select")
  /\ UNCHANGED <<Deployment, chosen, Counters>>

Select(w) ==
  /\ place[w] = "select"
  /\ \E c \in Selections(loaded[w]) : chosen' = [chosen EXCEPT ![w] = c]
  /\ Goto(w, "primary")
  /\ UNCHANGED <<Deployment, size, position, results, Counters>>

SelectFails(w) ==
  /\ place[w] = "select"
  /\ Selections(loaded[w]) = {}
  /\ Skip(w)
  /\ UNCHANGED <<Deployment, size, chosen, predictions, comparisons>>

\* Mutant: the answer is given before the shadow is asked, and again after it.
BeforeShadow_Answered(w) ==
  Append(results[w], [of |-> position[w], version |-> chosen[w].primary])

BeforeShadow(w) == results[w]

\* PREDICTION_RESULT_TOTAL of postprocess_output.
CountPrediction(w) == predictions' = [predictions EXCEPT ![w] = @ + 1]

\* infer_single_version raises: at the encoding, the request or the decoding, or
\* at the score's histogram, when the prediction has been counted.
InferRaises(w) == CountPrediction(w) \/ UNCHANGED predictions

\* infer_single_version of the primary version: asked, decoded and counted.
InferPrimary(w) ==
  /\ place[w] = "primary"
  /\ CountPrediction(w)
  /\ IF chosen[w].shadow = NoVersion THEN Answer(w)
     ELSE /\ Goto(w, "shadow")
          /\ results' = [results EXCEPT ![w] = BeforeShadow(w)]
          /\ UNCHANGED <<position, answers>>
  /\ UNCHANGED <<Deployment, size, chosen, comparisons, failures>>

PrimaryFails(w) ==
  /\ place[w] = "primary"
  /\ InferRaises(w)
  /\ Skip(w)
  /\ UNCHANGED <<Deployment, size, chosen, comparisons>>

\* infer_single_version of the shadow version.
InferShadow(w) ==
  /\ place[w] = "shadow"
  /\ CountPrediction(w)
  /\ Goto(w, "compare")
  /\ UNCHANGED <<Deployment, size, position, chosen, results, comparisons, failures, answers>>

\* Mutant: agreement is not counted.
Compared_Disagreement(w) == comparisons[w]

Compared(w) == comparisons[w] + 1

\* The comparison is counted, agreeing or not.
CountComparison(w) == comparisons' = [comparisons EXCEPT ![w] = Compared(w)]

\* record_shadow_comparison; the primary version answers.
Compare(w) ==
  /\ place[w] = "compare"
  /\ CountComparison(w)
  /\ Answer(w)
  /\ UNCHANGED <<Deployment, size, chosen, predictions, failures>>

\* Mutant: the exception of the shadow reaches the transaction.
ShadowCaught_Raises(w) == Skip(w)

\* "Shadow inference failed; returning stable prediction".
ShadowCaught(w) == RecordFailure(w) /\ Answer(w)

ShadowFails(w) ==
  /\ place[w] = "shadow"
  /\ InferRaises(w)
  /\ ShadowCaught(w)
  /\ UNCHANGED <<Deployment, size, chosen, comparisons>>

\* record_shadow_comparison raises, before or after it has counted.
CompareFails(w) ==
  /\ place[w] = "compare"
  /\ CountComparison(w) \/ UNCHANGED comparisons
  /\ ShadowCaught(w)
  /\ UNCHANGED <<Deployment, size, chosen, predictions>>

-----------------------------------------------------------------------------
(* External: the deployment.                                                *)

Deploy ==
  /\ releases < MaxReleases
  /\ \E r \in Releases \ {release} : release' = r
  /\ releases' = releases + 1
  /\ UNCHANGED <<loaded, place, size, position, chosen, results, Counters>>

\* Mutant: what was resolved is kept in a cache that survives the process.
ReadAtStart_Cached(w) == loaded[w]

ReadAtStart(w) == release

\* A process is replaced, at any time: a crash, or "kubectl rollout restart".
\* The new one reads the mode and the registry that are deployed by then.
Restart(w) ==
  /\ loaded' = [loaded EXCEPT ![w] = ReadAtStart(w)]
  /\ Goto(w, "idle")
  /\ size' = [size EXCEPT ![w] = 0]
  /\ position' = [position EXCEPT ![w] = 1]
  /\ chosen' = [chosen EXCEPT ![w] = NoChoice]
  /\ results' = [results EXCEPT ![w] = << >>]
  /\ predictions' = [predictions EXCEPT ![w] = 0]
  /\ comparisons' = [comparisons EXCEPT ![w] = 0]
  /\ failures' = [failures EXCEPT ![w] = 0]
  /\ answers' = [answers EXCEPT ![w] = 0]
  /\ UNCHANGED <<release, releases>>

WorkerStep(w) ==
  \/ StartBatch(w) \/ Select(w) \/ SelectFails(w)
  \/ InferPrimary(w) \/ PrimaryFails(w)
  \/ InferShadow(w) \/ ShadowFails(w) \/ Compare(w) \/ CompareFails(w)

Next == Deploy \/ \E w \in Workers : WorkerStep(w) \/ Restart(w)

Spec == Init /\ [][Next]_vars

\* Every release is followed by the restart of the processes started before it.
LiveSpec ==
  Spec /\ \A w \in Workers : WF_vars(loaded[w] # release /\ Restart(w))

-----------------------------------------------------------------------------
(* Properties *)

\* What a caller of process_anomaly_detection may rely on: the list is the batch
\* with some transactions left out, in order and without repetition, which is
\* the Picks of InferenceQueue, whatever fails in whichever stage.
ReturnsPick ==
  \A w \in Workers :
    /\ \A i, k \in DOMAIN results[w] : i < k => results[w][i].of < results[w][k].of
    /\ \A i \in DOMAIN results[w] : results[w][i].of < position[w]
    /\ position[w] <= size[w] + 1

\* "The selected version must be marked as rollout_eligible: true before it can
\* receive inference traffic" (docs/07-model-lifecycle.md), on the registry the
\* process loaded, for the version that answers and for the shadow.
OnlyEligibleServe ==
  \A w \in Workers :
    LET eligible == loaded[w].entry.eligible
    IN  /\ place[w] \in {"primary"} \cup ShadowStages => chosen[w].primary \in eligible
        /\ place[w] \in ShadowStages => chosen[w].shadow \in eligible
        /\ \A i \in DOMAIN results[w] : results[w][i].version \in eligible

\* How many predictions of the transaction at hand are counted and still to be
\* answered or compared.
Pending(w) == CASE place[w] = "shadow" -> 1 [] place[w] = "compare" -> 2 [] OTHER -> 0

\* The dashboards of a rollout add up, whichever stage fails between a count and
\* the next: no answer and no comparison without a counted prediction, and a
\* counted prediction that is neither answered nor compared has left its trace
\* in the failures, one for one.
PredictionsAddUp ==
  \A w \in Workers :
    LET settled == answers[w] + comparisons[w] + Pending(w)
    IN  settled <= predictions[w] /\ predictions[w] <= settled + failures[w]

\* Once the stable version has predicted, the shadow changes nothing: the
\* transaction is answered by the stable version, however the shadow call ends,
\* unless the process itself is replaced.
StableAnswers(w) ==
  place[w] \in ShadowStages /\ place'[w] \notin ShadowStages =>
    \/ results'[w] = Append(results[w],
         [of |-> position[w], version |-> ResolveEligible(loaded[w].entry, "stable")])
    \/ results'[w] = << >> /\ position'[w] = 1
ShadowIsHarmless == [][\A w \in Workers : StableAnswers(w)]_vars

\* The versions that may answer under a release.
Answering(r) == {c.primary : c \in Selections(r)}

\* Rollback and promotion take hold: when no further release follows, from some
\* point on every result in every process is that of a version the release lets
\* answer; no process goes on with what it chose under an earlier one.
ReleaseTakesHold ==
  \A r \in Releases : <>[](release = r) =>
    <>[](\A w \in Workers : \A i \in DOMAIN results[w] :
           results[w][i].version \in Answering(r))

\* "The candidate model never affects production responses"
\* (docs/06-model-rollout.md): in shadow mode a transaction is not given up
\* before the stable version has been asked.
CandidateNeverAffects ==
  [][\A w \in Workers :
       /\ place[w] = "select" /\ loaded[w].mode = "shadow"
       /\ ResolveEligible(loaded[w].entry, "stable") # NoVersion
       => position'[w] <= position[w]]_vars
=============================================================================
