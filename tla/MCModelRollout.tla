--------------------------- MODULE MCModelRollout ---------------------------
(***************************************************************************)
(* The registry of app/model_registry/models.yaml under every rollout mode,*)
(* and the releases that promote or withdraw version 2.                    *)
(***************************************************************************)
EXTENDS ModelRollout, TLC

ConfigVersions == {"1", "2"}

\* transaction_anomaly_detector
TransactionEntry ==
  [aliases  |-> [a \in Aliases |-> IF a = "stable" THEN "1" ELSE "2"],
   versions |-> {"1", "2"}, eligible |-> {"1", "2"}]

\* volume_anomaly_detector, which has no alias for a candidate.
VolumeEntry ==
  [aliases |-> [a \in {"stable"} |-> "1"], versions |-> {"1"}, eligible |-> {"1"}]

\* Version 2 withdrawn, and version 2 promoted.
WithdrawnEntry == [TransactionEntry EXCEPT !.eligible = {"1"}]
PromotedEntry == [TransactionEntry EXCEPT !.aliases = [a \in Aliases |-> "2"]]

Release(mode, fraction, entry) == [mode |-> mode, fraction |-> fraction, entry |-> entry]

ConfigReleases ==
  {Release("canary", "some", TransactionEntry), Release("canary", "all", TransactionEntry),
   Release("shadow", "some", TransactionEntry), Release("shadow", "some", WithdrawnEntry),
   Release("stable", "some", PromotedEntry)}

VolumeReleases == {Release("shadow", "some", VolumeEntry)}

\* What the worker sees: nothing of a list under way.
Inference == INSTANCE BatchInference WITH
  batchSize <- [w \in Workers |-> IF place[w] = "idle" THEN 0 ELSE size[w]],
  returned <- [w \in Workers |->
    IF place[w] = "idle" THEN [i \in DOMAIN results[w] |-> results[w][i].of] ELSE << >>]

\* Inference step by step, with versions that fail and releases that change
\* under it, implements the one step that the pipeline takes it for: Infer of
\* InferenceQueue (batch.py:241-275).
ImplementsInference == Inference!Spec

Symmetry == Permutations(Workers)
=============================================================================
