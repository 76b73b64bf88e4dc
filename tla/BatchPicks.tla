----------------------------- MODULE BatchPicks -----------------------------
(***************************************************************************)
(* What process_anomaly_detection may make of a batch: a list of results   *)
(* from which some transactions are left out, without gaps                 *)
(* (app/inference/clients/inference_client.py:19-44).                      *)
(***************************************************************************)
EXTENDS Naturals

\* The ways to keep n of m transactions, in order.
Picks(n, m) == {p \in [1..n -> 1..m] : \A i, k \in 1..n : i < k => p[i] < p[k]}
=============================================================================
