----------------------------- MODULE VipTraffic -----------------------------
(***************************************************************************)
(* The pipeline under VIP traffic that may go on for ever.  A request that *)
(* has left the pipeline leaves its place to a new one: every POST to      *)
(* /predict_async is a job of its own (app/inference/routes.py), and what  *)
(* Redis keeps of an earlier job is read by nobody but its own client.     *)
(***************************************************************************)
EXTENDS PipelineProperties

AskAgain(j) ==
  /\ reply[j] # "none" /\ ~InFlight(j)
  /\ reply' = [reply EXCEPT ![j] = "none"]
  /\ result' = [result EXCEPT ![j] = NoJob]
  /\ dlq' = [dlq EXCEPT ![j] = 0]
  /\ UNCHANGED <<queue, admitting, workerVars, faults, crashes>>

NextUnderTraffic == Next \/ \E j \in VipJobs : AskAgain(j)

\* No fairness of clients: traffic may stop, or go on for ever.
TrafficSpec == Init /\ [][NextUnderTraffic]_vars /\ WorkersAreFair
=============================================================================
