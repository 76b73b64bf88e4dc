-------------------------- MODULE MCCircuitBreaker --------------------------
(***************************************************************************)
(* Small instances of the circuit breaker, the refinement of the contract  *)
(* by a process with one thread, and the mutants of the breaker.           *)
(***************************************************************************)
EXTENDS CircuitBreaker

\* The failing thread's decision is visible in the contract as soon as the
\* count reaches the threshold, and its time stamp as soon as it has counted.
Deciding ==
  \E t \in Threads : pc[t] \in {"stamp", "threshold"} /\ failure_count >= FailureThreshold
Mode == IF Deciding THEN "OPEN" ELSE state

Contract == INSTANCE BreakerContract WITH
  mode <- Mode,
  failures <- IF Mode = "CLOSED" THEN failure_count ELSE 0,
  age <- IF \E t \in Threads : pc[t] = "stamp" THEN 0 ELSE failure_age

\* A process with one thread (a worker) implements the documented breaker.
ImplementsContract == Contract!Spec
=============================================================================
