-------------------------- MODULE BreakerContract --------------------------
(***************************************************************************)
(* What the header comment of app/shared/circuit_breaker.py promises of a  *)
(* breaker, each call being one step: CLOSED counts failures, OPEN rejects *)
(* until the timeout has passed, HALF_OPEN decides on one trial.           *)
(***************************************************************************)
EXTENDS Integers

CONSTANTS FailureThreshold, RecoveryTimeout

VARIABLES
  mode,     \* CLOSED, OPEN or HALF_OPEN
  failures, \* failures in a row while CLOSED
  age       \* time since the last failure, -1 before the first

vars == <<mode, failures, age>>

Init == mode = "CLOSED" /\ failures = 0 /\ age = -1

\* An admitted call succeeds; only CLOSED and HALF_OPEN admit one.
Success ==
  /\ mode # "OPEN"
  /\ mode' = "CLOSED"
  /\ failures' = 0
  /\ UNCHANGED age

\* A failing trial reopens; the failure that reaches the threshold opens.
Failure ==
  /\ mode # "OPEN"
  /\ age' = 0
  /\ IF mode = "HALF_OPEN" \/ failures + 1 >= FailureThreshold
       THEN mode' = "OPEN" /\ failures' = 0
       ELSE failures' = failures + 1 /\ UNCHANGED mode

BeginTrial ==
  /\ mode = "OPEN"
  /\ age >= RecoveryTimeout
  /\ mode' = "HALF_OPEN"
  /\ UNCHANGED <<failures, age>>

Tick ==
  /\ age \in 0..(RecoveryTimeout - 1)
  /\ age' = age + 1
  /\ UNCHANGED <<mode, failures>>

Next == Success \/ Failure \/ BeginTrial \/ Tick

Spec == Init /\ [][Next]_vars
=============================================================================
