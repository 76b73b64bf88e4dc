--------------------------- MODULE CircuitBreaker ---------------------------
(***************************************************************************)
(* The Redis circuit breaker of one process (app/shared/circuit_breaker.py *)
(* with the instance built in app/shared/redis.py), called by one or more  *)
(* threads.  A worker process has one thread.  An API process has its      *)
(* event loop and the thread pool that runs the plain "def" endpoints      *)
(* (/debug/volume), and no lock protects the breaker.                      *)
(*                                                                         *)
(* A step is the code between two points where CPython 3.11 may hand the   *)
(* interpreter lock to another thread (a call): the test of the state, the *)
(* recovery test, the protected call, the reset of _on_success, in         *)
(* _on_failure the increment, the time stamp and the threshold test, and   *)
(* each setting of the gauge, before or after the state it tells.          *)
(* Time is kept as the age of last_failure_time, which only matters up to  *)
(* the recovery timeout.                                                   *)
(***************************************************************************)
EXTENDS Integers

CONSTANTS
  Threads,          \* the threads of the process
  Operations,       \* values of operation_name, the label of the gauge
  FailureThreshold, \* CircuitBreaker(failure_threshold=...)
  RecoveryTimeout,  \* CircuitBreaker(recovery_timeout=...), in ticks
  CountCap          \* where failure_count stops growing: every value from
                    \* FailureThreshold on is tested alike

ASSUME BreakerAssumption ==
  /\ FailureThreshold \in Nat \ {0}
  /\ RecoveryTimeout \in Nat \ {0}
  /\ CountCap \in Nat
  /\ CountCap >= FailureThreshold

VARIABLES
  state,         \* CLOSED, OPEN or HALF_OPEN
  failure_count, \* self.failure_count
  failure_age,   \* time.time() - self.last_failure_time, or Never for None
  gauge,         \* the metric CIRCUIT_BREAKER_STATE, one value per operation
  pc,            \* where each thread stands in call()
  op,            \* the operation each thread is calling
  healthy        \* environment: Redis answers

vars == <<state, failure_count, failure_age, gauge, pc, op, healthy>>

Never == -1
States == {"CLOSED", "OPEN", "HALF_OPEN"}
Showing == {"success", "tripped", "trial"}
Places == {"idle", "recovery", "run", "reset", "failed", "stamp", "threshold"} \cup Showing

TypeOK ==
  /\ state \in States
  /\ failure_count \in 0..CountCap
  /\ failure_age \in Never..RecoveryTimeout
  /\ gauge \in [Operations -> 0..2]
  /\ pc \in [Threads -> Places]
  /\ op \in [Threads -> Operations]
  /\ healthy \in BOOLEAN

Init ==
  /\ state = "CLOSED"
  /\ failure_count = 0
  /\ failure_age = Never
  /\ gauge = [o \in Operations |-> 0]
  /\ pc = [t \in Threads |-> "idle"]
  /\ op \in [Threads -> Operations]
  /\ healthy = TRUE

Goto(t, place) == pc' = [pc EXCEPT ![t] = place]

(***************************************************************************)
(* call(): an OPEN breaker first tests whether recovery may be attempted;  *)
(* CLOSED and HALF_OPEN both let the call through.                         *)
(***************************************************************************)
Call(t, o) ==
  /\ pc[t] = "idle"
  /\ op' = [op EXCEPT ![t] = o]
  /\ Goto(t, IF state = "OPEN" THEN "recovery" ELSE "run")
  /\ UNCHANGED <<state, failure_count, failure_age, gauge, healthy>>

CanAttemptRecovery ==
  /\ failure_age # Never
  /\ failure_age >= RecoveryTimeout

\* Mutant: the trial starts from a fresh count.
TrialCount_Zero == 0

\* The count is kept through a trial, so that one failure opens again.
TrialCount == failure_count

\* The timeout has passed: this call becomes a trial.
AttemptRecovery(t) ==
  /\ pc[t] = "recovery"
  /\ CanAttemptRecovery
  /\ state' = "HALF_OPEN"
  /\ failure_count' = TrialCount
  /\ Goto(t, "trial")
  /\ UNCHANGED <<failure_age, gauge, op, healthy>>

\* Mutant: a refused call is recorded as a failure.
BlockedAge_Fresh == 0

\* A refused call is no failure.
BlockedAge == failure_age

\* CircuitBreakerOpenError: the call is refused without being tried.
Block(t) ==
  /\ pc[t] = "recovery"
  /\ ~CanAttemptRecovery
  /\ failure_age' = BlockedAge
  /\ Goto(t, "idle")
  /\ UNCHANGED <<state, failure_count, gauge, op, healthy>>

\* func() returns or raises, as Redis is at that moment.
Run(t) ==
  /\ pc[t] = "run"
  /\ Goto(t, IF healthy THEN "success" ELSE "failed")
  /\ UNCHANGED <<state, failure_count, failure_age, gauge, op, healthy>>

\* Mutant: only a success that changes the state is shown.
Shown_Changes(t) ==
  IF pc[t] = "success" THEN IF state = "CLOSED" THEN gauge[op[t]] ELSE 0
  ELSE IF pc[t] = "tripped" THEN 1 ELSE 2

\* What a thread sets the gauge of its operation to, whatever the state has
\* become: every success shows CLOSED.
Shown(t) == IF pc[t] = "success" THEN 0 ELSE IF pc[t] = "tripped" THEN 1 ELSE 2

Show(t) ==
  /\ pc[t] \in Showing
  /\ gauge' = [gauge EXCEPT ![op[t]] = Shown(t)]
  /\ Goto(t, IF pc[t] = "success" THEN "reset" ELSE IF pc[t] = "tripped" THEN "idle" ELSE "run")
  /\ UNCHANGED <<state, failure_count, failure_age, op, healthy>>

\* Mutants of _on_success: the count leaks by one or is kept, and an OPEN
\* breaker is not closed.
ResetCount_Leaks == failure_count - 1
ResetCount_Keeps == failure_count
ResetState_FromHalfOpen == IF state = "HALF_OPEN" THEN "CLOSED" ELSE state

ResetCount == 0
ResetState == "CLOSED"

\* _on_success: whatever the state is, the breaker is closed and reset.
OnSuccess(t) ==
  /\ pc[t] = "reset"
  /\ failure_count' = ResetCount
  /\ state' = ResetState
  /\ Goto(t, "idle")
  /\ UNCHANGED <<failure_age, gauge, op, healthy>>

\* _on_failure, first statement: self.failure_count += 1.
CountFailure(t) ==
  /\ pc[t] = "failed"
  /\ failure_count' = IF failure_count < CountCap THEN failure_count + 1 ELSE CountCap
  /\ Goto(t, "stamp")
  /\ UNCHANGED <<state, failure_age, gauge, op, healthy>>

\* _on_failure, second statement: self.last_failure_time = time.time().
StampFailure(t) ==
  /\ pc[t] = "stamp"
  /\ failure_age' = 0
  /\ Goto(t, "threshold")
  /\ UNCHANGED <<state, failure_count, gauge, op, healthy>>

\* Mutant: one failure more than the threshold is needed.
Reached_Above == failure_count > FailureThreshold

Reached == failure_count >= FailureThreshold

\* _on_failure, after the log call: the threshold is tested on the current
\* count, not on the value this thread produced.
TestThreshold(t) ==
  /\ pc[t] = "threshold"
  /\ state' = IF Reached THEN "OPEN" ELSE state
  /\ Goto(t, IF Reached THEN "tripped" ELSE "idle")
  /\ UNCHANGED <<failure_count, failure_age, gauge, op, healthy>>

\* External: a second passes for a recorded failure.
Tick ==
  /\ failure_age \in 0..(RecoveryTimeout - 1)
  /\ failure_age' = failure_age + 1
  /\ UNCHANGED <<state, failure_count, gauge, pc, op, healthy>>

\* External: Redis goes down or comes back.
RedisChanges ==
  /\ healthy' = ~healthy
  /\ UNCHANGED <<state, failure_count, failure_age, gauge, pc, op>>

Finish(t) ==
  \/ AttemptRecovery(t) \/ Block(t) \/ Run(t) \/ Show(t) \/ OnSuccess(t)
  \/ CountFailure(t) \/ StampFailure(t) \/ TestThreshold(t)

Next ==
  \/ \E t \in Threads, o \in Operations : Call(t, o)
  \/ \E t \in Threads : Finish(t)
  \/ Tick
  \/ RedisChanges

Spec == Init /\ [][Next]_vars

\* A started call runs to its end (the 0.2 s socket timeouts of
\* app/shared/redis.py), time passes, and requests keep arriving.
Fairness ==
  /\ \A t \in Threads : WF_vars(Finish(t))
  /\ WF_vars(Tick)
  /\ WF_vars(\E t \in Threads, o \in Operations : Call(t, o))

LiveSpec == Spec /\ Fairness

-----------------------------------------------------------------------------
(* Properties *)

Quiet == \A t \in Threads : pc[t] = "idle"

\* An OPEN breaker rests on enough counted failures and on a recorded failure
\* time, and the same time is there for every thread about to test recovery: the
\* "circuit_invalid_state" branch of _can_attempt_recovery is never reached, in
\* whatever order threads increment, stamp, reset and test.
OpenIsBacked ==
  /\ state = "OPEN" => failure_count >= FailureThreshold /\ failure_age # Never
  /\ \A t \in Threads : pc[t] = "recovery" => failure_age # Never

\* The trip is never forgotten: a breaker that is CLOSED with a count at the
\* threshold is one whose failing thread has yet to reach the threshold test of
\* _on_failure; no interleaving of resets and increments leaves it so.
TripIsNeverLost ==
  state = "CLOSED" /\ failure_count >= FailureThreshold =>
    \E t \in Threads : pc[t] \in {"stamp", "threshold"}

\* "if success -> CLOSED, if failure -> OPEN again" (header comment of the
\* module): once no call is in progress the trial has been decided.
TrialIsDecided == Quiet => state # "HALF_OPEN"

\* "HALF_OPEN: allow 1 test request": a call that begins while a trial is under
\* way is not let through.
OneTrialAtATime ==
  [][\A t \in Threads :
       state = "HALF_OPEN" /\ pc[t] = "idle" => pc'[t] # "run"]_vars

\* Once Redis stays healthy the breaker closes and stays closed: no thread left
\* over from the outage keeps it open or half open.
RecoversAfterOutage == <>[]healthy => <>[](state = "CLOSED")

\* So does what the gauge of a called operation shows, although threads set it
\* apart from the state and in another order than the state: a trip shown late,
\* over a CLOSED breaker, does not stay (circuit_breaker.py:110, 136-137).
GaugeRecovers == <>[]healthy => <>[](\A o \in Operations : gauge[o] = 0)
=============================================================================
