----------------------- MODULE CircuitBreaker_proofs -----------------------
(***************************************************************************)
(* Safety of the circuit breaker for any number of threads and operations  *)
(* and any threshold and timeout, and the documented breaker implemented   *)
(* by a process with one thread.                                           *)
(***************************************************************************)
EXTENDS MCCircuitBreaker, TLAPS

\* Before a thread tests the threshold it has stamped the failure time, so
\* whoever opens the breaker leaves a time behind.  This is what OpenIsBacked
\* lacks to be inductive.
StampedBeforeTest ==
  \A t \in Threads : pc[t] = "threshold" => failure_age # Never

IInv == TypeOK /\ OpenIsBacked /\ StampedBeforeTest /\ TripIsNeverLost

\* The breaker starts CLOSED with nothing counted.
LEMMA InitIInv == Init => IInv
  BY BreakerAssumption DEF Init, IInv, TypeOK, OpenIsBacked, StampedBeforeTest,
     TripIsNeverLost, Never, States, Places, Showing

\* A new call, let through or sent to the recovery test, preserves the invariant.
LEMMA CallIInv ==
  ASSUME NEW t \in Threads, NEW o \in Operations, IInv, Call(t, o)
  PROVE  IInv'
  <1>1. TypeOK'
    BY DEF IInv, TypeOK, Call, Goto, Places, Showing
  <1>2. OpenIsBacked' /\ StampedBeforeTest' /\ TripIsNeverLost'
    BY DEF IInv, TypeOK, OpenIsBacked, StampedBeforeTest, TripIsNeverLost, Call, Goto, Places, Showing
  <1> QED BY <1>1, <1>2 DEF IInv

\* Every step of a call that has begun preserves it.
LEMMA FinishIInv ==
  ASSUME NEW t \in Threads, IInv, Finish(t)
  PROVE  IInv'
  <1> USE BreakerAssumption DEF IInv, Never, States, Places, Showing, Goto
  <1>1. CASE AttemptRecovery(t)
    <2>1. TypeOK'
      BY <1>1 DEF AttemptRecovery, TrialCount, TypeOK
    <2>2. OpenIsBacked' /\ StampedBeforeTest' /\ TripIsNeverLost'
      BY <1>1 DEF AttemptRecovery, TrialCount, TypeOK, OpenIsBacked, StampedBeforeTest, TripIsNeverLost
    <2> QED BY <2>1, <2>2
  <1>2. CASE Block(t)
    <2>1. TypeOK'
      BY <1>2 DEF Block, BlockedAge, TypeOK
    <2>2. OpenIsBacked' /\ StampedBeforeTest' /\ TripIsNeverLost'
      BY <1>2 DEF Block, BlockedAge, TypeOK, OpenIsBacked, StampedBeforeTest, TripIsNeverLost
    <2> QED BY <2>1, <2>2
  <1>3. CASE Run(t)
    <2>1. TypeOK'
      BY <1>3 DEF Run, TypeOK
    <2>2. OpenIsBacked' /\ StampedBeforeTest' /\ TripIsNeverLost'
      BY <1>3 DEF Run, TypeOK, OpenIsBacked, StampedBeforeTest, TripIsNeverLost
    <2> QED BY <2>1, <2>2
  <1>4. CASE OnSuccess(t)
    <2>1. TypeOK'
      BY <1>4 DEF OnSuccess, ResetCount, ResetState, TypeOK
    <2>2. OpenIsBacked' /\ StampedBeforeTest' /\ TripIsNeverLost'
      BY <1>4 DEF OnSuccess, ResetCount, ResetState, TypeOK, OpenIsBacked, StampedBeforeTest, TripIsNeverLost
    <2> QED BY <2>1, <2>2
  <1>5. CASE CountFailure(t)
    <2>1. TypeOK'
      BY <1>5 DEF CountFailure, TypeOK
    <2>2. OpenIsBacked' /\ StampedBeforeTest'
      BY <1>5 DEF CountFailure, TypeOK, OpenIsBacked, StampedBeforeTest
    <2>3. TripIsNeverLost'   \* t itself is about to stamp
      BY <1>5 DEF CountFailure, TypeOK, TripIsNeverLost
    <2> QED BY <2>1, <2>2, <2>3
  <1>6. CASE StampFailure(t)
    <2>1. TypeOK'
      BY <1>6 DEF StampFailure, TypeOK
    <2>2. OpenIsBacked' /\ StampedBeforeTest'
      BY <1>6 DEF StampFailure, TypeOK, OpenIsBacked, StampedBeforeTest
    <2>3. TripIsNeverLost'   \* a witness other than t stays, t becomes one
      BY <1>6 DEF StampFailure, TypeOK, TripIsNeverLost
    <2> QED BY <2>1, <2>2, <2>3
  <1>7. CASE TestThreshold(t)
    <2>1. CASE Reached
      <3>1. TypeOK'
        BY <1>7, <2>1 DEF TestThreshold, Reached, TypeOK
      <3>2. OpenIsBacked' /\ StampedBeforeTest' /\ TripIsNeverLost'
        BY <1>7, <2>1 DEF TestThreshold, Reached, TypeOK, OpenIsBacked, StampedBeforeTest, TripIsNeverLost
      <3> QED BY <3>1, <3>2
    <2>2. CASE ~Reached
      <3>1. TypeOK'
        BY <1>7, <2>2 DEF TestThreshold, Reached, TypeOK
      <3>2. OpenIsBacked' /\ StampedBeforeTest' /\ TripIsNeverLost'
        BY <1>7, <2>2 DEF TestThreshold, Reached, TypeOK, OpenIsBacked, StampedBeforeTest, TripIsNeverLost
      <3> QED BY <3>1, <3>2
    <2> QED BY <2>1, <2>2
  <1>8. CASE Show(t)
    <2>1. gauge' \in [Operations -> 0..2]
      BY <1>8 DEF Show, Shown, TypeOK
    <2>2. TypeOK'
      BY <1>8, <2>1 DEF Show, TypeOK
    <2>3. OpenIsBacked' /\ StampedBeforeTest' /\ TripIsNeverLost'
      BY <1>8 DEF Show, TypeOK, OpenIsBacked, StampedBeforeTest, TripIsNeverLost
    <2> QED BY <2>2, <2>3
  <1> QED BY <1>1, <1>2, <1>3, <1>4, <1>5, <1>6, <1>7, <1>8 DEF Finish

\* So do time, Redis going down or coming back, and steps of other processes.
LEMMA EnvironmentIInv == IInv /\ (Tick \/ RedisChanges \/ UNCHANGED vars) => IInv'
  <1> USE BreakerAssumption DEF IInv, Never, States, Places
  <1>1. ASSUME IInv, Tick PROVE IInv'
    <2>1. TypeOK'
      BY <1>1 DEF Tick, TypeOK
    <2>2. OpenIsBacked' /\ StampedBeforeTest' /\ TripIsNeverLost'
      BY <1>1 DEF Tick, TypeOK, OpenIsBacked, StampedBeforeTest, TripIsNeverLost
    <2> QED BY <2>1, <2>2
  <1>2. ASSUME IInv, RedisChanges PROVE IInv'
    <2>1. healthy' \in BOOLEAN
      BY <1>2, Zenon DEF RedisChanges
    <2>2. TypeOK'
      BY <1>2, <2>1 DEF RedisChanges, TypeOK
    <2>3. OpenIsBacked' /\ StampedBeforeTest' /\ TripIsNeverLost'
      BY <1>2 DEF RedisChanges, OpenIsBacked, StampedBeforeTest, TripIsNeverLost
    <2> QED BY <2>2, <2>3
  <1>3. ASSUME IInv, UNCHANGED vars PROVE IInv'
    BY <1>3 DEF vars, TypeOK, OpenIsBacked, StampedBeforeTest, TripIsNeverLost
  <1> QED BY <1>1, <1>2, <1>3

\* Every step of the breaker preserves the invariant.
LEMMA NextIInv == IInv /\ [Next]_vars => IInv'
  BY CallIInv, FinishIInv, EnvironmentIInv DEF Next

\* The inductive invariant of the breaker: types, an OPEN state that rests on
\* counted and dated failures, and no trip forgotten.
THEOREM BreakerInvariant == Spec => []IInv
  BY InitIInv, NextIInv, PTL DEF Spec

\* Every variable of the breaker keeps its type.
THEOREM BreakerTypes == Spec => []TypeOK
  BY BreakerInvariant, PTL DEF IInv

\* OPEN implies enough counted failures and a failure time; the
\* "circuit_invalid_state" branch of _can_attempt_recovery is unreachable.
THEOREM OpenBreakerIsBacked == Spec => []OpenIsBacked
  BY BreakerInvariant, PTL DEF IInv

\* A breaker that is CLOSED at its threshold is about to be tested by the thread
\* that failed last.
THEOREM TripsAreNeverLost == Spec => []TripIsNeverLost
  BY BreakerInvariant, PTL DEF IInv

-----------------------------------------------------------------------------
(* A process with one thread.                                               *)

\* Where the thread t of the process may stand in each state.  A trial keeps the
\* count that opened the breaker, so that its failure opens it again.
Alone(t) ==
  /\ state = "OPEN" => pc[t] \in {"idle", "recovery", "tripped"}
  /\ pc[t] \in {"recovery", "tripped"} => state = "OPEN"
  /\ state = "HALF_OPEN" =>
       /\ pc[t] \in {"trial", "run", "success", "reset", "failed", "stamp", "threshold"}
       /\ failure_count >= FailureThreshold
  /\ pc[t] = "trial" => state = "HALF_OPEN"

\* A step of the process, or of its environment, keeps it.
LEMMA AloneStep ==
  ASSUME NEW t, Threads = {t}, IInv, Alone(t), [Next]_vars
  PROVE  Alone(t)'
  <1> USE DEF IInv, TypeOK, OpenIsBacked, Alone, Goto, States, Places, Showing, Never
  <1>1. CASE UNCHANGED vars \/ Tick \/ RedisChanges
    BY <1>1 DEF vars, Tick, RedisChanges
  <1>2. ASSUME NEW o \in Operations, Call(t, o) PROVE Alone(t)'
    BY <1>2 DEF Call
  <1>3. CASE AttemptRecovery(t)
    BY <1>3 DEF AttemptRecovery, TrialCount
  <1>4. CASE Block(t) \/ Run(t) \/ Show(t) \/ StampFailure(t)
    BY <1>4 DEF Block, Run, Show, StampFailure
  <1>5. CASE OnSuccess(t)
    BY <1>5 DEF OnSuccess, ResetCount, ResetState
  <1>6. CASE CountFailure(t)
    BY <1>6, BreakerAssumption DEF CountFailure
  <1>7. CASE TestThreshold(t)
    BY <1>7 DEF TestThreshold, Reached
  <1> QED BY <1>1, <1>2, <1>3, <1>4, <1>5, <1>6, <1>7 DEF Next, Finish

\* The contract's view of a process with one thread.
LEMMA ModeAlone ==
  ASSUME NEW t, Threads = {t}
  PROVE  /\ Mode = IF pc[t] \in {"stamp", "threshold"} /\ failure_count >= FailureThreshold
                     THEN "OPEN" ELSE state
         /\ Mode' = IF pc'[t] \in {"stamp", "threshold"} /\ failure_count' >= FailureThreshold
                      THEN "OPEN" ELSE state'
         /\ (\E u \in Threads : pc[u] = "stamp") <=> pc[t] = "stamp"
         /\ (\E u \in Threads : pc'[u] = "stamp") <=> pc'[t] = "stamp"
  BY DEF Mode, Deciding

Failures == IF Mode = "CLOSED" THEN failure_count ELSE 0
Age == IF \E t \in Threads : pc[t] = "stamp" THEN 0 ELSE failure_age

\* Each step is a step of the contract or changes nothing in it.
LEMMA ContractStep ==
  ASSUME NEW t, Threads = {t}, IInv, Alone(t), [Next]_vars
  PROVE  Contract!Next \/ UNCHANGED <<Mode, Failures, Age>>
  <1> USE ModeAlone DEF IInv, TypeOK, Goto, States, Places, Showing, Never, Failures, Age
  <1>1. CASE UNCHANGED vars \/ RedisChanges
    <2>1. UNCHANGED <<state, failure_count, failure_age, pc>>
      BY <1>1 DEF vars, RedisChanges
    <2> QED BY <2>1
  <1>2. CASE Tick
    <2>1. CASE pc[t] = "stamp"
      BY <1>2, <2>1 DEF Tick
    <2>2. CASE pc[t] # "stamp"
      BY <1>2, <2>2 DEF Tick, Contract!Next, Contract!Tick
    <2> QED BY <2>1, <2>2
  <1>3. ASSUME NEW o \in Operations, Call(t, o)
        PROVE  UNCHANGED <<Mode, Failures, Age>>
    BY <1>3 DEF Call
  <1>4. CASE AttemptRecovery(t)
    <2>1. Contract!BeginTrial
      BY <1>4 DEF AttemptRecovery, CanAttemptRecovery, TrialCount, Alone, Contract!BeginTrial
    <2> QED BY <2>1 DEF Contract!Next
  <1>5. CASE Block(t) \/ Run(t) \/ Show(t) \/ StampFailure(t)
    <2>1. UNCHANGED <<state, failure_count>>
      BY <1>5 DEF Block, Run, Show, StampFailure
    <2>2. CASE Block(t) \/ Run(t) \/ Show(t)
      <3>1. /\ failure_age' = failure_age
            /\ pc[t] \notin {"stamp", "threshold"} /\ pc'[t] \notin {"stamp", "threshold"}
        BY <2>2 DEF Block, BlockedAge, Run, Show
      <3> QED BY <2>1, <3>1
    <2>3. CASE StampFailure(t)
      <3>1. failure_age' = 0 /\ pc[t] = "stamp" /\ pc'[t] = "threshold"
        BY <2>3 DEF StampFailure
      <3> QED BY <2>1, <3>1
    <2> QED BY <1>5, <2>2, <2>3
  <1>6. CASE OnSuccess(t)
    <2>1. Contract!Success
      BY <1>6 DEF OnSuccess, ResetCount, ResetState, Alone, Contract!Success
    <2> QED BY <2>1 DEF Contract!Next
  <1>7. CASE CountFailure(t)
    <2>1. /\ pc[t] = "failed" /\ pc'[t] = "stamp" /\ state' = state /\ state # "OPEN"
          /\ failure_count' = IF failure_count < CountCap THEN failure_count + 1 ELSE CountCap
      BY <1>7 DEF CountFailure, Alone
    <2>2. state = "CLOSED" => failure_count < FailureThreshold
      BY <2>1, BreakerAssumption DEF TripIsNeverLost
    <2>3. state = "HALF_OPEN" => failure_count >= FailureThreshold
      BY DEF Alone
    <2>4. Contract!Failure
      <3>1. CASE state = "HALF_OPEN"
        BY <2>1, <2>3, <3>1, BreakerAssumption DEF Contract!Failure
      <3>2. CASE state = "CLOSED"
        BY <2>1, <2>2, <3>2, BreakerAssumption DEF Contract!Failure
      <3> QED BY <2>1, <3>1, <3>2
    <2> QED BY <2>4 DEF Contract!Next
  <1>8. CASE TestThreshold(t)
    BY <1>8 DEF TestThreshold, Reached, Alone
  <1> QED BY <1>1, <1>2, <1>3, <1>4, <1>5, <1>6, <1>7, <1>8 DEF Next, Finish

\* In a process with one thread no trial is left undecided.
THEOREM OneThreadDecides ==
  ASSUME NEW t, Threads = {t}
  PROVE  Spec => []TrialIsDecided
  <1>1. Init => Alone(t)
    BY DEF Init, Alone
  <1>2. IInv /\ Alone(t) /\ [Next]_vars => Alone(t)'
    BY AloneStep
  <1>3. Alone(t) => TrialIsDecided
    BY DEF Alone, TrialIsDecided, Quiet
  <1> QED BY <1>1, <1>2, <1>3, BreakerInvariant, PTL DEF Spec

\* Nor is a call let through while a trial is under way: what threads break is
\* kept where there is one.
THEOREM OneThreadOneTrial ==
  ASSUME \E t : Threads = {t}
  PROVE  Spec => OneTrialAtATime
  <1> DEFINE Lone == \A t \in Threads : Alone(t)
  <1>1. Init => Lone
    BY DEF Init, Alone
  <1>2. IInv /\ Lone /\ [Next]_vars => Lone'
    <2> SUFFICES ASSUME IInv, Lone, [Next]_vars, NEW t \in Threads PROVE Alone(t)'
      OBVIOUS
    <2>1. Threads = {t}
      OBVIOUS
    <2> QED BY <2>1, AloneStep
  <1>3. Lone /\ [Next]_vars =>
          [\A t \in Threads : state = "HALF_OPEN" /\ pc[t] = "idle" => pc'[t] # "run"]_vars
    BY DEF Alone
  <1> HIDE DEF Lone
  <1> QED BY <1>1, <1>2, <1>3, BreakerInvariant, PTL DEF Spec, OneTrialAtATime

\* A process with one thread, as every worker is, implements the breaker that the
\* header comment of circuit_breaker.py documents.
THEOREM OneThreadImplementsContract ==
  ASSUME NEW t, Threads = {t}
  PROVE  Spec => ImplementsContract
  <1>1. Init => Alone(t) /\ Contract!Init
    BY BreakerAssumption DEF Init, Alone, Contract!Init, Mode, Deciding, Never
  <1>2. IInv /\ Alone(t) /\ [Next]_vars => Alone(t)'
    BY AloneStep
  <1>3. IInv /\ Alone(t) /\ [Next]_vars => [Contract!Next]_<<Mode, Failures, Age>>
    BY ContractStep
  <1>4. [Contract!Next]_<<Mode, Failures, Age>> => [Contract!Next]_Contract!vars
    BY DEF Contract!vars, Failures, Age
  <1> QED BY <1>1, <1>2, <1>3, <1>4, BreakerInvariant, PTL
             DEF Spec, ImplementsContract, Contract!Spec
=============================================================================
