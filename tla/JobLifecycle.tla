---------------------------- MODULE JobLifecycle ----------------------------
(***************************************************************************)
(* What the pipeline promises of one request: it waits in a queue, is held *)
(* by one worker at a time, may go back to its queue, and ends once, with  *)
(* a result, in the dead letter queue, or lost to a failure.  No end is    *)
(* ever left again.                                                        *)
(***************************************************************************)
CONSTANT Jobs

VARIABLE status

Statuses == {"new", "queued", "held", "done", "dead", "gone"}

Init == status = [j \in Jobs |-> "new"]

Move(j, from, to) == status[j] = from /\ status' = [status EXCEPT ![j] = to]

Submit(j) == Move(j, "new", "queued")
Refuse(j) == Move(j, "new", "gone")
Take(j) == Move(j, "queued", "held")
Return(j) == Move(j, "held", "queued")
Complete(j) == Move(j, "held", "done")
Bury(j) == Move(j, "held", "dead")

\* A failed command loses one job, a killed worker all it holds.
Lose(S) ==
  /\ S \subseteq {j \in Jobs : status[j] \in {"queued", "held"}}
  /\ status' = [j \in Jobs |-> IF j \in S THEN "gone" ELSE status[j]]

Next ==
  \/ \E j \in Jobs :
       Submit(j) \/ Refuse(j) \/ Take(j) \/ Return(j) \/ Complete(j) \/ Bury(j)
  \/ \E S \in SUBSET Jobs : Lose(S)

Spec == Init /\ [][Next]_status
=============================================================================
