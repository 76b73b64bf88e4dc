-------------------------- MODULE MCInferenceQueue --------------------------
(***************************************************************************)
(* Small instances of the pipeline, and the lifecycle each job goes        *)
(* through in it.                                                          *)
(***************************************************************************)
EXTENDS VipTraffic, TLC

\* Two rows keep the shape of the real tables: batches of 2 from a depth of 2
\* on, and a VIP queue of 2 that shuts the FREE tier out.
SmallBatch == << [depth |-> 2, size |-> 2], [depth |-> 0, size |-> 1] >>
SmallRatio == << [depth |-> 2, tenths |-> 0], [depth |-> 0, tenths |-> 10] >>

\* A single waiting VIP job shuts the FREE tier out.
TightRatio == << [depth |-> 1, tenths |-> 0], [depth |-> 0, tenths |-> 10] >>

\* A dead-lettered job stays dead, even when a copy of it is still queued.
StatusOf(j) ==
  IF HasResult(j) THEN "done"
  ELSE IF Buried(j) THEN "dead"
  ELSE IF Queued(j) THEN "queued"
  ELSE IF \E w \in Workers : HeldBy(w, j) THEN "held"
  ELSE IF reply[j] = "none" THEN "new" ELSE "gone"

Lifecycle == INSTANCE JobLifecycle WITH status <- [j \in Jobs |-> StatusOf(j)]

\* The pipeline implements the lifecycle.
ImplementsLifecycle == Lifecycle!Spec

Symmetry == Permutations(FreeJobs) \cup Permutations(SharedWorkers)
              \cup Permutations(VipWorkers) \cup Permutations(VipJobs) \cup Permutations(Apis)
=============================================================================
