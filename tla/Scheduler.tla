----------------------------- MODULE Scheduler -----------------------------
(***************************************************************************)
(* The adaptive batch scheduler (app/inference/scheduler.py): how many     *)
(* jobs a worker may take from its queue, from the two queue depths.       *)
(* The threshold tables of app/inference/config.py are constants, so that  *)
(* a small instance keeps the shape of the real tables.  A ratio is kept   *)
(* in tenths, and a batch's wait time, which only bounds how long a partly *)
(* filled batch polls, is left out.                                        *)
(***************************************************************************)
EXTENDS Integers, Sequences

CONSTANTS
  BatchThresholds, \* BATCH_THRESHOLDS: sequence of [depth, size]
  RatioThresholds  \* RATIO_THRESHOLDS: sequence of [depth, tenths]

\* Tables are ordered from the highest depth down to 0.
IsTable(table) ==
  /\ table # << >>
  /\ \A i, k \in DOMAIN table : i < k => table[i].depth > table[k].depth
  /\ table[Len(table)].depth = 0

ASSUME SchedulerAssumption ==
  /\ BatchThresholds \in Seq([depth : Nat, size : Nat])
  /\ RatioThresholds \in Seq([depth : Nat, tenths : 0..10])
  /\ IsTable(BatchThresholds)
  /\ IsTable(RatioThresholds)

\* A deeper queue gets batches at least as large, and a deeper VIP queue leaves
\* the FREE tier no more.
ASSUME MonotoneAssumption ==
  /\ \A i, k \in DOMAIN BatchThresholds : i < k =>
       BatchThresholds[i].size >= BatchThresholds[k].size
  /\ \A i, k \in DOMAIN RatioThresholds : i < k =>
       RatioThresholds[i].tenths <= RatioThresholds[k].tenths

\* get_queue_depth returns None when Redis cannot be read.
NoDepth == -1

\* The first row of a table whose threshold the depth reaches.
Row(table, depth) ==
  table[CHOOSE i \in DOMAIN table :
          /\ depth >= table[i].depth
          /\ \A k \in 1..(i - 1) : depth < table[k].depth]

GetBatchConfig(depth) == Row(BatchThresholds, depth).size

\* Mutant: the ratio is read as the share taken away.
GetFreeBatchRatio_Inverted(vipDepth) == 10 - Row(RatioThresholds, vipDepth).tenths

GetFreeBatchRatio(vipDepth) == Row(RatioThresholds, vipDepth).tenths

\* Mutant: int() instead of round().
RoundTenths_Down(n) == n \div 10

\* round(tenths / 10 * size), with Python's rounding of halves to even.
RoundTenths(n) ==
  LET whole == n \div 10
      rest  == n % 10
  IN  IF rest > 5 \/ (rest = 5 /\ whole % 2 = 1) THEN whole + 1 ELSE whole

\* get_vip_batch_config: the VIP batch size and the ratio left to FREE.
GetVipBatchConfig(vipDepth) ==
  IF vipDepth = NoDepth
    THEN [size |-> 0, ratio |-> 10]
    ELSE [size |-> GetBatchConfig(vipDepth), ratio |-> GetFreeBatchRatio(vipDepth)]

GetFreeBatchConfig(freeDepth, ratio) ==
  IF freeDepth = NoDepth THEN 0 ELSE RoundTenths(ratio * GetBatchConfig(freeDepth))

\* The largest size any depth is given.
MaxBatchSize == BatchThresholds[1].size
=============================================================================
