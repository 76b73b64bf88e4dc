----------------------------- MODULE MCTables -----------------------------
(***************************************************************************)
(* The scheduler on the real tables of app/inference/config.py, for every  *)
(* pair of depths that can tell two rows apart: the depths of the queues   *)
(* walk up from empty to MaxDepth, beyond the last threshold.  Before that *)
(* a volume walks as far, through the bands of the rule-based scores.      *)
(***************************************************************************)
EXTENDS Scheduler, AnomalyScore

CONSTANT MaxDepth \* bound: how far the walks go

ASSUME TablesAssumption == MaxDepth \in Nat

VARIABLES vipDepth, freeDepth, volume
vars == <<vipDepth, freeDepth, volume>>

\* The rows of config.BATCH_THRESHOLDS and config.RATIO_THRESHOLDS.
ConfigBatch == << [depth |-> 200, size |-> 64], [depth |-> 90, size |-> 32],
                  [depth |-> 25, size |-> 16], [depth |-> 5, size |-> 8],
                  [depth |-> 0, size |-> 2] >>
ConfigRatio == << [depth |-> 170, tenths |-> 0], [depth |-> 150, tenths |-> 2],
                  [depth |-> 130, tenths |-> 4], [depth |-> 100, tenths |-> 6],
                  [depth |-> 80, tenths |-> 8], [depth |-> 0, tenths |-> 10] >>

\* The NORMAL_* constants of app/shared/config.py: amount and total volume, and
\* the volume of one customer.
ConfigBands == {[min |-> 10, max |-> 100], [min |-> 1, max |-> 10]}

\* Either depth may be unreadable; a readable one moves by one.
Init == vipDepth \in {NoDepth, 0} /\ freeDepth \in {NoDepth, 0} /\ volume = 0
GrowVolume ==
  /\ vipDepth = NoDepth /\ freeDepth = NoDepth /\ volume < MaxDepth
  /\ volume' = volume + 1 /\ UNCHANGED <<vipDepth, freeDepth>>
GrowVip ==
  /\ vipDepth \in 0..(MaxDepth - 1)
  /\ vipDepth' = vipDepth + 1 /\ UNCHANGED <<freeDepth, volume>>
GrowFree ==
  /\ freeDepth \in 0..(MaxDepth - 1)
  /\ freeDepth' = freeDepth + 1 /\ UNCHANGED <<vipDepth, volume>>
Next == GrowVolume \/ GrowVip \/ GrowFree
Spec == Init /\ [][Next]_vars

VipBatch(v) == GetVipBatchConfig(v).size
FreeBatch(v, f) == GetFreeBatchConfig(f, GetVipBatchConfig(v).ratio)

\* A deeper VIP queue never gives the FREE tier a larger batch, a deeper queue
\* never gives its own tier a smaller one, whatever the rounding does.
GrowthIsMonotone ==
  [][/\ vipDepth' > vipDepth =>
          /\ VipBatch(vipDepth') >= VipBatch(vipDepth)
          /\ FreeBatch(vipDepth', freeDepth) <= FreeBatch(vipDepth, freeDepth)
     /\ freeDepth' > freeDepth =>
          FreeBatch(vipDepth, freeDepth') >= FreeBatch(vipDepth, freeDepth)]_vars

\* Where the overload protection shuts the FREE tier out although its queue is
\* readable: from VIP depth 170 on by the table, and from 150 on, where the table
\* still grants a fifth, when fewer than five FREE jobs wait and the fifth of a
\* batch of two rounds to nothing.  Nowhere else.
FreeShutOutExactly ==
  freeDepth # NoDepth =>
    (FreeBatch(vipDepth, freeDepth) = 0
       <=> vipDepth >= 170 \/ (vipDepth >= 150 /\ freeDepth < 5))

\* A volume scores above normal exactly when it exceeds its band by more than a
\* tenth of the upper end: a fallen volume never does, and a little above the
\* band the score (anomaly_detect.py:19) is below that of the band itself.
AlarmsOnlyAbove ==
  \A b \in Bands : Score(b, volume) > Normal <=> 10 * (volume - b.max) > b.max
=============================================================================
