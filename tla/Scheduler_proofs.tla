-------------------------- MODULE Scheduler_proofs --------------------------
(***************************************************************************)
(* The scheduler's operators return what their callers rely on, for every  *)
(* table that satisfies SchedulerAssumption and every depth.               *)
(***************************************************************************)
EXTENDS Scheduler, WellFoundedInduction, TLAPS

\* A nonempty set of natural numbers has a smallest element.
LEMMA Smallest ==
  ASSUME NEW T, T \subseteq Nat, T # {}
  PROVE  \E m \in T : \A k \in T : ~(k < m)
  <1> DEFINE R == {ss \in Nat \X Nat : ss[1] < ss[2]}
  <1>1. \E m \in T : \A k \in T : <<k, m>> \notin R
    <2>1. IsWellFoundedOn(R, Nat)
      BY NatLessThanWellFounded DEF OpToRel
    <2> HIDE DEF R
    <2> QED BY <2>1, WFMin
  <1>2. \A k, m \in Nat : k < m => <<k, m>> \in R
    OBVIOUS
  <1> QED BY <1>1, <1>2

\* A table that ends at depth 0 has a first row that a depth reaches: the loops
\* of get_batch_config and get_free_batch_ratio always return from inside.
LEMMA RowExists ==
  ASSUME NEW S, NEW table \in Seq(S), IsTable(table), NEW depth \in Nat,
         \A i \in DOMAIN table : table[i].depth \in Nat
  PROVE  \E i \in DOMAIN table :
           /\ Row(table, depth) = table[i]
           /\ depth >= table[i].depth
           /\ \A k \in 1..(i - 1) : depth < table[k].depth
  <1> DEFINE T == {i \in DOMAIN table : depth >= table[i].depth}
  <1>1. DOMAIN table = 1..Len(table) /\ Len(table) \in Nat
    OBVIOUS
  <1>2. T \subseteq Nat /\ T # {}
    BY <1>1 DEF IsTable
  <1>3. PICK m \in T : \A k \in T : ~(k < m)
    <2> HIDE DEF T
    <2> QED BY <1>2, Smallest
  <1>4. /\ m \in DOMAIN table
        /\ depth >= table[m].depth
        /\ \A k \in 1..(m - 1) : depth < table[k].depth
    BY <1>1, <1>3
  <1> QED BY <1>4 DEF Row

-----------------------------------------------------------------------------
(* What a worker is given, for every depth Redis may report. *)

\* What the assumptions say of single rows.
LEMMA TablesTyped ==
  /\ Len(BatchThresholds) \in Nat \ {0}
  /\ DOMAIN BatchThresholds = 1..Len(BatchThresholds)
  /\ \A i \in DOMAIN BatchThresholds :
       BatchThresholds[i].depth \in Nat /\ BatchThresholds[i].size \in Nat
  /\ \A i \in DOMAIN RatioThresholds :
       RatioThresholds[i].depth \in Nat /\ RatioThresholds[i].tenths \in 0..10
  /\ MaxBatchSize \in Nat
  <1> DEFINE B == [depth : Nat, size : Nat]
             R == [depth : Nat, tenths : 0..10]
  <1>1. BatchThresholds \in Seq(B) /\ RatioThresholds \in Seq(R) /\ BatchThresholds # << >>
    BY SchedulerAssumption DEF SchedulerAssumption, IsTable
  <1> HIDE DEF B, R
  <1>2. /\ Len(BatchThresholds) \in Nat \ {0}
        /\ DOMAIN BatchThresholds = 1..Len(BatchThresholds)
        /\ \A i \in DOMAIN BatchThresholds : BatchThresholds[i] \in B
        /\ \A i \in DOMAIN RatioThresholds : RatioThresholds[i] \in R
    BY <1>1
  <1>3. \A b \in B : b.depth \in Nat /\ b.size \in Nat
    BY DEF B
  <1>4. \A r \in R : r.depth \in Nat /\ r.tenths \in 0..10
    BY DEF R
  <1> QED BY <1>2, <1>3, <1>4 DEF MaxBatchSize

\* A readable depth is given a size of the table, no larger than the largest.
LEMMA BatchConfigBounded ==
  ASSUME NEW depth \in Nat
  PROVE  GetBatchConfig(depth) \in 0..MaxBatchSize
  <1>2. PICK i \in DOMAIN BatchThresholds :
          Row(BatchThresholds, depth) = BatchThresholds[i]
    BY TablesTyped, RowExists, SchedulerAssumption DEF SchedulerAssumption
  <1>3. BatchThresholds[i].size <= BatchThresholds[1].size
    <2>1. CASE i = 1
      BY <2>1, TablesTyped
    <2>2. CASE i # 1
      BY <2>2, TablesTyped, MonotoneAssumption DEF MonotoneAssumption
    <2> QED BY <2>1, <2>2
  <1> QED BY TablesTyped, <1>2, <1>3 DEF GetBatchConfig, MaxBatchSize

\* The share left to the FREE tier is a number of tenths.
LEMMA FreeRatioInTenths ==
  ASSUME NEW depth \in Nat
  PROVE  GetFreeBatchRatio(depth) \in 0..10
  <1>2. PICK i \in DOMAIN RatioThresholds :
          Row(RatioThresholds, depth) = RatioThresholds[i]
    BY TablesTyped, RowExists, SchedulerAssumption DEF SchedulerAssumption
  <1> QED BY TablesTyped, <1>2 DEF GetFreeBatchRatio

\* Rounding a share of at most ten tenths never exceeds the whole.
LEMMA ShareWithinWhole ==
  ASSUME NEW size \in Nat, NEW ratio \in 0..10
  PROVE  RoundTenths(ratio * size) \in 0..size
  <1> DEFINE n == ratio * size
             whole == n \div 10
             rest == n % 10
  <1>1. n \in Nat /\ n <= 10 * size
    <2>1. \A a, b \in Nat : a * b \in Nat
      OBVIOUS
    <2>2. CASE ratio = 0  BY <2>2
    <2>3. CASE ratio = 1  BY <2>3
    <2>4. CASE ratio = 2  BY <2>4
    <2>5. CASE ratio = 3  BY <2>5
    <2>6. CASE ratio = 4  BY <2>6
    <2>7. CASE ratio = 5  BY <2>7
    <2>8. CASE ratio = 6  BY <2>8
    <2>9. CASE ratio = 7  BY <2>9
    <2>10. CASE ratio = 8  BY <2>10
    <2>11. CASE ratio = 9  BY <2>11
    <2>12. CASE ratio = 10  BY <2>12
    <2> QED BY <2>2, <2>3, <2>4, <2>5, <2>6, <2>7, <2>8, <2>9, <2>10, <2>11, <2>12
  <1>2. whole \in Nat /\ rest \in 0..9 /\ n = 10 * whole + rest
    <2> HIDE DEF n
    <2> QED BY <1>1
  <1>3. RoundTenths(n) = IF rest > 5 \/ (rest = 5 /\ whole % 2 = 1) THEN whole + 1 ELSE whole
    BY DEF RoundTenths
  <1> HIDE DEF n, whole, rest
  <1>4. RoundTenths(n) \in 0..size
    <2>1. CASE rest = 0
      BY <2>1, <1>1, <1>2, <1>3
    <2>2. CASE rest > 0
      <3>1. whole + 1 <= size
        BY <2>2, <1>1, <1>2
      <3> QED BY <3>1, <1>2, <1>3
    <2> QED BY <2>1, <2>2, <1>2
  <1> QED BY <1>4 DEF n

\* The VIP plan: a size within the table and a ratio in tenths; an unreadable
\* depth plans an empty batch and leaves the FREE tier its full ratio.
LEMMA VipPlan ==
  ASSUME NEW depth \in Nat \cup {NoDepth}
  PROVE  GetVipBatchConfig(depth) \in [size : 0..MaxBatchSize, ratio : 0..10]
  <1>1. CASE depth = NoDepth
    BY <1>1, TablesTyped DEF GetVipBatchConfig
  <1>2. CASE depth # NoDepth
    <2>1. depth \in Nat
      BY <1>2
    <2> QED BY <1>2, <2>1, BatchConfigBounded, FreeRatioInTenths DEF GetVipBatchConfig
  <1> QED BY <1>1, <1>2

\* The FREE plan: a size within the table, whatever is left to the tier.
LEMMA FreePlan ==
  ASSUME NEW depth \in Nat \cup {NoDepth}, NEW ratio \in 0..10
  PROVE  GetFreeBatchConfig(depth, ratio) \in 0..MaxBatchSize
  <1>1. CASE depth = NoDepth
    BY TablesTyped, <1>1 DEF GetFreeBatchConfig
  <1>2. CASE depth # NoDepth
    <2>1. depth \in Nat
      BY <1>2
    <2>2. GetBatchConfig(depth) \in 0..MaxBatchSize
      BY <2>1, BatchConfigBounded
    <2>3. RoundTenths(ratio * GetBatchConfig(depth)) \in 0..GetBatchConfig(depth)
      <3>1. GetBatchConfig(depth) \in Nat
        BY <2>2, TablesTyped
      <3> HIDE DEF GetBatchConfig
      <3> QED BY <3>1, ShareWithinWhole, Zenon
    <2> QED BY TablesTyped, <1>2, <2>2, <2>3 DEF GetFreeBatchConfig
  <1> QED BY <1>1, <1>2
=============================================================================
