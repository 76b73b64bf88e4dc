--------------------------- MODULE Tables_proofs ---------------------------
(***************************************************************************)
(* The scheduler and the rule-based scores for every depth and volume: how *)
(* the plans of the two tiers follow the depths for any tables, and what   *)
(* the tables and bands of the program say beyond the depths TLC walks.    *)
(***************************************************************************)
EXTENDS MCTables, Scheduler_proofs

\* Depths that can be read are natural numbers, volumes always are.
Walks ==
  /\ vipDepth \in Nat \cup {NoDepth}
  /\ freeDepth \in Nat \cup {NoDepth}
  /\ volume \in Nat

\* A walk starts and stays there.
LEMMA WalksAlways == Spec => []Walks
  <1>1. Init => Walks
    BY DEF Init, Walks
  <1>2. Walks /\ [Next]_vars => Walks'
    BY TablesAssumption DEF TablesAssumption, Walks, Next, GrowVolume, GrowVip, GrowFree, vars, NoDepth
  <1> QED BY <1>1, <1>2, PTL DEF Spec

-----------------------------------------------------------------------------
(* Any tables: a plan follows the depths. *)

\* A greater depth is not found in a later row.
LEMMA RowsInOrder ==
  ASSUME NEW S, NEW table \in Seq(S), IsTable(table),
         \A i \in DOMAIN table : table[i].depth \in Nat,
         NEW d \in Nat, NEW e \in Nat, d < e
  PROVE  \E i, k \in DOMAIN table :
           Row(table, d) = table[i] /\ Row(table, e) = table[k] /\ k <= i
  <1>1. DOMAIN table = 1..Len(table) /\ Len(table) \in Nat
    OBVIOUS
  <1>2. PICK i \in DOMAIN table :
          /\ Row(table, d) = table[i] /\ d >= table[i].depth
          /\ \A k \in 1..(i - 1) : d < table[k].depth
    BY RowExists
  <1>3. PICK k \in DOMAIN table :
          /\ Row(table, e) = table[k] /\ e >= table[k].depth
          /\ \A j \in 1..(k - 1) : e < table[j].depth
    BY RowExists
  <1>4. k <= i
    <2>1. SUFFICES ASSUME i < k PROVE FALSE
      BY <1>1
    <2>2. e < table[i].depth
      BY <1>1, <1>3, <2>1
    <2> QED BY <1>2, <2>2
  <1> QED BY <1>2, <1>3, <1>4

\* A size of the table is a number.
LEMMA SizesAreNumbers ==
  ASSUME NEW d \in Nat
  PROVE  GetBatchConfig(d) \in Nat
  <1>1. MaxBatchSize \in Nat
    BY TablesTyped
  <1>2. GetBatchConfig(d) \in 0..MaxBatchSize
    BY BatchConfigBounded
  <1> QED BY <1>1, <1>2

\* A deeper queue gets a batch at least as large.
LEMMA BatchGrows ==
  ASSUME NEW d \in Nat, NEW e \in Nat, d < e
  PROVE  GetBatchConfig(d) <= GetBatchConfig(e)
  <1>1. PICK i, k \in DOMAIN BatchThresholds :
          /\ Row(BatchThresholds, d) = BatchThresholds[i]
          /\ Row(BatchThresholds, e) = BatchThresholds[k] /\ k <= i
    BY TablesTyped, RowsInOrder, SchedulerAssumption DEF SchedulerAssumption
  <1>2. BatchThresholds[i].size <= BatchThresholds[k].size
    <2>1. CASE k = i
      BY <2>1, TablesTyped
    <2>2. CASE k # i
      <3>1. k < i
        BY <1>1, <2>2, TablesTyped
      <3> QED BY <3>1, MonotoneAssumption DEF MonotoneAssumption
    <2> QED BY <2>1, <2>2
  <1> QED BY <1>1, <1>2 DEF GetBatchConfig

\* A deeper VIP queue leaves the FREE tier no more.
LEMMA RatioShrinks ==
  ASSUME NEW d \in Nat, NEW e \in Nat, d < e
  PROVE  GetFreeBatchRatio(e) <= GetFreeBatchRatio(d)
  <1>1. PICK i, k \in DOMAIN RatioThresholds :
          /\ Row(RatioThresholds, d) = RatioThresholds[i]
          /\ Row(RatioThresholds, e) = RatioThresholds[k] /\ k <= i
    BY TablesTyped, RowsInOrder, SchedulerAssumption DEF SchedulerAssumption
  <1>2. RatioThresholds[k].tenths <= RatioThresholds[i].tenths
    <2>1. CASE k = i
      BY <2>1, TablesTyped
    <2>2. CASE k # i
      <3>1. i \in Nat /\ k \in Nat
        BY SchedulerAssumption DEF SchedulerAssumption
      <3>2. k < i
        BY <1>1, <2>2, <3>1
      <3> QED BY <3>2, MonotoneAssumption DEF MonotoneAssumption
    <2> QED BY <2>1, <2>2
  <1> QED BY <1>1, <1>2 DEF GetFreeBatchRatio

\* A number is ten times its tens and its last digit.
LEMMA InTens ==
  ASSUME NEW n \in Nat
  PROVE  n \div 10 \in Nat /\ n % 10 \in 0..9 /\ n = 10 * (n \div 10) + (n % 10)
  OBVIOUS

\* Rounding halves to even keeps the order of shares.
LEMMA RoundingGrows ==
  ASSUME NEW m \in Nat, NEW n \in Nat, m <= n
  PROVE  RoundTenths(m) <= RoundTenths(n)
  <1>1. /\ m \div 10 \in Nat /\ m % 10 \in 0..9 /\ m = 10 * (m \div 10) + (m % 10)
        /\ n \div 10 \in Nat /\ n % 10 \in 0..9 /\ n = 10 * (n \div 10) + (n % 10)
    BY InTens
  <1>2. \A x \in Nat : RoundTenths(x) =
          IF x % 10 > 5 \/ (x % 10 = 5 /\ (x \div 10) % 2 = 1)
            THEN x \div 10 + 1 ELSE x \div 10
    BY DEF RoundTenths
  <1>3. CASE m \div 10 = n \div 10
    BY <1>1, <1>2, <1>3
  <1>4. CASE m \div 10 < n \div 10
    BY <1>1, <1>2, <1>4
  <1>5. m \div 10 <= n \div 10
    BY <1>1
  <1> QED BY <1>1, <1>3, <1>4, <1>5

\* So does multiplication.
LEMMA ProductsGrow ==
  ASSUME NEW a \in Nat, NEW b \in Nat, NEW c \in Nat, b <= c
  PROVE  a * b <= a * c
  OBVIOUS

\* A larger share of a larger batch is no smaller.
LEMMA SharesGrow ==
  ASSUME NEW q \in 0..10, NEW r \in 0..10, q <= r, NEW m \in Nat, NEW n \in Nat, m <= n
  PROVE  RoundTenths(q * m) <= RoundTenths(r * n)
  <1>1. q * m \in Nat /\ r * n \in Nat /\ r * m \in Nat
    <2>1. \A a, b \in Nat : a * b \in Nat
      OBVIOUS
    <2>2. q \in Nat /\ r \in Nat
      OBVIOUS
    <2> QED BY <2>1, <2>2
  <1>2. q * m <= r * n
    <2>1. q * m = m * q /\ r * m = m * r
      OBVIOUS
    <2>2. q \in Nat /\ r \in Nat
      OBVIOUS
    <2>3. r * m <= r * n /\ m * q <= m * r
      BY <2>2, ProductsGrow
    <2> QED BY <1>1, <2>1, <2>3
  <1> QED BY <1>1, <1>2, RoundingGrows

\* The FREE tier's batch, as a share of its own.
LEMMA FreeShare ==
  ASSUME NEW v \in Nat \cup {NoDepth}, NEW f \in Nat
  PROVE  /\ FreeBatch(v, f) = RoundTenths(GetVipBatchConfig(v).ratio * GetBatchConfig(f))
         /\ GetVipBatchConfig(v).ratio \in 0..10
         /\ GetBatchConfig(f) \in Nat
  <1>1. f # NoDepth
    BY DEF NoDepth
  <1>2. GetBatchConfig(f) \in Nat
    BY SizesAreNumbers
  <1>3. GetVipBatchConfig(v).ratio \in 0..10
    BY VipPlan
  <1> QED BY <1>1, <1>2, <1>3 DEF FreeBatch, GetFreeBatchConfig

\* One more job in a queue moves the plans of both tiers in the right direction.
LEMMA GrowthStep ==
  ASSUME Walks, [Next]_vars
  PROVE  /\ vipDepth' > vipDepth =>
              /\ VipBatch(vipDepth') >= VipBatch(vipDepth)
              /\ FreeBatch(vipDepth', freeDepth) <= FreeBatch(vipDepth, freeDepth)
         /\ freeDepth' > freeDepth =>
              FreeBatch(vipDepth, freeDepth') >= FreeBatch(vipDepth, freeDepth)
  <1>1. CASE GrowVolume \/ UNCHANGED vars
    <2>1. vipDepth' = vipDepth /\ freeDepth' = freeDepth
      BY <1>1 DEF GrowVolume, vars
    <2> QED BY <2>1 DEF Walks, NoDepth
  <1>2. CASE GrowVip
    <2>1. /\ vipDepth \in Nat /\ vipDepth' \in Nat /\ vipDepth < vipDepth' /\ freeDepth' = freeDepth
          /\ vipDepth # NoDepth /\ vipDepth' # NoDepth
      BY <1>2, TablesAssumption DEF TablesAssumption, GrowVip, NoDepth
    <2>2. VipBatch(vipDepth') >= VipBatch(vipDepth)
      <3>1. /\ VipBatch(vipDepth) = GetBatchConfig(vipDepth)
            /\ VipBatch(vipDepth') = GetBatchConfig(vipDepth')
        BY <2>1 DEF VipBatch, GetVipBatchConfig
      <3>2. GetBatchConfig(vipDepth) \in Nat /\ GetBatchConfig(vipDepth') \in Nat
        BY <2>1, SizesAreNumbers
      <3> QED BY <2>1, <3>1, <3>2, BatchGrows
    <2>3. FreeBatch(vipDepth', freeDepth) <= FreeBatch(vipDepth, freeDepth)
      <3>1. CASE freeDepth = NoDepth
        BY <3>1 DEF FreeBatch, GetFreeBatchConfig
      <3>2. CASE freeDepth \in Nat
        <4>1. /\ GetVipBatchConfig(vipDepth).ratio = GetFreeBatchRatio(vipDepth)
              /\ GetVipBatchConfig(vipDepth').ratio = GetFreeBatchRatio(vipDepth')
          BY <2>1 DEF GetVipBatchConfig
        <4>2. GetFreeBatchRatio(vipDepth') <= GetFreeBatchRatio(vipDepth)
          BY <2>1, RatioShrinks
        <4>3. GetBatchConfig(freeDepth) \in Nat /\ GetBatchConfig(freeDepth) <= GetBatchConfig(freeDepth)
          BY <3>2, SizesAreNumbers
        <4>4. GetFreeBatchRatio(vipDepth) \in 0..10 /\ GetFreeBatchRatio(vipDepth') \in 0..10
          BY <2>1, FreeRatioInTenths
        <4>5. RoundTenths(GetFreeBatchRatio(vipDepth') * GetBatchConfig(freeDepth))
                <= RoundTenths(GetFreeBatchRatio(vipDepth) * GetBatchConfig(freeDepth))
          BY <4>2, <4>3, <4>4, SharesGrow
        <4> QED BY <2>1, <3>2, <4>1, <4>5, FreeShare
      <3> QED BY <3>1, <3>2 DEF Walks
    <2> QED BY <2>1, <2>2, <2>3 DEF Walks, NoDepth
  <1>3. CASE GrowFree
    <2>1. /\ freeDepth \in Nat /\ freeDepth' \in Nat /\ freeDepth < freeDepth'
          /\ vipDepth' = vipDepth /\ vipDepth \in Nat \cup {NoDepth}
      BY <1>3, TablesAssumption DEF TablesAssumption, GrowFree, Walks
    <2>2. GetBatchConfig(freeDepth) <= GetBatchConfig(freeDepth')
      BY <2>1, BatchGrows
    <2>3. /\ GetVipBatchConfig(vipDepth).ratio \in 0..10
          /\ GetVipBatchConfig(vipDepth).ratio <= GetVipBatchConfig(vipDepth).ratio
          /\ GetBatchConfig(freeDepth) \in Nat /\ GetBatchConfig(freeDepth') \in Nat
      BY <2>1, FreeShare
    <2>4. RoundTenths(GetVipBatchConfig(vipDepth).ratio * GetBatchConfig(freeDepth))
            <= RoundTenths(GetVipBatchConfig(vipDepth).ratio * GetBatchConfig(freeDepth'))
      BY <2>2, <2>3, SharesGrow
    <2>5. FreeBatch(vipDepth, freeDepth) <= FreeBatch(vipDepth, freeDepth')
      BY <2>1, <2>4, FreeShare
    <2> QED BY <2>1, <2>5
  <1> QED BY <1>1, <1>2, <1>3 DEF Next

-----------------------------------------------------------------------------
(* The tables and bands of the program. *)

\* What BATCH_THRESHOLDS gives each depth.
LEMMA ConfigSizes ==
  ASSUME BatchThresholds = ConfigBatch, NEW d \in Nat
  PROVE  GetBatchConfig(d) = IF d >= 200 THEN 64 ELSE IF d >= 90 THEN 32
                             ELSE IF d >= 25 THEN 16 ELSE IF d >= 5 THEN 8 ELSE 2
  <1>1. PICK i \in DOMAIN BatchThresholds :
          /\ Row(BatchThresholds, d) = BatchThresholds[i]
          /\ d >= BatchThresholds[i].depth
          /\ \A k \in 1..(i - 1) : d < BatchThresholds[k].depth
    BY TablesTyped, RowExists, SchedulerAssumption DEF SchedulerAssumption
  <1>2. i \in 1..5
    BY DEF ConfigBatch
  <1>3. CASE i = 1  BY <1>1, <1>3 DEF GetBatchConfig, ConfigBatch
  <1>4. CASE i = 2  BY <1>1, <1>4 DEF GetBatchConfig, ConfigBatch
  <1>5. CASE i = 3  BY <1>1, <1>5 DEF GetBatchConfig, ConfigBatch
  <1>6. CASE i = 4  BY <1>1, <1>6 DEF GetBatchConfig, ConfigBatch
  <1>7. CASE i = 5  BY <1>1, <1>7 DEF GetBatchConfig, ConfigBatch
  <1> QED BY <1>2, <1>3, <1>4, <1>5, <1>6, <1>7

\* What RATIO_THRESHOLDS leaves the FREE tier at each depth.
LEMMA ConfigRatios ==
  ASSUME RatioThresholds = ConfigRatio, NEW d \in Nat
  PROVE  GetFreeBatchRatio(d) = IF d >= 170 THEN 0 ELSE IF d >= 150 THEN 2
                                ELSE IF d >= 130 THEN 4 ELSE IF d >= 100 THEN 6
                                ELSE IF d >= 80 THEN 8 ELSE 10
  <1>1. PICK i \in DOMAIN RatioThresholds :
          /\ Row(RatioThresholds, d) = RatioThresholds[i]
          /\ d >= RatioThresholds[i].depth
          /\ \A k \in 1..(i - 1) : d < RatioThresholds[k].depth
    BY TablesTyped, RowExists, SchedulerAssumption DEF SchedulerAssumption
  <1>2. i \in 1..6
    BY DEF ConfigRatio
  <1>3. CASE i = 1  BY <1>1, <1>3 DEF GetFreeBatchRatio, ConfigRatio
  <1>4. CASE i = 2  BY <1>1, <1>4 DEF GetFreeBatchRatio, ConfigRatio
  <1>5. CASE i = 3  BY <1>1, <1>5 DEF GetFreeBatchRatio, ConfigRatio
  <1>6. CASE i = 4  BY <1>1, <1>6 DEF GetFreeBatchRatio, ConfigRatio
  <1>7. CASE i = 5  BY <1>1, <1>7 DEF GetFreeBatchRatio, ConfigRatio
  <1>8. CASE i = 6  BY <1>1, <1>8 DEF GetFreeBatchRatio, ConfigRatio
  <1> QED BY <1>2, <1>3, <1>4, <1>5, <1>6, <1>7, <1>8

\* A share of a batch of the table rounds to nothing only if there is no share,
\* or if it is a fifth of two.
LEMMA NothingLeft ==
  ASSUME NEW ratio \in {0, 2, 4, 6, 8, 10}, NEW size \in {2, 8, 16, 32, 64}
  PROVE  RoundTenths(ratio * size) = 0 <=> ratio = 0 \/ (ratio = 2 /\ size = 2)
  <1>1. ratio * size \in Nat /\ (ratio * size = 0 <=> ratio = 0)
    OBVIOUS
  <1>2. ratio * size <= 5 <=> ratio = 0 \/ (ratio = 2 /\ size = 2)
    OBVIOUS
  <1>3. \A n \in Nat : RoundTenths(n) = 0 <=> n <= 5
    <2>1. ASSUME NEW n \in Nat PROVE RoundTenths(n) = 0 <=> n <= 5
      BY InTens DEF RoundTenths
    <2> QED BY <2>1
  <1> QED BY <1>1, <1>2, <1>3

\* Where that shuts the FREE tier out.
LEMMA ShutOut ==
  ASSUME BatchThresholds = ConfigBatch, RatioThresholds = ConfigRatio, Walks
  PROVE  FreeShutOutExactly
  <1> SUFFICES ASSUME freeDepth # NoDepth
               PROVE  FreeBatch(vipDepth, freeDepth) = 0
                        <=> vipDepth >= 170 \/ (vipDepth >= 150 /\ freeDepth < 5)
    BY DEF FreeShutOutExactly
  <1> DEFINE ratio == GetVipBatchConfig(vipDepth).ratio
             size == GetBatchConfig(freeDepth)
  <1>1. freeDepth \in Nat /\ vipDepth \in Nat \cup {NoDepth}
    BY DEF Walks
  <1>2. FreeBatch(vipDepth, freeDepth) = RoundTenths(ratio * size)
    BY <1>1, FreeShare
  <1>3. size \in {2, 8, 16, 32, 64} /\ (size = 2 <=> freeDepth < 5)
    BY <1>1, ConfigSizes
  <1>4. /\ ratio \in {0, 2, 4, 6, 8, 10}
        /\ ratio = 0 <=> vipDepth >= 170
        /\ ratio = 2 <=> vipDepth >= 150 /\ ~(vipDepth >= 170)
    <2>1. CASE vipDepth = NoDepth
      BY <2>1 DEF GetVipBatchConfig, NoDepth
    <2>2. CASE vipDepth \in Nat
      <3>1. ratio = GetFreeBatchRatio(vipDepth)
        BY <2>2 DEF GetVipBatchConfig, NoDepth
      <3> QED BY <2>2, <3>1, ConfigRatios
    <2> QED BY <1>1, <2>1, <2>2
  <1> HIDE DEF ratio, size
  <1>5. RoundTenths(ratio * size) = 0 <=> ratio = 0 \/ (ratio = 2 /\ size = 2)
    BY <1>3, <1>4, NothingLeft
  <1> QED BY <1>1, <1>2, <1>3, <1>4, <1>5 DEF NoDepth

\* The score of a volume, for either band of the program.
LEMMA ScoresAbove ==
  ASSUME NEW b \in ConfigBands, NEW value \in Nat
  PROVE  Score(b, value) > Normal <=> 10 * (value - b.max) > b.max
  <1>1. CASE b = [min |-> 10, max |-> 100]
    BY <1>1 DEF Score, Share, Deviation, InBand, Normal
  <1>2. CASE b = [min |-> 1, max |-> 10]
    BY <1>2 DEF Score, Share, Deviation, InBand, Normal
  <1> QED BY <1>1, <1>2 DEF ConfigBands

-----------------------------------------------------------------------------
\* The plans follow the depths for any tables that do: a deeper VIP queue never
\* gives the FREE tier more, a deeper queue never gives its own tier less.
THEOREM PlansFollowDepths == Spec => GrowthIsMonotone
  <1>1. Walks /\ [Next]_vars =>
          [/\ vipDepth' > vipDepth =>
                /\ VipBatch(vipDepth') >= VipBatch(vipDepth)
                /\ FreeBatch(vipDepth', freeDepth) <= FreeBatch(vipDepth, freeDepth)
           /\ freeDepth' > freeDepth =>
                FreeBatch(vipDepth, freeDepth') >= FreeBatch(vipDepth, freeDepth)]_vars
    BY GrowthStep
  <1> QED BY <1>1, WalksAlways, PTL DEF Spec, GrowthIsMonotone

\* With the tables of the program, the FREE tier is shut out at the depths the
\* property names and at no other, however deep the queues grow.
THEOREM FreeIsShutOutExactly ==
  ASSUME BatchThresholds = ConfigBatch, RatioThresholds = ConfigRatio
  PROVE  Spec => []FreeShutOutExactly
  BY ShutOut, WalksAlways, PTL

\* With the bands of the program, a volume scores above normal exactly when it
\* exceeds its band by more than a tenth of the upper end, however large it is.
THEOREM AlarmsAreOnlyAbove ==
  ASSUME Bands = ConfigBands
  PROVE  Spec => []AlarmsOnlyAbove
  <1>1. ASSUME Walks PROVE AlarmsOnlyAbove
    BY <1>1, ScoresAbove DEF Walks, AlarmsOnlyAbove
  <1> QED BY <1>1, WalksAlways, PTL
=============================================================================
