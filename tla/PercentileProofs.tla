--------------------------- MODULE PercentileProofs ---------------------------
(***************************************************************************)
(* What percentile computes, for samples of every size.                    *)
(***************************************************************************)
EXTENDS Percentile, FiniteSetTheorems, TLAPS

(* The rank is an index of the sample, and the least one that p percent of *)
(* the sample do not exceed.                                               *)
THEOREM RankIsLeast ==
  ASSUME NEW p \in Percents, NEW n \in Nat \ {0}
  PROVE  /\ Rank(p, n) \in 0..(n - 1)
         /\ 100 * (Rank(p, n) + 1) >= p * n
         /\ 100 * Rank(p, n) < p * n
<1> DEFINE q == (p * n + 99) \div 100
<1>1. p \in 50..99
  BY DEF Percents
<1>2. p * n \in Int /\ 0 < p * n /\ p * n <= 99 * n
  <2>1. p = 50 \/ p = 90 \/ p = 95 \/ p = 99
    BY DEF Percents
  <2> QED BY <2>1
<1>3. q \in Int /\ 100 * q <= p * n + 99 /\ p * n + 99 < 100 * q + 100
  BY <1>2
<1>4. 1 <= q /\ q <= n
  BY <1>2, <1>3
<1>5. Rank(p, n) = q - 1
  BY <1>3, <1>4 DEF Rank
<1> QED BY <1>2, <1>3, <1>4, <1>5

(* What follows from a bound on a cardinality.                             *)
LEMMA Scaled ==
  ASSUME NEW a \in Int, NEW b \in Int, NEW c \in Int, a <= b
  PROVE  (100 * a >= c => 100 * b >= c) /\ (100 * b < c => 100 * a < c)
  OBVIOUS

UpTo(sample, v) == {i \in 1..Len(sample) : sample[i] <= v}

(* For a sorted sample the percentile is one of its values: p percent of   *)
(* the sample do not exceed it, and of no smaller value can this be said.  *)
THEOREM PercentileIsNearestRank ==
  ASSUME NEW p \in Percents, NEW sorted \in Seq(Int), sorted # <<>>,
         \A i, j \in 1..Len(sorted) : i <= j => sorted[i] <= sorted[j]
  PROVE  LET v == percentile(sorted, p) IN
         /\ \E i \in 1..Len(sorted) : v = sorted[i]
         /\ 100 * Cardinality(UpTo(sorted, v)) >= p * Len(sorted)
         /\ \A u \in Int : u < v => 100 * Cardinality(UpTo(sorted, u)) < p * Len(sorted)
<1> DEFINE n == Len(sorted)
           k == Rank(p, n)
           v == percentile(sorted, p)
<1>1. n \in Nat \ {0}
  OBVIOUS
<1>2. k \in 0..(n - 1) /\ 100 * (k + 1) >= p * n /\ 100 * k < p * n
  BY <1>1, RankIsLeast
<1>3. v = sorted[k + 1] /\ k + 1 \in 1..n
  BY <1>1, <1>2 DEF percentile
<1>4. \A i \in 1..n : sorted[i] \in Int
  OBVIOUS
<1>5. p * n \in Int
  BY <1>1 DEF Percents
<1>6. ASSUME NEW w \in Int
      PROVE  IsFiniteSet(UpTo(sorted, w)) /\ Cardinality(UpTo(sorted, w)) \in Nat
  <2>1. UpTo(sorted, w) \in SUBSET (1..n)
    BY DEF UpTo
  <2>2. IsFiniteSet(1..n)
    BY <1>1, FS_Interval
  <2> QED BY <2>1, <2>2, FS_Subset, FS_CardinalityType
<1>7. v \in Int
  BY <1>3, <1>4
<1> HIDE DEF n, k, v
<1>8. 100 * Cardinality(UpTo(sorted, v)) >= p * n
  <2>1. \A i \in 1..(k + 1) : i \in 1..n /\ sorted[i] <= sorted[k + 1]
    BY <1>1, <1>2, <1>3 DEF n
  <2>2. 1..(k + 1) \in SUBSET UpTo(sorted, v)
    BY <1>3, <2>1 DEF UpTo, n
  <2>3. Cardinality(1..(k + 1)) = k + 1
    <3>1. k + 1 \in Int /\ ~(1 > k + 1) /\ (k + 1) - 1 + 1 = k + 1
      BY <1>1, <1>2
    <3> QED BY <3>1, FS_Interval
  <2>4. k + 1 <= Cardinality(UpTo(sorted, v))
    <3>1. IsFiniteSet(UpTo(sorted, v))
      BY <1>6, <1>7
    <3>2. Cardinality(1..(k + 1)) <= Cardinality(UpTo(sorted, v))
      BY <2>2, <3>1, FS_Subset
    <3> QED BY <2>3, <3>2
  <2> DEFINE size == Cardinality(UpTo(sorted, v))
             bound == p * n
  <2>5. size \in Int /\ k + 1 \in Int /\ bound \in Int
    BY <1>1, <1>2, <1>5, <1>6, <1>7
  <2>6. k + 1 <= size /\ 100 * (k + 1) >= bound
    BY <1>2, <2>4
  <2> HIDE DEF size, bound
  <2>7. 100 * size >= bound
    BY <2>5, <2>6, Scaled
  <2> QED BY <2>7 DEF size, bound
<1>9. ASSUME NEW u \in Int, u < v
      PROVE  100 * Cardinality(UpTo(sorted, u)) < p * n
  <2>1. \A i \in 1..n : k + 1 <= i => ~(sorted[i] <= u)
    BY <1>3, <1>4, <1>9 DEF n
  <2>2. UpTo(sorted, u) \in SUBSET (1..k)
    BY <1>1, <1>2, <2>1 DEF UpTo, n
  <2>3. IsFiniteSet(1..k) /\ Cardinality(1..k) = k
    <3>1. k \in Nat /\ IF 1 > k THEN k = 0 ELSE k - 1 + 1 = k
      BY <1>1, <1>2
    <3> QED BY <3>1, FS_Interval
  <2>4. Cardinality(UpTo(sorted, u)) <= k
    BY <2>2, <2>3, FS_Subset
  <2> DEFINE size == Cardinality(UpTo(sorted, u))
             bound == p * n
  <2>5. size \in Int /\ k \in Int /\ bound \in Int
    BY <1>1, <1>2, <1>5, <1>6, <1>9
  <2>6. size <= k /\ 100 * k < bound
    BY <1>2, <2>4
  <2> HIDE DEF size, bound
  <2>7. 100 * size < bound
    BY <2>5, <2>6, Scaled
  <2> QED BY <2>7 DEF size, bound
<1> QED BY <1>3, <1>8, <1>9 DEF n, v
===============================================================================
