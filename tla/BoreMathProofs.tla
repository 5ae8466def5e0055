---------------------------- MODULE BoreMathProofs ----------------------------
(***************************************************************************)
(* Proofs about BoreMath, for every width and scale that                   *)
(* BoreMathAssumption allows, the ones of the code among them.             *)
(***************************************************************************)
EXTENDS BoreMath, FiniteSetTheorems, WellFoundedInduction, TLAPS

-----------------------------------------------------------------------------
(* Widths *)

\* The widths are positive, a word is twice its sign bit, and a unit of scale
\* is at least two.
LEMMA Powers ==
    /\ \A i \in 0 .. Bits : pow2[i] \in Nat /\ pow2[i] >= 1
    /\ WordBits \in Nat /\ WordBits >= 1
    /\ pow2[WordBits - 1] \in Nat /\ pow2[WordBits - 1] >= 1
    /\ Word \in Nat /\ Word = 2 * pow2[WordBits - 1]
    /\ pow2[ScaleShift] \in Nat /\ pow2[ScaleShift] >= 2
    /\ pow2[Fp] \in Nat /\ pow2[Fp] >= 1
  <1>0. pow2 \in [0 .. Bits -> Nat \ {0}]
    BY BoreMathAssumption
  <1>1. \A i \in 0 .. Bits : pow2[i] \in Nat /\ pow2[i] >= 1
    BY <1>0
  <1>2. WordBits \in 1 .. Bits /\ WordBits - 1 \in 0 .. Bits
        /\ ScaleShift \in 1 .. Bits /\ ScaleShift - 1 \in 0 .. Bits
        /\ Fp \in 0 .. Bits /\ ScaleShift \in 0 .. Bits /\ WordBits \in 0 .. Bits
    BY BoreMathAssumption
  <1>3. pow2[WordBits] = 2 * pow2[WordBits - 1]
        /\ pow2[ScaleShift] = 2 * pow2[ScaleShift - 1]
    BY <1>2, BoreMathAssumption
  <1> QED
    BY <1>1, <1>2, <1>3 DEF Word

\* MAX_BURST_PENALTY fits the signed half of a word.
LEMMA MaxNat ==
    /\ MAX_BURST_PENALTY \in Nat
    /\ MAX_BURST_PENALTY <= pow2[WordBits - 1]
    /\ MAX_BURST_PENALTY + 1 = Levels * pow2[Fp]
    /\ Levels \in Nat /\ Levels >= 1
  <1>1. Levels \in Nat /\ Levels >= 1
    BY BoreMathAssumption
  <1>2. ASSUME NEW a \in Nat, NEW b \in Nat, a >= 1, b >= 1
        PROVE  a * b \in Nat /\ a * b >= 1
    BY <1>2
  <1>3. Levels * pow2[Fp] \in Nat /\ Levels * pow2[Fp] >= 1
    BY <1>1, <1>2, Powers
  <1>4. MAX_BURST_PENALTY + pow2[WordBits - 1] <= Word
    <2>1. WordBits - 1 \in 0 .. WordBits - 1
      BY Powers
    <2> QED
      BY <2>1, BoreMathAssumption
  <1> QED
    BY <1>1, <1>3, <1>4, Powers DEF MAX_BURST_PENALTY

\* Wrapping around gives a word, and leaves a word as it is.
LEMMA WrapRange ==
    ASSUME NEW x \in Int
    PROVE  /\ Wrap(x) \in Nat /\ Wrap(x) < Word
           /\ x \in Nat /\ x < Word => Wrap(x) = x
           /\ x < 0 /\ x >= -Word => Wrap(x) = x + Word
  <1> DEFINE w == Word
  <1>1. w \in Nat /\ w >= 1
    BY Powers
  <1> HIDE DEF w
  <1>2. x % w \in 0 .. w - 1
    BY <1>1
  <1>3. x \in 0 .. w - 1 => x % w = x
    BY <1>1
  <1>4. x \in -w .. -1 => x % w = x + w
    BY <1>1
  <1> QED
    BY <1>1, <1>2, <1>3, <1>4 DEF Wrap, w

\* A difference that fits the signed range is itself.
LEMMA SignedExact ==
    ASSUME NEW x \in Int
    PROVE  /\ Signed(x) \in Int
           /\ -pow2[WordBits - 1] <= x /\ x < pow2[WordBits - 1] => Signed(x) = x
  BY WrapRange, Powers DEF Signed

-----------------------------------------------------------------------------
(* Penalties *)

\* calc_burst_penalty cuts off at MAX_BURST_PENALTY for every value of the
\* sysctls, through wrapped shifts and multiplications.
LEMMA PenaltyCut ==
    ASSUME NEW greed \in Int, NEW offset \in Nat, NEW scale \in Nat
    PROVE  PenaltyOfGreed(greed, offset, scale) \in 0 .. MAX_BURST_PENALTY
  <1> DEFINE tolerance == Wrap(offset * pow2[Fp])
             penalty == Positive(Signed(greed - tolerance))
             product == Wrap(penalty * scale)
             scaled == product \div pow2[ScaleShift]
  <1>1. tolerance \in Int
    <2>1. offset * pow2[Fp] \in Int
      BY Powers
    <2> QED
      BY <2>1, WrapRange
  <1>2. penalty \in Int
    BY <1>1, SignedExact DEF Positive
  <1>3. product \in Nat /\ product < Word
    <2>1. penalty * scale \in Int
      BY <1>2
    <2> QED
      BY <2>1, WrapRange
  <1> HIDE DEF product
  <1>4. scaled \in Nat /\ scaled < pow2[WordBits - 1]
    <2>1. ASSUME NEW a \in Nat, NEW h \in Nat, NEW d \in Nat, d >= 2,
                 a < 2 * h
          PROVE  a \div d \in Nat /\ a \div d < h
      <3>1. a = d * (a \div d) + (a % d) /\ a % d \in 0 .. d - 1
            /\ a \div d \in Nat
        BY <2>1
      <3>2. d * (a \div d) >= 2 * (a \div d)
        BY <2>1, <3>1
      <3> QED
        BY <2>1, <3>1, <3>2
    <2> QED
      BY <1>3, <2>1, Powers
  <1> HIDE DEF scaled
  <1>5. Signed(scaled - MAX_BURST_PENALTY) = scaled - MAX_BURST_PENALTY
    BY <1>4, MaxNat, Powers, SignedExact
  <1>6. scaled - Positive(Signed(scaled - MAX_BURST_PENALTY))
            \in 0 .. MAX_BURST_PENALTY
    BY <1>4, <1>5, MaxNat DEF Positive
  <1> QED
    BY <1>6 DEF PenaltyOfGreed, scaled, product

\* binary_smooth stays between its arguments: a growing value moves by at
\* least one step and not beyond the new one.
LEMMA SmoothBetween ==
    ASSUME NEW new_val \in 0 .. MAX_BURST_PENALTY,
           NEW old_val \in 0 .. MAX_BURST_PENALTY, NEW smoothness \in Nat
    PROVE  LET smooth == binary_smooth(new_val, old_val, smoothness)
           IN  IF new_val > old_val
               THEN smooth \in old_val + 1 .. new_val
               ELSE smooth = new_val
  <1> DEFINE shift == pow2[smoothness % WordBits]
             increment == new_val - old_val
             sum == increment + shift - 1
  <1>1. CASE new_val <= old_val
    BY <1>1, MaxNat DEF binary_smooth
  <1>2. CASE new_val > old_val
    <2>1. smoothness % WordBits \in 0 .. WordBits - 1
      BY Powers
    <2>2. shift \in Nat /\ shift >= 1 /\ MAX_BURST_PENALTY + shift <= Word
      <3>1. smoothness % WordBits \in 0 .. Bits
        BY <2>1, BoreMathAssumption
      <3> QED
        BY <2>1, <3>1, Powers, BoreMathAssumption
    <2>3. increment \in 1 .. MAX_BURST_PENALTY
      BY <1>2, MaxNat
    <2> HIDE DEF shift, increment
    <2>4. Wrap(sum) = sum
      <3>1. sum \in Nat /\ sum < Word
        BY <2>2, <2>3, MaxNat, Powers
      <3> HIDE DEF sum
      <3> QED
        BY <3>1, WrapRange
    <2>5. ASSUME NEW n \in Nat, NEW d \in Nat, n >= 1, d >= 1
          PROVE  (n + d - 1) \div d \in 1 .. n
      <3> DEFINE q == (n + d - 1) \div d
                 r == (n + d - 1) % d
      <3>1. n + d - 1 = d * q + r /\ r \in 0 .. d - 1 /\ q \in Nat
        BY <2>5
      <3> HIDE DEF q, r
      <3>2. q # 0
        BY <2>5, <3>1
      <3>3. CASE q > n
        <4>1. d * q >= d * (n + 1)
          BY <2>5, <3>1, <3>3
        <4>2. d * (n + 1) = d * n + d /\ d * n >= n
          BY <2>5
        <4> QED
          BY <2>5, <3>1, <4>1, <4>2
      <3> QED
        BY <2>5, <3>1, <3>2, <3>3 DEF q
    <2>6. sum \div shift \in 1 .. increment
      BY <2>2, <2>3, <2>5, MaxNat
    <2>7. old_val + (sum \div shift) \in old_val + 1 .. new_val
      BY <2>6, <1>2, MaxNat DEF increment
    <2>8. Wrap(old_val + (sum \div shift)) = old_val + (sum \div shift)
      BY <2>7, WrapRange, MaxNat, Powers
    <2> QED
      BY <1>2, <2>4, <2>7, <2>8 DEF binary_smooth, increment, shift
  <1> QED
    BY <1>1, <1>2, MaxNat

\* effective_prio_bore is an index into the kernel's table of weights.
LEMMA PrioInRange ==
    ASSUME NEW nice \in 0 .. Levels - 1, NEW penalty \in Nat,
           NEW sched_bore \in BOOLEAN
    PROVE  effective_prio_bore(nice, penalty, sched_bore) \in 0 .. Levels - 1
  <1>1. bore_score(penalty) \in Nat
    BY Powers DEF bore_score
  <1> QED
    BY <1>1, MaxNat DEF effective_prio_bore, Positive

\* Division keeps the order.
LEMMA DivMonotone ==
    ASSUME NEW a \in Nat, NEW b \in Nat, a <= b, NEW d \in Nat, d >= 1
    PROVE  a \div d \in Nat /\ b \div d \in Nat /\ a \div d <= b \div d
  <1> DEFINE m == a \div d
             n == b \div d
  <1>1. /\ m \in Nat /\ a = d * m + (a % d) /\ a % d \in 0 .. d - 1
        /\ n \in Nat /\ b = d * n + (b % d) /\ b % d \in 0 .. d - 1
    OBVIOUS
  <1> HIDE DEF m, n
  <1>2. CASE m > n
    <2>1. d * m >= d * (n + 1)
      BY <1>1, <1>2
    <2>2. d * (n + 1) = d * n + d
      BY <1>1
    <2> QED
      BY <1>1, <2>1, <2>2
  <1> QED
    BY <1>1, <1>2 DEF m, n

\* A higher penalty never gives a better priority.
LEMMA PrioMonotone ==
    ASSUME NEW nice \in 0 .. Levels - 1, NEW p \in Nat, NEW q \in Nat,
           p <= q, NEW sched_bore \in BOOLEAN
    PROVE  effective_prio_bore(nice, p, sched_bore)
               <= effective_prio_bore(nice, q, sched_bore)
  <1>2. /\ bore_score(p) \in Nat /\ bore_score(q) \in Nat
        /\ bore_score(p) <= bore_score(q)
    BY DivMonotone, Powers DEF bore_score
  <1> QED
    BY <1>2, MaxNat DEF effective_prio_bore, Positive

\* update_penalty gives a penalty.
LEMMA UpdatePenaltyRange ==
    ASSUME NEW curr \in 0 .. MAX_BURST_PENALTY,
           NEW prev \in 0 .. MAX_BURST_PENALTY, NEW is_protected \in BOOLEAN
    PROVE  update_penalty(curr, prev, is_protected) \in 0 .. MAX_BURST_PENALTY
  BY MaxNat DEF update_penalty, Larger

\* log2p1_u64_u32fp of a time is a number.
LEMMA GreedInt ==
    ASSUME NEW v \in 0 .. pow2[TimeBits] - 1
    PROVE  log2p1(v) \in Int
  <1> DEFINE S == {i \in 0 .. TimeBits - 1 : pow2[i] <= v}
  <1>0. TimeBits \in Nat /\ TimeBits <= Bits /\ pow2[0] = 1
        /\ pow2[TimeBits] \in Nat
    BY Powers, BoreMathAssumption
  <1>1. CASE v = 0
    BY <1>1 DEF log2p1
  <1>2. CASE v # 0
    <2>1. TimeBits >= 1
      BY <1>0, <1>2
    <2>2. IsFiniteSet(0 .. TimeBits - 1)
          /\ Cardinality(0 .. TimeBits - 1) = TimeBits
      <3>1. 0 \in Int /\ TimeBits - 1 \in Int
        BY <1>0
      <3>2. /\ IsFiniteSet(0 .. TimeBits - 1)
            /\ Cardinality(0 .. TimeBits - 1)
                 = IF 0 > TimeBits - 1 THEN 0 ELSE (TimeBits - 1) - 0 + 1
        BY <3>1, FS_Interval
      <3> QED
        BY <1>0, <2>1, <3>2
    <2>3. IsFiniteSet(S) /\ Cardinality(S) <= TimeBits
      BY <2>2, FS_Subset
    <2>4. Cardinality(S) \in Nat
      BY <2>3, FS_CardinalityType
    <2>5. 0 \in S
      BY <1>0, <1>2, <2>1
    <2>6. Cardinality(S) # 0
      BY <2>3, <2>5, FS_EmptySet
    <2> DEFINE e == BitLength(v)
    <2>7. e \in Nat /\ e >= 1 /\ e - 1 \in 0 .. Bits
      <3>1. e = Cardinality(S)
        BY DEF BitLength
      <3> HIDE DEF e, S
      <3>2. e \in Nat /\ e # 0 /\ e <= TimeBits
        BY <3>1, <2>3, <2>4, <2>6
      <3> QED
        BY <1>0, <3>2, BoreMathAssumption
    <2> HIDE DEF e
    <2> DEFINE leading == pow2[e - 1]
    <2>8. leading \in Nat /\ leading >= 1
      BY <2>7, Powers
    <2> HIDE DEF leading
    <2>9. (v - leading) * pow2[Fp] \in Int
      BY <1>0, <2>8, Powers
    <2>10. ((v - leading) * pow2[Fp]) \div leading \in Int
      BY <2>8, <2>9
    <2>11. Mantissa(v) \in Int
      BY <2>10 DEF Mantissa, leading, e
    <2>12. e * pow2[Fp] \in Int
      BY <2>7, Powers
    <2> QED
      BY <1>2, <2>11, <2>12 DEF log2p1, e
  <1> QED
    BY <1>1, <1>2

\* calc_burst_penalty of a time is a penalty.
LEMMA CalcRange ==
    ASSUME NEW v \in 0 .. pow2[TimeBits] - 1, NEW offset \in Nat,
           NEW scale \in Nat
    PROVE  calc_burst_penalty(v, offset, scale) \in 0 .. MAX_BURST_PENALTY
  BY GreedInt, PenaltyCut DEF calc_burst_penalty

-----------------------------------------------------------------------------
(* Order *)

\* A set of naturals has a least one.
LEMMA LeastNat ==
    ASSUME NEW T \in SUBSET Nat, T # {}
    PROVE  \E x \in T : \A y \in T : x <= y
  <1> DEFINE R == OpToRel(<, Nat)
  <1>1. IsWellFoundedOn(R, Nat)
    BY NatLessThanWellFounded
  <1>2. \A m, n \in Nat : m < n => <<m, n>> \in R
    BY DEF OpToRel
  <1> HIDE DEF R
  <1>3. PICK x \in T : \A y \in T : ~(<<y, x>> \in R)
    BY <1>1, WFMin
  <1>4. ASSUME NEW y \in T
        PROVE  x <= y
    <2>1. x \in Nat /\ y \in Nat
      OBVIOUS
    <2>2. ~(y < x)
      BY <1>2, <1>3, <2>1
    <2> QED
      BY <2>1, <2>2
  <1> QED
    BY <1>4

\* Higher bits are worth more.
LEMMA PowersGrow ==
    ASSUME NEW i \in 0 .. Bits, NEW j \in 0 .. Bits, i <= j
    PROVE  pow2[i] <= pow2[j]
  <1>0. Bits \in Nat /\ \A k \in 0 .. Bits : pow2[k] \in Nat
    BY BoreMathAssumption
  <1> DEFINE T == {k \in i .. Bits : ~(pow2[i] <= pow2[k])}
  <1> SUFFICES ASSUME T # {} PROVE FALSE
    BY <1>0
  <1>1. T \in SUBSET Nat
    BY <1>0
  <1>2. PICK k \in T : \A l \in T : k <= l
    BY <1>1, LeastNat
  <1>3. k \in i .. Bits /\ k # i /\ ~(pow2[i] <= pow2[k])
    BY <1>0, <1>2
  <1>4. k - 1 \in i .. Bits /\ k \in 1 .. Bits /\ k - 1 \in 0 .. Bits
    BY <1>0, <1>3
  <1>5. pow2[i] <= pow2[k - 1]
    BY <1>0, <1>2, <1>4
  <1>6. pow2[k] = 2 * pow2[k - 1]
    BY <1>4, BoreMathAssumption
  <1>7. pow2[i] \in Nat /\ pow2[k - 1] \in Nat
    BY <1>0, <1>4
  <1> HIDE DEF T
  <1> QED
    BY <1>3, <1>5, <1>6, <1>7

\* 64 - clz(v) is the place behind v's leading bit.
LEMMA LengthBounds ==
    ASSUME NEW v \in 0 .. pow2[TimeBits] - 1, v >= 1
    PROVE  /\ BitLength(v) \in 1 .. TimeBits
           /\ pow2[BitLength(v) - 1] <= v
           /\ v < pow2[BitLength(v)]
  <1> DEFINE S == {i \in 0 .. TimeBits - 1 : pow2[i] <= v}
             T == {j \in 0 .. TimeBits : v < pow2[j]}
  <1>0. /\ TimeBits \in Nat /\ TimeBits <= Bits /\ pow2[0] = 1 /\ Bits \in Nat
        /\ \A j \in 0 .. Bits : pow2[j] \in Nat
        /\ v \in Nat /\ v < pow2[TimeBits]
    <2>1. TimeBits \in 0 .. Bits /\ Bits \in Nat
      BY BoreMathAssumption
    <2>2. pow2[TimeBits] \in Nat
      BY <2>1, Powers
    <2>3. pow2[0] = 1 /\ \A j \in 0 .. Bits : pow2[j] \in Nat
      BY BoreMathAssumption, Powers
    <2> QED
      BY <2>1, <2>2, <2>3
  <1>1. T \in SUBSET Nat /\ T # {}
    BY <1>0
  <1>2. PICK k \in T : \A l \in T : k <= l
    BY <1>1, LeastNat
  <1>3. k \in 1 .. TimeBits /\ v < pow2[k]
    BY <1>0, <1>2
  <1>4. \A i \in 0 .. TimeBits : i < k => pow2[i] <= v
    BY <1>0, <1>2
  <1>5. ASSUME NEW i \in 0 .. TimeBits - 1, k <= i
        PROVE  ~(pow2[i] <= v)
    <2>1. k \in 0 .. Bits /\ i \in 0 .. Bits
      BY <1>0, <1>3
    <2>2. pow2[k] <= pow2[i] /\ pow2[k] \in Nat /\ pow2[i] \in Nat
      BY <1>0, <1>5, <2>1, PowersGrow
    <2> QED
      BY <1>0, <1>3, <2>2
  <1> HIDE DEF T
  <1>6. S = 0 .. k - 1
    BY <1>0, <1>3, <1>4, <1>5
  <1>7. Cardinality(0 .. k - 1) = k
    <2>1. 0 \in Int /\ k - 1 \in Int
      BY <1>0, <1>3
    <2>2. Cardinality(0 .. k - 1) = IF 0 > k - 1 THEN 0 ELSE (k - 1) - 0 + 1
      BY <2>1, FS_Interval
    <2> QED
      BY <1>0, <1>3, <2>2
  <1>8. BitLength(v) = k
    BY <1>6, <1>7 DEF BitLength
  <1> QED
    BY <1>0, <1>3, <1>4, <1>8

\* The fraction is one.
LEMMA MantissaRange ==
    ASSUME NEW v \in Nat, NEW l \in Nat, NEW f \in Nat, f >= 1, l >= 1,
           l <= v, v < 2 * l
    PROVE  ((v - l) * f) \div l \in 0 .. f - 1
  <1> DEFINE a == (v - l) * f
             m == a \div l
  <1>1. a \in Nat
    OBVIOUS
  <1>2. a + f <= l * f
    <2>0. l - (v - l) - 1 \in Nat
      OBVIOUS
    <2>1. PICK z \in Nat : z = l - (v - l) - 1
      BY <2>0
    <2>2. l * f = ((v - l) + 1 + z) * f /\ z * f >= 0
      BY <2>1
    <2>3. ((v - l) + 1 + z) * f = (v - l) * f + f + z * f
      OBVIOUS
    <2> QED
      BY <2>2, <2>3
  <1> HIDE DEF a
  <1>3. m \in Nat /\ l * m <= a
    BY <1>1
  <1> HIDE DEF m
  <1>4. CASE f <= m
    <2>1. PICK z \in Nat : m = f + z
      BY <1>3, <1>4
    <2>2. l * m = l * f + l * z /\ l * z >= 0 /\ l * f \in Int
      BY <2>1
    <2> QED
      BY <1>1, <1>2, <1>3, <2>2
  <1> QED
    BY <1>3, <1>4 DEF m, a

\* What log2p1_u64_u32fp of a time stays below.
GreedLimit == (TimeBits + 1) * pow2[Fp]

\* A whole part and a fraction, and their order.
LEMMA GreedParts ==
    ASSUME NEW v \in 0 .. pow2[TimeBits] - 1, v >= 1
    PROVE  /\ log2p1(v) = BitLength(v) * pow2[Fp] + Mantissa(v)
           /\ BitLength(v) \in 1 .. TimeBits
           /\ Mantissa(v) \in 0 .. pow2[Fp] - 1
  <1>0. TimeBits \in Nat /\ TimeBits <= Bits /\ pow2[TimeBits] \in Nat
        /\ Bits \in Nat /\ v \in Nat
    BY Powers, BoreMathAssumption
  <1> DEFINE e == BitLength(v)
  <1>1. e \in 1 .. TimeBits /\ pow2[e - 1] <= v /\ v < pow2[e]
    BY LengthBounds
  <1> HIDE DEF e
  <1>2. e \in 1 .. Bits /\ e - 1 \in 0 .. Bits
    BY <1>0, <1>1
  <1>3. /\ pow2[e] = 2 * pow2[e - 1] /\ pow2[e - 1] \in Nat /\ pow2[e - 1] >= 1
        /\ pow2[Fp] \in Nat /\ pow2[Fp] >= 1
    BY <1>2, Powers, BoreMathAssumption
  <1>4. ((v - pow2[e - 1]) * pow2[Fp]) \div pow2[e - 1] \in 0 .. pow2[Fp] - 1
    BY <1>0, <1>1, <1>3, MantissaRange
  <1> QED
    BY <1>0, <1>1, <1>4 DEF e, log2p1, Mantissa

\* A longer burst never counts for less.
LEMMA GreedGrows ==
    ASSUME NEW u \in 0 .. pow2[TimeBits] - 1, NEW v \in 0 .. pow2[TimeBits] - 1,
           u <= v
    PROVE  /\ log2p1(u) \in Nat /\ log2p1(v) \in Nat
           /\ log2p1(u) <= log2p1(v) /\ log2p1(v) < GreedLimit
  <1> DEFINE f == pow2[Fp]
             Limit == (TimeBits + 1) * f
  <1>0. /\ TimeBits \in Nat /\ TimeBits <= Bits /\ pow2[TimeBits] \in Nat
        /\ Bits \in Nat /\ u \in Nat /\ v \in Nat /\ f \in Nat /\ f >= 1
    BY Powers, BoreMathAssumption
  <1> HIDE DEF f
  <1>m. ASSUME NEW a \in Nat, NEW b \in Nat, a + 1 <= b
        PROVE  a * f + f <= b * f /\ a * f \in Nat /\ b * f \in Nat
    <2>1. PICK z \in Nat : b = a + 1 + z
      BY <1>m
    <2>2. b * f = a * f + f + z * f /\ z * f >= 0
      BY <1>0, <2>1
    <2> QED
      BY <1>0, <2>2
  <1>1. ASSUME NEW w \in 0 .. pow2[TimeBits] - 1
        PROVE  log2p1(w) \in Nat /\ log2p1(w) < Limit
    <2>1. CASE w = 0
      <3>1. 0 * f + f <= Limit
        BY <1>0, <1>m
      <3> QED
        BY <1>0, <2>1, <3>1 DEF log2p1
    <2>2. CASE w >= 1
      <3>1. /\ log2p1(w) = BitLength(w) * f + Mantissa(w)
            /\ BitLength(w) \in Nat /\ BitLength(w) + 1 <= TimeBits + 1
            /\ Mantissa(w) \in 0 .. f - 1
        BY <1>0, <2>2, GreedParts DEF f
      <3>2. /\ BitLength(w) * f + f <= Limit /\ BitLength(w) * f \in Nat
            /\ Limit \in Nat
        BY <1>0, <1>m, <3>1
      <3> HIDE DEF Limit
      <3> QED
        BY <1>0, <3>1, <3>2
    <2> QED
      BY <1>0, <2>1, <2>2
  <1>2. log2p1(u) <= log2p1(v)
    <2>1. CASE u = 0
      <3>1. log2p1(u) = 0
        BY <2>1 DEF log2p1
      <3> QED
        BY <1>1, <3>1
    <2>2. CASE u >= 1
      <3> DEFINE a == BitLength(u)
                 b == BitLength(v)
                 m == Mantissa(u)
                 n == Mantissa(v)
      <3>1. /\ log2p1(u) = a * f + m /\ a \in 1 .. TimeBits /\ m \in 0 .. f - 1
            /\ log2p1(v) = b * f + n /\ b \in 1 .. TimeBits /\ n \in 0 .. f - 1
        <4>1. v >= 1
          BY <1>0, <2>2
        <4> QED
          BY <2>2, <4>1, GreedParts DEF f
      <3>2. /\ pow2[a - 1] <= u /\ u < pow2[a]
            /\ pow2[b - 1] <= v /\ v < pow2[b]
        BY <1>0, <2>2, LengthBounds
      <3>3. a = b => m <= n
        <4> SUFFICES ASSUME a = b PROVE m <= n
          OBVIOUS
        <4> DEFINE l == pow2[a - 1]
        <4>1. l \in Nat /\ l >= 1
          <5>1. a - 1 \in 0 .. Bits
            BY <1>0, <3>1
          <5> QED
            BY <5>1, Powers
        <4>2. m = ((u - l) * f) \div l /\ n = ((v - l) * f) \div l
          BY DEF Mantissa, f
        <4> HIDE DEF a, b, m, n
        <4>3. l <= u /\ l <= v
          BY <3>2
        <4> HIDE DEF l
        <4>4. /\ (u - l) * f \in Nat /\ (v - l) * f \in Nat
              /\ (u - l) * f <= (v - l) * f
          <5>1. PICK z \in Nat : v = u + z
            BY <1>0
          <5>2. (v - l) * f = (u - l) * f + z * f /\ z * f >= 0 /\ (u - l) * f >= 0
            BY <1>0, <4>1, <4>3, <5>1
          <5> QED
            BY <1>0, <4>1, <4>3, <5>2
        <4> QED
          BY <4>1, <4>2, <4>4, DivMonotone
      <3> HIDE DEF a, b, m, n
      <3>4. a <= b
        <4> SUFFICES ASSUME b + 1 <= a PROVE FALSE
          BY <1>0, <3>1
        <4>1. a - 1 \in 0 .. Bits /\ b \in 0 .. Bits /\ b <= a - 1
          BY <1>0, <3>1
        <4>2. pow2[b] <= pow2[a - 1] /\ pow2[b] \in Nat /\ pow2[a - 1] \in Nat
          BY <4>1, PowersGrow, Powers
        <4> QED
          BY <1>0, <3>2, <4>2
      <3>5. CASE a = b
        <4>1. a * f \in Nat
          BY <1>0, <3>1
        <4> QED
          BY <1>0, <3>1, <3>3, <3>5, <4>1
      <3>6. CASE a + 1 <= b
        <4>1. a * f + f <= b * f /\ a * f \in Nat /\ b * f \in Nat
          BY <1>0, <1>m, <3>1, <3>6
        <4> QED
          BY <1>0, <3>1, <4>1
      <3> QED
        BY <1>0, <3>1, <3>4, <3>5, <3>6
    <2> QED
      BY <1>0, <2>1, <2>2
  <1> QED
    BY <1>1, <1>2 DEF GreedLimit, f

\* Tunables that make nothing wrap around in calc_burst_penalty, as the
\* default ones do not.
Unwrapped(offset, scale) ==
    /\ offset * pow2[Fp] <= pow2[WordBits - 1]
    /\ GreedLimit <= pow2[WordBits - 1]
    /\ GreedLimit * scale < Word

\* Then a longer burst never has a lower penalty, and no burst none.
LEMMA CalcGrows ==
    ASSUME NEW u \in 0 .. pow2[TimeBits] - 1, NEW v \in 0 .. pow2[TimeBits] - 1,
           u <= v, NEW offset \in Nat, NEW scale \in Nat, Unwrapped(offset, scale)
    PROVE  /\ calc_burst_penalty(u, offset, scale)
                 <= calc_burst_penalty(v, offset, scale)
           /\ calc_burst_penalty(0, offset, scale) = 0
  <1> DEFINE half == pow2[WordBits - 1]
             tol == offset * pow2[Fp]
             Cut(g) == Positive(g - tol)
             Scaled(g) == (Cut(g) * scale) \div pow2[ScaleShift]
             M == MAX_BURST_PENALTY
             Min(x) == IF x <= M THEN x ELSE M
  <1>0. /\ half \in Nat /\ half >= 1 /\ Word = 2 * half /\ tol \in Nat
        /\ tol <= half /\ pow2[ScaleShift] \in Nat /\ pow2[ScaleShift] >= 2
        /\ M \in Nat /\ M <= half /\ GreedLimit \in Nat /\ GreedLimit <= half
        /\ Word \in Nat
    <2>1. TimeBits \in Nat /\ pow2[Fp] \in Nat
      BY Powers, BoreMathAssumption
    <2>2. GreedLimit \in Nat /\ tol \in Nat
      BY <2>1 DEF GreedLimit
    <2> QED
      BY <2>2, Powers, MaxNat DEF Unwrapped
  <1> HIDE DEF half, tol
  <1>w. Wrap(offset * pow2[Fp]) = tol
    BY <1>0, WrapRange DEF tol
  <1>1. ASSUME NEW g \in Nat, g < GreedLimit
        PROVE  /\ Cut(g) \in Nat /\ Cut(g) < GreedLimit
               /\ Cut(g) * scale \in Nat /\ Cut(g) * scale < Word
               /\ Signed(g - tol) = g - tol
    <2>1. Signed(g - tol) = g - tol
      <3>1. g - tol \in Int /\ -half <= g - tol /\ g - tol < half
        BY <1>0, <1>1
      <3> QED
        BY <3>1, SignedExact DEF half
    <2>2. Cut(g) \in Nat /\ Cut(g) < GreedLimit
      BY <1>0, <1>1 DEF Positive
    <2> HIDE DEF Cut
    <2>3. Cut(g) * scale <= GreedLimit * scale /\ Cut(g) * scale \in Nat
      <3>0. GreedLimit - Cut(g) \in Nat
        BY <1>0, <2>2
      <3>z. PICK z \in Nat : z = GreedLimit - Cut(g)
        BY <3>0
      <3>1. GreedLimit = Cut(g) + z
        BY <1>0, <2>2, <3>z
      <3>2. GreedLimit * scale = Cut(g) * scale + z * scale /\ z * scale >= 0
            /\ Cut(g) * scale \in Nat /\ GreedLimit * scale \in Nat
        BY <2>2, <3>1
      <3> QED
        BY <3>2
    <2>4. GreedLimit * scale < Word /\ GreedLimit * scale \in Nat
      BY <1>0 DEF Unwrapped
    <2> QED
      BY <1>0, <2>1, <2>2, <2>3, <2>4
  <1>2. ASSUME NEW g \in Nat, g < GreedLimit
        PROVE  /\ Scaled(g) \in Nat
               /\ PenaltyOfGreed(g, offset, scale) = Min(Scaled(g))
    <2> DEFINE s == Scaled(g)
    <2>1. Wrap(Cut(g) * scale) = Cut(g) * scale
      BY <1>1, <1>2, WrapRange
    <2>2. PenaltyOfGreed(g, offset, scale) = s - Positive(Signed(s - M))
      BY <1>1, <1>2, <1>w, <2>1 DEF PenaltyOfGreed
    <2>3. s \in Nat /\ s < half
      <3> DEFINE p == Cut(g) * scale
                 d == pow2[ScaleShift]
      <3>1. p \in Nat /\ p < 2 * half /\ d \in Nat /\ d >= 2
        BY <1>0, <1>1, <1>2
      <3> HIDE DEF p, d
      <3>2. p \div d \in Nat /\ d * (p \div d) <= p
        BY <3>1
      <3>3. d * (p \div d) >= 2 * (p \div d)
        BY <3>1, <3>2
      <3> QED
        BY <1>0, <3>1, <3>2, <3>3 DEF p, d
    <2> HIDE DEF s
    <2>4. Signed(s - M) = s - M
      <3>1. s - M \in Int /\ -half <= s - M /\ s - M < half
        BY <1>0, <2>3
      <3> QED
        BY <3>1, SignedExact DEF half
    <2>5. s - Positive(s - M) = Min(s)
      BY <1>0, <2>3 DEF Positive
    <2> QED
      BY <2>2, <2>3, <2>4, <2>5 DEF s
  <1>3. ASSUME NEW g \in Nat, NEW h \in Nat, g <= h, h < GreedLimit
        PROVE  Min(Scaled(g)) <= Min(Scaled(h))
    <2>1. /\ Cut(g) \in Nat /\ Cut(h) \in Nat /\ Cut(g) <= Cut(h)
      BY <1>0, <1>3 DEF Positive
    <2> HIDE DEF Cut
    <2>2. Cut(g) * scale \in Nat /\ Cut(h) * scale \in Nat
          /\ Cut(g) * scale <= Cut(h) * scale
      <3>0. Cut(h) - Cut(g) \in Nat
        BY <2>1
      <3>z. PICK z \in Nat : z = Cut(h) - Cut(g)
        BY <3>0
      <3>1. Cut(h) = Cut(g) + z
        BY <2>1, <3>z
      <3>2. Cut(h) * scale = Cut(g) * scale + z * scale /\ z * scale >= 0
        BY <2>1, <3>1
      <3> QED
        BY <2>1, <3>2
    <2>3. /\ Scaled(g) \in Nat /\ Scaled(h) \in Nat /\ Scaled(g) <= Scaled(h)
      BY <1>0, <2>2, DivMonotone
    <2> HIDE DEF Scaled
    <2> QED
      BY <1>0, <2>3
  <1>4. /\ log2p1(u) \in Nat /\ log2p1(v) \in Nat
        /\ log2p1(u) <= log2p1(v) /\ log2p1(v) < GreedLimit
    BY GreedGrows
  <1>5. log2p1(0) = 0
    BY DEF log2p1
  <1>6. Min(Scaled(0)) = 0 /\ 0 < GreedLimit
    <2>1. Cut(0) = 0
      BY <1>0 DEF Positive
    <2>2. Scaled(0) = 0
      BY <1>0, <2>1
    <2> HIDE DEF Scaled
    <2> QED
      BY <1>0, <1>4, <2>2
  <1> HIDE DEF Scaled, Min
  <1>7. log2p1(u) < GreedLimit
    BY <1>0, <1>4
  <1>8. calc_burst_penalty(u, offset, scale) <= calc_burst_penalty(v, offset, scale)
    BY <1>2, <1>3, <1>4, <1>7 DEF calc_burst_penalty
  <1> QED
    BY <1>2, <1>5, <1>6, <1>8 DEF calc_burst_penalty

-----------------------------------------------------------------------------
(* Averages *)

\* The arithmetic behind a rounded-up reciprocal: L = (W + e) / c stands for
\* W / c, and the error stays below one unit.
LEMMA Reciprocal ==
    ASSUME NEW W \in Nat, NEW c \in Nat, NEW L \in Nat, NEW e \in Nat,
           NEW a \in Nat, NEW t \in Nat, NEW K \in Nat, NEW S \in Nat,
           c >= 1, e <= c - 1, t <= c - 1, L * c = W + e,
           a + 1 <= K, c <= S, K * S * (S - 1) < W
    PROVE  a * e + t * L < W
  <1> DEFINE m == c - 1
             x == a * e + t * L
  <1>1. m \in Nat /\ m + 1 = c /\ e <= m /\ t <= m
    OBVIOUS
  <1>2. x \in Nat
    OBVIOUS
  <1>3. x * c = (a * e) * c + (t * W + t * e)
    <2>1. (t * L) * c = t * (L * c)
      OBVIOUS
    <2>2. t * (W + e) = t * W + t * e
      OBVIOUS
    <2>3. (t * L) * c = t * W + t * e
      BY <2>1, <2>2
    <2>4. x * c = (a * e) * c + (t * L) * c
      OBVIOUS
    <2> QED
      BY <2>3, <2>4
  <1>4. t * W <= m * W /\ t * e <= m * m
    <2>1. ASSUME NEW p \in Nat, NEW q \in Nat, NEW r \in Nat, p <= q
          PROVE  p * r <= q * r /\ r * p <= r * q
      BY <2>1
    <2>2. t * W <= m * W /\ t * e <= m * e /\ m * e <= m * m
      BY <1>1, <2>1
    <2> QED
      BY <1>1, <2>2
  <1>5. (a * e) * c + m * m < (a + 1) * (c * m) \/ m = 0
    <2> HIDE DEF m
    <2>1. a * e <= a * m
      BY <1>1
    <2>2. (a * e) * c <= (a * m) * c
      BY <2>1, <1>1
    <2>3. (a * m) * c = a * (m * c) /\ m * c = m * m + m
      BY <1>1
    <2>4. (a + 1) * (c * m) = a * (m * c) + m * c
      BY <1>1
    <2> QED
      BY <1>1, <2>2, <2>3, <2>4
  <1>6. (a + 1) * (c * m) <= K * S * (S - 1)
    <2> DEFINE n == S - 1
    <2>1. n \in Nat /\ m <= n
      BY <1>1
    <2> HIDE DEF m, n
    <2>2. c * m <= S * m /\ S * m <= S * n
      BY <1>1, <2>1
    <2>3. c * m \in Nat /\ S * n \in Nat /\ c * m <= S * n
      BY <1>1, <2>1, <2>2
    <2>4. ASSUME NEW p \in Nat, NEW q \in Nat, NEW u \in Nat, NEW v \in Nat,
                 p <= q, u <= v
          PROVE  p * u <= q * v
      <3>1. p * u <= q * u /\ q * u <= q * v
        BY <2>4
      <3> QED
        BY <3>1
    <2>5. (a + 1) * (c * m) <= K * (S * n)
      BY <2>3, <2>4
    <2>6. K * S * n = K * (S * n)
      BY <2>1
    <2> QED
      BY <2>5, <2>6 DEF n
  <1>7. CASE m = 0
    <2>1. e = 0 /\ t = 0
      BY <1>1, <1>7
    <2>2. a * e = 0 /\ t * L = 0
      BY <2>1
    <2>3. K * S * (S - 1) >= 0
      <3>1. S - 1 \in Nat /\ K * S \in Nat
        OBVIOUS
      <3> QED
        BY <3>1
    <2> QED
      BY <2>2, <2>3
  <1>8. CASE m # 0
    <2>1. x * c < W + m * W
      <3> HIDE DEF x, m
      <3>1. /\ (a * e) * c \in Nat /\ t * W \in Nat /\ t * e \in Nat
            /\ m * m \in Nat /\ m * W \in Nat /\ (a + 1) * (c * m) \in Nat
        BY <1>1
      <3>2. K * S * (S - 1) \in Int
        OBVIOUS
      <3> QED
        BY <1>3, <1>4, <1>5, <1>6, <1>8, <3>1, <3>2
    <2>2. W + m * W = c * W
      OBVIOUS
    <2>3. CASE x >= W
      <3>1. x * c >= W * c
        BY <1>2, <2>3
      <3> HIDE DEF x
      <3>2. x * c \in Nat /\ W * c = c * W
        BY <1>2
      <3> QED
        BY <2>1, <2>2, <3>1, <3>2
    <2> QED
      BY <1>2, <2>3
  <1> QED
    BY <1>7, <1>8

\* The same for any bound on the samples that leaves room in a word.
LEMMA AverageIs ==
    ASSUME NEW count \in 1 .. SampleLimit, NEW total \in Nat, NEW M \in Nat,
           total <= count * M,
           (M + 1) * SampleLimit * (SampleLimit - 1) < Word
    PROVE  Average(count, total) = total \div count
  <1>1. SampleLimit \in Nat /\ SampleLimit >= 1
    BY BoreMathAssumption
  <1>2. count \in Nat /\ count >= 1 /\ count <= SampleLimit
    BY <1>1
  <1>3. CASE count = 1
    BY <1>3 DEF Average
  <1>4. CASE count >= 2
    <2> DEFINE W == Word
               S == SampleLimit
               L == (W - 1 + count) \div count
               r == (W - 1 + count) % count
               e == count - 1 - r
               a == total \div count
               t == total % count
    <2>1. W \in Nat /\ W >= 2 /\ M \in Nat /\ (M + 1) * S * (S - 1) < W
      <3>1. W \in Nat /\ W >= 2
        BY Powers
      <3>2. (M + 1) * S * (S - 1) < W
        OBVIOUS
      <3> QED
        BY <3>1, <3>2
    <2> HIDE DEF W, S
    <2>2. /\ W - 1 + count = count * L + r
          /\ L \in Nat /\ r \in 0 .. count - 1
      BY <1>2, <2>1
    <2>3. /\ total = count * a + t
          /\ a \in Nat /\ t \in 0 .. count - 1
      BY <1>2
    <2> HIDE DEF L, r, a, t
    <2>4. e \in Nat /\ e <= count - 1 /\ L * count = W + e
      BY <1>2, <2>1, <2>2
    <2>5. a <= M
      <3>1. total <= count * M
        OBVIOUS
      <3>2. CASE a > M
        <4>1. count * a >= count * (M + 1)
          BY <1>2, <2>1, <2>3, <3>2
        <4>2. count * (M + 1) = count * M + count
          BY <1>2, <2>1
        <4> QED
          BY <1>2, <2>1, <2>3, <3>1, <4>1, <4>2
      <3> QED
        BY <2>1, <2>3, <3>2
    <2> HIDE DEF e
    <2> DEFINE rest == a * e + t * L
    <2>6. rest < W
      <3>1. /\ S \in Nat /\ count <= S /\ M + 1 \in Nat /\ a + 1 <= M + 1
            /\ t \in Nat /\ t <= count - 1
        BY <1>1, <1>2, <2>1, <2>3, <2>5 DEF S
      <3> QED
        BY <1>2, <2>1, <2>2, <2>3, <2>4, <3>1, Reciprocal
    <2>7. rest \in Nat
      BY <2>2, <2>3, <2>4
    <2>8. total * L = W * a + rest
      <3>1. total * L = (count * a) * L + t * L
        BY <1>2, <2>2, <2>3
      <3>2. (count * a) * L = a * (L * count)
        BY <1>2, <2>2, <2>3
      <3>3. a * (W + e) = W * a + a * e
        BY <2>1, <2>3, <2>4
      <3>4. a * e \in Nat /\ t * L \in Nat /\ W * a \in Nat
        BY <2>1, <2>2, <2>3, <2>4
      <3> QED
        BY <2>4, <3>1, <3>2, <3>3, <3>4
    <2> HIDE DEF rest
    <2>9. (W * a + rest) \div W = a
      BY <2>1, <2>3, <2>6, <2>7
    <2>10. L < W
      <3>1. CASE L >= W
        <4>1. count * L >= 2 * L
          BY <1>2, <1>4, <2>2
        <4>2. count * L >= count * W
          BY <1>2, <2>1, <2>2, <3>1
        <4>3. count * W >= W + count - 1 + 1
          <5> DEFINE k == count - 1
          <5>1. k \in Nat /\ k >= 1 /\ count = k + 1
            BY <1>2, <1>4
          <5> HIDE DEF k
          <5>2. k * W >= 2 * k /\ count * W = k * W + W
            BY <2>1, <5>1
          <5>3. 2 * k >= k + 1
            BY <5>1
          <5> QED
            BY <2>1, <5>1, <5>2, <5>3
        <4> QED
          BY <1>2, <2>1, <2>2, <4>2, <4>3
      <3> QED
        BY <2>1, <2>2, <3>1
    <2>11. bore_reciprocal_lut[count] = Wrap(L)
      BY <1>2 DEF bore_reciprocal_lut, L, W
    <2>12. Wrap(L) = L
      BY <2>2, <2>10, WrapRange DEF W
    <2>13. Average(count, total) = (total * L) \div W
      BY <1>2, <1>4, <2>11, <2>12 DEF Average, W
    <2> QED
      BY <2>8, <2>9, <2>13 DEF a
  <1> QED
    BY <1>2, <1>3, <1>4

\* The table of reciprocals gives the exact average: update_burst_cache's
\* multiplication and shift round down just as a division would, for every
\* number of samples and every sum of penalties, the table's overflowing
\* entry for one sample being passed over.
THEOREM AverageExact ==
    ASSUME NEW count \in 1 .. SampleLimit, NEW total \in Nat,
           total <= count * MAX_BURST_PENALTY
    PROVE  Average(count, total) = total \div count
  BY AverageIs, MaxNat, BoreMathAssumption

=============================================================================
