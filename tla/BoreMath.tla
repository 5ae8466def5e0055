------------------------------- MODULE BoreMath -------------------------------
(***************************************************************************)
(* The arithmetic of kernel/modules/bore_sched: bore_sched.h's penalty and *)
(* smoothing, and the average and priority computations of                 *)
(* bore_sched_main.c.  The widths and scales of the C types are constants, *)
(* so that TLC can use small ones; the values in the code are given beside *)
(* each.                                                                   *)
(***************************************************************************)
EXTENDS Integers, FiniteSets

CONSTANTS
    Bits,        \* 64: the largest exponent in use
    pow2,        \* pow2[i] is 2^i
    TimeBits,    \* 64: u64
    WordBits,    \* 32: u32
    HalfBits,    \* 16: u16
    Fp,          \* 8: fraction bits of a penalty
    Levels,      \* 40: priorities of the fair class
    ScaleShift,  \* 10: unit of sched_burst_penalty_scale
    SampleLimit  \* 63: BURST_CACHE_SAMPLE_LIMIT

MAX_BURST_PENALTY == Levels * pow2[Fp] - 1

Word == pow2[WordBits]

ASSUME BoreMathAssumption ==
    /\ Bits \in Nat /\ TimeBits \in 0 .. Bits /\ WordBits \in 1 .. Bits
    /\ HalfBits \in 0 .. Bits /\ Fp \in 0 .. Bits /\ ScaleShift \in 1 .. Bits
    /\ pow2 \in [0 .. Bits -> Nat \ {0}]
    /\ pow2[0] = 1
    /\ \A i \in 1 .. Bits : pow2[i] = 2 * pow2[i - 1]
    /\ Levels \in Nat \ {0} /\ SampleLimit \in Nat \ {0}
    /\ MAX_BURST_PENALTY < pow2[HalfBits]
    /\ \A i \in 0 .. WordBits - 1 : MAX_BURST_PENALTY + pow2[i] <= Word
    /\ (MAX_BURST_PENALTY + 1) * SampleLimit * (SampleLimit - 1) < Word

\* Unsigned arithmetic wraps around.
Wrap(x) == x % Word

\* A u32 taken as an s32.
Signed(x) == IF Wrap(x) < pow2[WordBits - 1] THEN Wrap(x) ELSE Wrap(x) - Word

\* x & ~(x >> 31) on an s32.
Positive(x) == IF x > 0 THEN x ELSE 0

Larger(a, b) == IF a >= b THEN a ELSE b

-----------------------------------------------------------------------------
(* bore_sched.h *)

\* 64 - clz(v).
BitLength(v) == Cardinality({i \in 0 .. TimeBits - 1 : pow2[i] <= v})

\* The bits behind the leading one, as many as a fraction has.
Mantissa(v) ==
    LET leading == pow2[BitLength(v) - 1]
    IN  ((v - leading) * pow2[Fp]) \div leading

log2p1(v) == IF v = 0 THEN 0 ELSE BitLength(v) * pow2[Fp] + Mantissa(v)

\* Slip: the scaled penalty is not cut off.
PenaltyUncut(greed, offset, scale) ==
    Wrap(Positive(greed - offset * pow2[Fp]) * scale) \div pow2[ScaleShift]

\* calc_burst_penalty, from log2p1_u64_u32fp's result on.
PenaltyOfGreed(greed, offset, scale) ==
    LET tolerance == Wrap(offset * pow2[Fp])
        penalty == Positive(Signed(greed - tolerance))
        scaled == Wrap(penalty * scale) \div pow2[ScaleShift]
    IN  scaled - Positive(Signed(scaled - MAX_BURST_PENALTY))

calc_burst_penalty(burst_time, offset, scale) ==
    PenaltyOfGreed(log2p1(burst_time), offset, scale)

\* Slip: the increment is rounded down, so that a small one is lost.
SmoothRoundedDown(new_val, old_val, smoothness) ==
    LET shift == pow2[smoothness % WordBits]
    IN  IF new_val > old_val
        THEN old_val + ((new_val - old_val) \div shift)
        ELSE new_val

\* binary_smooth.  A shift by the word size or more is undefined in C; the
\* shift instructions of arm64 and x86 use it modulo the word size.
binary_smooth(new_val, old_val, smoothness) ==
    LET shift == pow2[smoothness % WordBits]
        increment == new_val - old_val
    IN  IF new_val > old_val
        THEN Wrap(old_val + (Wrap(increment + shift - 1) \div shift))
        ELSE new_val

-----------------------------------------------------------------------------
(* bore_sched_main.c *)

\* Nice 0, as an offset from MAX_RT_PRIO: 20, for a static_prio of 120.
NiceZero == Levels \div 2

bore_score(penalty) == penalty \div pow2[Fp]

\* Slip: the sum is not cut off at the lowest priority.
PrioUncut(static, penalty, sched_bore) ==
    IF sched_bore THEN static + bore_score(penalty) ELSE static

\* effective_prio_bore; static is static_prio - MAX_RT_PRIO.
effective_prio_bore(static, penalty, sched_bore) ==
    LET prio == Positive(IF sched_bore THEN static + bore_score(penalty)
                         ELSE static)
    IN  prio - Positive(prio - (Levels - 1))

\* Slip: the mask is forgotten.
PenaltyUnmasked(curr, prev, is_protected) == Larger(curr, prev)

\* update_penalty's new ctx->penalty; is_protected is its flag.
update_penalty(curr, prev, is_protected) ==
    IF is_protected THEN 0 ELSE Larger(curr, prev)

\* bore_reciprocal_lut; the entry for 1 does not fit and becomes 0, the entry
\* for 0 is never set.
bore_reciprocal_lut ==
    [i \in 0 .. SampleLimit |->
        IF i = 0 THEN 0 ELSE Wrap((Word - 1 + i) \div i)]

\* Slip: the overflowing entry of the table is used.
AverageFromTable(count, total) ==
    (total * bore_reciprocal_lut[count]) \div Word

\* The average of update_burst_cache.
Average(count, total) ==
    IF count = 1
    THEN total
    ELSE (total * bore_reciprocal_lut[count]) \div Word

=============================================================================
