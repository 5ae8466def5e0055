--------------------------- MODULE SharedSlotProofs ---------------------------
(***************************************************************************)
(* Proofs about SharedSlot, for every width of the two modules' words and  *)
(* every value of their sysctls: what each needs of its part of the slot   *)
(* survives what the other writes there.                                   *)
(***************************************************************************)
EXTENDS SharedSlot, BoreMathProofs

-----------------------------------------------------------------------------
(* The arithmetic of BoreMath, as BoreBurst's instance has it *)

LEMMA SameWrap ==
    /\ B!MAX_BURST_PENALTY = MAX_BURST_PENALTY /\ B!Word = Word
    /\ \A x : B!Wrap(x) = Wrap(x)
    /\ \A x : B!Signed(x) = Signed(x)
    /\ \A x : B!Positive(x) = Positive(x)
    /\ \A x, y : B!Larger(x, y) = Larger(x, y)
  <1>1. B!MAX_BURST_PENALTY = MAX_BURST_PENALTY /\ B!Word = Word
    BY DEF B!MAX_BURST_PENALTY, MAX_BURST_PENALTY, B!Word, Word
  <1>2. \A x : B!Wrap(x) = Wrap(x)
    BY <1>1 DEF B!Wrap, Wrap
  <1>3. \A x : B!Signed(x) = Signed(x)
    BY <1>1, <1>2 DEF B!Signed, Signed
  <1>4. \A x : B!Positive(x) = Positive(x)
    BY DEF B!Positive, Positive
  <1>5. \A x, y : B!Larger(x, y) = Larger(x, y)
    BY DEF B!Larger, Larger
  <1> QED
    BY <1>1, <1>2, <1>3, <1>4, <1>5

LEMMA SamePenalty ==
    \A v, offset, scale :
        B!calc_burst_penalty(v, offset, scale) = calc_burst_penalty(v, offset, scale)
  <1>1. \A v : B!BitLength(v) = BitLength(v)
    <2>1. \A S : B!Cardinality(S) = Cardinality(S)
      BY DEF B!Cardinality, Cardinality
    <2> QED
      BY <2>1 DEF B!BitLength, BitLength
  <1>2. \A v : B!Mantissa(v) = Mantissa(v)
    BY <1>1 DEF B!Mantissa, Mantissa
  <1>3. \A v : B!log2p1(v) = log2p1(v)
    BY <1>1, <1>2 DEF B!log2p1, log2p1
  <1>4. \A g, offset, scale :
          B!PenaltyOfGreed(g, offset, scale) = PenaltyOfGreed(g, offset, scale)
    BY SameWrap DEF B!PenaltyOfGreed, PenaltyOfGreed
  <1> QED
    BY <1>3, <1>4 DEF B!calc_burst_penalty, calc_burst_penalty

LEMMA SameSmooth ==
    \A a, b, s : B!binary_smooth(a, b, s) = binary_smooth(a, b, s)
  BY SameWrap DEF B!binary_smooth, binary_smooth

LEMMA SamePrio ==
    \A n, p, b : B!effective_prio_bore(n, p, b) = effective_prio_bore(n, p, b)
  <1>1. \A p : B!bore_score(p) = bore_score(p)
    BY DEF B!bore_score, bore_score
  <1> QED
    BY <1>1, SameWrap DEF B!effective_prio_bore, effective_prio_bore

LEMMA SameUpdate ==
    \A a, b, c : B!update_penalty(a, b, c) = update_penalty(a, b, c)
  BY SameWrap DEF B!update_penalty, update_penalty

-----------------------------------------------------------------------------
(* The slot *)

\* What BORE relies on.
BoreTyped == B!TypeOK /\ applied \in 0 .. Levels - 1

Entities == [latency_offset : Int, latency_nice : Int]

\* What latency-nice's probes rely on: any numbers, for BORE may have stored
\* them.
LatencyTyped == max \in Maxes /\ entity \in [Tasks -> Entities]

SlotInv == BoreTyped /\ LatencyTyped

\* What BoreRecovers needs to be inductive: in a burst of its own, the penalty
\* that runs is one the task has earned in it; and after another of its own,
\* what it remembers is at most what it earned in that one.
OwnInv ==
    /\ own \in [time : Int, most : 0 .. MAX_BURST_PENALTY, last : Int]
    /\ own.time # -1 =>
         /\ own.time >= 0
         /\ ctx.burst_time = own.time /\ ctx.curr_penalty <= own.most
         /\ own.last # -1 => /\ ctx.prev_penalty <= own.last
                             /\ ctx.penalty <= Larger(own.most, own.last)

CtxTypes == [burst_time : 0 .. pow2[TimeBits] - 1,
             prev_penalty : 0 .. MAX_BURST_PENALTY,
             curr_penalty : 0 .. MAX_BURST_PENALTY,
             penalty : 0 .. MAX_BURST_PENALTY]

\* A number kept in a signed integer is a number.
LEMMA NarrowInt ==
    ASSUME NEW x \in Int, NEW half \in Nat \ {0}
    PROVE  L!Narrow(x, half) \in Int
  BY DEF L!Narrow

\* Whatever a burst time is, it looks like an entity.
LEMMA EntityTyped ==
    ASSUME NEW burst \in Int
    PROVE  EntityOf(burst) \in Entities
  <1>1. IntHalf \in Nat \ {0} /\ NiceSpan \in Nat /\ NiceSpan >= 40
    BY SharedSlotAssumption
  <1>2. NiceSpan \div 2 \in Nat \ {0}
    BY <1>1
  <1>3. 2 * IntHalf \in Nat \ {0}
    BY <1>1
  <1>4. burst \div (2 * IntHalf) \in Int
    BY <1>3
  <1>5. (burst \div (2 * IntHalf)) % NiceSpan \in Int
    BY <1>1, <1>4
  <1> QED
    BY <1>1, <1>2, <1>5, NarrowInt DEF EntityOf, Entities

\* A number made of a quotient and two remainders stays below a multiple of
\* their product.
LEMMA Digits ==
    ASSUME NEW low \in Nat \ {0}, NEW span \in Nat \ {0}, NEW top \in Nat,
           top % (low * span) = 0, NEW burst \in Nat, burst < top,
           NEW x \in 0 .. span - 1, NEW y \in 0 .. low - 1
    PROVE  (burst \div (low * span)) * low * span + x * low + y \in 0 .. top - 1
  <1> DEFINE n == low * span
             q == burst \div n
             k == top \div n
  <1>1. n \in Nat /\ n >= 1
    BY DEF n
  <1> HIDE DEF n
  <1>2. q \in Nat /\ k \in Nat /\ n * q <= burst /\ top = n * k
    BY <1>1 DEF n
  <1> HIDE DEF q, k
  <1>3. q + 1 <= k
    <2> SUFFICES ASSUME k <= q PROVE FALSE
      BY <1>2
    <2>1. PICK z \in Nat : q = k + z
      BY <1>2
    <2>2. n * q = n * k + n * z /\ n * z >= 0
      BY <1>1, <1>2, <2>1
    <2> QED
      BY <1>1, <1>2, <2>2
  <1>4. n * q + n <= top /\ n * q \in Nat
    <2>1. PICK z \in Nat : k = q + 1 + z
      BY <1>2, <1>3
    <2>2. n * k = n * q + n + n * z /\ n * z >= 0 /\ n * q \in Nat
      BY <1>1, <1>2, <2>1
    <2> QED
      BY <1>1, <1>2, <2>2
  <1>5. x * low + y <= n - 1 /\ x * low \in Nat
    <2>1. PICK z \in Nat : span = x + 1 + z
      BY DEF n
    <2>2. low * span = x * low + low + low * z /\ low * z >= 0 /\ x * low \in Nat
      BY <2>1
    <2> QED
      BY <2>2 DEF n
  <1>6. q * low * span = n * q
    BY <1>2 DEF n
  <1>7. n * q + x * low + y \in 0 .. top - 1
    BY <1>1, <1>4, <1>5
  <1> QED
    BY <1>6, <1>7 DEF q, n

\* Whatever an entity holds, its words make up a u64.
LEMMA BurstTyped ==
    ASSUME NEW lse \in Entities, NEW burst \in 0 .. pow2[TimeBits] - 1
    PROVE  BurstOf(lse, burst) \in 0 .. pow2[TimeBits] - 1
  <1> DEFINE low == 2 * IntHalf
             x == lse.latency_nice % NiceSpan
             y == lse.latency_offset % low
  <1>1. low \in Nat \ {0} /\ NiceSpan \in Nat \ {0}
    BY SharedSlotAssumption
  <1>2. pow2[TimeBits] \in Nat /\ pow2[TimeBits] % (low * NiceSpan) = 0
    BY SharedSlotAssumption, Powers, BoreMathAssumption
  <1>3. lse.latency_nice \in Int /\ lse.latency_offset \in Int
    BY DEF Entities
  <1>4. burst \in Nat /\ burst < pow2[TimeBits]
    BY <1>2
  <1> HIDE DEF low
  <1>5. x \in 0 .. NiceSpan - 1 /\ y \in 0 .. low - 1
    BY <1>1, <1>3
  <1> HIDE DEF x, y
  <1>6. (burst \div (low * NiceSpan)) * low * NiceSpan + x * low + y
          \in 0 .. pow2[TimeBits] - 1
    BY <1>1, <1>2, <1>4, <1>5, Digits
  <1> QED
    BY <1>6 DEF BurstOf, low, x, y

-----------------------------------------------------------------------------
(* Latency-nice *)

\* What update_task_latency_nice stores.
LEMMA UpdatedTyped ==
    ASSUME LatencyTyped, NEW old \in Entities, NEW p, NEW eligible
    PROVE  L!Updated(old, p, eligible) \in Entities
  <1> DEFINE nice == L!NiceOf(p)
             product == L!Narrow(max * nice, LongHalf)
             quotient == L!Quotient(product, 20)
  <1>1. nice \in Int
    BY DEF L!NiceOf, L!MIN_LATENCY_NICE, L!MAX_LATENCY_NICE, L!DEFAULT_LATENCY_NICE
  <1>2. max \in Int /\ IntHalf \in Nat \ {0} /\ LongHalf \in Nat \ {0}
    BY SharedSlotAssumption DEF LatencyTyped
  <1> HIDE DEF nice
  <1>3. max * nice \in Int
    BY <1>1, <1>2
  <1>4. product \in Int
    BY <1>2, <1>3, NarrowInt
  <1> HIDE DEF product
  <1>5. quotient \in Int
    BY <1>4 DEF L!Quotient
  <1> HIDE DEF quotient
  <1>6. L!Narrow(quotient, IntHalf) \in Int
    BY <1>2, <1>5, NarrowInt
  <1>7. L!calc_latency_offset(nice, max) \in Int
    BY <1>6 DEF L!calc_latency_offset, quotient, product
  <1> QED
    BY <1>1, <1>7 DEF L!Updated, Entities, nice

\* One task's entity is replaced.
LEMMA OneEntity ==
    ASSUME LatencyTyped, NEW t \in Tasks, NEW e \in Entities,
           entity' = [entity EXCEPT ![t] = e] \/ UNCHANGED entity
    PROVE  entity' \in [Tasks -> Entities]
  BY DEF LatencyTyped

\* The steps of latency-nice's own module keep its types.
LEMMA LatencyKept ==
    ASSUME LatencyTyped,
           \/ L!Retune \/ L!Load \/ L!Register \/ L!Unwind \/ L!Unload
           \/ \E t \in Tasks : L!ScanTask(t) \/ L!SetUserNice(t)
    PROVE  LatencyTyped'
  <1>1. CASE L!Retune \/ L!Load
    BY <1>1, SharedSlotAssumption DEF L!Retune, L!Load, L!task, LatencyTyped
  <1>2. CASE L!Register \/ L!Unwind \/ L!Unload
    BY <1>2 DEF L!Register, L!Unwind, L!Unload, L!task, LatencyTyped
  <1>3. ASSUME NEW t \in Tasks, L!ScanTask(t) PROVE LatencyTyped'
    <2> DEFINE e == L!Updated(entity[t], static[t], fair[t])
    <2>1. e \in Entities
      BY UpdatedTyped DEF LatencyTyped
    <2>2. entity' = [entity EXCEPT ![t] = e] /\ UNCHANGED max
      BY <1>3 DEF L!ScanTask
    <2> HIDE DEF e
    <2> QED
      BY <2>1, <2>2, OneEntity DEF LatencyTyped
  <1>4. ASSUME NEW t \in Tasks, L!SetUserNice(t) PROVE LatencyTyped'
    <2> DEFINE e == L!Updated(entity[t], static'[t], fair[t])
    <2>1. e \in Entities
      BY UpdatedTyped DEF LatencyTyped
    <2>2. /\ entity' = [entity EXCEPT ![t] = e] \/ UNCHANGED entity
          /\ UNCHANGED max
      BY <1>4 DEF L!SetUserNice
    <2> HIDE DEF e
    <2> QED
      BY <2>1, <2>2, OneEntity DEF LatencyTyped
  <1> QED
    BY <1>1, <1>2, <1>3, <1>4

\* The offset a probe returns, and what it is computed from.
LEMMA ProbeCases ==
    ASSUME LatencyTyped, NEW hook, NEW a \in Tasks, NEW b \in Tasks
    PROVE  /\ entity[a].latency_offset \in Int
           /\ entity[b].latency_offset \in Int
           /\ max \in Int
           /\ \/ L!Offset(hook, a, b) = 0
              \/ L!Offset(hook, a, b)
                   = L!Clamped(IF entity[b].latency_offset < 0
                                  \/ entity[a].latency_offset < 0
                               THEN entity[b].latency_offset
                                      - entity[a].latency_offset
                               ELSE entity[b].latency_offset)
  <1>1. entity[a] \in Entities /\ entity[b] \in Entities
    BY DEF LatencyTyped
  <1>2. max \in Int
    BY SharedSlotAssumption DEF LatencyTyped
  <1>3. \/ L!Offset(hook, a, b) = 0
        \/ L!Offset(hook, a, b) = L!wakeup_latency_gran(a, b)
    BY DEF L!Offset
  <1> QED
    BY <1>1, <1>2, <1>3 DEF L!wakeup_latency_gran, Entities

\* The clamp.
LEMMA ProbesSound ==
    ASSUME LatencyTyped
    PROVE  L!OffsetWithinMax
  <1>1. ASSUME max >= 0, NEW hook \in L!Probes, NEW a \in Tasks, NEW b \in Tasks
        PROVE  L!Offset(hook, a, b) \in -max .. max
    BY <1>1, ProbeCases DEF L!Clamped
  <1> QED
    BY <1>1 DEF L!OffsetWithinMax

-----------------------------------------------------------------------------
(* BORE *)

\* The parts of BORE's type invariant.
LEMMA BoreTypes ==
    ASSUME BoreTyped
    PROVE  /\ ctx \in CtxTypes
           /\ prio \in 0 .. Levels - 1
           /\ tune.sched_bore \in BOOLEAN
           /\ tune.smoothness \in Nat /\ tune.offset \in Nat /\ tune.scale \in Nat
           /\ B!Protected \in BOOLEAN
  <1>1. ctx \in CtxTypes
    BY SameWrap DEF BoreTyped, B!TypeOK, B!Penalties, CtxTypes
  <1>2. tune \in B!Tunables
    BY DEF BoreTyped, B!TypeOK
  <1>3. /\ tune.sched_bore \in BOOLEAN /\ tune.smoothness \in Nat
        /\ tune.offset \in Nat /\ tune.scale \in Nat
    BY <1>2, SharedSlotAssumption DEF B!Tunables
  <1>4. B!Protected \in BOOLEAN
    BY DEF BoreTyped, B!TypeOK, B!Protected
  <1>5. prio \in 0 .. Levels - 1
    BY DEF BoreTyped, B!TypeOK
  <1> QED
    BY <1>1, <1>3, <1>4, <1>5

\* A context and a priority of the right types are all that a hook may change.
LEMMA BoreSame ==
    ASSUME BoreTyped, ctx' \in CtxTypes, applied' \in 0 .. Levels - 1,
           prio' \in 0 .. Levels - 1, tune' \in B!Tunables,
           UNCHANGED <<bmode, bregistered, kthread>>
    PROVE  BoreTyped'
  <1>1. applied' \in Int /\ -1 \in -1 .. Levels - 1
    BY MaxNat
  <1> QED
    BY <1>1, SameWrap DEF BoreTyped, B!TypeOK, B!Penalties, CtxTypes

LEMMA PrioTyped ==
    ASSUME NEW n \in 0 .. Levels - 1, NEW p \in 0 .. MAX_BURST_PENALTY,
           NEW b \in BOOLEAN
    PROVE  B!effective_prio_bore(n, p, b) \in 0 .. Levels - 1
  <1>1. p \in Nat
    BY MaxNat
  <1> QED
    BY <1>1, PrioInRange, SamePrio

\* restart_burst_bore.
LEMMA RestartFields ==
    ASSUME BoreTyped, B!Restart
    PROVE  /\ ctx' \in CtxTypes
           /\ ctx'.burst_time = 0 /\ ctx'.curr_penalty = 0
           /\ ctx'.prev_penalty <= ctx.curr_penalty
           /\ ctx'.penalty <= ctx'.prev_penalty
  <1> DEFINE prev == binary_smooth(ctx.curr_penalty, ctx.prev_penalty,
                                   tune.smoothness)
             pen == update_penalty(0, prev, B!Protected)
  <1>1. /\ ctx.curr_penalty \in 0 .. MAX_BURST_PENALTY
        /\ ctx.prev_penalty \in 0 .. MAX_BURST_PENALTY
        /\ tune.smoothness \in Nat /\ B!Protected \in BOOLEAN
    BY BoreTypes DEF CtxTypes
  <1>2. prev \in 0 .. MAX_BURST_PENALTY /\ prev <= ctx.curr_penalty
    <2>1. IF ctx.curr_penalty > ctx.prev_penalty
          THEN prev \in ctx.prev_penalty + 1 .. ctx.curr_penalty
          ELSE prev = ctx.curr_penalty
      BY <1>1, SmoothBetween
    <2> HIDE DEF prev
    <2> QED
      BY <1>1, <2>1, MaxNat
  <1>3. 0 \in 0 .. MAX_BURST_PENALTY /\ 0 \in 0 .. pow2[TimeBits] - 1
    <2>1. pow2[TimeBits] \in Nat /\ pow2[TimeBits] >= 1
      BY Powers, BoreMathAssumption
    <2> QED
      BY <2>1, MaxNat
  <1>4. ctx' = [burst_time |-> 0, prev_penalty |-> prev, curr_penalty |-> 0,
                penalty |-> pen]
    BY SameSmooth, SameUpdate DEF B!Restart
  <1> HIDE DEF prev
  <1>5. pen \in 0 .. MAX_BURST_PENALTY
    BY <1>1, <1>2, <1>3, UpdatePenaltyRange
  <1>6. pen <= prev
    BY <1>2, MaxNat DEF update_penalty, Larger
  <1> HIDE DEF pen
  <1> QED
    BY <1>2, <1>3, <1>4, <1>5, <1>6 DEF CtxTypes

\* probe_bore_update_curr, whatever the slot held as a burst time.
LEMMA ChargeFields ==
    ASSUME BoreTyped, NEW delta_exec \in Deltas, B!Charge(delta_exec)
    PROVE  /\ ctx' \in CtxTypes /\ applied' \in 0 .. Levels - 1
           /\ ctx'.burst_time = ctx.burst_time + delta_exec
           /\ ctx'.curr_penalty = calc_burst_penalty(ctx'.burst_time,
                                    tune.offset, tune.scale)
           /\ ctx'.prev_penalty = ctx.prev_penalty
           /\ \/ ctx'.penalty = ctx.penalty
              \/ ctx'.penalty <= Larger(ctx'.curr_penalty, ctx.prev_penalty)
  <1> DEFINE burst == ctx.burst_time + delta_exec
             curr == calc_burst_penalty(burst, tune.offset, tune.scale)
             new == update_penalty(curr, ctx.prev_penalty, B!Protected)
  <1>1. /\ burst < pow2[TimeBits]
        /\ \/ /\ ctx' = [ctx EXCEPT !.burst_time = burst, !.curr_penalty = curr]
              /\ UNCHANGED applied
           \/ /\ ctx' = [ctx EXCEPT !.burst_time = burst, !.curr_penalty = curr,
                                    !.penalty = new]
              /\ B!NewPrio(new)
    BY SamePenalty, SameUpdate DEF B!Charge
  <1>2. /\ ctx \in CtxTypes /\ tune.offset \in Nat /\ tune.scale \in Nat
        /\ ctx.prev_penalty \in 0 .. MAX_BURST_PENALTY
        /\ ctx.burst_time \in Nat /\ B!Protected \in BOOLEAN
        /\ ctx.penalty \in 0 .. MAX_BURST_PENALTY
    BY BoreTypes DEF CtxTypes
  <1>3. burst \in 0 .. pow2[TimeBits] - 1
    <2>1. pow2[TimeBits] \in Nat /\ delta_exec \in Nat
      BY Powers, BoreMathAssumption, SharedSlotAssumption
    <2> QED
      BY <1>1, <1>2, <2>1
  <1>4. curr \in 0 .. MAX_BURST_PENALTY
    BY <1>2, <1>3, CalcRange
  <1>5. new \in 0 .. MAX_BURST_PENALTY
    BY <1>2, <1>4, UpdatePenaltyRange
  <1> HIDE DEF curr
  <1>9. new <= Larger(curr, ctx.prev_penalty)
    BY <1>2, <1>4, MaxNat DEF update_penalty, Larger
  <1> HIDE DEF burst, new
  <1>6. /\ ctx' \in CtxTypes
        /\ ctx'.burst_time = burst /\ ctx'.curr_penalty = curr
        /\ ctx'.prev_penalty = ctx.prev_penalty
        /\ ctx'.penalty = ctx.penalty \/ ctx'.penalty = new
    BY <1>1, <1>2, <1>3, <1>4, <1>5 DEF CtxTypes
  <1>7. B!Prio(new) \in 0 .. Levels - 1
    BY <1>5, PrioTyped, BoreTypes DEF B!Prio
  <1>8. applied' \in {applied, B!Prio(new)}
    BY <1>1 DEF B!NewPrio
  <1>10. applied' \in 0 .. Levels - 1
    BY <1>7, <1>8 DEF BoreTyped
  <1> QED
    BY <1>6, <1>9, <1>10 DEF burst, curr

\* BORE's steps keep its types.
LEMMA BoreKept ==
    ASSUME BoreTyped, \/ \E delta \in Deltas : B!Charge(delta)
                      \/ B!DequeueTaskFair \/ B!YieldTaskFair
                      \/ B!Retune \/ B!Renice
    PROVE  BoreTyped' /\ ctx'.burst_time \in Int
  <1>1. /\ ctx \in CtxTypes /\ prio \in 0 .. Levels - 1 /\ tune \in B!Tunables
        /\ applied \in 0 .. Levels - 1 /\ ctx.penalty \in 0 .. MAX_BURST_PENALTY
    BY BoreTypes DEF BoreTyped, B!TypeOK, CtxTypes
  <1>2. /\ ctx' \in CtxTypes /\ applied' \in 0 .. Levels - 1
        /\ prio' \in 0 .. Levels - 1 /\ tune' \in B!Tunables
        /\ UNCHANGED <<bmode, bregistered, kthread>>
    <2>1. CASE \E delta \in Deltas : B!Charge(delta)
      BY <1>1, <2>1, ChargeFields DEF B!Charge, B!module
    <2>2. CASE B!DequeueTaskFair \/ B!YieldTaskFair
      BY <1>1, <2>2, RestartFields DEF B!DequeueTaskFair, B!YieldTaskFair, B!module
    <2>3. CASE B!Retune
      BY <1>1, <2>3 DEF B!Retune, B!module
    <2>4. CASE B!Renice
      <3>1. PICK n \in Statics :
              /\ prio' = n
              /\ applied' \in {n, B!effective_prio_bore(n, ctx.penalty, TRUE)}
        BY <2>4 DEF B!Renice
      <3>2. n \in 0 .. Levels - 1
        BY SharedSlotAssumption
      <3>3. B!effective_prio_bore(n, ctx.penalty, TRUE) \in 0 .. Levels - 1
        BY <1>1, <3>2, PrioTyped
      <3> QED
        BY <1>1, <2>4, <3>1, <3>2, <3>3 DEF B!Renice, B!module
    <2> QED
      BY <2>1, <2>2, <2>3, <2>4
  <1>3. ctx'.burst_time \in Int
    BY <1>2 DEF CtxTypes
  <1> QED
    BY <1>2, <1>3, BoreSame

\* Latency-nice's steps leave BORE a burst time.
LEMMA SlotWritten ==
    ASSUME BoreTyped, entity' \in [Tasks -> Entities], ToBore,
           UNCHANGED <<bmode, bregistered, tune, kthread, prio, applied>>
    PROVE  BoreTyped'
  <1>1. /\ ctx \in CtxTypes /\ prio \in 0 .. Levels - 1 /\ tune \in B!Tunables
        /\ applied \in 0 .. Levels - 1
        /\ ctx.burst_time \in 0 .. pow2[TimeBits] - 1
    BY BoreTypes DEF BoreTyped, B!TypeOK, CtxTypes
  <1>2. entity'[Self] \in Entities
    BY SharedSlotAssumption
  <1> DEFINE b == BurstOf(entity'[Self], ctx.burst_time)
  <1>3. b \in 0 .. pow2[TimeBits] - 1
    BY <1>1, <1>2, BurstTyped
  <1>4. ctx' = ctx \/ ctx' = [ctx EXCEPT !.burst_time = b]
    BY DEF ToBore
  <1> HIDE DEF b
  <1>5. ctx' \in CtxTypes
    BY <1>1, <1>3, <1>4 DEF CtxTypes
  <1> QED
    BY <1>1, <1>5, BoreSame

-----------------------------------------------------------------------------
(* Both *)

LEMMA SlotStart == Init => SlotInv
  <1> SUFFICES ASSUME Init PROVE SlotInv
    OBVIOUS
  <1>1. bmode \in {"absent", "active"} /\ bregistered \in 0 .. Len(B!Hooks)
    BY DEF Init, B!Init, B!Hooks
  <1>2. /\ prio \in 0 .. Levels - 1 /\ applied \in 0 .. Levels - 1
        /\ kthread \in BOOLEAN /\ tune \in B!Tunables
    BY SharedSlotAssumption DEF Init, B!Init
  <1>3. applied \in Int /\ -1 \in -1 .. Levels - 1
    BY <1>2, MaxNat
  <1>4. 0 \in 0 .. MAX_BURST_PENALTY /\ 0 \in 0 .. pow2[TimeBits] - 1
    <2>1. pow2[TimeBits] \in Nat /\ pow2[TimeBits] >= 1
      BY Powers, BoreMathAssumption
    <2> QED
      BY <2>1, MaxNat
  <1>5. ctx \in CtxTypes
    BY <1>4 DEF Init, B!Init, B!Zeroed, CtxTypes
  <1>6. BoreTyped
    BY <1>1, <1>2, <1>3, <1>5, SameWrap
      DEF BoreTyped, B!TypeOK, B!Penalties, CtxTypes
  <1>7. L!Zeroed \in Entities
    BY DEF L!Zeroed, Entities, L!DEFAULT_LATENCY_NICE
  <1>8. LatencyTyped
    BY <1>7, SharedSlotAssumption DEF Init, L!Init, LatencyTyped
  <1> QED
    BY <1>6, <1>8 DEF SlotInv

LEMMA SlotStep == SlotInv /\ [Next]_vars => SlotInv'
  <1> SUFFICES ASSUME SlotInv, [Next]_vars PROVE SlotInv'
    OBVIOUS
  <1>0. BoreTyped /\ LatencyTyped /\ Self \in Tasks
    BY SharedSlotAssumption DEF SlotInv
  <1>1. CASE BoreStep
    <2>1. BoreTyped' /\ ctx'.burst_time \in Int
      BY <1>0, <1>1, BoreKept DEF BoreStep
    <2>2. EntityOf(ctx'.burst_time) \in Entities
      BY <2>1, EntityTyped
    <2>3. LatencyTyped'
      BY <1>0, <1>1, <2>2, OneEntity DEF BoreStep, ToLatency, LatencyTyped
    <2> QED
      BY <2>1, <2>3 DEF SlotInv
  <1>2. CASE Renice
    <2>1. CASE B!Renice /\ UNCHANGED latency
      BY <1>0, <2>1, BoreKept DEF SlotInv, LatencyTyped, latency
    <2>2. CASE /\ L!SetUserNice(Self) /\ ToBore
               /\ UNCHANGED <<bmode, bregistered, tune, kthread, prio, applied>>
      <3>1. LatencyTyped'
        BY <1>0, <2>2, LatencyKept
      <3> QED
        BY <1>0, <2>2, <3>1, SlotWritten DEF SlotInv, LatencyTyped
    <2> QED
      BY <1>2, <2>1, <2>2 DEF Renice
  <1>3. CASE LatencyStep
    <2>1. LatencyTyped'
      BY <1>0, <1>3, LatencyKept DEF LatencyStep
    <2> QED
      BY <1>0, <1>3, <2>1, SlotWritten DEF LatencyStep, SlotInv, LatencyTyped
  <1>4. CASE ScanRaced
    <2> DEFINE new == L!Updated(entity[Self], static[Self], fair[Self])
               e == [entity[Self] EXCEPT !.latency_offset = new.latency_offset]
               f == [entity[Self] EXCEPT !.latency_nice = new.latency_nice]
    <2>1. entity[Self] \in Entities
      BY <1>0 DEF LatencyTyped
    <2>2. new \in Entities
      BY <1>0, <2>1, UpdatedTyped
    <2>3. /\ \/ entity' = [entity EXCEPT ![Self] = e] \/ UNCHANGED entity
             \/ entity' = [entity EXCEPT ![Self] = f]
          /\ UNCHANGED <<max, bmode, bregistered, tune, kthread, prio, applied>>
          /\ ToBore
      BY <1>4 DEF ScanRaced
    <2> HIDE DEF new
    <2>4. e \in Entities /\ f \in Entities
      BY <2>1, <2>2 DEF Entities
    <2> HIDE DEF e, f
    <2>5. entity' \in [Tasks -> Entities]
      BY <1>0, <2>3, <2>4, OneEntity
    <2> QED
      BY <1>0, <2>3, <2>5, SlotWritten DEF SlotInv, LatencyTyped
  <1>5. CASE OtherRuns
    <2>1. PICK t \in Tasks, burst \in Bursts :
            entity' = [entity EXCEPT ![t] = EntityOf(burst)]
      BY <1>5 DEF OtherRuns
    <2>2. burst \in Int
      BY SharedSlotAssumption
    <2>3. EntityOf(burst) \in Entities
      BY <2>2, EntityTyped
    <2>4. LatencyTyped' /\ UNCHANGED bore
      BY <1>0, <1>5, <2>1, <2>3, OneEntity DEF OtherRuns, LatencyTyped
    <2>5. BoreTyped'
      BY <1>0, <2>4 DEF bore, BoreTyped, B!TypeOK
    <2> QED
      BY <2>4, <2>5 DEF SlotInv
  <1>6. CASE UNCHANGED vars
    BY <1>0, <1>6 DEF vars, SlotInv, BoreTyped, B!TypeOK, LatencyTyped
  <1> QED
    BY <1>1, <1>2, <1>3, <1>4, <1>5, <1>6 DEF Next

\* Each module's part of the slot stays what that module needs, whatever the
\* other stores over it: penalties and weights in range for BORE, offsets
\* within the present maximum for latency-nice.
THEOREM SharingKeepsRanges == Spec => []BothInRange
  <1>1. SlotInv => BothInRange
    <2> SUFFICES ASSUME SlotInv PROVE BothInRange
      OBVIOUS
    <2>1. B!TypeOK /\ LatencyTyped /\ BoreTyped /\ applied \in 0 .. Levels - 1
      BY DEF SlotInv, BoreTyped
    <2>2. B!Prio(ctx.penalty) \in 0 .. Levels - 1
      <3>1. /\ ctx.penalty \in 0 .. MAX_BURST_PENALTY /\ prio \in 0 .. Levels - 1
            /\ tune.sched_bore \in BOOLEAN
        BY <2>1, BoreTypes DEF CtxTypes
      <3> QED
        BY <3>1, PrioTyped DEF B!Prio
    <2>3. B!WeightInRange
      BY <2>1, <2>2 DEF B!WeightInRange
    <2> QED
      BY <2>1, <2>3, ProbesSound DEF BothInRange
  <1> QED
    BY <1>1, SlotStart, SlotStep, PTL DEF Spec

-----------------------------------------------------------------------------
(* Recovery *)

\* What a burst time of the task's own earns is a penalty.
LEMMA RanFields ==
    ASSUME OwnInv, own.time # -1, NEW delta \in Deltas,
           NEW p \in 0 .. MAX_BURST_PENALTY, own' = Ran(delta),
           p = calc_burst_penalty(own.time + delta, tune.offset, tune.scale)
    PROVE  /\ own' \in [time : Int, most : 0 .. MAX_BURST_PENALTY, last : Int]
           /\ own'.time = own.time + delta /\ own'.time >= 0
           /\ own'.most = Larger(own.most, p)
           /\ own'.last = own.last
  <1>1. /\ own \in [time : Int, most : 0 .. MAX_BURST_PENALTY, last : Int]
        /\ own.time \in Int /\ own.time >= 0 /\ own.most \in 0 .. MAX_BURST_PENALTY
        /\ delta \in Nat
    BY SharedSlotAssumption DEF OwnInv
  <1>2. Larger(own.most, p) \in 0 .. MAX_BURST_PENALTY
    BY <1>1 DEF Larger
  <1>3. own' = [own EXCEPT !.time = own.time + delta, !.most = Larger(own.most, p)]
    BY DEF Ran
  <1>4. own.time + delta \in Int /\ own.time + delta >= 0
    BY <1>1
  <1>5. /\ own'.time = own.time + delta /\ own'.most = Larger(own.most, p)
        /\ own'.last = own.last
    BY <1>1, <1>3, Zenon
  <1>6. own' \in [time : Int, most : 0 .. MAX_BURST_PENALTY, last : Int]
    BY <1>1, <1>2, <1>3, <1>4, Zenon
  <1> QED
    BY <1>4, <1>5, <1>6, Zenon

LEMMA OwnStep == SlotInv /\ SlotInv' /\ OwnInv /\ [Next]_vars => OwnInv'
  <1> SUFFICES ASSUME SlotInv, SlotInv', OwnInv, [Next]_vars PROVE OwnInv'
    OBVIOUS
  <1>t. /\ own \in [time : Int, most : 0 .. MAX_BURST_PENALTY, last : Int]
        /\ own.time \in Int /\ own.most \in 0 .. MAX_BURST_PENALTY /\ own.last \in Int
        /\ MAX_BURST_PENALTY \in Nat
    BY MaxNat DEF OwnInv
  <1>u. /\ BoreTyped
        /\ ctx.curr_penalty \in 0 .. MAX_BURST_PENALTY
        /\ ctx.prev_penalty \in 0 .. MAX_BURST_PENALTY
        /\ ctx.penalty \in 0 .. MAX_BURST_PENALTY
        /\ ctx.burst_time \in Nat
    BY BoreTypes DEF SlotInv, CtxTypes
  <1>1. ASSUME NEW delta \in Deltas, B!Charge(delta), own' = Ran(delta)
        PROVE  OwnInv'
    <2>1. /\ ctx' \in CtxTypes
          /\ ctx'.burst_time = ctx.burst_time + delta
          /\ ctx'.curr_penalty = calc_burst_penalty(ctx'.burst_time,
                                   tune.offset, tune.scale)
          /\ ctx'.prev_penalty = ctx.prev_penalty
          /\ \/ ctx'.penalty = ctx.penalty
             \/ ctx'.penalty <= Larger(ctx'.curr_penalty, ctx.prev_penalty)
      BY <1>1, <1>u, ChargeFields
    <2>2. /\ ctx'.curr_penalty \in 0 .. MAX_BURST_PENALTY
          /\ ctx'.penalty \in 0 .. MAX_BURST_PENALTY
      BY <2>1 DEF CtxTypes
    <2>3. CASE own.time = -1
      <3>1. own' = own
        BY <1>1, <2>3 DEF Ran
      <3> QED
        BY <1>t, <2>3, <3>1 DEF OwnInv
    <2>4. CASE own.time # -1
      <3>1. ctx.burst_time = own.time
        BY <2>4 DEF OwnInv
      <3>2. ctx'.curr_penalty
              = calc_burst_penalty(own.time + delta, tune.offset, tune.scale)
        BY <2>1, <3>1
      <3>3. /\ own' \in [time : Int, most : 0 .. MAX_BURST_PENALTY, last : Int]
            /\ own'.time = own.time + delta /\ own'.time >= 0
            /\ own'.most = Larger(own.most, ctx'.curr_penalty)
            /\ own'.last = own.last
        BY <1>1, <2>2, <2>4, <3>2, RanFields
      <3>4. ctx'.burst_time = own'.time
        BY <2>1, <3>1, <3>3
      <3>5. ctx'.curr_penalty <= own'.most /\ own.most <= own'.most
        BY <1>t, <2>2, <3>3 DEF Larger
      <3>6. ASSUME own'.last # -1
            PROVE  /\ ctx'.prev_penalty <= own'.last
                   /\ ctx'.penalty <= Larger(own'.most, own'.last)
        <4>1. /\ ctx.prev_penalty <= own.last
              /\ ctx.penalty <= Larger(own.most, own.last)
          BY <2>4, <3>3, <3>6 DEF OwnInv
        <4>2. own'.most \in Int
          BY <3>3
        <4>3. CASE ctx'.penalty = ctx.penalty
          BY <1>t, <1>u, <2>1, <3>3, <3>5, <4>1, <4>2, <4>3 DEF Larger
        <4>4. CASE ctx'.penalty <= Larger(ctx'.curr_penalty, ctx.prev_penalty)
          BY <1>t, <1>u, <2>1, <2>2, <3>3, <3>5, <4>1, <4>2, <4>4 DEF Larger
        <4> QED
          BY <2>1, <4>3, <4>4
      <3> QED
        BY <3>3, <3>4, <3>5, <3>6 DEF OwnInv
    <2> QED
      BY <2>3, <2>4
  <1>2. ASSUME B!Restart, own' = Ended
        PROVE  OwnInv'
    <2>1. /\ ctx' \in CtxTypes
          /\ ctx'.burst_time = 0 /\ ctx'.curr_penalty = 0
          /\ ctx'.prev_penalty <= ctx.curr_penalty
          /\ ctx'.penalty <= ctx'.prev_penalty
      BY <1>2, <1>u, RestartFields
    <2>2. /\ ctx'.prev_penalty \in 0 .. MAX_BURST_PENALTY
          /\ ctx'.penalty \in 0 .. MAX_BURST_PENALTY
      BY <2>1 DEF CtxTypes
    <2>3. /\ own'.time = 0 /\ own'.most = 0
          /\ own'.last = IF own.time = -1 THEN -1 ELSE own.most
          /\ own' \in [time : Int, most : 0 .. MAX_BURST_PENALTY, last : Int]
      BY <1>2, <1>t DEF Ended
    <2>4. own'.last # -1 => ctx'.prev_penalty <= own'.last
      <3>1. own.time # -1 => ctx.curr_penalty <= own.most
        BY DEF OwnInv
      <3> QED
        BY <1>t, <1>u, <2>1, <2>2, <2>3, <3>1
    <2>5. own'.last # -1 => ctx'.penalty <= Larger(own'.most, own'.last)
      BY <1>t, <2>1, <2>2, <2>3, <2>4 DEF Larger
    <2> QED
      BY <2>1, <2>3, <2>4, <2>5 DEF OwnInv
  <1>3. ASSUME ToBore
        PROVE  OwnInv'
    <2>1. CASE UNCHANGED <<ctx, own>>
      BY <2>1 DEF OwnInv
    <2>2. CASE own' = Overwritten
      <3>1. /\ own'.time = -1
            /\ own' \in [time : Int, most : 0 .. MAX_BURST_PENALTY, last : Int]
        BY <1>t, <2>2 DEF Overwritten
      <3> QED
        BY <3>1 DEF OwnInv
    <2> QED
      BY <1>3, <2>1, <2>2 DEF ToBore
  <1>4. CASE UNCHANGED <<ctx, own>>
    BY <1>4 DEF OwnInv
  <1>5. CASE BoreStep
    BY <1>1, <1>2, <1>4, <1>5 DEF BoreStep, B!DequeueTaskFair, B!YieldTaskFair,
      B!Retune
  <1>6. CASE Renice
    BY <1>3, <1>4, <1>6 DEF Renice, B!Renice
  <1> QED
    BY <1>3, <1>4, <1>5, <1>6 DEF Next, LatencyStep, ScanRaced, OtherRuns, bore,
      vars

\* BORE recovers from what latency-nice stores over its burst time: two bursts
\* later the task is penalised for its own running only, for every width of
\* the slot and every value of the sysctls, changing ones included.
THEOREM RecoversWithinTwoBursts == Spec => []BoreRecovers
  <1>1. Init => OwnInv
    <2> SUFFICES ASSUME Init PROVE OwnInv
      OBVIOUS
    <2>1. /\ own.time = 0 /\ own.most = 0 /\ own.last = 0
          /\ own \in [time : Int, most : 0 .. MAX_BURST_PENALTY, last : Int]
      BY MaxNat DEF Init, Unwritten
    <2>2. /\ ctx.burst_time = 0 /\ ctx.curr_penalty = 0
          /\ ctx.prev_penalty = 0 /\ ctx.penalty = 0
      BY DEF Init, B!Init, B!Zeroed
    <2> QED
      BY <2>1, <2>2 DEF OwnInv, Larger
  <1>2. OwnInv => BoreRecovers
    BY DEF OwnInv, BoreRecovers
  <1> QED
    BY <1>1, <1>2, SlotStart, SlotStep, OwnStep, PTL DEF Spec

===============================================================================
