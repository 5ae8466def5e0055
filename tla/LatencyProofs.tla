----------------------------- MODULE LatencyProofs -----------------------------
(***************************************************************************)
(* Proofs about LatencySched, for any number of tasks, any width of the    *)
(* integers and any maxima.                                                *)
(***************************************************************************)
EXTENDS LatencySched, TLAPS

-----------------------------------------------------------------------------
(* Offsets *)

\* A narrowed number is in range, and one that was in range is unchanged.
LEMMA NarrowRange ==
    ASSUME NEW x \in Int, NEW half \in Nat, half >= 1
    PROVE  /\ Narrow(x, half) \in -half .. half - 1
           /\ x \in -half .. half - 1 => Narrow(x, half) = x
  <1> DEFINE w == 2 * half
             y == x + half
  <1>1. w \in Nat /\ w >= 1 /\ y \in Int
    OBVIOUS
  <1> HIDE DEF w, y
  <1>2. y % w \in 0 .. w - 1
    BY <1>1
  <1>3. y \in 0 .. w - 1 => y % w = y
    BY <1>1
  <1> QED
    BY <1>2, <1>3 DEF Narrow, w, y

\* Division towards zero shrinks a number and keeps its sign.
LEMMA QuotientSign ==
    ASSUME NEW x \in Int
    PROVE  /\ Quotient(x, 20) \in Int
           /\ x >= 0 => Quotient(x, 20) >= 0 /\ 20 * Quotient(x, 20) <= x
           /\ x <= 0 => Quotient(x, 20) <= 0 /\ 20 * Quotient(x, 20) >= x
  BY DEF Quotient

\* calc_latency_offset fits an s32 for every maximum.
LEMMA OffsetTyped ==
    ASSUME NEW n \in Nices, NEW m \in Maxes
    PROVE  calc_latency_offset(n, m) \in -IntHalf .. IntHalf - 1
  <1> DEFINE product == Narrow(m * n, LongHalf)
             offset == Quotient(product, 20)
  <1>1. m * n \in Int
    BY LatencyAssumption DEF Nices, MIN_LATENCY_NICE, DEFAULT_LATENCY_NICE,
      MAX_LATENCY_NICE
  <1>2. LongHalf \in Nat /\ LongHalf >= 1 /\ IntHalf \in Nat /\ IntHalf >= 1
    BY LatencyAssumption
  <1>3. product \in Int
    BY <1>1, <1>2, NarrowRange
  <1> HIDE DEF product
  <1>4. offset \in Int
    BY <1>3, QuotientSign
  <1> HIDE DEF offset
  <1>5. Narrow(offset, IntHalf) \in -IntHalf .. IntHalf - 1
    BY <1>2, <1>4, NarrowRange
  <1> QED
    BY <1>5 DEF calc_latency_offset, offset, product

\* For a maximum that fits an s32, it has the sign of the nice value.
LEMMA OffsetSign ==
    ASSUME NEW n \in Nices, NEW m \in 0 .. IntHalf - 1
    PROVE  LET offset == calc_latency_offset(n, m)
           IN  /\ n < 0 => offset <= 0
               /\ n = 0 => offset = 0
               /\ n > 0 => offset >= 0
  <1> DEFINE product == m * n
             offset == Quotient(product, 20)
  <1>1. IntHalf \in Nat /\ IntHalf >= 1 /\ LongHalf \in Nat /\ LongHalf >= 1
        /\ LongHalf >= 20 * IntHalf
    BY LatencyAssumption
  <1>2. n \in Int /\ n >= -20 /\ n <= 19
    BY DEF Nices, MIN_LATENCY_NICE, DEFAULT_LATENCY_NICE, MAX_LATENCY_NICE
  <1>3. /\ product \in Int
        /\ product >= -(20 * m) /\ product <= 20 * m
        /\ n < 0 => product <= 0
        /\ n = 0 => product = 0
        /\ n > 0 => product >= 0
    BY <1>1 DEF Nices, MIN_LATENCY_NICE, DEFAULT_LATENCY_NICE, MAX_LATENCY_NICE
  <1> HIDE DEF product
  <1>4. Narrow(product, LongHalf) = product
    <2>1. product \in -LongHalf .. LongHalf - 1
      BY <1>1, <1>3
    <2> QED
      BY <1>1, <1>3, <2>1, NarrowRange
  <1>5. /\ offset \in Int
        /\ product >= 0 => offset >= 0 /\ 20 * offset <= product
        /\ product <= 0 => offset <= 0 /\ 20 * offset >= product
    BY <1>3, QuotientSign
  <1> HIDE DEF offset
  <1>6. Narrow(offset, IntHalf) = offset
    <2>1. offset \in -IntHalf .. IntHalf - 1
      BY <1>1, <1>3, <1>5
    <2> QED
      BY <1>1, <1>5, <2>1, NarrowRange
  <1>7. calc_latency_offset(n, m) = offset
    BY <1>4, <1>6 DEF calc_latency_offset, offset, product
  <1> QED
    BY <1>2, <1>3, <1>5, <1>7

-----------------------------------------------------------------------------
(* Entities *)

Entities == [latency_offset : -IntHalf .. IntHalf - 1, latency_nice : Nices]

\* The offset has the sign of the nice value.
SameSign(e) ==
    Maxes \subseteq 0 .. IntHalf - 1 =>
        /\ e.latency_nice < 0 => e.latency_offset <= 0
        /\ e.latency_nice = 0 => e.latency_offset = 0
        /\ e.latency_nice > 0 => e.latency_offset >= 0

\* update_task_latency_nice keeps types and signs.
LEMMA UpdatedTyped ==
    ASSUME max \in Maxes, NEW old \in Entities, SameSign(old),
           NEW prio \in {-1, 0, 1}, NEW eligible \in BOOLEAN
    PROVE  /\ Updated(old, prio, eligible) \in Entities
           /\ SameSign(Updated(old, prio, eligible))
  <1> DEFINE n == NiceOf(prio)
             offset == calc_latency_offset(n, max)
             new == [latency_nice |-> n, latency_offset |-> offset]
  <1>1. n \in Nices
    BY DEF NiceOf, Nices
  <1>2. offset \in -IntHalf .. IntHalf - 1
    BY <1>1, OffsetTyped
  <1>3. Maxes \subseteq 0 .. IntHalf - 1 =>
          /\ n < 0 => offset <= 0
          /\ n = 0 => offset = 0
          /\ n > 0 => offset >= 0
    BY <1>1, OffsetSign
  <1> HIDE DEF n, offset
  <1>4. new \in Entities /\ SameSign(new)
    BY <1>1, <1>2, <1>3 DEF Entities, SameSign
  <1>5. Updated(old, prio, eligible) = old \/ Updated(old, prio, eligible) = new
    BY DEF Updated, n, offset
  <1> QED
    BY <1>4, <1>5

\* probe_latency_init_entity leaves an entity whose offset has the right
\* sign.
LEMMA ZeroedTyped == Zeroed \in Entities /\ SameSign(Zeroed)
  <1>1. 0 \in -IntHalf .. IntHalf - 1
    BY LatencyAssumption
  <1> QED
    BY <1>1 DEF Zeroed, Entities, SameSign, Nices, DEFAULT_LATENCY_NICE

\* The inductive invariant.
IInv == TypeOK /\ \A t \in Tasks : SameSign(entity[t])

\* Whatever happens to tasks and tunables, every offset is an s32, and has the
\* sign of its nice value if the maxima fit an s32.
THEOREM Inductive == Spec => []IInv
  <1>1. Init => IInv
    <2> SUFFICES ASSUME Init PROVE IInv
      OBVIOUS
    <2>1. entity \in [Tasks -> Entities] /\ \A t \in Tasks : SameSign(entity[t])
      BY ZeroedTyped DEF Init
    <2> QED
      <3>1. max \in Maxes
        BY LatencyAssumption DEF Init
      <3>2. /\ todo \subseteq Tasks /\ enabled \in BOOLEAN /\ mode = "absent"
            /\ static \in [Tasks -> {-1, 0, 1}] /\ fair \in [Tasks -> BOOLEAN]
        BY DEF Init
      <3>3. registered \in 0 .. NumHooks
        BY DEF Init, NumHooks
      <3> QED
        BY <2>1, <3>1, <3>2, <3>3 DEF IInv, TypeOK, Entities
  <1>2. IInv /\ [Next]_vars => IInv'
    <2> SUFFICES ASSUME IInv, [Next]_vars
                 PROVE  IInv'
      OBVIOUS
    <2>t. /\ TypeOK /\ max \in Maxes
          /\ entity \in [Tasks -> Entities]
          /\ \A t \in Tasks : entity[t] \in Entities /\ SameSign(entity[t])
          /\ \A t \in Tasks : static[t] \in {-1, 0, 1}
          /\ \A t \in Tasks : fair[t] \in BOOLEAN
      BY DEF IInv, TypeOK, Entities
    <2>e. ASSUME NEW t \in Tasks, NEW e \in Entities, SameSign(e),
                 entity' = [entity EXCEPT ![t] = e]
          PROVE  entity' \in [Tasks -> Entities]
                 /\ \A u \in Tasks : SameSign(entity'[u])
      BY <2>t, <2>e
    <2>k. UNCHANGED entity => entity' \in [Tasks -> Entities]
                              /\ \A u \in Tasks : SameSign(entity'[u])
      BY <2>t
    <2>1. ASSUME NEW t \in Tasks, SetUserNice(t)
          PROVE  IInv'
      <3>1. static' \in [Tasks -> {-1, 0, 1}]
        BY <2>1, <2>t DEF SetUserNice, TypeOK
      <3>2. entity' \in [Tasks -> Entities]
            /\ \A u \in Tasks : SameSign(entity'[u])
        <4> DEFINE e == Updated(entity[t], static'[t], fair[t])
        <4>1. e \in Entities /\ SameSign(e)
          BY <2>t, <3>1, UpdatedTyped
        <4>2. UNCHANGED entity \/ entity' = [entity EXCEPT ![t] = e]
          BY <2>1 DEF SetUserNice
        <4> QED
          BY <2>e, <2>k, <4>1, <4>2
      <3> QED
        BY <2>1, <2>t, <3>1, <3>2 DEF SetUserNice, IInv, TypeOK, Entities, module
    <2>2. ASSUME NEW t \in Tasks, SetScheduler(t)
          PROVE  IInv'
      <3>1. fair' \in [Tasks -> BOOLEAN]
        BY <2>2, <2>t DEF SetScheduler, TypeOK
      <3> QED
        BY <2>2, <2>t, <2>k, <3>1 DEF SetScheduler, IInv, TypeOK, Entities, module
    <2>3. ASSUME NEW t \in Tasks, ScanTask(t)
          PROVE  IInv'
      <3> DEFINE e == Updated(entity[t], static[t], fair[t])
      <3>1. e \in Entities /\ SameSign(e)
        BY <2>t, UpdatedTyped
      <3>2. entity' = [entity EXCEPT ![t] = e]
        BY <2>3 DEF ScanTask
      <3>3. entity' \in [Tasks -> Entities]
            /\ \A u \in Tasks : SameSign(entity'[u])
        BY <2>e, <3>1, <3>2
      <3> QED
        BY <2>3, <2>t, <3>3 DEF ScanTask, IInv, TypeOK, Entities
    <2>4. ASSUME NEW t \in Tasks, NEW parent \in Tasks, Fork(t, parent)
          PROVE  IInv'
      <3> DEFINE e == IF Registered("init_entity") THEN Zeroed ELSE entity[parent]
      <3>1. e \in Entities /\ SameSign(e)
        BY <2>t, ZeroedTyped
      <3>2. entity' = [entity EXCEPT ![t] = e]
        BY <2>4 DEF Fork
      <3>3. entity' \in [Tasks -> Entities]
            /\ \A u \in Tasks : SameSign(entity'[u])
        BY <2>e, <3>1, <3>2
      <3>4. fair' \in [Tasks -> BOOLEAN] /\ static' \in [Tasks -> {-1, 0, 1}]
        BY <2>4, <2>t DEF Fork, TypeOK
      <3>5. todo' \subseteq Tasks
        BY <2>4, <2>t DEF Fork, TypeOK
      <3> QED
        BY <2>4, <2>t, <3>3, <3>4, <3>5 DEF Fork, IInv, TypeOK, Entities
    <2>5. CASE Retune \/ Load
      <3>1. max' \in Maxes /\ enabled' \in BOOLEAN /\ todo' \subseteq Tasks
        BY <2>5, <2>t, LatencyAssumption DEF Retune, Load, TypeOK, module
      <3>2. UNCHANGED <<registered, entity, static, fair>>
            /\ (UNCHANGED mode \/ mode' = "scanning")
        BY <2>5 DEF Retune, Load, module, task
      <3> QED
        BY <2>t, <2>k, <3>1, <3>2 DEF IInv, TypeOK, Entities
    <2>6. CASE Register \/ Unwind \/ Unload
      <3>1. registered' \in 0 .. NumHooks
        BY <2>6, <2>t DEF Register, Unwind, Unload, TypeOK, NumHooks
      <3>2. mode' \in {"absent", "scanning", "active", "unwinding", "noop",
                       "unloading"}
        BY <2>6, <2>t DEF Register, Unwind, Unload, TypeOK
      <3>3. enabled' \in BOOLEAN /\ todo' \subseteq Tasks /\ max' \in Maxes
        BY <2>6, <2>t DEF Register, Unwind, Unload, TypeOK
      <3>4. UNCHANGED <<entity, static, fair>>
        BY <2>6 DEF Register, Unwind, Unload, task
      <3> QED
        BY <2>t, <2>k, <3>1, <3>2, <3>3, <3>4 DEF IInv, TypeOK, Entities
    <2>7. CASE UNCHANGED vars
      BY <2>7, <2>t, <2>k DEF vars, IInv, TypeOK, Entities
    <2> QED
      BY <2>1, <2>2, <2>3, <2>4, <2>5, <2>6, <2>7 DEF Next
  <1> QED
    BY <1>1, <1>2, PTL DEF Spec

\* Offsets fit their s32.
THEOREM LatencyTypeCorrect == Spec => []TypeOK
  BY Inductive, PTL DEF IInv

-----------------------------------------------------------------------------
(* Probes *)

\* The offset a probe returns, and what it is computed from.
LEMMA OffsetCases ==
    ASSUME TypeOK, NEW hook \in Probes, NEW a \in Tasks, NEW b \in Tasks
    PROVE  /\ entity[a].latency_offset \in Int
           /\ entity[b].latency_offset \in Int
           /\ max \in Int
           /\ \/ Offset(hook, a, b) = 0
              \/ Offset(hook, a, b)
                   = Clamped(IF entity[b].latency_offset < 0
                                \/ entity[a].latency_offset < 0
                             THEN entity[b].latency_offset
                                    - entity[a].latency_offset
                             ELSE entity[b].latency_offset)
  <1>1. /\ entity[a].latency_offset \in -IntHalf .. IntHalf - 1
        /\ entity[b].latency_offset \in -IntHalf .. IntHalf - 1
    BY DEF TypeOK
  <1>2. max \in Int /\ IntHalf \in Int
    BY LatencyAssumption DEF TypeOK
  <1>3. \/ Offset(hook, a, b) = 0
        \/ Offset(hook, a, b) = wakeup_latency_gran(a, b)
    BY DEF Offset
  <1> QED
    BY <1>1, <1>2, <1>3 DEF wakeup_latency_gran

\* No probe returns more than the present maximum.
THEOREM OffsetsClamped == Spec => []OffsetWithinMax
  <1>1. TypeOK => OffsetWithinMax
    <2> SUFFICES ASSUME TypeOK, max >= 0, NEW hook \in Probes,
                        NEW a \in Tasks, NEW b \in Tasks
                 PROVE  Offset(hook, a, b) \in -max .. max
      BY DEF OffsetWithinMax
    <2> QED
      BY OffsetCases DEF Clamped
  <1> QED
    BY <1>1, LatencyTypeCorrect, PTL

\* Two tasks are never each favoured over the other.
THEOREM PreemptionAsymmetric == Spec => []NoMutualPreemption
  <1>1. TypeOK => NoMutualPreemption
    <2> SUFFICES ASSUME TypeOK, max >= 0, NEW hook \in Probes,
                        NEW a \in Tasks, NEW b \in Tasks,
                        Offset(hook, a, b) < 0, Offset(hook, b, a) < 0
                 PROVE  FALSE
      BY DEF NoMutualPreemption
    <2> QED
      BY OffsetCases DEF Clamped
  <1> QED
    BY <1>1, LatencyTypeCorrect, PTL

\* A task of a more sensitive class is never held back for one of a less
\* sensitive class, whichever maxima their offsets stem from.
THEOREM ClassesKeepOrder == Spec => []ClassesOrdered
  <1>1. IInv => ClassesOrdered
    <2> SUFFICES ASSUME IInv, Maxes \subseteq 0 .. IntHalf - 1,
                        NEW hook \in Probes, NEW a \in Tasks, NEW b \in Tasks,
                        entity[a].latency_nice < entity[b].latency_nice
                 PROVE  Offset(hook, b, a) <= 0 /\ Offset(hook, a, b) >= 0
      BY DEF ClassesOrdered
    <2>1. max \in Nat /\ TypeOK
      BY LatencyAssumption DEF IInv, TypeOK
    <2>2. entity[a].latency_nice \in Nices /\ entity[b].latency_nice \in Nices
      BY DEF IInv, TypeOK
    <2>3. /\ entity[a].latency_offset \in Int /\ entity[b].latency_offset \in Int
          /\ entity[a].latency_nice < 0 => entity[a].latency_offset <= 0
          /\ entity[a].latency_nice = 0 => entity[a].latency_offset = 0
          /\ entity[b].latency_nice = 0 => entity[b].latency_offset = 0
          /\ entity[b].latency_nice > 0 => entity[b].latency_offset >= 0
      BY <2>1, OffsetCases DEF IInv, SameSign
    <2>4. entity[a].latency_offset <= 0 /\ entity[b].latency_offset >= 0
      BY <2>2, <2>3 DEF Nices, MIN_LATENCY_NICE, DEFAULT_LATENCY_NICE,
        MAX_LATENCY_NICE
    <2> QED
      BY <2>1, <2>3, <2>4, OffsetCases DEF Clamped
  <1> QED
    BY <1>1, Inductive, PTL

=============================================================================
