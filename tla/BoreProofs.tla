------------------------------ MODULE BoreProofs ------------------------------
(***************************************************************************)
(* Proofs about BoreBurst, for every width and scale that                  *)
(* BoreMathAssumption allows (the ones of the code among them) and every   *)
(* value of the sysctls.                                                   *)
(***************************************************************************)
EXTENDS BoreBurst, BoreMathProofs

-----------------------------------------------------------------------------
(* Burst accounting *)

CtxTypes == [burst_time : 0 .. pow2[TimeBits] - 1, prev_penalty : Penalties,
             curr_penalty : Penalties, penalty : Penalties]

\* Zero is a time and a penalty.
LEMMA ZeroInRange ==
    0 \in 0 .. pow2[TimeBits] - 1 /\ 0 \in 0 .. MAX_BURST_PENALTY
  <1>1. TimeBits \in 0 .. Bits
    BY BoreMathAssumption
  <1>2. pow2[TimeBits] \in Nat /\ pow2[TimeBits] >= 1
    BY <1>1, Powers
  <1> QED
    BY <1>2, MaxNat

\* update_penalty's flag is a Boolean.
LEMMA ProtectedBoolean == TypeOK => Protected \in BOOLEAN
  BY DEF TypeOK, Protected

\* What restart_burst_bore leaves of the context.
LEMMA RestartFields ==
    ASSUME TypeOK, Restart
    PROVE  /\ ctx' \in CtxTypes
           /\ ctx'.burst_time = 0
           /\ ctx'.curr_penalty = 0
           /\ ctx'.penalty = update_penalty(0, ctx'.prev_penalty, Protected)
           /\ IF ctx.curr_penalty > ctx.prev_penalty
              THEN ctx'.prev_penalty \in ctx.prev_penalty + 1 .. ctx.curr_penalty
              ELSE ctx'.prev_penalty = ctx.curr_penalty
  <1> DEFINE prev == binary_smooth(ctx.curr_penalty, ctx.prev_penalty,
                                   tune.smoothness)
  <1>1. /\ ctx.curr_penalty \in 0 .. MAX_BURST_PENALTY
        /\ ctx.prev_penalty \in 0 .. MAX_BURST_PENALTY
    BY DEF TypeOK, Penalties
  <1>2. tune.smoothness \in Nat
    BY BoreBurstAssumption DEF TypeOK, Tunables
  <1>3. IF ctx.curr_penalty > ctx.prev_penalty
        THEN prev \in ctx.prev_penalty + 1 .. ctx.curr_penalty
        ELSE prev = ctx.curr_penalty
    BY <1>1, <1>2, SmoothBetween
  <1>4. /\ ctx'.burst_time = 0 /\ ctx'.curr_penalty = 0
        /\ ctx'.prev_penalty = prev
        /\ ctx'.penalty = update_penalty(0, prev, Protected)
        /\ ctx' = [burst_time |-> 0, prev_penalty |-> prev,
                   curr_penalty |-> 0,
                   penalty |-> update_penalty(0, prev, Protected)]
    BY DEF Restart
  <1> HIDE DEF prev
  <1>5. prev \in 0 .. MAX_BURST_PENALTY
    BY <1>1, <1>3, MaxNat
  <1>6. 0 \in 0 .. MAX_BURST_PENALTY
    BY MaxNat
  <1>7. update_penalty(0, prev, Protected) \in 0 .. MAX_BURST_PENALTY
    BY <1>5, <1>6, UpdatePenaltyRange, ProtectedBoolean
  <1>8. 0 \in 0 .. pow2[TimeBits] - 1
    BY ZeroInRange
  <1> QED
    BY <1>3, <1>4, <1>5, <1>6, <1>7, <1>8 DEF CtxTypes, Penalties

\* What probe_bore_update_curr leaves of the context.
LEMMA UpdateFields ==
    ASSUME TypeOK, UpdateCurr
    PROVE  /\ ctx' \in CtxTypes
           /\ ctx'.burst_time >= ctx.burst_time
           /\ ctx'.prev_penalty = ctx.prev_penalty
           /\ \/ /\ ctx'.curr_penalty <= ctx.prev_penalty
                 /\ ctx'.penalty = ctx.penalty
                 /\ UNCHANGED <<applied, birth>>
              \/ /\ ctx'.curr_penalty > ctx.prev_penalty
                 /\ ctx'.penalty = update_penalty(ctx'.curr_penalty,
                                     ctx.prev_penalty, Protected)
                 /\ NewPrio(ctx'.penalty)
  <1> PICK delta_exec \in Deltas : Charge(delta_exec)
    BY DEF UpdateCurr
  <1> DEFINE burst == ctx.burst_time + delta_exec
             curr == calc_burst_penalty(burst, tune.offset, tune.scale)
             new == update_penalty(curr, ctx.prev_penalty, Protected)
  <1>1. /\ ctx \in CtxTypes
        /\ ctx.prev_penalty \in 0 .. MAX_BURST_PENALTY
        /\ ctx.burst_time \in Nat
    BY DEF TypeOK, CtxTypes, Penalties
  <1>2. burst \in 0 .. pow2[TimeBits] - 1 /\ burst >= ctx.burst_time
    <2>1. pow2[TimeBits] \in Nat /\ delta_exec \in Nat
      BY Powers, BoreMathAssumption, BoreBurstAssumption
    <2>2. burst < pow2[TimeBits]
      BY DEF Charge
    <2> QED
      BY <1>1, <2>1, <2>2
  <1>3. tune.offset \in Nat /\ tune.scale \in Nat
    BY BoreBurstAssumption DEF TypeOK, Tunables
  <1>4. curr \in 0 .. MAX_BURST_PENALTY
    BY <1>2, <1>3, CalcRange
  <1>5. new \in 0 .. MAX_BURST_PENALTY
    BY <1>1, <1>4, UpdatePenaltyRange, ProtectedBoolean
  <1>6. \/ /\ curr <= ctx.prev_penalty
           /\ ctx' = [ctx EXCEPT !.burst_time = burst, !.curr_penalty = curr]
           /\ UNCHANGED <<applied, birth>>
        \/ /\ ~(curr <= ctx.prev_penalty)
           /\ ctx' = [ctx EXCEPT !.burst_time = burst, !.curr_penalty = curr,
                                 !.penalty = new]
           /\ NewPrio(new)
    BY DEF Charge
  <1> HIDE DEF burst, curr
  <1>7. curr > ctx.prev_penalty <=> ~(curr <= ctx.prev_penalty)
    BY <1>1, <1>4, MaxNat
  <1>8. CASE /\ curr <= ctx.prev_penalty
             /\ ctx' = [ctx EXCEPT !.burst_time = burst, !.curr_penalty = curr]
             /\ UNCHANGED <<applied, birth>>
    BY <1>1, <1>2, <1>4, <1>8 DEF CtxTypes, Penalties
  <1>9. CASE /\ ~(curr <= ctx.prev_penalty)
             /\ ctx' = [ctx EXCEPT !.burst_time = burst, !.curr_penalty = curr,
                                   !.penalty = new]
             /\ NewPrio(new)
    <2> HIDE DEF new
    <2>1. /\ ctx' \in CtxTypes /\ ctx'.burst_time = burst
          /\ ctx'.curr_penalty = curr /\ ctx'.penalty = new
          /\ ctx'.prev_penalty = ctx.prev_penalty
      BY <1>1, <1>2, <1>4, <1>5, <1>9 DEF CtxTypes, Penalties
    <2> QED
      BY <1>2, <1>7, <1>9, <2>1 DEF new
  <1> QED
    BY <1>6, <1>8, <1>9

\* The hooks that end a burst.
EndsBurst == (DequeueTaskFair \/ YieldTaskFair)

\* init_bore_tasks leaves a proper context.
LEMMA ZeroedTyped == Zeroed \in CtxTypes
  BY ZeroInRange DEF Zeroed, CtxTypes, Penalties

\* What a fork gives the child: a copy, or a burst that begins with what the
\* hooks left of its history.
LEMMA ForkFields ==
    ASSUME TypeOK, TaskFork
    PROVE  /\ ctx' \in CtxTypes
           /\ \/ UNCHANGED ctx
              \/ /\ ctx'.burst_time = 0
                 /\ ctx'.curr_penalty = 0
                 /\ ctx'.penalty = update_penalty(0, ctx'.prev_penalty, Protected)
  <1>1. ctx \in CtxTypes
    BY DEF TypeOK, CtxTypes
  <1> DEFINE copy == IF Registered("init_entity") THEN Zeroed ELSE ctx
  <1>2. copy = ctx \/ copy = Zeroed
    OBVIOUS
  <1>3. copy \in CtxTypes
    BY <1>1, <1>2, ZeroedTyped
  <1>4. \/ ctx' = copy
        \/ \E inherited \in Inherited :
              ctx' = [burst_time |-> 0,
                      prev_penalty |-> Larger(copy.prev_penalty, inherited),
                      curr_penalty |-> 0,
                      penalty |-> update_penalty(0,
                          Larger(copy.prev_penalty, inherited), Protected)]
    BY DEF TaskFork
  <1> HIDE DEF copy
  <1>5. CASE ctx' = ctx
    BY <1>1, <1>5
  <1>6. CASE ctx' = Zeroed
    BY <1>6, ZeroedTyped DEF Zeroed, update_penalty, Larger
  <1>7. ASSUME NEW inherited \in Inherited, NEW prev,
               prev = Larger(copy.prev_penalty, inherited),
               ctx' = [burst_time |-> 0, prev_penalty |-> prev,
                       curr_penalty |-> 0,
                       penalty |-> update_penalty(0, prev, Protected)]
        PROVE  /\ ctx' \in CtxTypes
               /\ ctx'.burst_time = 0
               /\ ctx'.curr_penalty = 0
               /\ ctx'.penalty = update_penalty(0, ctx'.prev_penalty, Protected)
    <2>1. /\ inherited \in 0 .. MAX_BURST_PENALTY
          /\ copy.prev_penalty \in 0 .. MAX_BURST_PENALTY
      BY <1>3, BoreBurstAssumption DEF CtxTypes, Penalties
    <2>2. prev \in 0 .. MAX_BURST_PENALTY
      BY <1>7, <2>1 DEF Larger
    <2>3. update_penalty(0, prev, Protected) \in 0 .. MAX_BURST_PENALTY
      BY <2>2, ZeroInRange, UpdatePenaltyRange, ProtectedBoolean
    <2> QED
      BY <1>7, <2>2, <2>3, ZeroInRange DEF CtxTypes, Penalties
  <1> QED
    BY <1>2, <1>4, <1>5, <1>6, <1>7

\* The priorities the hooks compute, of the task and of a reniced one.
LEMMA PrioTyped ==
    ASSUME TypeOK, NEW p \in Penalties
    PROVE  Prio(p) \in 0 .. Levels - 1
  <1>1. static \in 0 .. Levels - 1 /\ tune.sched_bore \in BOOLEAN
    BY DEF TypeOK, Tunables
  <1>2. p \in Nat
    BY MaxNat DEF Penalties
  <1> QED
    BY <1>1, <1>2, PrioInRange DEF Prio

\* The weight of a reniced task comes from a valid index.
LEMMA RenicePrio ==
    ASSUME TypeOK, NEW n \in 0 .. Levels - 1
    PROVE  effective_prio_bore(n, ctx.penalty, TRUE) \in 0 .. Levels - 1
  <1>1. ctx.penalty \in Nat
    BY MaxNat DEF TypeOK, Penalties
  <1> QED
    BY <1>1, PrioInRange

\* bore_sched_init registers seven hooks.
LEMMA HookCount == Len(Hooks) = 7
  BY DEF Hooks

\* Every penalty is at most MAX_BURST_PENALTY, whatever the sysctls hold.
THEOREM BurstTypeCorrect == Spec => []TypeOK
  <1> USE BoreBurstAssumption, HookCount
  <1>1. Init => TypeOK
    <2> SUFFICES ASSUME Init PROVE TypeOK
      OBVIOUS
    <2>1. mode \in {"absent", "active"} /\ registered \in 0 .. Len(Hooks)
      BY DEF Init
    <2>2. /\ static \in 0 .. Levels - 1 /\ applied \in Int
          /\ birth \in -1 .. Levels - 1
      BY MaxNat DEF Init
    <2>3. kthread \in BOOLEAN
      BY DEF Init
    <2> QED
      BY <2>1, <2>2, <2>3, ZeroedTyped DEF Init, TypeOK, CtxTypes
  <1>2. TypeOK /\ [Next]_vars => TypeOK'
    <2> SUFFICES ASSUME TypeOK, [Next]_vars
                 PROVE  TypeOK'
      OBVIOUS
    <2>p. \A p \in Penalties : Prio(p) \in Int /\ Prio(p) \in -1 .. Levels - 1
      BY PrioTyped, MaxNat
    <2>b. -1 \in -1 .. Levels - 1
      BY MaxNat
    <2>1. CASE UpdateCurr
      <3>1. ctx' \in CtxTypes
        BY <2>1, UpdateFields
      <3>2. applied' \in Int /\ birth' \in -1 .. Levels - 1
        <4>1. ctx'.penalty \in Penalties
          BY <3>1 DEF CtxTypes
        <4>2. \/ UNCHANGED <<applied, birth>>
              \/ applied' = Prio(ctx'.penalty) /\ birth' = -1
          BY <2>1, UpdateFields DEF NewPrio
        <4> QED
          BY <2>p, <2>b, <4>1, <4>2 DEF TypeOK
      <3> QED
        BY <2>1, <3>1, <3>2 DEF UpdateCurr, Charge, TypeOK, CtxTypes, module
    <2>2. CASE EndsBurst
      <3>1. ctx' \in CtxTypes
        BY <2>2, RestartFields DEF EndsBurst, DequeueTaskFair, YieldTaskFair
      <3> QED
        BY <2>2, <3>1 DEF EndsBurst, DequeueTaskFair, YieldTaskFair, TypeOK,
          CtxTypes, module
    <2>3. CASE Renice
      <3>1. PICK n \in Statics :
              /\ static' = n
              /\ applied' \in {n, effective_prio_bore(n, ctx.penalty, TRUE)}
        BY <2>3 DEF Renice
      <3>2. n \in 0 .. Levels - 1 /\ n \in Int
        BY MaxNat
      <3>3. applied' \in 0 .. Levels - 1
        BY <3>1, <3>2, RenicePrio
      <3>4. applied' \in Int
        BY <3>3, MaxNat
      <3> QED
        BY <2>3, <2>b, <3>1, <3>2, <3>4 DEF Renice, TypeOK, module
    <2>4. CASE Retune \/ UNCHANGED vars
      BY <2>4 DEF Retune, vars, TypeOK, module
    <2>5. CASE Load
      BY <2>5, ZeroedTyped DEF Load, TypeOK, CtxTypes
    <2>6. CASE Register \/ Unload
      BY <2>6 DEF Register, Unload, TypeOK
    <2>7. CASE Unwind
      <3>1. tune' \in Tunables
        BY <2>7, ZenonT(60) DEF Unwind, TypeOK, Tunables
      <3>2. mode' \in {"absent", "loading", "active", "unwinding", "noop",
                       "unloading"}
        BY <2>7 DEF Unwind, TypeOK
      <3>3. registered' \in 0 .. Len(Hooks)
        BY <2>7 DEF Unwind, TypeOK
      <3> QED
        BY <2>7, <3>1, <3>2, <3>3 DEF Unwind, TypeOK
    <2>8. CASE TaskFork
      <3>1. ctx' \in CtxTypes
        BY <2>8, ForkFields
      <3>2. ctx'.penalty \in Penalties /\ birth' = Prio(ctx'.penalty)
        BY <2>8, <3>1 DEF CtxTypes, TaskFork
      <3>3. birth' \in -1 .. Levels - 1
        BY <2>p, <3>2
      <3> QED
        BY <2>8, <3>1, <3>3 DEF TaskFork, TypeOK, CtxTypes, module
    <2> QED
      BY <2>1, <2>2, <2>3, <2>4, <2>5, <2>6, <2>7, <2>8 DEF Next, EndsBurst
  <1> QED
    BY <1>1, <1>2, PTL DEF Spec

\* What the kernel indexes its table of weights with stays in range.
THEOREM WeightsInRange == Spec => []WeightInRange
  <1> DEFINE AppliedOK == applied \in 0 .. Levels - 1
  <1>1. Init => AppliedOK
    BY BoreBurstAssumption DEF Init
  <1>2. TypeOK /\ TypeOK' /\ AppliedOK /\ [Next]_vars => AppliedOK'
    <2> SUFFICES ASSUME TypeOK, AppliedOK, [Next]_vars
                 PROVE  AppliedOK'
      OBVIOUS
    <2>1. CASE UpdateCurr
      <3>1. ctx'.penalty \in Penalties
        BY <2>1, UpdateFields DEF CtxTypes
      <3>2. Prio(ctx'.penalty) \in 0 .. Levels - 1
        BY <3>1, PrioTyped
      <3>3. applied' = applied \/ applied' = Prio(ctx'.penalty)
        BY <2>1, UpdateFields DEF NewPrio
      <3> QED
        BY <3>2, <3>3
    <2>2. CASE Renice
      <3>1. PICK n \in Statics :
              applied' \in {n, effective_prio_bore(n, ctx.penalty, TRUE)}
        BY <2>2 DEF Renice
      <3>2. n \in 0 .. Levels - 1
        BY BoreBurstAssumption
      <3> QED
        BY <3>1, <3>2, RenicePrio
    <2>3. CASE UNCHANGED applied
      BY <2>3
    <2> QED
      BY <2>1, <2>2, <2>3 DEF Next, DequeueTaskFair, YieldTaskFair, TaskFork,
        Retune, Load, Register, Unwind, Unload, vars
  <1>3. TypeOK /\ AppliedOK => WeightInRange
    <2>1. TypeOK => ctx.penalty \in Penalties
      BY DEF TypeOK
    <2> QED
      BY <2>1, PrioTyped DEF WeightInRange
  <1> QED
    BY <1>1, <1>2, <1>3, BurstTypeCorrect, PTL DEF Spec

-----------------------------------------------------------------------------
(* Steps *)

\* A protected task never gains penalty.
THEOREM ProtectionHolds == Spec => ProtectedNeverGains
  <1>1. TypeOK /\ [Next]_vars =>
          [Protected /\ Protected' => ctx'.penalty <= ctx.penalty]_vars
    <2> SUFFICES ASSUME TypeOK, Next, Protected
                 PROVE  ctx'.penalty <= ctx.penalty
      BY DEF vars
    <2>1. ctx.penalty \in 0 .. MAX_BURST_PENALTY
      BY DEF TypeOK, Penalties
    <2>2. ctx.penalty >= 0 /\ ctx.penalty <= ctx.penalty
      BY <2>1, MaxNat
    <2>3. ctx'.penalty = ctx.penalty \/ ctx'.penalty = 0
      <3>1. CASE UpdateCurr
        BY <3>1, UpdateFields DEF update_penalty
      <3>2. CASE EndsBurst
        BY <3>2, RestartFields DEF EndsBurst, DequeueTaskFair, YieldTaskFair,
          update_penalty
      <3>3. CASE Load
        BY <3>3 DEF Load, Zeroed
      <3>4. CASE UNCHANGED ctx
        BY <3>4
      <3>5. CASE TaskFork
        BY <3>5, ForkFields DEF update_penalty
      <3> QED
        BY <3>1, <3>2, <3>3, <3>4, <3>5 DEF Next, EndsBurst, Renice, Retune, Register,
          Unwind, Unload
    <2> QED
      BY <2>2, <2>3
  <1> QED
    BY <1>1, BurstTypeCorrect, PTL DEF Spec, ProtectedNeverGains

\* A finished burst moves the history towards the penalty it earned.
THEOREM HistoryMoves == Spec => HistoryConverges
  <1> DEFINE Moved == IF ctx.curr_penalty > ctx.prev_penalty
                      THEN ctx'.prev_penalty
                             \in ctx.prev_penalty + 1 .. ctx.curr_penalty
                      ELSE ctx'.prev_penalty = ctx.curr_penalty
  <1>1. TypeOK /\ [Next]_vars => [DequeueTaskFair \/ YieldTaskFair => Moved]_vars
    <2> SUFFICES ASSUME TypeOK, DequeueTaskFair \/ YieldTaskFair
                 PROVE  Moved
      OBVIOUS
    <2> QED
      BY RestartFields DEF DequeueTaskFair, YieldTaskFair
  <1> QED
    BY <1>1, BurstTypeCorrect, PTL DEF Spec, HistoryConverges

-----------------------------------------------------------------------------
(* The weight *)

\* What WeightNotBetter needs to be inductive.  The penalty covers both the
\* running burst and the history, so that a restart, which sets no weight,
\* cannot raise it; and a module that is never unloaded is never loaded anew.
\* A fork may raise it, and then birth is the priority it stands for.
Covered ==
    ~Protected => /\ ctx.penalty >= ctx.curr_penalty
                  /\ ctx.penalty >= ctx.prev_penalty

Owed == applied >= Prio(ctx.penalty) \/ Prio(ctx.penalty) <= birth

WeightInv == Env = {} => mode = "active" /\ Covered /\ Owed

\* The weight favours no task over its penalty beyond what it was forked with,
\* for every setting of the sysctls: no assumption that penalties grow with the
\* burst is needed.
THEOREM WeightCovers == Spec => []WeightNotBetter
  <1>1. TypeOK /\ Init => WeightInv
    <2> SUFFICES ASSUME TypeOK, Init, Env = {}
                 PROVE  mode = "active" /\ Covered /\ Owed
      BY DEF WeightInv
    <2>1. mode = "active"
      BY DEF Init
    <2>2. Covered
      BY DEF Init, Covered, Zeroed
    <2>3. Owed
      <3>1. applied = static /\ ctx.penalty = 0 /\ static \in 0 .. Levels - 1
        BY DEF Init, Zeroed, TypeOK
      <3>2. bore_score(0) = 0
        BY Powers DEF bore_score
      <3>3. effective_prio_bore(static, 0, tune.sched_bore) = static
        BY <3>1, <3>2, MaxNat DEF effective_prio_bore, Positive
      <3> QED
        BY <3>1, <3>3, MaxNat DEF Prio, Owed
    <2> QED
      BY <2>1, <2>2, <2>3
  <1>2. TypeOK /\ TypeOK' /\ WeightInRange /\ WeightInv /\ [Next]_vars => WeightInv'
    <2> SUFFICES ASSUME TypeOK, TypeOK', WeightInRange, [Next]_vars, Env = {},
                        mode = "active", Covered, Owed
                 PROVE  (mode = "active" /\ Covered /\ Owed)'
      BY DEF WeightInv
    <2>t. /\ ctx.penalty \in Nat /\ ctx.curr_penalty \in Nat
          /\ ctx.prev_penalty \in Nat /\ ctx'.penalty \in Nat
          /\ ctx'.curr_penalty \in Nat /\ ctx'.prev_penalty \in Nat
          /\ ctx.penalty \in Penalties /\ ctx'.penalty \in Penalties
      BY MaxNat DEF TypeOK, Penalties
    <2>1. CASE UpdateCurr
      <3>1. UNCHANGED <<mode, tune, static, kthread>>
        BY <2>1 DEF UpdateCurr, Charge, module
      <3>2. Protected' <=> Protected
        BY <3>1 DEF Protected
      <3>3. Prio(ctx.penalty)' = Prio(ctx'.penalty)
        BY <3>1 DEF Prio
      <3>4. ctx'.prev_penalty = ctx.prev_penalty
        BY <2>1, UpdateFields
      <3>5. CASE /\ ctx'.curr_penalty <= ctx.prev_penalty
                 /\ ctx'.penalty = ctx.penalty
                 /\ UNCHANGED <<applied, birth>>
        <4>1. Covered'
          BY <2>t, <3>2, <3>4, <3>5 DEF Covered
        <4>2. Prio(ctx'.penalty) = Prio(ctx.penalty)
          BY <3>5
        <4> QED
          BY <3>1, <3>3, <3>5, <4>1, <4>2 DEF Owed
      <3>6. CASE /\ ctx'.curr_penalty > ctx.prev_penalty
                 /\ ctx'.penalty = update_penalty(ctx'.curr_penalty,
                                     ctx.prev_penalty, Protected)
                 /\ NewPrio(ctx'.penalty)
        <4>1. Covered'
          <5>1. ~Protected => ctx'.penalty = Larger(ctx'.curr_penalty,
                                                    ctx.prev_penalty)
            BY <3>6 DEF update_penalty
          <5> QED
            BY <2>t, <3>2, <3>4, <5>1 DEF Covered, Larger
        <4>2. Owed'
          <5>1. Prio(ctx'.penalty) \in 0 .. Levels - 1
            BY <2>t, PrioTyped
          <5>2. \/ applied' = Prio(ctx'.penalty)
                \/ /\ UNCHANGED <<applied, birth>>
                   /\ Prio(ctx'.penalty) = Prio(ctx.penalty)
            BY <3>6 DEF NewPrio
          <5> QED
            BY <3>3, <5>1, <5>2, MaxNat DEF Owed
        <4> QED
          BY <3>1, <4>1, <4>2
      <3> QED
        BY <2>1, <3>5, <3>6, UpdateFields
    <2>2. CASE EndsBurst
      <3>1. UNCHANGED <<mode, tune, static, kthread, applied, birth>> /\ Restart
        BY <2>2 DEF EndsBurst, DequeueTaskFair, YieldTaskFair, module
      <3>2. Protected' <=> Protected
        BY <3>1 DEF Protected
      <3>3. Prio(ctx.penalty)' = Prio(ctx'.penalty)
        BY <3>1 DEF Prio
      <3>4. /\ ctx'.curr_penalty = 0
            /\ ctx'.penalty = update_penalty(0, ctx'.prev_penalty, Protected)
            /\ \/ ctx'.prev_penalty <= ctx.curr_penalty
               \/ ctx'.prev_penalty = ctx.curr_penalty
        BY <2>t, <3>1, RestartFields
      <3>5. Covered' /\ ctx'.penalty <= ctx.penalty
        <4>1. CASE Protected
          <5>1. ctx'.penalty = 0
            BY <3>4, <4>1 DEF update_penalty
          <5> QED
            BY <2>t, <3>2, <4>1, <5>1 DEF Covered
        <4>2. CASE ~Protected
          <5>1. ctx'.penalty = Larger(0, ctx'.prev_penalty)
            BY <3>4, <4>2 DEF update_penalty
          <5>2. ctx'.penalty = ctx'.prev_penalty
            BY <2>t, <5>1 DEF Larger
          <5>3. ctx.penalty >= ctx.curr_penalty
            BY <4>2 DEF Covered
          <5>4. ctx'.penalty <= ctx.penalty
            BY <2>t, <3>4, <5>2, <5>3
          <5> QED
            BY <2>t, <3>4, <5>2, <5>4 DEF Covered
        <4> QED
          BY <4>1, <4>2
      <3>6. Prio(ctx'.penalty) <= Prio(ctx.penalty)
        <4>1. static \in 0 .. Levels - 1 /\ tune.sched_bore \in BOOLEAN
          BY DEF TypeOK, Tunables
        <4> QED
          BY <2>t, <3>5, <4>1, PrioMonotone DEF Prio
      <3>7. Owed'
        <4>1. /\ Prio(ctx'.penalty) \in 0 .. Levels - 1
              /\ Prio(ctx.penalty) \in 0 .. Levels - 1
          BY <2>t, PrioTyped
        <4>2. applied \in 0 .. Levels - 1 /\ birth \in -1 .. Levels - 1
          BY DEF WeightInRange, TypeOK
        <4> QED
          BY <3>1, <3>3, <3>6, <4>1, <4>2, MaxNat DEF Owed
      <3> QED
        BY <3>1, <3>5, <3>7
    <2>3. CASE UNCHANGED vars
      BY <2>3 DEF vars, Covered, Protected, Prio, Owed
    <2>4. CASE TaskFork
      <3>1. UNCHANGED <<mode, tune, static, kthread>> /\ birth' = Prio(ctx'.penalty)
        BY <2>4 DEF TaskFork, module
      <3>2. Protected' <=> Protected
        BY <3>1 DEF Protected
      <3>3. Covered'
        <4>1. CASE UNCHANGED ctx
          BY <3>2, <4>1 DEF Covered
        <4>2. CASE /\ ctx'.curr_penalty = 0
                   /\ ctx'.penalty = update_penalty(0, ctx'.prev_penalty, Protected)
          <5>1. ~Protected => ctx'.penalty = Larger(0, ctx'.prev_penalty)
            BY <4>2 DEF update_penalty
          <5> QED
            BY <2>t, <3>2, <4>2, <5>1 DEF Covered, Larger
        <4> QED
          BY <2>4, <4>1, <4>2, ForkFields
      <3>4. Prio(ctx.penalty)' = birth' /\ birth' \in Int
        BY <3>1, MaxNat DEF Prio, TypeOK
      <3> QED
        BY <3>1, <3>3, <3>4 DEF Owed
    <2> QED
      BY <2>1, <2>2, <2>3, <2>4 DEF Next, EndsBurst, Renice, Retune, Load, Register,
        Unwind, Unload
  <1>3. WeightInv => WeightNotBetter
    BY DEF WeightInv, WeightNotBetter, Owed
  <1> QED
    BY <1>1, <1>2, <1>3, BurstTypeCorrect, WeightsInRange, PTL DEF Spec

-----------------------------------------------------------------------------
(* The early return *)

Steady == Env \cap {"retune", "renice"} = {}

\* What PenaltyUpToDate needs to be inductive: the running penalty is the one
\* the burst time stands for, by the tunables the module was loaded with.
RunningExact ==
    /\ tune.offset = Defaults.offset /\ tune.scale = Defaults.scale
    /\ ctx.curr_penalty = calc_burst_penalty(ctx.burst_time, Defaults.offset,
                                             Defaults.scale)

CurrentInv ==
    Steady => /\ RunningExact
              /\ ctx.penalty = update_penalty(ctx.curr_penalty,
                                              ctx.prev_penalty, Protected)

LEMMA DefaultsNat == Defaults.offset \in Nat /\ Defaults.scale \in Nat
  BY BoreBurstAssumption DEF Tunables

\* A context whose burst has just begun.
LEMMA BegunExact ==
    ASSUME Unwrapped(Defaults.offset, Defaults.scale)
    PROVE  calc_burst_penalty(0, Defaults.offset, Defaults.scale) = 0
  BY ZeroInRange, DefaultsNat, CalcGrows

\* A longer burst has no lower penalty, so that where probe_bore_update_curr
\* returns early the history was already the larger part.
LEMMA CurrentStep ==
    ASSUME Unwrapped(Defaults.offset, Defaults.scale), TypeOK, TypeOK',
           CurrentInv, [Next]_vars
    PROVE  CurrentInv'
  <1> SUFFICES ASSUME Steady
               PROVE  /\ RunningExact'
                      /\ ctx'.penalty = update_penalty(ctx'.curr_penalty,
                                          ctx'.prev_penalty, Protected')
    BY DEF CurrentInv
  <1>0. /\ RunningExact
        /\ ctx.penalty = update_penalty(ctx.curr_penalty, ctx.prev_penalty,
                                        Protected)
    BY DEF CurrentInv
  <1> DEFINE calc(b) == calc_burst_penalty(b, Defaults.offset, Defaults.scale)
  <1>1. /\ tune' = tune \/ tune' = Defaults
              \/ tune' = [tune EXCEPT !.sched_bore = FALSE]
        /\ UNCHANGED <<kthread, static>>
    BY DEF Steady, Next, UpdateCurr, Charge, DequeueTaskFair, YieldTaskFair,
      TaskFork, Renice, Retune, Load, Register, Unwind, Unload, vars
  <1>2. tune'.offset = Defaults.offset /\ tune'.scale = Defaults.scale
    BY <1>0, <1>1 DEF RunningExact, TypeOK, Tunables
  <1>3. Protected' = Protected
    BY <1>1 DEF Protected
  <1>4. CASE UNCHANGED ctx
    BY <1>0, <1>2, <1>3, <1>4 DEF RunningExact
  <1>5. CASE Load
    <2>1. /\ ctx'.burst_time = 0 /\ ctx'.curr_penalty = 0
          /\ ctx'.prev_penalty = 0 /\ ctx'.penalty = 0
      BY <1>5 DEF Load, Zeroed
    <2> QED
      BY <1>2, <2>1, BegunExact DEF RunningExact, update_penalty, Larger
  <1>6. CASE EndsBurst
    <2>1. /\ ctx'.burst_time = 0 /\ ctx'.curr_penalty = 0
          /\ ctx'.penalty = update_penalty(0, ctx'.prev_penalty, Protected)
      BY <1>6, RestartFields DEF EndsBurst, DequeueTaskFair, YieldTaskFair
    <2> QED
      BY <1>2, <1>3, <2>1, BegunExact DEF RunningExact
  <1>7. CASE UpdateCurr
    <2>1. /\ ctx'.burst_time >= ctx.burst_time
          /\ ctx'.prev_penalty = ctx.prev_penalty
          /\ \/ /\ ctx'.curr_penalty <= ctx.prev_penalty
                /\ ctx'.penalty = ctx.penalty
             \/ /\ ctx'.curr_penalty > ctx.prev_penalty
                /\ ctx'.penalty = update_penalty(ctx'.curr_penalty,
                                    ctx.prev_penalty, Protected)
      BY <1>7, UpdateFields
    <2>2. ctx'.curr_penalty = calc(ctx'.burst_time)
      <3>1. PICK delta \in Deltas :
              LET burst == ctx.burst_time + delta
                  curr == calc_burst_penalty(burst, tune.offset, tune.scale)
                  new == update_penalty(curr, ctx.prev_penalty, Protected)
              IN  \/ ctx' = [ctx EXCEPT !.burst_time = burst,
                                        !.curr_penalty = curr]
                  \/ ctx' = [ctx EXCEPT !.burst_time = burst,
                                        !.curr_penalty = curr,
                                        !.penalty = new]
        BY <1>7 DEF UpdateCurr, Charge
      <3> QED
        BY <1>0, <3>1 DEF RunningExact, TypeOK
    <2>3. /\ ctx.burst_time \in 0 .. pow2[TimeBits] - 1
          /\ ctx'.burst_time \in 0 .. pow2[TimeBits] - 1
          /\ ctx.curr_penalty \in 0 .. MAX_BURST_PENALTY
          /\ ctx.prev_penalty \in 0 .. MAX_BURST_PENALTY
          /\ ctx'.curr_penalty \in 0 .. MAX_BURST_PENALTY
      BY DEF TypeOK, Penalties
    <2>4. ctx.curr_penalty <= ctx'.curr_penalty
      <3>1. ctx.burst_time <= ctx'.burst_time
        BY <2>1, <2>3
      <3> QED
        BY <1>0, <2>2, <2>3, <3>1, CalcGrows, DefaultsNat DEF RunningExact
    <2>5. CASE ctx'.curr_penalty <= ctx.prev_penalty /\ ctx'.penalty = ctx.penalty
      <3>1. Larger(ctx.curr_penalty, ctx.prev_penalty)
              = Larger(ctx'.curr_penalty, ctx.prev_penalty)
        BY <2>3, <2>4, <2>5, MaxNat DEF Larger
      <3> QED
        BY <1>0, <1>2, <1>3, <2>1, <2>2, <2>5, <3>1 DEF RunningExact, update_penalty
    <2> QED
      BY <1>2, <1>3, <2>1, <2>2, <2>5 DEF RunningExact
  <1>8. CASE TaskFork
    <2>1. CASE /\ ctx'.burst_time = 0 /\ ctx'.curr_penalty = 0
               /\ ctx'.penalty = update_penalty(0, ctx'.prev_penalty, Protected)
      BY <1>2, <1>3, <2>1, BegunExact DEF RunningExact
    <2> QED
      BY <1>4, <1>8, <2>1, ForkFields
  <1> QED
    BY <1>4, <1>5, <1>6, <1>7, <1>8 DEF Next, EndsBurst, Renice, Retune, Register,
      Unwind, Unload, vars

\* With the sysctls and the nice value left alone, the early return of
\* probe_bore_update_curr loses nothing: for all defaults by which
\* calc_burst_penalty does not wrap around, the module's own among them.
THEOREM PenaltyStaysUpToDate ==
    ASSUME Unwrapped(Defaults.offset, Defaults.scale)
    PROVE  Spec => []PenaltyUpToDate
  <1>1. Init => CurrentInv
    BY BegunExact DEF Init, CurrentInv, RunningExact, Zeroed, update_penalty,
      Larger
  <1>2. TypeOK /\ TypeOK' /\ CurrentInv /\ [Next]_vars => CurrentInv'
    BY CurrentStep
  <1>3. CurrentInv => PenaltyUpToDate
    BY DEF CurrentInv, PenaltyUpToDate, Steady
  <1> QED
    BY <1>1, <1>2, <1>3, BurstTypeCorrect, PTL DEF Spec

=============================================================================
