------------------------------ MODULE SharedSlot ------------------------------
(***************************************************************************)
(* Both scheduler modules at once.  bore_get_ctx_se and latency_get_se     *)
(* return the same address, android_kabi_reserved1 of the scheduling       *)
(* entity: latency_sched_entity lies over BORE's burst_time, its offset in *)
(* the low word, its nice value above it.  BoreBurst and LatencySched act  *)
(* in turn on one task, Self, and each sees what the other has written; of *)
(* the other tasks only the slot is kept.  BORE is loaded first, which is  *)
(* the order of kernel_modules.mk, and stays.                              *)
(***************************************************************************)
EXTENDS BoreMath, Sequences

CONSTANTS
    Deltas, Statics, Kthreads, Smoothness, Offsets, Scales, Defaults,
    BoreEnv,                                      \* as in BoreBurst
    Tasks, Maxes, DefaultMax, IntHalf, LongHalf,
    LatencyEnv,                                   \* as in LatencySched
    Self,        \* the task whose slot is modelled
    NiceSpan,    \* 2^16: the values of an s16
    Bursts       \* burst times of the other tasks

VARIABLES
    bmode, bregistered, tune, ctx, kthread, prio, applied,   \* of BoreBurst
    lmode, todo, lregistered, enabled, max, entity, static, fair,
                                                             \* of LatencySched
    reniced,     \* set_user_nice is under way and holds Self's run queue lock
    own          \* history: what Self has earned by its own running (below)

bore == <<bmode, bregistered, tune, ctx, kthread, prio, applied>>
latency == <<lmode, todo, lregistered, enabled, max, entity, static, fair>>
vars == <<bmode, bregistered, tune, ctx, kthread, prio, applied, lmode, todo,
          lregistered, enabled, max, entity, static, fair, reniced, own>>

\* Self is not followed into its children.
B == INSTANCE BoreBurst
       WITH mode <- bmode, registered <- bregistered, static <- prio,
            Env <- BoreEnv, Inherited <- {}, birth <- -1

L == INSTANCE LatencySched
       WITH mode <- lmode, registered <- lregistered, Env <- LatencyEnv

\* Those of the two modules, and that the slot ends within a u64.
ASSUME SharedSlotAssumption ==
    /\ Deltas \subseteq Nat /\ Statics \subseteq 0 .. Levels - 1
    /\ Kthreads \subseteq BOOLEAN /\ Defaults \in B!Tunables
    /\ Smoothness \subseteq Nat /\ Offsets \subseteq Nat /\ Scales \subseteq Nat
    /\ IntHalf \in Nat \ {0} /\ LongHalf \in Nat \ {0}
    /\ Maxes \subseteq -LongHalf .. LongHalf - 1 /\ DefaultMax \in Maxes
    /\ Self \in Tasks
    /\ NiceSpan \in Nat /\ NiceSpan >= 40
    /\ pow2[TimeBits] % (2 * IntHalf * NiceSpan) = 0
    /\ Bursts \subseteq 0 .. pow2[TimeBits] - 1
    /\ LatencyEnv \cap {"fork", "policy"} = {}
    /\ "module" \notin BoreEnv

-----------------------------------------------------------------------------
(* The two views of the slot *)

\* A burst time seen as a latency_sched_entity.
EntityOf(burst) ==
    LET half == NiceSpan \div 2
        upper == (burst \div (2 * IntHalf)) % NiceSpan
    IN  [latency_offset |-> L!Narrow(burst, IntHalf),
         latency_nice |-> L!Narrow(upper, half)]

\* A latency_sched_entity seen as a burst time; flags, above the nice value,
\* are not written.
BurstOf(lse, burst) ==
    LET low == 2 * IntHalf
    IN  (burst \div (low * NiceSpan)) * low * NiceSpan
          + (lse.latency_nice % NiceSpan) * low
          + (lse.latency_offset % low)

\* Latency-nice sees what BORE has stored.
ToLatency == entity' = [entity EXCEPT ![Self] = EntityOf(ctx'.burst_time)]

-----------------------------------------------------------------------------
(* What Self has earned itself: the time it was charged for since its burst *)
(* began and the largest penalty of that, and the largest penalty of the    *)
(* burst before; -1 where latency-nice has written over that burst's time.  *)

Unwritten == [time |-> 0, most |-> 0, last |-> 0]

Overwritten == [time |-> -1, most |-> 0, last |-> -1]

Ran(delta) ==
    LET time == own.time + delta
        penalty == calc_burst_penalty(time, tune.offset, tune.scale)
    IN  IF own.time = -1 THEN own
        ELSE [own EXCEPT !.time = time, !.most = Larger(@, penalty)]

Ended == [time |-> 0, most |-> 0,
          last |-> IF own.time = -1 THEN -1 ELSE own.most]

\* BORE sees what latency-nice has stored.
ToBore ==
    IF entity'[Self] = entity[Self] THEN UNCHANGED <<ctx, own>>
    ELSE /\ ctx' = [ctx EXCEPT !.burst_time = BurstOf(entity'[Self], @)]
         /\ own' = Overwritten

-----------------------------------------------------------------------------
(* Actions *)

\* The hooks of BORE and its sysctls.
BoreStep ==
    /\ ~reniced
    /\ \/ \E delta \in Deltas : B!Charge(delta) /\ own' = Ran(delta)
       \/ (B!DequeueTaskFair \/ B!YieldTaskFair) /\ own' = Ended
       \/ B!Retune /\ UNCHANGED own
    /\ ToLatency
    /\ UNCHANGED <<lmode, todo, lregistered, enabled, max, static, fair, reniced>>

\* set_user_nice: the weight first, through BORE's hook, then latency-nice's.
Renice ==
    \/ /\ ~reniced
       /\ B!Renice
       /\ reniced' = TRUE
       /\ UNCHANGED <<latency, own>>
    \/ /\ reniced
       /\ L!SetUserNice(Self)
       /\ static'[Self] = IF prio < NiceZero THEN -1
                          ELSE IF prio > NiceZero THEN 1 ELSE 0
       /\ ToBore
       /\ reniced' = FALSE
       /\ UNCHANGED <<bmode, bregistered, tune, kthread, prio, applied>>

\* Latency-nice's module, and other tasks.
LatencyStep ==
    /\ \/ L!Retune \/ L!Load \/ L!Register \/ L!Unwind \/ L!Unload
       \/ \E t \in Tasks : L!ScanTask(t)
       \/ \E t \in Tasks \ {Self} : L!SetUserNice(t)
    /\ ToBore
    /\ UNCHANGED <<bmode, bregistered, tune, kthread, prio, applied, reniced>>

\* init_latency_tasks takes no run queue lock.  BORE's "burst_time += delta" may
\* read before both of its writes and write after both, or between them; or
\* read between them and write after both: the whole slot, the nice value or
\* the offset keeps what it was before.
ScanRaced ==
    LET new == L!Updated(entity[Self], static[Self], fair[Self])
    IN  /\ lmode = "scanning" /\ Self \in todo
        /\ B!Registered("update_curr") /\ tune.sched_bore /\ ~reniced
        /\ todo' = todo \ {Self}
        /\ \/ UNCHANGED entity
           \/ entity' = [entity EXCEPT ![Self].latency_offset = new.latency_offset]
           \/ entity' = [entity EXCEPT ![Self].latency_nice = new.latency_nice]
        /\ ToBore
        /\ UNCHANGED <<bmode, bregistered, tune, kthread, prio, applied, lmode,
                       lregistered, enabled, max, static, fair, reniced>>

\* BORE charges another task: its slot then holds any burst time.
OtherRuns ==
    /\ B!Registered("update_curr") /\ tune.sched_bore
    /\ \E t \in Tasks \ {Self}, burst \in Bursts :
          entity' = [entity EXCEPT ![t] = EntityOf(burst)]
    /\ UNCHANGED <<bore, lmode, todo, lregistered, enabled, max, static, fair,
                   reniced, own>>

Init ==
    /\ B!Init /\ L!Init
    /\ \A t \in Tasks : fair[t]
    /\ static[Self] = IF prio < NiceZero THEN -1
                      ELSE IF prio > NiceZero THEN 1 ELSE 0
    /\ reniced = FALSE
    /\ own = Unwritten

Next == BoreStep \/ Renice \/ LatencyStep \/ ScanRaced \/ OtherRuns

Spec == Init /\ [][Next]_vars

-----------------------------------------------------------------------------
(* Properties *)

\* Types.  BORE's penalties stay in range although its burst time is at times
\* a nice value and an offset, and so does the priority whose weight is looked
\* up; latency-nice respects the present maximum although the offsets it reads
\* are at times burst times.
BothInRange == B!TypeOK /\ B!WeightInRange /\ L!OffsetWithinMax

\* BORE recovers from what latency-nice stores over its burst time.  In a burst
\* that latency-nice has not written to, the burst time is the time the task
\* was charged for; and when that is so for the burst before as well, the task
\* is penalised for no more than it earned in these two, although the history
\* was smoothed from foreign values.
BoreRecovers ==
    own.time # -1 =>
        /\ ctx.burst_time = own.time
        /\ own.last # -1 => ctx.penalty <= Larger(own.most, own.last)

=============================================================================
