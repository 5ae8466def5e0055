------------------------------ MODULE BoreBurst ------------------------------
(***************************************************************************)
(* kernel/modules/bore_sched/bore_sched_main.c: the burst accounting of    *)
(* one task, through the hooks the scheduler calls (always under the       *)
(* task's run queue lock), while the module is loaded and unloaded and its *)
(* sysctls and the task's nice value change.  Where the task forks, its    *)
(* child is followed from then on; what a child inherits is the subject of *)
(* BoreInherit.                                                            *)
(***************************************************************************)
EXTENDS BoreMath, Sequences

CONSTANTS
    Deltas,      \* values of delta_exec
    Statics,     \* static_prio - MAX_RT_PRIO, one per nice value
    Kthreads,    \* whether the task may be a kernel thread: set of Booleans
    Smoothness,  \* values of sched_burst_smoothness
    Offsets,     \* values of sched_burst_penalty_offset
    Scales,      \* values of sched_burst_penalty_scale
    Defaults,    \* the tunables' initial values
    Inherited,   \* penalties the fork hook may find for a child
    Env          \* what may change: "retune", "renice", "module"

Tunables == [sched_bore : BOOLEAN, smoothness : Smoothness,
             offset : Offsets, scale : Scales]

ASSUME BoreBurstAssumption ==
    /\ Deltas \subseteq Nat
    /\ Statics \subseteq 0 .. Levels - 1
    /\ Kthreads \subseteq BOOLEAN
    /\ Smoothness \subseteq Nat /\ Offsets \subseteq Nat /\ Scales \subseteq Nat
    /\ Defaults \in Tunables
    /\ Inherited \subseteq 0 .. MAX_BURST_PENALTY
    /\ Env \subseteq {"retune", "renice", "module"}

VARIABLES
    mode,        \* "absent", "loading", "active", "unwinding", "noop", "unloading"
    registered,  \* how many of Hooks are registered
    tune,        \* the module's parameters
    ctx,         \* the task's bore_ctx
    kthread,     \* PF_KTHREAD
    static,      \* static_prio - MAX_RT_PRIO
    applied,     \* the priority whose weight the kernel gives the task
    birth        \* history: the priority the task was forked with, which no
                 \* hook has told the kernel; -1 once one has set a weight

module == <<mode, registered>>
vars == <<mode, registered, tune, ctx, kthread, static, applied, birth>>

\* The order of registration; bore_sched_exit and the error path of
\* bore_sched_init unregister in the reverse order.
Hooks == <<"update_curr", "dequeue_task_fair", "set_next_entity",
           "yield_task_fair", "task_fork", "init_entity", "set_load_weight">>

Registered(hook) == \E i \in 1 .. registered : Hooks[i] = hook

Zeroed == [burst_time |-> 0, prev_penalty |-> 0, curr_penalty |-> 0,
           penalty |-> 0]

Protected == kthread \/ static < NiceZero

\* effective_prio_bore of the task with the given penalty.
Prio(penalty) == effective_prio_bore(static, penalty, tune.sched_bore)

-----------------------------------------------------------------------------
(* The hooks *)

\* Slip: both priorities are computed from the new penalty, so that they
\* never differ.
NewPrioLate(penalty) == UNCHANGED <<applied, birth>>

\* update_penalty's *new_prio, which the kernel turns into a weight.
NewPrio(penalty) ==
    IF Prio(penalty) # Prio(ctx.penalty)
    THEN applied' = Prio(penalty) /\ birth' = -1
    ELSE UNCHANGED <<applied, birth>>

\* probe_bore_update_curr.  The guard bounds the u64 burst_time, which would
\* take centuries to wrap around.
Charge(delta_exec) ==
    LET burst == ctx.burst_time + delta_exec
        curr == calc_burst_penalty(burst, tune.offset, tune.scale)
        new == update_penalty(curr, ctx.prev_penalty, Protected)
    IN  /\ Registered("update_curr")
        /\ tune.sched_bore
        /\ burst < pow2[TimeBits]
        /\ IF curr <= ctx.prev_penalty
           THEN /\ ctx' = [ctx EXCEPT !.burst_time = burst,
                                      !.curr_penalty = curr]
                /\ UNCHANGED <<applied, birth>>
           ELSE /\ ctx' = [ctx EXCEPT !.burst_time = burst,
                                      !.curr_penalty = curr,
                                      !.penalty = new]
                /\ NewPrio(new)
        /\ UNCHANGED <<module, tune, kthread, static>>

UpdateCurr == \E delta_exec \in Deltas : Charge(delta_exec)

\* Slip: the burst time keeps its value.
RestartRunning ==
    LET prev == binary_smooth(ctx.curr_penalty, ctx.prev_penalty,
                              tune.smoothness)
    IN  ctx' = [burst_time |-> ctx.burst_time, prev_penalty |-> prev,
                curr_penalty |-> 0,
                penalty |-> update_penalty(0, prev, Protected)]

\* Slip: the penalty keeps its value.
RestartStale ==
    ctx' = [Zeroed EXCEPT
              !.prev_penalty = binary_smooth(ctx.curr_penalty,
                                             ctx.prev_penalty,
                                             tune.smoothness),
              !.penalty = ctx.penalty]

\* restart_burst_bore with a NULL new_prio: no weight is changed.
Restart ==
    LET prev == binary_smooth(ctx.curr_penalty, ctx.prev_penalty,
                              tune.smoothness)
    IN  ctx' = [burst_time |-> 0, prev_penalty |-> prev, curr_penalty |-> 0,
                penalty |-> update_penalty(0, prev, Protected)]

\* probe_bore_dequeue_task_fair with DEQUEUE_SLEEP; without it, nothing.
DequeueTaskFair ==
    /\ Registered("dequeue_task_fair")
    /\ tune.sched_bore
    /\ Restart
    /\ UNCHANGED <<module, tune, kthread, static, applied, birth>>

\* probe_bore_yield_task_fair.
YieldTaskFair ==
    /\ Registered("yield_task_fair")
    /\ tune.sched_bore
    /\ Restart
    /\ UNCHANGED <<module, tune, kthread, static, applied, birth>>

\* copy_process: the child starts as a copy of its creator, weight included;
\* probe_bore_init_entity clears its context and probe_bore_task_fork, for an
\* eligible task, gives it what it inherits, with a NULL new_prio.
TaskFork ==
    LET copy == IF Registered("init_entity") THEN Zeroed ELSE ctx
    IN  /\ \/ /\ Registered("task_fork") /\ tune.sched_bore
              /\ \E inherited \in Inherited :
                    LET prev == Larger(copy.prev_penalty, inherited)
                    IN  ctx' = [burst_time |-> 0, prev_penalty |-> prev,
                                curr_penalty |-> 0,
                                penalty |-> update_penalty(0, prev, Protected)]
           \/ ctx' = copy
        /\ birth' = Prio(ctx'.penalty)
    /\ UNCHANGED <<module, tune, kthread, static, applied>>

\* set_user_nice, which sets the weight anew through
\* probe_bore_set_load_weight.
Renice ==
    /\ "renice" \in Env
    /\ \E n \in Statics :
        /\ static' = n
        /\ applied' = IF Registered("set_load_weight") /\ tune.sched_bore
                      THEN effective_prio_bore(n, ctx.penalty, TRUE)
                      ELSE n
    /\ birth' = -1
    /\ UNCHANGED <<module, tune, ctx, kthread>>

-----------------------------------------------------------------------------
(* The module *)

\* bore_table and the module parameters: no limits are set.
Retune ==
    /\ "retune" \in Env
    /\ mode # "absent"
    /\ tune' \in Tunables
    /\ UNCHANGED <<module, ctx, kthread, static, applied, birth>>

\* bore_sched_init, up to the first registration: init_bore_tasks.
Load ==
    /\ mode = "absent"
    /\ mode' = "loading"
    /\ tune' = Defaults
    /\ ctx' = Zeroed
    /\ UNCHANGED <<registered, kthread, static, applied, birth>>

Register ==
    /\ mode = "loading"
    /\ IF registered < Len(Hooks)
       THEN \/ registered' = registered + 1 /\ UNCHANGED mode
            \/ mode' = "unwinding" /\ UNCHANGED registered
       ELSE mode' = "active" /\ UNCHANGED registered
    /\ UNCHANGED <<tune, ctx, kthread, static, applied, birth>>

\* The labels fail_set_load_weight down to fail_hooks.
Unwind ==
    /\ mode = "unwinding"
    /\ IF registered > 0
       THEN registered' = registered - 1 /\ UNCHANGED <<mode, tune>>
       ELSE /\ mode' = "noop"
            /\ tune' = [tune EXCEPT !.sched_bore = FALSE]
            /\ UNCHANGED registered
    /\ UNCHANGED <<ctx, kthread, static, applied, birth>>

\* bore_sched_exit.
Unload ==
    /\ "module" \in Env
    /\ \/ mode = "active" /\ mode' = "unloading" /\ UNCHANGED registered
       \/ /\ mode = "unloading" /\ registered > 0
          /\ registered' = registered - 1 /\ UNCHANGED mode
       \/ /\ \/ mode = "unloading" /\ registered = 0
             \/ mode = "noop"
          /\ mode' = "absent" /\ UNCHANGED registered
    /\ UNCHANGED <<tune, ctx, kthread, static, applied, birth>>

-----------------------------------------------------------------------------

\* Without "module" in Env the module has been loaded, for good.
Init ==
    /\ IF "module" \in Env
       THEN mode = "absent" /\ registered = 0
       ELSE mode = "active" /\ registered = Len(Hooks)
    /\ tune = Defaults
    /\ ctx = Zeroed
    /\ kthread \in Kthreads
    /\ static \in Statics
    /\ applied = static
    /\ birth = -1

Next ==
    \/ UpdateCurr \/ DequeueTaskFair \/ YieldTaskFair \/ TaskFork \/ Renice
    \/ Retune \/ Load \/ Register \/ Unwind \/ Unload

Spec == Init /\ [][Next]_vars

-----------------------------------------------------------------------------
(* Properties *)

Penalties == 0 .. MAX_BURST_PENALTY

\* Types.  Every penalty fits the u16 it is stored in, because it is at most
\* MAX_BURST_PENALTY: whatever is written to the sysctls, wrapped
\* multiplications and oversized shifts included.
TypeOK ==
    /\ mode \in {"absent", "loading", "active", "unwinding", "noop",
                 "unloading"}
    /\ registered \in 0 .. Len(Hooks)
    /\ tune \in Tunables
    /\ ctx \in [burst_time : 0 .. pow2[TimeBits] - 1, prev_penalty : Penalties,
                curr_penalty : Penalties, penalty : Penalties]
    /\ kthread \in BOOLEAN
    /\ static \in 0 .. Levels - 1
    /\ applied \in Int
    /\ birth \in -1 .. Levels - 1

\* The kernel indexes its table of Levels weights with what the hooks return:
\* it is always in range.
WeightInRange ==
    /\ applied \in 0 .. Levels - 1
    /\ Prio(ctx.penalty) \in 0 .. Levels - 1

\* With the tunables and the nice value left alone, the early return of
\* probe_bore_update_curr loses nothing: the penalty is always what
\* update_penalty would compute.
PenaltyUpToDate ==
    Env \cap {"retune", "renice"} = {} =>
        ctx.penalty = update_penalty(ctx.curr_penalty, ctx.prev_penalty,
                                     Protected)

\* With the module loaded, the tunables and the nice value left alone, the
\* weight favours a task over its penalty by no more than what it inherited
\* when it was forked, and only until probe_bore_update_curr first hands the
\* kernel a weight: of the hooks that pass no new_prio, the one of the fork
\* raises the penalty, and those that end a burst only ever lower it.
WeightNotBetter ==
    Env = {} => \/ applied >= Prio(ctx.penalty)
                \/ Prio(ctx.penalty) <= birth

\* A task that is protected (a kernel thread, or below nice 0) never gains
\* penalty, however the sysctls change.
ProtectedNeverGains ==
    [][Protected /\ Protected' => ctx'.penalty <= ctx.penalty]_vars

\* When a hook ends a burst, the remembered penalty moves towards the one the
\* burst earned: up by at least one step and not beyond it, down at once.
HistoryConverges ==
    [][DequeueTaskFair \/ YieldTaskFair =>
         IF ctx.curr_penalty > ctx.prev_penalty
         THEN ctx'.prev_penalty \in ctx.prev_penalty + 1 .. ctx.curr_penalty
         ELSE ctx'.prev_penalty = ctx.curr_penalty]_vars

=============================================================================
