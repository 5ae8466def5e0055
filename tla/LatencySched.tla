----------------------------- MODULE LatencySched -----------------------------
(***************************************************************************)
(* kernel/modules/latency_sched/latency_sched_main.c: the latency offsets  *)
(* of the tasks, kept in their scheduling entities, while the module is    *)
(* loaded and unloaded, its sysctls change, and tasks are reniced, forked  *)
(* and moved between scheduling policies.                                  *)
(***************************************************************************)
EXTENDS Integers, FiniteSets

CONSTANTS
    Tasks,       \* task slots: a fork reuses the slot of an exited task
    Maxes,       \* values of sched_latency_max, in nanoseconds
    DefaultMax,  \* DEFAULT_SCHED_LATENCY_MAX
    IntHalf,     \* 2^31: an s32 is in -IntHalf .. IntHalf - 1
    LongHalf,    \* 2^63: the same for a long
    Env          \* what may change: "retune", "fork", "policy", "module"

MIN_LATENCY_NICE == -20
DEFAULT_LATENCY_NICE == 0
MAX_LATENCY_NICE == 19

ASSUME LatencyAssumption ==
    /\ IntHalf \in Nat \ {0}
    /\ LongHalf \in Nat /\ LongHalf >= 20 * IntHalf
    /\ Maxes \subseteq -LongHalf .. LongHalf - 1
    /\ DefaultMax \in Maxes
    /\ Env \subseteq {"retune", "fork", "policy", "module"}

VARIABLES
    mode,        \* "absent", "scanning", "active", "unwinding", "noop", "unloading"
    todo,        \* the tasks init_latency_tasks has still to visit
    registered,  \* how many of Hooks are registered
    enabled,     \* sched_latency_nice_enabled
    max,         \* sched_latency_max
    entity,      \* each task's latency_sched_entity
    static,      \* its static_prio against 120: -1 below, 0 equal, 1 above
    fair         \* latency_task_is_eligible: it has a policy of the fair class

module == <<mode, todo, registered>>
task == <<entity, static, fair>>
vars == <<mode, todo, registered, enabled, max, entity, static, fair>>

\* The order of registration; both ways out unregister in the reverse order.
Hooks == <<"wakeup_offset", "tick_offset", "init_entity", "set_user_nice">>

NumHooks == 4

Registered(hook) == \E i \in 1 .. registered : Hooks[i] = hook

Zeroed == [latency_offset |-> 0, latency_nice |-> DEFAULT_LATENCY_NICE]

-----------------------------------------------------------------------------
(* Offsets *)

\* A value kept in a signed integer of -half .. half - 1.
Narrow(x, half) == ((x + half) % (2 * half)) - half

\* Division as in C, towards zero.
Quotient(x, y) == IF x >= 0 THEN x \div y ELSE -((-x) \div y)

\* Slip: the latency priority (0 .. 39) is taken for the nice value.
CalcFromPrio(nice, maximum) ==
    Narrow(Quotient(maximum * (nice - MIN_LATENCY_NICE), 20), IntHalf)

\* Slip: the maximum counts for one step of the nice value, in a long.
CalcUndivided(nice, maximum) == Narrow(maximum * nice, LongHalf)

calc_latency_offset(nice, maximum) ==
    Narrow(Quotient(Narrow(maximum * nice, LongHalf), 20), IntHalf)

\* The latency nice value a static priority stands for.
NiceOf(prio) ==
    IF prio < 0 THEN MIN_LATENCY_NICE
    ELSE IF prio > 0 THEN MAX_LATENCY_NICE
    ELSE DEFAULT_LATENCY_NICE

\* update_task_latency_nice of a task with the given priority and policy.
Updated(old, prio, eligible) ==
    IF ~eligible THEN old
    ELSE [latency_nice |-> NiceOf(prio),
          latency_offset |-> calc_latency_offset(NiceOf(prio), max)]

\* Slip: the maximum is applied to one side only.
ClampedAbove(offset) == IF offset > max THEN max ELSE offset

\* Cut off at the maximum on both sides.
Clamped(offset) ==
    IF offset > max THEN max
    ELSE IF offset < -max THEN -max
    ELSE offset

\* Slip: the running task's offset is always left out.
WakeupGranOneSided(curr, se) == Clamped(entity[se].latency_offset)

\* wakeup_latency_gran.
wakeup_latency_gran(curr, se) ==
    LET own == entity[se].latency_offset
        running == entity[curr].latency_offset
    IN  Clamped(IF own < 0 \/ running < 0 THEN own - running ELSE own)

\* What the wakeup and tick hooks add for a waking task; the kernel's own
\* value, 0, when the probe is not registered or returns at once.
Offset(hook, curr, se) ==
    IF Registered(hook) /\ enabled
    THEN wakeup_latency_gran(curr, se)
    ELSE 0

-----------------------------------------------------------------------------
(* Tasks *)

\* set_user_nice, and probe_latency_set_user_nice at its end.
SetUserNice(t) ==
    /\ static' \in {[static EXCEPT ![t] = prio] : prio \in {-1, 0, 1}}
    /\ entity' = IF Registered("set_user_nice") /\ enabled
                 THEN [entity EXCEPT ![t] = Updated(@, static'[t], fair[t])]
                 ELSE entity
    /\ UNCHANGED <<module, enabled, max, fair>>

\* A task forked by parent takes over the slot t.  Its task_struct is a copy,
\* whose entity probe_latency_init_entity clears.  A scan under way may meet
\* the new task or have passed its place.
Fork(t, parent) ==
    /\ "fork" \in Env
    /\ t # parent
    /\ entity' = [entity EXCEPT ![t] = IF Registered("init_entity") THEN Zeroed
                                       ELSE entity[parent]]
    /\ static' = [static EXCEPT ![t] = static[parent]]
    /\ fair' = [fair EXCEPT ![t] = fair[parent]]
    /\ IF todo # {}
       THEN todo' \in {todo \cup {t}, todo \ {t}}
       ELSE UNCHANGED todo
    /\ UNCHANGED <<mode, registered, enabled, max>>

\* sched_setscheduler: the module is not told.
SetScheduler(t) ==
    /\ "policy" \in Env
    /\ fair' = [fair EXCEPT ![t] = ~@]
    /\ UNCHANGED <<module, enabled, max, entity, static>>

-----------------------------------------------------------------------------
(* The module *)

\* latency_table and the module parameters.
Retune ==
    /\ "retune" \in Env
    /\ mode # "absent"
    /\ enabled' \in BOOLEAN
    /\ max' \in Maxes
    /\ UNCHANGED <<module, task>>

Load ==
    /\ mode = "absent"
    /\ mode' = "scanning"
    /\ todo' = Tasks
    /\ enabled' = TRUE
    /\ max' = DefaultMax
    /\ UNCHANGED <<registered, task>>

\* One task of init_latency_tasks, which holds no lock that excludes
\* set_user_nice.
ScanTask(t) ==
    /\ mode = "scanning"
    /\ t \in todo
    /\ todo' = todo \ {t}
    /\ entity' = [entity EXCEPT ![t] = Updated(@, static[t], fair[t])]
    /\ UNCHANGED <<mode, registered, enabled, max, static, fair>>

Register ==
    /\ mode = "scanning"
    /\ todo = {}
    /\ IF registered < NumHooks
       THEN \/ registered' = registered + 1 /\ UNCHANGED mode
            \/ mode' = "unwinding" /\ UNCHANGED registered
       ELSE mode' = "active" /\ UNCHANGED registered
    /\ UNCHANGED <<todo, enabled, max, task>>

\* The labels fail_user_nice down to fail_hooks.
Unwind ==
    /\ mode = "unwinding"
    /\ IF registered > 0
       THEN registered' = registered - 1 /\ UNCHANGED <<mode, enabled>>
       ELSE mode' = "noop" /\ enabled' = FALSE /\ UNCHANGED registered
    /\ UNCHANGED <<todo, max, task>>

\* latency_sched_exit.
Unload ==
    /\ "module" \in Env
    /\ \/ mode = "active" /\ mode' = "unloading" /\ UNCHANGED registered
       \/ /\ mode = "unloading" /\ registered > 0
          /\ registered' = registered - 1 /\ UNCHANGED mode
       \/ /\ \/ mode = "unloading" /\ registered = 0
             \/ mode = "noop"
          /\ mode' = "absent" /\ UNCHANGED registered
    /\ UNCHANGED <<todo, enabled, max, task>>

-----------------------------------------------------------------------------

Init ==
    /\ mode = "absent"
    /\ todo = {}
    /\ registered = 0
    /\ enabled = FALSE
    /\ max = DefaultMax
    /\ entity = [t \in Tasks |-> Zeroed]
    /\ static \in [Tasks -> {-1, 0, 1}]
    /\ fair \in [Tasks -> BOOLEAN]

Next ==
    \/ \E t \in Tasks : SetUserNice(t) \/ SetScheduler(t) \/ ScanTask(t)
    \/ \E t, parent \in Tasks : Fork(t, parent)
    \/ Retune \/ Load \/ Register \/ Unwind \/ Unload

Spec == Init /\ [][Next]_vars

-----------------------------------------------------------------------------
(* Properties *)

Nices == {MIN_LATENCY_NICE, DEFAULT_LATENCY_NICE, MAX_LATENCY_NICE}

\* Types: an offset always fits its s32, whatever the sysctl holds.
TypeOK ==
    /\ mode \in {"absent", "scanning", "active", "unwinding", "noop",
                 "unloading"}
    /\ todo \subseteq Tasks
    /\ registered \in 0 .. NumHooks
    /\ enabled \in BOOLEAN
    /\ max \in Maxes
    /\ entity \in [Tasks -> [latency_offset : -IntHalf .. IntHalf - 1,
                             latency_nice : Nices]]
    /\ static \in [Tasks -> {-1, 0, 1}]
    /\ fair \in [Tasks -> BOOLEAN]

Probes == {"wakeup_offset", "tick_offset"}

\* "CFS maximum latency offset clamp": offsets computed from an earlier, larger
\* maximum stay in the entities, and yet no probe returns more than the
\* present one.
OffsetWithinMax ==
    max >= 0 => \A hook \in Probes : \A a, b \in Tasks :
                    Offset(hook, a, b) \in -max .. max

\* Two tasks are never each favoured over the other, which would make them
\* preempt one another without end.
NoMutualPreemption ==
    max >= 0 => \A hook \in Probes : \A a, b \in Tasks :
                    ~(Offset(hook, a, b) < 0 /\ Offset(hook, b, a) < 0)

\* A task whose latency nice value is lower is never held back for the sake
\* of one whose is higher, even when their offsets were computed from
\* different maxima: as long as these fit an s32.
ClassesOrdered ==
    Maxes \subseteq 0 .. IntHalf - 1 =>
        \A hook \in Probes : \A a, b \in Tasks :
            entity[a].latency_nice < entity[b].latency_nice =>
                Offset(hook, b, a) <= 0 /\ Offset(hook, a, b) >= 0

=============================================================================
