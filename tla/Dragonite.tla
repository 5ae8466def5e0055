------------------------------ MODULE Dragonite ------------------------------
(***************************************************************************)
(* kernel/modules/ax_dragonite: writes to its files under /proc set the    *)
(* CPU affinity and the nice value of the threads of a process, or pin     *)
(* kswapd.  Several writers call the driver at the same time, while threads *)
(* are created, exit and are freed.                                        *)
(*                                                                         *)
(* The list of processes and the list of each process's threads are the    *)
(* kernel's RCU lists, pointer by pointer: a removed node keeps its own    *)
(* pointer.  A task's usage count is the set of the references held to it. *)
(***************************************************************************)
EXTENDS Integers, Sequences, FiniteSets

CONSTANTS
    Writers,     \* processes writing to the driver's files
    Threads,     \* task_structs, each used once
    Groups,      \* heads of the lists of threads, one per process; a kernel
                 \* thread is a process of its own
    Procs,       \* init_task, head of the list of processes
    GroupOf,     \* the process each thread belongs to
    LeaderOf,    \* the first thread of each process
    PidOf,       \* thread ids: a pid may be used again by a later thread
    NameOf,      \* comm; KswapdName stands for all that begin with "kswapd"
    Started,     \* the threads that run at the beginning
    StartTime,   \* start_time: the order of the lists at the beginning
    CPUs,        \* cpu_possible_mask
    Requests,    \* what is written to the files, parsed
    PidWrites,   \* what is written to the file pid
    MaxThreads,  \* 512: AXD_MAX_THREAD_GROUP_TASKS
    MaxKswapd,   \* 32: AXD_MAX_KSWAPD_TASKS
    MaxCalls,    \* bound on the number of writes
    Env          \* what may happen: "create", "exit", "hotplug", "nomem", "module"

AnyName == "*"
KswapdName == "kswapd"

Kinds == {"set", "reset", "boost", "pin"}

Lists == Groups \cup {Procs}
Nodes == Lists \cup Threads

ASSUME DragoniteAssumption ==
    /\ Procs \notin Groups
    /\ Lists \cap Threads = {}
    /\ GroupOf \in [Threads -> Groups]
    /\ LeaderOf \in [Groups -> Threads]
    /\ \A g \in Groups : GroupOf[LeaderOf[g]] = g
    /\ PidOf \in [Threads -> Nat \ {0}]
    /\ Started \subseteq Threads
    /\ IsFiniteSet(Writers) /\ IsFiniteSet(Threads) /\ CPUs # {}
    /\ StartTime \in [Threads -> Nat \ {0}]
    /\ \A t, u \in Started : StartTime[t] = StartTime[u] => t = u
    /\ \A t \in Started : StartTime[LeaderOf[GroupOf[t]]] <= StartTime[t]
    /\ Requests \subseteq [kind : Kinds, pid : Int, comm : STRING,
                           mask : SUBSET CPUs, level : Int]
    /\ PidWrites \subseteq Int
    /\ MaxThreads \in Nat \ {0} /\ MaxKswapd \in Nat \ {0}
    /\ MaxCalls \in Nat

\* The threads a list is for: the leaders of all processes, of the kernel and
\* of users, or the threads of one process.  A leader is on two lists.
On(l) ==
    IF l = Procs THEN {LeaderOf[g] : g \in Groups}
    ELSE {t \in Threads : GroupOf[t] = l}

\* A node's place in a list: the head comes first.
Place(n) == IF n \in Threads THEN StartTime[n] ELSE 0

Behind(l, n) == {t \in Started \cap On(l) : Place(n) < Place(t)}

\* The pointers of a list at the beginning.
FirstNext(l) ==
    [n \in Nodes |->
        IF Behind(l, n) = {} THEN l
        ELSE CHOOSE t \in Behind(l, n) :
                 \A u \in Behind(l, n) : Place(t) <= Place(u)]

VARIABLES
    target,      \* g_current_target_pid
    stats,       \* g_axd_stats, by the kind of call
    files,       \* the directories in /proc: "nta", "dragonite"
    mode,        \* of the module: "absent", "loaded", "leaving"
    call,        \* each writer's call of the driver
    calls,       \* how many writes there may still be
    online,      \* cpu_online_mask
    state,       \* each thread's: "unborn", "live", "exiting", "unhashed", "released"
    nxt,         \* the pointers of each list
    refs,        \* the driver's references: <<w, 0>> is held by w's call to
                 \* its task, <<w, i>> to its threads[i]
    grace,       \* the writers that may still see a removed thread
    mask,        \* cpus_ptr
    nice,        \* the nice value
    line         \* history: the threads each one descends from, and itself

driver == <<target, stats, files, mode>>
kernel == <<online, state, nxt, refs, grace, mask, nice, line>>
vars == <<target, stats, files, mode, call, calls, online, state, nxt, refs,
          grace, mask, nice, line>>

\* A call's local variables; a list head stands for a NULL task.
Idle == [pc |-> "idle", kind |-> "set", pid |-> 0, comm |-> AnyName,
         mask |-> {}, nice |-> 0, task |-> Procs, list |-> Procs,
         cursor |-> Procs, threads |-> <<>>, i |-> 1, matched |-> 0,
         ret |-> "none"]

Hashed(t) == state[t] \in {"live", "exiting"}

\* The last reference is gone, and the memory with it; the kernel's own is
\* dropped on release.
Freed(t) == state[t] = "released" /\ refs[t] = {}

\* Between rcu_read_lock and rcu_read_unlock.
InRcu(w) == call[w].pc = "walk"

-----------------------------------------------------------------------------
(* ax_dragonite_proc.c: the files *)

FileOf(kind) == IF kind \in {"set", "reset"} THEN "nta" ELSE "dragonite"

\* Slip: a pid in the request is not looked at.
ExplicitNever(r) == r.kind \notin {"set", "reset"}

\* Whether the request names the process itself; otherwise it is meant for
\* the target.
Explicit(r) ==
    CASE r.kind = "set"   -> r.pid > 0
      [] r.kind = "reset" -> r.pid > 1
      [] OTHER            -> TRUE

\* Of axd_set_boost: AXD_NICE_BOOST or AXD_NICE_NORMAL.
target_nice(level) == IF level > 0 THEN -20 ELSE 0

\* What cannot be parsed is refused and changes nothing, here and in the
\* other handlers, except that a reset takes it for 0, and so for the target.
nta_pid_write(w) ==
    /\ call[w].pc = "idle" /\ calls > 0 /\ "nta" \in files
    /\ target' \in PidWrites
    /\ calls' = calls - 1
    /\ UNCHANGED <<stats, files, mode, call, kernel>>

\* A write begins: the request is parsed into the handler's variables.
Enter(w, kind) ==
    /\ call[w].pc = "idle" /\ calls > 0 /\ FileOf(kind) \in files
    /\ \E r \in Requests :
        /\ r.kind = kind
        /\ call' = [call EXCEPT ![w] =
                      [Idle EXCEPT !.pc = IF Explicit(r) THEN "find" ELSE "target",
                                   !.kind = kind,
                                   !.pid = r.pid,
                                   !.comm = r.comm,
                                   !.mask = IF kind = "reset" THEN CPUs ELSE r.mask,
                                   !.nice = target_nice(r.level)]]
    /\ calls' = calls - 1
    /\ UNCHANGED <<driver, kernel>>

\* The handlers, up to the driver or to the mutex.
nta_affinity_write(w) == Enter(w, "set")
nta_reset_write(w) == Enter(w, "reset")
dragonite_boost_write(w) == Enter(w, "boost")
dragonite_kswapd_write(w) == Enter(w, "pin")

\* The target is read under g_proc_lock, which is then released.
ReadTarget(w) ==
    /\ call[w].pc = "target"
    /\ call' = [call EXCEPT ![w].pid = target, ![w].pc = "find"]
    /\ UNCHANGED <<driver, calls, kernel>>

-----------------------------------------------------------------------------
(* ax_dragonite_main.c: the driver *)

Return(w, ret) == call' = [call EXCEPT ![w].pc = "idle", ![w].ret = ret]

\* The checks of the arguments.
Invalid(c) ==
    \/ c.kind # "pin" /\ c.pid <= 0
    \/ c.kind \in {"set", "pin"} /\ c.mask \cap online = {}

\* find_task_by_vpid, and the check of PF_EXITING.
Found(pid) == {t \in Threads : state[t] = "live" /\ PidOf[t] = pid}

\* The references to task are taken and dropped by the two calls that leave
\* the RCU section with it.
KeepsTask(kind) == kind \in {"set", "reset"}

\* Slip: the task's reference is not dropped.
DroppedNot(w) == refs

\* put_task_struct(task) at the end of a call.
Dropped(w) ==
    IF KeepsTask(call[w].kind)
    THEN [refs EXCEPT ![call[w].task] = @ \ {<<w, 0>>}]
    ELSE refs

\* Slip: the walk begins behind the thread that was found.
WalkFromTask(t) == t

\* for_each_thread begins at the head of the group's list, whichever of its
\* threads the pid names.
WalkFrom(t) == GroupOf[t]

\* The entry of axd_set_affinity, axd_reset_affinity, axd_set_boost and
\* axd_pin_kswapd, up to the loop over the list.
Find(w) ==
    LET c == call[w]
    IN  /\ c.pc = "find"
        /\ \/ Invalid(c) /\ Return(w, "EINVAL") /\ UNCHANGED refs
           \/ /\ ~Invalid(c) /\ KeepsTask(c.kind) /\ "nomem" \in Env
              /\ Return(w, "ENOMEM") /\ UNCHANGED refs
           \/ /\ ~Invalid(c) /\ c.kind # "pin" /\ Found(c.pid) = {}
              /\ Return(w, "ESRCH") /\ UNCHANGED refs
           \/ /\ ~Invalid(c) /\ c.kind # "pin"
              /\ \E t \in Found(c.pid) :
                  /\ call' = [call EXCEPT ![w].pc = "walk", ![w].task = t,
                                          ![w].list = GroupOf[t],
                                          ![w].cursor = WalkFrom(t)]
                  /\ refs' = IF KeepsTask(c.kind)
                             THEN [refs EXCEPT ![t] = @ \cup {<<w, 0>>}]
                             ELSE refs
           \/ /\ ~Invalid(c) /\ c.kind = "pin"
              /\ call' = [call EXCEPT ![w].pc = "walk"]
              /\ UNCHANGED refs
    /\ UNCHANGED <<driver, calls, online, state, nxt, grace, mask, nice, line>>

\* axd_comm_matches, and the prefix of kswapd's name.
Matches(c, t) ==
    CASE c.kind = "set" -> c.comm = AnyName \/ NameOf[t] = c.comm
      [] c.kind = "pin" -> NameOf[t] = KswapdName
      [] OTHER          -> TRUE

\* Slip: one thread too many is collected.
FullLate(c) ==
    Len(c.threads) > (IF c.kind = "pin" THEN MaxKswapd ELSE MaxThreads)

\* Slip: a reset leaves the last place of its array empty.
FullEarly(c) ==
    Len(c.threads) >= (CASE c.kind = "pin" -> MaxKswapd
                         [] c.kind = "set" -> MaxThreads
                         [] OTHER -> MaxThreads - 1)

\* The array is full.
Full(c) ==
    Len(c.threads) >= (IF c.kind = "pin" THEN MaxKswapd ELSE MaxThreads)

\* Slip: a collected thread is not referenced.
CollectedOnly(w, t) == refs

\* get_task_struct of a thread that goes to the end of the array.
Collected(w, t) ==
    [refs EXCEPT ![t] = @ \cup {<<w, Len(call[w].threads) + 1>>}]

\* rcu_read_unlock.
LeaveRcu(w) ==
    /\ call' = [call EXCEPT ![w].pc = "apply"]
    /\ grace' = [t \in Threads |-> grace[t] \ {w}]
    /\ UNCHANGED <<refs, nice>>

\* The body of the loop for one thread.
Visit(w, n) ==
    LET c == call[w]
    IN  \/ /\ ~Matches(c, n)
           /\ call' = [call EXCEPT ![w].cursor = n]
           /\ UNCHANGED <<grace, refs, nice>>
        \/ /\ c.kind = "boost"
           /\ call' = [call EXCEPT ![w].cursor = n]
           /\ nice' = [nice EXCEPT ![n] = c.nice]
           /\ UNCHANGED <<grace, refs>>
        \/ c.kind # "boost" /\ Matches(c, n) /\ Full(c) /\ LeaveRcu(w)
        \/ /\ c.kind # "boost" /\ Matches(c, n) /\ ~Full(c)
           /\ call' = [call EXCEPT ![w].cursor = n,
                                   ![w].threads = Append(@, n)]
           /\ refs' = Collected(w, n)
           /\ UNCHANGED <<grace, nice>>

\* One step of for_each_thread or for_each_process.
Walk(w) ==
    LET n == nxt[call[w].list][call[w].cursor]
    IN  /\ call[w].pc = "walk"
        /\ IF n = call[w].list THEN LeaveRcu(w) ELSE Visit(w, n)
        /\ UNCHANGED <<driver, calls, online, state, nxt, mask, line>>

\* set_cpus_allowed_ptr and put_task_struct of one collected thread.
Apply(w) ==
    LET c == call[w]
        t == c.threads[c.i]
        allowed == c.mask \cap online # {}
    IN  /\ c.pc = "apply" /\ c.i <= Len(c.threads)
        /\ mask' = IF allowed THEN [mask EXCEPT ![t] = c.mask] ELSE mask
        /\ call' = [call EXCEPT ![w].i = @ + 1,
                                ![w].matched = IF allowed THEN @ + 1 ELSE @]
        /\ refs' = [refs EXCEPT ![t] = @ \ {<<w, c.i>>}]
        /\ UNCHANGED <<driver, calls, online, state, nxt, grace, nice, line>>

\* What the write returns: -ENOENT of a set and -ESRCH of a pin are reported
\* as success.
Outcome(c) ==
    CASE c.kind = "boost" \/ c.matched > 0         -> "ok"
      [] c.kind = "set" /\ c.threads # <<>>        -> "EINVAL"
      [] c.kind = "reset"                          -> "ESRCH"
      [] OTHER                                     -> "ok"

Finish(w) ==
    LET c == call[w]
    IN  /\ c.pc = "apply" /\ c.i > Len(c.threads)
        /\ refs' = Dropped(w)
        /\ stats' = IF c.kind = "boost" \/ c.matched > 0
                    THEN [stats EXCEPT ![c.kind] = @ + 1]
                    ELSE stats
        /\ Return(w, Outcome(c))
        /\ UNCHANGED <<target, files, mode, calls, online, state, nxt, grace,
                       mask, nice, line>>

\* The four calls: check and look up, walk the list under RCU, change what was
\* collected, count and return.
axd_set_affinity(w) ==
    call[w].kind = "set" /\ (Find(w) \/ Walk(w) \/ Apply(w) \/ Finish(w))

axd_reset_affinity(w) ==
    call[w].kind = "reset" /\ (Find(w) \/ Walk(w) \/ Apply(w) \/ Finish(w))

axd_set_boost(w) ==
    call[w].kind = "boost" /\ (Find(w) \/ Walk(w) \/ Finish(w))

axd_pin_kswapd(w) ==
    call[w].kind = "pin" /\ (Find(w) \/ Walk(w) \/ Apply(w) \/ Finish(w))

\* axd_init and axd_proc_init: a directory that cannot be made is done without.
Load ==
    /\ mode = "absent"
    /\ mode' = "loaded"
    /\ files' \in SUBSET {"nta", "dragonite"}
    /\ target' = 0
    /\ stats' = [k \in Kinds |-> 0]
    /\ UNCHANGED <<call, calls, kernel>>

\* axd_exit: remove_proc_subtree waits for the writes to the directory's files.
Unload ==
    /\ "module" \in Env
    /\ \/ /\ mode = "loaded"
          /\ \A w \in Writers : call[w].pc # "idle" =>
                                    FileOf(call[w].kind) # "nta"
          /\ mode' = "leaving" /\ files' = files \ {"nta"}
       \/ /\ mode = "leaving"
          /\ \A w \in Writers : call[w].pc = "idle"
          /\ mode' = "absent" /\ files' = {}
    /\ UNCHANGED <<target, stats, call, calls, kernel>>

-----------------------------------------------------------------------------
(* The kernel's threads *)

Members(l) == {t \in On(l) : Hashed(t)}

\* list_add_tail_rcu of a new thread, to the list of its process and, if it is
\* the first there, to the list of processes.
AddTail(t) ==
    nxt' = [l \in Lists |-> [n \in Nodes |->
              IF t \in On(l) /\ n = t THEN l
              ELSE IF t \in On(l) /\ nxt[l][n] = l /\ n \in {l} \cup Members(l) THEN t
              ELSE nxt[l][n]]]

\* copy_process: a thread is created by a thread of its process, the first
\* thread of a process by a thread of any other, which may also be one that no
\* write is about.  It has its creator's mask and nice value, and a pid that
\* is not in use.
Create(t) ==
    /\ "create" \in Env
    /\ state[t] = "unborn"
    /\ \A u \in Threads : Hashed(u) => PidOf[u] # PidOf[t]
    /\ \/ \E c \in Threads :
            /\ state[c] = "live"
            /\ t = LeaderOf[GroupOf[t]] \/ GroupOf[c] = GroupOf[t]
            /\ mask' = [mask EXCEPT ![t] = mask[c]]
            /\ nice' = [nice EXCEPT ![t] = nice[c]]
            /\ line' = [line EXCEPT ![t] = {t} \cup line[c]]
       \/ t = LeaderOf[GroupOf[t]] /\ UNCHANGED <<mask, nice, line>>
    /\ state' = [state EXCEPT ![t] = "live"]
    /\ AddTail(t)
    /\ UNCHANGED <<driver, call, calls, online, refs, grace>>

\* PF_EXITING is set.
Exit(t) ==
    /\ "exit" \in Env
    /\ state[t] = "live"
    /\ state' = [state EXCEPT ![t] = "exiting"]
    /\ UNCHANGED <<driver, call, calls, online, nxt, refs, grace, mask, nice, line>>

\* release_task with list_del_rcu from every list: a leader is the last to go.
Unhash(t) ==
    /\ state[t] = "exiting"
    /\ t = LeaderOf[GroupOf[t]] => Members(GroupOf[t]) = {t}
    /\ state' = [state EXCEPT ![t] = "unhashed"]
    /\ nxt' = [l \in Lists |-> [n \in Nodes |->
                 IF nxt[l][n] = t /\ n \in {l} \cup Members(l) THEN nxt[l][t]
                 ELSE nxt[l][n]]]
    /\ grace' = [grace EXCEPT ![t] = {w \in Writers : InRcu(w)}]
    /\ UNCHANGED <<driver, call, calls, online, refs, mask, nice, line>>

\* delayed_put_task_struct: the kernel's own reference, dropped when no reader
\* of the list is left that may have met the thread.
DelayedPut(t) ==
    /\ state[t] = "unhashed" /\ grace[t] = {}
    /\ state' = [state EXCEPT ![t] = "released"]
    /\ UNCHANGED <<driver, call, calls, online, nxt, refs, grace, mask, nice, line>>

\* CPUs go offline, but never all, and come back.
Hotplug ==
    /\ "hotplug" \in Env
    /\ online' \in SUBSET CPUs \ {{}}
    /\ UNCHANGED <<driver, call, calls, state, nxt, refs, grace, mask, nice, line>>

-----------------------------------------------------------------------------

Init ==
    /\ target = 0
    /\ stats = [k \in Kinds |-> 0]
    /\ mode = "absent" /\ files = {}
    /\ call = [w \in Writers |-> Idle]
    /\ calls = MaxCalls
    /\ online = CPUs
    /\ state = [t \in Threads |-> IF t \in Started THEN "live" ELSE "unborn"]
    /\ nxt = [l \in Lists |-> FirstNext(l)]
    /\ refs = [t \in Threads |-> {}]
    /\ grace = [t \in Threads |-> {}]
    /\ mask = [t \in Threads |-> CPUs]
    /\ nice = [t \in Threads |-> 0]
    /\ line = [t \in Threads |-> {t}]

Write(w) ==
    \/ nta_pid_write(w) \/ nta_affinity_write(w) \/ nta_reset_write(w)
    \/ dragonite_boost_write(w) \/ dragonite_kswapd_write(w)

WriterStep(w) ==
    \/ ReadTarget(w)
    \/ axd_set_affinity(w) \/ axd_reset_affinity(w)
    \/ axd_set_boost(w) \/ axd_pin_kswapd(w)

Next ==
    \/ \E w \in Writers : Write(w) \/ WriterStep(w)
    \/ \E t \in Threads : Create(t) \/ Exit(t) \/ Unhash(t) \/ DelayedPut(t)
    \/ Load \/ Unload \/ Hotplug

\* A call under way goes on, and RCU's grace periods end.
Spec ==
    /\ Init /\ [][Next]_vars
    /\ \A w \in Writers : WF_vars(WriterStep(w))
    /\ \A t \in Threads : WF_vars(DelayedPut(t))

-----------------------------------------------------------------------------
(* Properties *)

\* Types.  No call collects more threads than its array holds.
TypeOK ==
    /\ target \in Int
    /\ stats \in [Kinds -> Nat]
    /\ mode \in {"absent", "loaded", "leaving"}
    /\ files \subseteq {"nta", "dragonite"}
    /\ calls \in 0 .. MaxCalls
    /\ online \subseteq CPUs
    /\ state \in [Threads -> {"unborn", "live", "exiting", "unhashed", "released"}]
    /\ nxt \in [Lists -> [Nodes -> Nodes]]
    /\ refs \in [Threads -> SUBSET (Writers \X Nat)]
    /\ grace \in [Threads -> SUBSET Writers]
    /\ mask \in [Threads -> SUBSET CPUs]
    /\ nice \in [Threads -> Int]
    /\ line \in [Threads -> SUBSET Threads]
    /\ \A w \in Writers :
        LET c == call[w]
        IN  /\ c.pc \in {"idle", "target", "find", "walk", "apply"}
            /\ c.kind \in Kinds /\ c.pid \in Int /\ c.nice \in Int
            /\ c.mask \subseteq CPUs
            /\ c.list \in Lists /\ c.cursor \in Nodes /\ c.task \in Nodes
            /\ c.threads \in Seq(Threads)
            /\ Len(c.threads) <= (IF c.kind = "pin" THEN MaxKswapd ELSE MaxThreads)
            /\ c.i \in 1 .. Len(c.threads) + 1
            /\ c.matched \in 0 .. Len(c.threads)

\* The threads a call has still to look at or to change.
InUse(w) ==
    LET c == call[w]
    IN  CASE c.pc = "walk"  -> {n \in {c.cursor} : n \in Threads}
                                  \cup {c.threads[j] : j \in 1 .. Len(c.threads)}
          [] c.pc = "apply" -> {c.threads[j] : j \in c.i .. Len(c.threads)}
          [] OTHER          -> {}

\* No call follows the list pointer of a freed thread or changes one, although
\* threads exit at any time, the lists are walked under RCU alone and the
\* collected threads are changed after it.
NoUseAfterFree ==
    \A w \in Writers : \A t \in InUse(w) : ~Freed(t)

\* Every reference is dropped on every way out: a thread that has gone is
\* freed in the end.
GoneIsFreed ==
    \A t \in Threads : state[t] = "unhashed" ~> Freed(t)

Completed(w) == call[w].pc = "idle" /\ call[w].ret = "ok"

\* Writers one at a time, no threads added and no CPUs gone during a call.
Undisturbed ==
    Cardinality(Writers) = 1 /\ Env \cap {"create", "hotplug"} = {}

\* After a write that has returned success, every thread of the process, or
\* every process, that bears the name has what was asked for, if those fit the
\* array: through threads that leave the list under the walk.
TakesEffect ==
    Undisturbed => \A w \in Writers : Completed(w) =>
        LET c == call[w]
            named == {t \in On(c.list) : Matches(c, t)}
            limit == IF c.kind = "pin" THEN MaxKswapd ELSE MaxThreads
        IN  \A t \in named :
                state[t] = "live" =>
                    IF c.kind = "boost" THEN nice[t] = c.nice
                    ELSE Cardinality(named) <= limit => mask[t] = c.mask

\* The processes a request for a set may be meant for.
Addressed(r, g) ==
    \E u \in Threads :
        /\ GroupOf[u] = g
        /\ PidOf[u] \in (IF r.pid > 0 THEN {r.pid} ELSE PidWrites)

\* A reset undoes whatever was set by the wildcard or pinned, in groups that do
\* not fit the array too: a set stops at the same place in the list, and exits
\* only move threads towards its head.  (A set by name reaches further.)
ResetUndoesAll ==
    Undisturbed => \A w \in Writers :
        LET g == call[w].list
        IN  /\ Completed(w) /\ call[w].kind = "reset"
            /\ \A r \in Requests :
                   r.kind = "set" /\ Addressed(r, g) => r.comm = AnyName
            => \A t \in Threads :
                   GroupOf[t] = g /\ state[t] = "live" => mask[t] = CPUs

\* What a request may give a thread: a set is for the threads of the process
\* it addresses that bear the name, a pin for any process named like kswapd.
MeantFor(r, u) ==
    \/ /\ r.kind = "set" /\ Addressed(r, GroupOf[u])
       /\ r.comm \in {AnyName, NameOf[u]}
    \/ /\ r.kind = "pin" /\ u = LeaderOf[GroupOf[u]]
       /\ NameOf[u] = KswapdName

\* However the writers and their changes of the target interleave, a thread
\* only ever has a mask that was asked for itself or for a thread it descends
\* from, by its process and by its name: a fork takes the mask along, into
\* other processes too.  A request that names its process is not affected by
\* the target.
MasksAccountedFor ==
    \A t \in Threads :
        \/ mask[t] = CPUs
        \/ \E r \in Requests, u \in line[t] :
               r.mask = mask[t] /\ MeantFor(r, u)

=============================================================================
