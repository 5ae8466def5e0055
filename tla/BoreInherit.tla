----------------------------- MODULE BoreInherit -----------------------------
(***************************************************************************)
(* kernel/modules/bore_sched/bore_sched_main.c: the penalty a new task     *)
(* inherits.  The fork hook scans lists of tasks under RCU alone and keeps *)
(* the result in a cache of the task it scanned from, while other forks do *)
(* the same and tasks run, exit and are reaped.                            *)
(*                                                                         *)
(* Lists are modelled pointer by pointer: the kernel links children with   *)
(* list_add_tail, unlinks them with list_del_init (the node then points to *)
(* itself) and moves them with list_splice_tail_init; the lists of threads *)
(* are RCU lists, whose removed nodes keep their pointers.                 *)
(***************************************************************************)
EXTENDS BoreMath, Sequences

CONSTANTS
    Tasks,        \* task_structs, each used once
    Root,         \* init_task, its own parent
    Started,      \* the tasks that run at the beginning
    FirstParent,  \* real_parent at the beginning
    FirstLeader,  \* group_leader at the beginning
    StartOrder,   \* numbers the tasks: the order of the lists at the beginning
    Forkers,      \* the tasks that fork
    Eligible,     \* bore_task_is_eligible: normal policy, not idle
    Protected,    \* kernel threads and tasks below nice 0
    Penalties,    \* the penalties that tasks earn
    Garbage,      \* what is read as the penalty of a list head
    InheritTypes, \* values of sched_burst_inherit_type
    Clones,       \* what is made: "thread", "process"
    Lifetime,     \* sched_burst_cache_lifetime
    Shift,        \* 16: BORE_BC_TIMESTAMP_SHIFT
    ScanLimit,    \* 126: BURST_CACHE_SCAN_LIMIT
    FirstTime,    \* ktime_get_ns() at the beginning
    LastTime,     \* bound on the time
    Env           \* what may happen: "charge", "exit"

Kinds == {"subtree", "group"}

\* The list of t's children, or of its threads.
Anchor(t) == <<"head", t>>

Nodes == Tasks \cup {Anchor(t) : t \in Tasks}

ASSUME BoreInheritAssumption ==
    /\ Root \in Started /\ Started \subseteq Tasks /\ IsFiniteSet(Tasks)
    /\ Tasks \cap {Anchor(t) : t \in Tasks} = {}
    /\ FirstParent \in [Tasks -> Started] /\ FirstLeader \in [Tasks -> Tasks]
    /\ FirstParent[Root] = Root /\ FirstLeader[Root] = Root
    /\ \A t \in Started : FirstLeader[t] \in Started
                          /\ FirstLeader[FirstLeader[t]] = FirstLeader[t]
    /\ StartOrder \in [Tasks -> 1 .. Cardinality(Tasks)]
    /\ \A t, u \in Started : StartOrder[t] = StartOrder[u] => t = u
    /\ Forkers \subseteq Tasks \ {Root}
    /\ Eligible \subseteq Tasks /\ Protected \subseteq Tasks
    /\ Penalties \subseteq 0 .. MAX_BURST_PENALTY
    /\ Garbage \subseteq 0 .. pow2[HalfBits] - 1
    /\ InheritTypes \subseteq 0 .. 2
    /\ Clones \subseteq {"thread", "process"}
    /\ Lifetime \in Nat /\ Shift \in 0 .. Bits /\ ScanLimit \in Nat
    /\ LastTime \in Nat /\ LastTime < pow2[TimeBits]
    /\ FirstTime \in Lifetime + 1 .. LastTime /\ pow2[Shift] <= FirstTime
    /\ pow2[HalfBits] * SampleLimit * (SampleLimit - 1) < Word

\* At the beginning: the task whose list a node is in, and its place there,
\* and the lists.  The root is in none.
FirstOwner(kind, n) ==
    IF n \notin Tasks THEN n[2]
    ELSE IF kind = "group" THEN FirstLeader[n] ELSE FirstParent[n]

FirstPlace(n) == IF n \in Tasks THEN StartOrder[n] ELSE 0

FirstBehind(kind, n) ==
    {t \in Started \ {Root} :
        /\ kind = "subtree" => FirstLeader[t] = t
        /\ FirstOwner(kind, t) = FirstOwner(kind, n)
        /\ FirstPlace(n) < FirstPlace(t)}

FirstNext ==
    [k \in Kinds |-> [n \in Nodes |->
        IF FirstBehind(k, n) = {} THEN Anchor(FirstOwner(k, n))
        ELSE CHOOSE t \in FirstBehind(k, n) :
                 \A u \in FirstBehind(k, n) : FirstPlace(t) <= FirstPlace(u)]]

VARIABLES
    clock,       \* ktime_get_ns()
    state,       \* each task's: "unborn", "new", "live", "zombie", "dead"
    parent,      \* real_parent
    leader,      \* group_leader
    nxt,         \* list pointers
    grace,       \* the forks that may still see a dead task
    penalty,     \* ctx->penalty
    bc,          \* the caches ctx->subtree and ctx->group
    fork         \* each task's call of the fork hook

tree == <<state, parent, leader, nxt, grace>>
vars == <<clock, state, parent, leader, nxt, grace, penalty, bc, fork>>

\* A cache of a zeroed context; seen is not in the code: the samples the
\* penalty was computed from.
Unfilled == [timestamp |-> 0, penalty |-> 0, seen |-> <<>>]

\* The locals of the hook and of the functions it calls.  Not in the code:
\* seen, the samples read; floor, the earliest "now" of the forks under way
\* when this one began; calm, no list has changed since.
Idle == [pc |-> "idle", kind |-> "subtree", hub |-> FALSE, child |-> Root,
         now |-> 0, floor |-> 0, anc |-> Root, up |-> Root, sole |-> 0,
         first |-> Root, cursor |-> Root, desc |-> Root, scans |-> 0,
         count |-> 0, total |-> 0, seen |-> <<>>, calm |-> FALSE]

\* The other forks meet lists that change.
Disturbed(t) == [f \in Tasks |-> IF f = t THEN Idle
                                 ELSE [fork[f] EXCEPT !.calm = FALSE]]

Hashed(t) == state[t] \in {"live", "zombie"}

Members(kind, t) ==
    {u \in Tasks \ {Root} : Hashed(u) /\ (IF kind = "group" THEN leader[u] = t
                                 ELSE parent[u] = t /\ leader[u] = u)}

\* Slip: the RCU section begins with the scan.
InRcuLate(f) == fork[f].pc \notin {"idle", "up", "first", "second"}

\* Between rcu_read_lock and rcu_read_unlock.
InRcu(f) == fork[f].pc # "idle"

-----------------------------------------------------------------------------
(* The fork hook *)

\* A child of normal policy stays normal, and an unprotected one unprotected;
\* SCHED_RESET_ON_FORK may make them so.
Copies(f, child) ==
    /\ f \in Eligible => child \in Eligible
    /\ child \in Protected => f \in Protected

\* copy_process, with probe_bore_init_entity, up to the first steps of
\* probe_bore_task_fork.
Begin(f) ==
    /\ f \in Forkers /\ state[f] = "live" /\ fork[f].pc = "idle"
    /\ \E child \in Tasks, what \in Clones, type \in InheritTypes :
        LET others == {fork[g].now : g \in {g \in Tasks : fork[g].pc # "idle"}}
            new == [Idle EXCEPT
                      !.child = child, !.now = clock, !.calm = TRUE,
                      !.kind = IF what = "thread" THEN "group" ELSE "subtree",
                      !.hub = what = "process" /\ type = 2,
                      !.floor = CHOOSE x \in others \cup {clock} :
                                    \A y \in others : x <= y,
                      !.anc = IF what = "thread" THEN leader[f] ELSE f]
        IN  /\ state[child] = "unborn" /\ Copies(f, child)
            /\ state' = [state EXCEPT ![child] = "new"]
            /\ leader' = [leader EXCEPT ![child] =
                              IF what = "thread" THEN leader[f] ELSE child]
            /\ fork' = [fork EXCEPT ![f] =
                 [new EXCEPT !.pc =
                    IF child \notin Eligible \/ (what = "process" /\ type = 0)
                    THEN "skip"
                    ELSE IF new.hub THEN "up" ELSE "check"]]
            /\ penalty' = [penalty EXCEPT ![child] = 0]
            /\ bc' = [k \in Kinds |-> [bc[k] EXCEPT ![child] = Unfilled]]
    /\ UNCHANGED <<clock, parent, nxt, grace>>

\* A step that only changes the hook's locals.
Locally(f, new) ==
    /\ fork' = [fork EXCEPT ![f] = new]
    /\ UNCHANGED <<clock, tree, penalty, bc>>

\* count_children_upto2, whose two reads are steps of their own: the first
\* has been made.
count_children_upto2(t, first) ==
    (IF first # Anchor(t) THEN 1 ELSE 0)
      + (IF nxt["subtree"][first] # Anchor(t) THEN 1 ELSE 0)

\* Slip: an only child may have a sibling.
SoleChildrenTwo(c) == c.sole + 1

\* sole_child_count: the child under way is not linked yet.
SoleChildren(c) == c.sole

\* The loop of inherit_from_ancestor_hub over the ancestors.
Climb(f) ==
    LET c == fork[f]
    IN  \/ /\ c.pc = "up"
           /\ Locally(f, IF parent[c.anc] = c.anc
                         THEN [c EXCEPT !.pc = "check"]
                         ELSE [c EXCEPT !.pc = "first", !.up = parent[c.anc]])
        \/ /\ c.pc = "first"
           /\ Locally(f, [c EXCEPT !.pc = "second",
                                   !.first = nxt["subtree"][Anchor(c.anc)]])
        \/ /\ c.pc = "second"
           /\ Locally(f, IF count_children_upto2(c.anc, c.first) <= SoleChildren(c)
                         THEN [c EXCEPT !.pc = "up", !.anc = c.up, !.sole = 1]
                         ELSE [c EXCEPT !.pc = "check"])

\* A u64 difference: the time of a cache that a later fork has filled is ahead.
burst_cache_expired(cache, now) ==
    (now - cache.timestamp * pow2[Shift]) % pow2[TimeBits] > Lifetime

Check(f) ==
    LET c == fork[f]
    IN  /\ c.pc = "check"
        /\ Locally(f, IF burst_cache_expired(bc[c.kind][c.anc], c.now)
                      THEN [c EXCEPT !.pc = "scan", !.cursor = Anchor(c.anc)]
                      ELSE [c EXCEPT !.pc = "read"])

\* What is read as a sample: a list head that is taken for a task is a
\* pointer into another one, and has any contents.
Samples(n) ==
    IF n \in Tasks
    THEN IF n \in Eligible THEN {penalty[n]} ELSE {}
    ELSE Garbage

Ineligible(n) == n \in Tasks => n \notin Eligible

\* The rest of a round of the loop, on the task it has come to.
Sample(f, n) ==
    LET c == [fork[f] EXCEPT !.pc = "scan"]
    IN  \/ \E p \in Samples(n) :
             Locally(f, [c EXCEPT !.count = @ + 1, !.total = @ + p,
                                  !.seen = Append(@, [task |-> n, penalty |-> p,
                                                      at |-> clock])])
        \/ Ineligible(n) /\ Locally(f, c)

\* Slip: the samples are counted past the end of the table.
LimitLate(c) == c.count > SampleLimit \/ c.scans >= ScanLimit

AtLimit(c) == c.count >= SampleLimit \/ c.scans >= ScanLimit

\* Slip: tasks that are no samples are not counted.
ScannedSamples(c, n) == IF Ineligible(n) THEN c.scans ELSE c.scans + 1

Scanned(c, n) == c.scans + 1

\* A round of the loops over children or threads, up to the descent.
Scan(f) ==
    LET c == fork[f]
        n == nxt[c.kind][c.cursor]
        at == [c EXCEPT !.cursor = n, !.scans = Scanned(c, n)]
    IN  /\ c.pc = "scan"
        /\ IF n = Anchor(c.anc) \/ AtLimit(c)
           THEN Locally(f, [c EXCEPT !.pc = "update"])
           ELSE Locally(f, [at EXCEPT !.pc = IF c.hub /\ n \in Tasks
                                             THEN "down" ELSE "sample",
                                      !.desc = n])

\* The loop over sole descendants; list_first_or_null_rcu reads the list again.
Descend(f) ==
    LET c == fork[f]
        first == nxt["subtree"][Anchor(c.desc)]
    IN  \/ /\ c.pc = "down"
           /\ Locally(f, [c EXCEPT !.pc = "down2", !.first = first])
        \/ /\ c.pc = "down2"
           /\ Locally(f, [c EXCEPT !.pc =
                            IF count_children_upto2(c.desc, c.first) = 1
                            THEN "down3" ELSE "sample"])
        \/ /\ c.pc = "down3"
           /\ Locally(f, IF first = Anchor(c.desc) THEN [c EXCEPT !.pc = "sample"]
                         ELSE [c EXCEPT !.pc = "down", !.desc = first])

TakeSample(f) == fork[f].pc = "sample" /\ Sample(f, fork[f].desc)

\* Slip: the time is taken when the cache is written.
StampLate(c) == clock \div pow2[Shift]

Stamp(c) == c.now \div pow2[Shift]

update_burst_cache(f) ==
    LET c == fork[f]
    IN  /\ c.pc = "update"
        /\ bc' = [bc EXCEPT ![c.kind][c.anc] =
                    [timestamp |-> Stamp(c),
                     penalty |-> Larger(Average(c.count, c.total), penalty[c.anc]),
                     seen |-> c.seen]]
        /\ fork' = [fork EXCEPT ![f].pc = "read"]
        /\ UNCHANGED <<clock, tree, penalty>>

\* The three ways to inherit, up to the last read of the cache.
inherit_from_parent(f) ==
    /\ fork[f].kind = "subtree" /\ ~fork[f].hub
    /\ Check(f) \/ Scan(f) \/ TakeSample(f) \/ update_burst_cache(f)

inherit_from_ancestor_hub(f) ==
    /\ fork[f].hub
    /\ \/ Climb(f) \/ Check(f) \/ Scan(f) \/ Descend(f) \/ TakeSample(f)
       \/ update_burst_cache(f)

inherit_from_thread_group(f) ==
    /\ fork[f].kind = "group"
    /\ Check(f) \/ Scan(f) \/ TakeSample(f) \/ update_burst_cache(f)

\* list_add_tail.
Linked(kind, t, n) ==
    [nxt EXCEPT ![kind] =
        [m \in Nodes |->
            CASE m = n -> Anchor(t)
              [] m \in {Anchor(t)} \cup Members(kind, t) /\ nxt[kind][m] = Anchor(t) -> n
              [] OTHER -> nxt[kind][m]]]

\* The end of the hook, and the linking of the child by copy_process.
Finish(f) ==
    LET c == fork[f]
        child == c.child
        inherited == IF c.pc = "read" THEN bc[c.kind][c.anc].penalty ELSE 0
    IN  /\ c.pc \in {"read", "skip"}
        /\ penalty' = [penalty EXCEPT ![child] =
                         update_penalty(0, inherited, child \in Protected)]
        /\ state' = [state EXCEPT ![child] = "live"]
        /\ IF c.kind = "group"
           THEN /\ parent' = [parent EXCEPT ![child] = parent[f]]
                /\ nxt' = Linked("group", leader[f], child)
           ELSE /\ parent' = [parent EXCEPT ![child] = f]
                /\ nxt' = [Linked("subtree", f, child) EXCEPT
                              !["group"][Anchor(child)] = child,
                              !["group"][child] = Anchor(child)]
        /\ grace' = [t \in Tasks |-> grace[t] \ {f}]
        /\ fork' = Disturbed(f)
        /\ UNCHANGED <<clock, leader, bc>>

-----------------------------------------------------------------------------
(* Other tasks *)

\* The other hooks, which BoreBurst models.
Charge(t) ==
    /\ "charge" \in Env
    /\ state[t] = "live" /\ t \in Eligible \ Protected
    /\ \E p \in Penalties : penalty' = [penalty EXCEPT ![t] = p]
    /\ UNCHANGED <<clock, tree, bc, fork>>

\* forget_original_parent: the children go to another thread of the process,
\* or to the root, at the end of its list.
Exit(t) ==
    LET heirs == {u \in Tasks \ {t} : leader[u] = leader[t] /\ state[u] = "live"}
        kids == Members("subtree", t)
    IN  /\ "exit" \in Env
        /\ t # Root /\ state[t] = "live" /\ fork[t].pc = "idle"
        /\ \E reaper \in IF heirs = {} THEN {Root} ELSE heirs :
            /\ parent' = [u \in Tasks |-> IF parent[u] = t /\ Hashed(u)
                                          THEN reaper ELSE parent[u]]
            /\ nxt' = IF kids = {} THEN nxt
                      ELSE [nxt EXCEPT !["subtree"] =
                        [n \in Nodes |->
                           CASE n = Anchor(t) -> Anchor(t)
                             [] n \in kids /\ @[n] = Anchor(t) -> Anchor(reaper)
                             [] n \in {Anchor(reaper)} \cup Members("subtree", reaper)
                                  /\ @[n] = Anchor(reaper) -> @[Anchor(t)]
                             [] OTHER -> @[n]]]
        /\ state' = [state EXCEPT ![t] = "zombie"]
        /\ fork' = Disturbed(t)
        /\ UNCHANGED <<clock, leader, grace, penalty, bc>>

\* __unhash_process, when the task is reaped; a leader is the last to go.
Release(t) ==
    /\ state[t] = "zombie"
    /\ leader[t] = t => Members("group", t) = {t}
    /\ state' = [state EXCEPT ![t] = "dead"]
    /\ nxt' = [k \in Kinds |-> [n \in Nodes |->
                  IF nxt[k][n] = t /\ n # t /\ (n \in Tasks => Hashed(n))
                  THEN nxt[k][t]
                  ELSE IF n = t /\ k = "subtree" THEN t ELSE nxt[k][n]]]
    /\ grace' = [grace EXCEPT ![t] = {f \in Tasks : InRcu(f)}]
    /\ fork' = Disturbed(t)
    /\ UNCHANGED <<clock, parent, leader, penalty, bc>>

Tick ==
    /\ clock < LastTime
    /\ clock' = clock + 1
    /\ UNCHANGED <<tree, penalty, bc, fork>>

-----------------------------------------------------------------------------

Init ==
    /\ clock = FirstTime
    /\ state = [t \in Tasks |-> IF t \in Started THEN "live" ELSE "unborn"]
    /\ parent = FirstParent
    /\ leader = FirstLeader
    /\ nxt = FirstNext
    /\ grace = [t \in Tasks |-> {}]
    /\ penalty = [t \in Tasks |-> 0]
    /\ bc = [k \in Kinds |-> [t \in Tasks |-> Unfilled]]
    /\ fork = [t \in Tasks |-> Idle]

ForkStep(f) ==
    \/ inherit_from_parent(f) \/ inherit_from_ancestor_hub(f)
    \/ inherit_from_thread_group(f) \/ Finish(f)

Next ==
    \/ \E t \in Tasks : Begin(t) \/ ForkStep(t) \/ Charge(t) \/ Exit(t) \/ Release(t)
    \/ Tick

\* A task in fork goes on.
Spec == Init /\ [][Next]_vars /\ \A f \in Forkers : WF_vars(ForkStep(f))

-----------------------------------------------------------------------------
(* Properties *)

Halves == 0 .. pow2[HalfBits] - 1

\* Types.  The number of samples is an index of the table of reciprocals.
TypeOK ==
    /\ clock \in FirstTime .. LastTime
    /\ state \in [Tasks -> {"unborn", "new", "live", "zombie", "dead"}]
    /\ parent \in [Tasks -> Tasks] /\ leader \in [Tasks -> Tasks]
    /\ nxt \in [Kinds -> [Nodes -> Nodes]]
    /\ grace \in [Tasks -> SUBSET Tasks]
    /\ penalty \in [Tasks -> Halves]
    /\ \A k \in Kinds, t \in Tasks :
        /\ bc[k][t].timestamp \in 0 .. LastTime \div pow2[Shift]
        /\ bc[k][t].penalty \in Halves
    /\ \A f \in Tasks :
        LET c == fork[f]
        IN  /\ c.kind \in Kinds /\ {c.hub, c.calm} \subseteq BOOLEAN /\ c.child \in Tasks
            /\ c.anc \in Tasks /\ c.up \in Tasks /\ c.first \in Nodes
            /\ c.cursor \in Nodes /\ c.desc \in Nodes
            /\ c.now \in 0 .. clock /\ c.floor \in 0 .. c.now
            /\ c.sole \in {0, 1}
            /\ c.count \in 0 .. SampleLimit /\ c.scans \in 0 .. ScanLimit
            /\ c.total \in 0 .. c.count * (pow2[HalfBits] - 1)
            /\ c.count = Len(c.seen)

\* The tasks whose memory a fork reads next.
InUse(c) ==
    LET of(n) == IF n \in Tasks THEN n ELSE n[2]
    IN  CASE c.pc = "second"                          -> {c.anc, of(c.first)}
          [] c.pc \in {"up", "first", "check", "update", "read"} -> {c.anc}
          [] c.pc = "scan"                            -> {c.anc, of(c.cursor)}
          [] c.pc \in {"down", "down3", "sample"}     -> {c.anc, of(c.cursor), of(c.desc)}
          [] c.pc = "down2" -> {c.anc, of(c.cursor), of(c.desc), of(c.first)}
          [] OTHER                                    -> {}

\* A fork never reads a task that has been freed, although it follows parent
\* pointers that are no longer kept up to date and siblings that have been
\* unlinked or moved to another list.
NoUseAfterFree ==
    \A f \in Tasks : \A t \in InUse(fork[f]) :
        state[t] = "dead" => f \in grace[t]

\* When the cache's samples were read, at the earliest.
Fresh(cache, time) ==
    /\ cache # Unfilled
    /\ \A i \in 1 .. Len(cache.seen) : cache.seen[i].at >= time

\* A child inherits from samples that are not older than the lifetime of the
\* cache, counted from the earliest of the forks that were under way when this
\* one began (a slow one may replace the cache by an older one), and never
\* from a cache that nobody has filled.
InheritsFresh ==
    \A f \in Tasks : fork[f].pc = "read" =>
        Fresh(bc[fork[f].kind][fork[f].anc], fork[f].floor - Lifetime)

\* The cached penalty is not below all of the samples, for one sample too,
\* whose reciprocal does not fit the table; and, as long as no list head is
\* taken for a task, not above all of them and every penalty a task may earn.
CachedWithinSamples ==
    \A k \in Kinds, t \in Tasks :
        LET seen == bc[k][t].seen
            read == {seen[i].penalty : i \in 1 .. Len(seen)}
        IN  seen # <<>> =>
              /\ \E p \in read : p <= bc[k][t].penalty
              /\ "exit" \in Env \/ \E p \in read \cup Penalties : p >= bc[k][t].penalty

\* f and the tasks above it.
Ancestors(f) ==
    {t \in Tasks : \A S \in SUBSET Tasks :
        f \in S /\ (\A u \in S : parent[u] \in S) => t \in S}

\* Climbing to the hub and descending from it meet, in whatever tree earlier
\* forks and exits have left: a process that inherits from an ancestor is
\* itself one of the samples, unless the scan was cut off or the lists changed
\* under it.  All of its ancestors have to be main threads: the children of
\* another thread are in a list that no descent comes to.
ForkerIsSampled ==
    \A f \in Eligible :
        LET c == fork[f]
        IN  c.pc = "update" /\ c.hub /\ c.calm /\ c.anc # f /\ ~AtLimit(c)
              /\ (\A t \in Ancestors(f) : leader[t] = t)
            => \E i \in 1 .. Len(c.seen) : c.seen[i].task = f

\* Every fork comes to an end: the self-loops of unlinked children and the
\* lists that lead into other lists do not hold it up.
EveryForkEnds ==
    \A f \in Forkers : fork[f].pc # "idle" ~> fork[f].pc = "idle"

=============================================================================
