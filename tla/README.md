# Verification of the Axion common device tree

The repository is the part of an Android device tree that all Axion devices
share. Most of it is configuration; five pieces are programs, and these are what
this directory models, checks with TLC and proves about with TLAPS:

| part | source | modules |
|---|---|---|
| RAM Plus: a swapfile on /data | `config/ramplus/ax_ram_plus_setup.cpp`, `init.axion.ramplus.rc` | `SwapService`, `RamPlusSetup`, `MCRamPlus`, `RamPlusProofs` |
| RAM Plus in lmkd | `config/ramplus/lmkd/ram_plus_lmkd_hooks.cpp` | `LmkdHooks` (on `SwapService`), `MCLmkdHooks`, `LmkdProofs` |
| BORE, a burst-oriented scheduler extension | `kernel/modules/bore_sched` | `BoreMath`, `BoreMathProofs`; bursts: `BoreBurst`, `MCBoreBurst`, `BoreProofs`; at fork: `BoreInherit`, `MCBoreInherit`, `InheritProofs` |
| Latency-nice scheduler extension | `kernel/modules/latency_sched` | `LatencySched`, `MCLatency`, `LatencyProofs` |
| both extensions in one `sched_entity` | `bore_sched.h`, `latency_sched.h` | `SharedSlot` (on `BoreBurst` and `LatencySched`), `SharedSlotProofs`, `MCSharedSlot` |
| AxDragonite, affinity and boost through /proc | `kernel/modules/ax_dragonite` | `Dragonite`, `MCDragonite`, `DragoniteProofs` |

Paths below are relative to the repository's root.

## 1. Inventory

### RAM Plus setup service

*State.* The process itself (its locals), the swapfile
`/data/system/axion_ram_plus/swapfile`, the kernel's swap table, and five
properties: the request and support flag it reads, the encryption flag, and the
active size and status it publishes.

*Operations.* `main()` runs once per start: check the request; if it is 0, swap
off, unlink, publish; otherwise wait for zram, swap off what an earlier run left,
make the directory, prepare the file (open, space check, truncate, write zeroes,
fsync), mkswap, swapon, verify size and priority, publish. Every step has a
failure path, and those behind the preparation undo it (`FailPreparedSwap`,
`FailActiveSwap`).

*Interaction.* init starts it when the boot is completed and it is supported, and
again when either property is set again; init resets the published properties at
boot and makes lmkd re-read `/proc/swaps` when the service stops. zram devices,
other writers to /data and the settings application act meanwhile.

*Hard.* Death between any two calls; a power loss with dirty pages; taking over
the file of an interrupted run; reruns over an active swap; partial failure of
publishing; failing undo; priorities that the kernel renumbers.

*Correct when* the kernel never swaps to a file that is incomplete, not durable
or being changed; what a successful run publishes is true; a failed run cleans
up; the swap is below zram; the reserve of free space is kept; every run ends.

### lmkd hooks

*State.* `gRamPlusSwapKb`, a copy of the disk swap's size. *Operations.*
`lmkd_update_props_hook` re-reads it, `lmkd_adjust_free_swap_hook` estimates how
much of the free swap is usable. *Hard.* The copy is stale while the service
runs, and the estimate is used all the same. *Correct when* the copy is current
outside a run, and the estimate is accurate with a current copy and bounded by
the free swap with a stale one.

### BORE

*State.* Per task a `bore_ctx` of 32 bytes in reserved words of `sched_entity`:
burst time, three penalties, two burst caches. Globally six sysctls, a table of
reciprocals, which hooks are registered. *Operations.* Seven scheduler hooks:
charge run time, end a burst on sleep or yield, inherit at fork, clear a new
entity, choose the load weight, and one that does nothing. *Hard.* Fixed-point
arithmetic with unbounded sysctls; the weight in use follows the penalty only at
some hooks; inheritance walks lists of other tasks under RCU only and shares
caches without locks; a registration may fail half-way. *Correct when* penalties
and weights are in range under all settings, protected tasks are not penalised,
the weight does not favour a penalised task beyond its fork, the history converges,
and every scan ends.

### Latency-nice

*State.* Per task an offset and a nice value, in the same reserved words; two
sysctls. *Operations.* An initial scan, four hooks (two that return an offset,
one on renice, one on a new entity). *Hard.* Offsets computed from a maximum that
has changed since; the scan races with renices and forks; unbounded sysctl, s32
storage. *Correct when* the offset returned respects the present maximum, is not
contradictory between two tasks and follows the order of their classes.

### AxDragonite

*State.* A target pid under a mutex, four statistics, directories in /proc.
*Operations.* Set the pid, set and reset the affinity of a thread group's threads
by name, boost a thread group, pin every process named like kswapd. *Hard.* The pid is used after the
mutex is released; threads are collected under RCU and changed later; arrays of
512 and 32 tasks; every task reference must be dropped exactly once on every
path. *Correct when* no freed thread is touched and none is kept for ever, a mask
is only found on threads it was asked for and their descendants, a success means that what was asked for
is in force, and a reset undoes a set.

### No behaviour of their own

`init/*.rc`, `sepolicy`, `overlay`, `prebuilts`, `platform`, `config/*.mk`,
`build`: settings, policy and build-time evaluation. Not modelled.

`PROJECT.json` lists all components and, line by line, the hazards behind the
properties.

## 2. Plan

1. RAM Plus: `SwapService` (abstract), `RamPlusSetup` (detailed, implements it),
   proofs. **Done.**
2. `LmkdHooks`, composed with `SwapService` in place of the detailed service,
   proofs. **Done.**
3. `BoreMath` and `BoreBurst`, proofs. **Done.**
4. `LatencySched`, proofs. **Done.**
5. `BoreInherit`: the inheritance walks and the shared caches. **Done.**
6. `Dragonite`: the proc handlers as concurrent callers. **Done.**
7. `SharedSlot`: both scheduler modules on the same words. **Done.**
8. Theorems about `BoreInherit` and `Dragonite`: types, no use of freed tasks,
   fresh samples, averages; masks, effect, reset; and about `SharedSlot`. **Done.**
9. Theorems about the file the setup service prepares (its holes, the reserve, the
   priority), and about the early return of `probe_bore_update_curr`. **Done.**
10. A theorem that climb and descent meet (`ForkerIsSampled`). **Done.** What is left
    are the liveness properties, which stay with TLC.

## 3. Modules

### SwapService

What the setup service promises: it changes the disk swap only during a run,
through off, and its verdict fits what it leaves. Three variables, five actions.

### RamPlusSetup

One action is one system call of `main()`, or a group between which nothing can
be observed; `pc` names the next one. `main` holds the locals that are read later
(`requested`, `zram_priority`, `allocated`, ...). Sizes are blocks; one block is
one chunk of `WriteZeroes` and one unit of `/proc/swaps`. A file has the addresses of its
data blocks and a count of `metadata`: `st_blocks`, from which the code learns what is
allocated, counts both (`StBlocks`), and a chunk that takes a new block may take a block
of metadata with it, up to `MetadataMax`.

| code | model |
|---|---|
| `main` 307-328 | `CheckRequest` |
| the request of 0, 317-325 | `DisableRequested`, `RemoveRequested` |
| `WaitForZramPriority` | `PollZram`, once per round |
| `DisableSwap` | `SwapOffSucceeds`, `SwapOffFails` |
| `PrepareSwapFile` | `OpenSwapFile`, `CheckSpace`, `Truncate`, `WriteChunk`, `Fsync` |
| `RunMkswap`, swapon, verification | `RunMkswap`, `SwapOn`, `Verify` |
| `FailPreparedSwap`, `FailActiveSwap` | `UndoPrepared`, `UndoActive` |
| `PublishStatus`, one step per `SetProperty` | `PublishSize`, `PublishOutcome` |
| init.axion.ramplus.rc | `StartService`, `PowerLoss` (the reset of the properties) |

Outside the repository, and modelled from how the code uses it: the kernel's swap
table with its way of numbering priorities (`Activated`, `Deactivated`), its
refusal of files with holes, zram coming and going, space on /data taken by
others, and a power loss, after which each unsynced change of the file has reached
the disk or has not (`Survivors`), its metadata with it. `MayFail` says which calls may fail without a
cause in the model; `Env` says which disturbances are allowed. `OrderedWriteback`
restricts a power loss to prefixes of the unsynced blocks.

### LmkdHooks

Composes the hooks with `SwapService`, with init's `lmkd --reinit`, and with a
kernel that fills zram before the disk. That the real service can stand in for
`SwapService` is `ServicePromise`, checked and proved in the RAM Plus part.

### BoreMath, BoreBurst

`BoreMath` has the arithmetic as operators, with the widths of the C types
(`WordBits` for u32, `TimeBits` for u64, ...), the fraction bits and the number of
priority levels as constants; the code's values are in the comments and satisfy
`BoreMathAssumption`. Unsigned operations wrap (`Wrap`), casts to s32 reinterpret
(`Signed`). A shift by 32 or more is undefined in C; the model takes it modulo the
word size, as the shift instructions of arm64 and x86 do. `pow2` is a constant
function, so that the module needs no recursion and no real exponentiation.

`BoreBurst` follows one task of the fair class: all its hooks run under its run
queue's lock, so hooks of one task do not interleave with each other; what does
interleave is the module's life (registration hook by hook, failure, unloading),
sysctl writes and renices. When the task forks, the model goes on with the child
(`TaskFork`): a copy of its creator, weight included, whose context
`probe_bore_init_entity` has cleared and to which `probe_bore_task_fork` has given one of
the penalties of `Inherited`, which `BoreInherit` computes. `applied` is the priority
whose weight the kernel is using; `birth`, which is not in the code, the priority that the
inherited penalty stands for, until the kernel is handed a weight. `stop_update` is only ever set to false in the repository and is left out;
`futex_waiting` likewise.

### LatencySched

Several tasks, each with its entity, its static priority relative to 120 and
whether its policy is eligible. `ScanTask` is one iteration of
`init_latency_tasks`. `Offset` is what a probe stores through its pointer.

### BoreInherit

`probe_bore_task_fork` step by step, by several tasks at once. The lists it walks
are modelled pointer by pointer (`nxt`, with `Anchor(t)` for the list head in
task `t`), because what the walks do depends on it: the kernel unlinks a child with
`list_del_init`, after which the node points to itself, and hands the children of
an exiting parent over with `list_splice_tail_init`, after which a walk that stands
on one of them goes on in another list and never meets the head it is waiting for.
That other head is then taken for a task. Its fields are those of the surrounding
`task_struct` at a shifted address, so its penalty is any value of `Garbage`, it is
taken for eligible or not, and its children are not followed. At the beginning the
lists (`FirstNext`) follow from the parents and leaders and from an order of the tasks,
`StartOrder`. The assumptions on the constants are that the root is its own parent and
leader, that the leader of a running task runs and leads itself, and that the system has
been up for longer than the lifetime of a cache and than one unit of a cache's time.

| code | model |
|---|---|
| `probe_bore_init_entity` and the start of `probe_bore_task_fork` | `Begin` |
| `inherit_from_parent`, `inherit_from_ancestor_hub`, `inherit_from_thread_group` | actions of the same names, made of the steps below |
| the climb, 144-149; `count_children_upto2` is two reads | `Climb` |
| `burst_cache_expired` | `Check` |
| a round of the loop over children or threads | `Scan`, `TakeSample`, with `Descend` for 167-173 |
| `update_burst_cache` | `update_burst_cache` |
| the last read of the cache, `update_penalty`, and the kernel's linking of the child | `Finish` |

External: exits, reaping, the passing of time, and the other hooks' changes of the
penalties (`Charge`, which `BoreBurst` has in detail). The fork hook is taken to
run before the child is linked, which `sole_child_count = 0` for the forking task
itself presupposes. A grace period is the set of forks that were under way when a
task was reaped (`grace`). Three fields of a fork are not in the code and serve the
properties: `seen`, `floor`, `calm`. `sched_bore = 0` and the `CLONE_PARENT`
branches (both calls pass flags of 0) are left out.

### SharedSlot

`INSTANCE`s of `BoreBurst` and `LatencySched` whose states overlap for one task:
`burst_time`, the first word of a `bore_ctx`, is where `latency_sched_entity` has
its offset and nice value. `EntityOf` and `BurstOf` convert between the two views,
and every step of one module is followed at once by its effect on the other's view
(`ToLatency`, `ToBore`). A renice is two steps, the load weight through BORE and then
latency-nice's hook. `ScanRaced` is the initial scan of latency-nice, which takes no
run queue lock, losing against `burst_time += delta` both of its writes, the first or the
second. `own`, which is not in the code, is what the task has earned by its own running:
the time it was charged for in this burst, the largest penalty of that, and that of the
burst before, with -1 for a burst that latency-nice has written over. BORE is loaded first, the order
in which `config/board/kernel_modules.mk` appends the modules, and stays loaded.

### Dragonite

Writers call the handlers at the same time, over threads that are created, exit, are
unhashed and freed. There are two kinds of lists, both RCU lists, pointer by pointer: the
list of all processes, which `for_each_process` walks and which holds the leaders of user
processes as well as kernel threads, and one list of threads per process. A leader is on
two lists (`On`). At the beginning the lists are in the order of `StartTime`, in which the
leader is the first of its process. `NameOf` may give kswapd's name to any thread, and a
pid may be that of a kernel thread.

`Create` is `copy_process`: a thread is created by one of its process, the first thread of
a process by any thread, also by one that no write is about, and it has its creator's mask
and nice value. `line`, which is not in the code, keeps the threads each one descends
from. `refs` holds
the driver's references to each thread, one per place that will drop it: `<<w, 0>>`
for `task`, `<<w, i>>` for `threads[i]`.

| code | model |
|---|---|
| the write handlers | `nta_pid_write`, `nta_affinity_write`, ... : parse, then call or go to the mutex |
| the read of `g_current_target_pid` | `ReadTarget` |
| `axd_set_affinity`, `axd_reset_affinity`, `axd_set_boost`, `axd_pin_kswapd` | actions of the same names, made of the steps below |
| checks, allocation, lookup, `get_task_struct(task)` | `Find` |
| a round of `for_each_thread` or `for_each_process` | `Walk` |
| `set_cpus_allowed_ptr` and `put_task_struct` of one thread | `Apply` |
| `put_task_struct(task)`, statistics, result | `Finish` |
| `axd_init`, `axd_exit` | `Load`, `Unload` |

What is written to a file is a member of `Requests`: the parsers turn text into a
pid, a name, a mask and a level, and everything they refuse changes nothing. A reset does
not refuse what it cannot parse: it takes it for 0, and so for the target. External:
creation, exit and release of threads, the grace period of `delayed_put_task_struct`, CPUs
going offline. Left out are threads whose affinity may not be changed
(`PF_NO_SETAFFINITY`, which is a further way for `set_cpus_allowed_ptr` to fail), changes
of affinity by others, and exec with its changes of the name and of the leader. A handler runs to its end before `remove_proc_subtree` returns. Reading
the files `pid` and `stats` changes nothing and is left out.

## 4. Runs

| run | question | states |
|---|---|---|
| `ramplus_crash` | kills and power losses, two sizes, a block of metadata | 775,000 |
| `ramplus_faults` | every call may fail, /data is filled by others, zram comes and goes with either kind of priority, unordered writeback | 5,090,000 |
| `lmkd` | service, init, lmkd and the kernel's pages interleaved | 432 |
| `bore_steady` | sysctls and nice value left alone, bursts and forks | 5,980 |
| `bore_retuned` | sysctls, nice value and module change at any time, forks too | 815,000 |
| `latency` | offsets of different maxima, forks, policy changes, reloads | 212,000 |
| `inherit_exits` | forks of types 1 and 2 by a thread, below it and below the main one, all of which may exit | 201,000 |
| `inherit_caches` | two threads fork threads and processes, time passes, penalties change | 1,650,000 |
| `shared_slot` | latency-nice comes and goes over BORE, renices, sysctls | 2,010,000 |
| `dragonite_refs` | two calls at a time, threads created and freed, no memory | 352,000 |
| `dragonite_targets` | two writers, changes of the target, forks, kswapd and a user process of its name, hotplug, unloading | 1,070,000 (with symmetry) |
| `dragonite_effect` | calls one after the other, a group of three over an array of two, a pin | 2,850,000 |

*Bounds.* Requests of two and three blocks are the smallest that have a middle to
be interrupted in and allow a rerun to shrink or grow the file; a capacity of one
block more than the larger request plus reserve makes both outcomes of the space
check happen. One block of metadata in `ramplus_crash` is enough to hide a missing block
and to undercut the reserve; `ramplus_faults`, whose properties do not look at blocks, has
none. Two polling rounds show the last round and one before it. BORE's runs use four levels of
four steps, ten-bit words and times of four or five bits: a word is just wide enough for
`BoreMathAssumption`, and the sysctls in `bore_retuned` wrap it. Latency uses an
s32 of five bits, the shared slot one of four, so that the maximum does not fit it.
The proofs hold for all of these parameters.

Inheritance starts from a process of two threads (`inherit_caches`) and a child
(`inherit_exits`), with two tasks to be created: enough for a splice into another list
under a walk, for chains of only children and for two fillings of one cache. Two samples and three rounds make both limits of the scan
happen. A lifetime of 1 over four ticks lets a cache be fresh, expire, and be
replaced by a slower fork with an earlier time.

Dragonite has a process of up to three threads, one of up to two whose leader has
kswapd's name, and a kernel thread; in `dragonite_targets` the second process is forked
during the run, by a thread with a mask or by none of these. The two writers there are
interchangeable, which the symmetry uses: no constant tells them apart and the run checks
no liveness. Two or three
writes are enough for a change of the target between two others, and for a set and
a reset; an array of two is full and is exceeded.

*Counters.* `PollAttempts` and the sizes bound everything in RAM Plus. The guard
of `UpdateCurr` keeps the u64 burst time from wrapping.

*Fairness.* `RamPlusSetup` assumes weak fairness of the process's own steps: the
kernel schedules a runnable process, and its system calls return. `LmkdHooks`
assumes weak fairness of `Reinit`: init gets round to what it has queued.
`BoreInherit` and `Dragonite` assume weak fairness of the steps of a task that is
inside the fork hook or a handler: nothing there blocks for ever, and the kernel
schedules it; `Dragonite` also of `DelayedPut`, as grace periods end once their
readers have left. That those leave is what `EveryForkEnds` and `GoneIsFreed` check.
Nothing is assumed of zram, users, other processes, exits or kills.

*Slips.* Operators marked "Slip" are wrong variants of the definition that
follows them. They are not used by the specifications; putting one in the place of
the right definition must make the property it belongs to fail, which guards
against properties that hold for no reason.

## 5. Proofs

All theorems are for every value of the constants their assumptions allow.

**RamPlusProofs.** The inductive invariant `IInv` has seven parts. `Typed` is the
type invariant plus finiteness of the file's blocks and of the swap table.
`SwapSafe` says that an active file is hole-free and durable, and that at the
steps between swapoff and swapon there is no swap: without this, the steps that
change the file could not be shown harmless. It also says that at
mkswap and swapon the file on disk is the file the kernel sees (a hole in it makes
swapon refuse). `FailingStatus` says that a run that is undoing
its work carries the status of a failure, `PublishesTruth` that what is being
published is true of the swap table at that time, and `VerdictFinal` that an exit
code belongs to a stopped process. `ExitZeroTruthful` and `CleanFailure` then follow
from the step that exits and are kept by every later one. `SwapBacked`,
`ActiveFileUntouched` and the refinement of `SwapService` are consequences.
`PublishedSizeIsReal` needs `SizeHeld` besides: the swap is on from swapon up to the
publishing of its size, also while a run that failed to verify it turns it off.

Three more statements are about how the file is prepared; `Prepared` is the invariant for
them on top of `IInv`. `FileKnown`: what fstat has counted is still so when the
decision to extend is made, and from ftruncate on the file has the size asked for.
`FilePrefix`: with ordered writeback the blocks on disk are always the first ones
of the file, through truncation, writing and power loss, so that a tail written from the
number of blocks counted leaves no more blocks out than are counted as metadata
(`HolesWithinMetadata`); with `MetadataMax = 0` it leaves no hole, which is
`PreparedWithoutHoles`. `RoomLeft`: with nobody else writing, the space found suffices up
to the end, but for the metadata (`ReserveKept`). `ZramKnown`: the
lowest priority found while waiting for zram remains a lower bound, as no device comes up
after the boot and the swapoff of a stale swap only raises priorities (`BelowZram`). Each
has the condition of its property, without which it is false.

**LmkdProofs.** `CopyInSync` is inductive together with the types; the two
statements about the estimate are arithmetic on top of the types.

**BoreProofs.** Lemmas give the range of `calc_burst_penalty` through its wrapped
operations (`PenaltyCut`), the bounds of `binary_smooth` (`SmoothBetween`) and
monotonicity of the effective priority (`PrioMonotone`). `WeightNotBetter` needs
`Covered`: an unprotected task's penalty is at least its running and its
remembered one, so that a restart cannot raise it. It needs `Owed` besides: the
weight covers the penalty, or the priority of the penalty is at most `birth`, what the
penalty a fork inherited stands for. A fork raises the penalty without a weight;
from then on restarts only lower it, until `update_curr` goes beyond the
inherited one and hands the kernel a weight that covers it. The proof does not need
`PenaltyUpToDate`, which depends on `calc_burst_penalty` being monotone and so
fails for sysctls that wrap. That one is proved under `Unwrapped`, a condition on
the defaults: the shifted offset and the largest logarithm fit a signed word, and the
largest logarithm times the scale fits an unsigned one. The module's own defaults satisfy
it with room to spare: the logarithm of a u64 stays below 65 * 256, the offset is 24 and
the scale 1536. `CurrentInv` says that the running penalty is what the burst time
stands for, also after an early return: the penalty is no lower for a longer burst
(`CalcGrows`), and where it has not changed there is nothing to recompute. `AverageExact` shows that multiplying by the rounded-up
reciprocal and shifting equals dividing: the accumulated error
`(MAX_BURST_PENALTY + 1) * 63 * 62` is below 2^32.

**LatencyProofs.** The inductive invariant adds to the types that an offset has the
sign of its nice value when the maxima fit an s32. The order between classes
follows from signs alone, which is why it survives a changed maximum.

**BoreMathProofs** has the lemmas about the arithmetic that the two modules above and
below share, and `AverageExact`. `GreedGrows` shows that the fixed-point logarithm
`log2p1_u64_u32fp` is monotone: a longer number has the larger whole part whatever its
fraction (`LengthBounds`, `MantissaRange`), and of two numbers of the same length the
larger has the larger fraction, though it is cut to `Fp` bits (`DivMonotone`).
`CalcGrows` carries that through the offset, the scale and the limit.

**InheritProofs.** Everything rests on the lists staying lists (`Chain`): a linked node
leads to a linked node of the same owner, no two lead to the same one, and no set of
tasks is closed under the links, so that every walk over linked tasks comes to a head.
This is kept by appending (`Appending`), unlinking (`Unlinking`) and splicing
(`Splicing`), which are lemmas about any nodes, owners and links. `TreeSound` says that
parents run and leaders are not reaped, `ForksSound` that the child under way is not
linked and belongs to one fork. Together with the types these are `TreeInv`, from which
`TypeOK` follows: a sum of up to `SampleLimit` penalties fits, the table is indexed in
range, a scan ends at its limit.

`NoUseAfterFree` needs `SafeInv`. A task is `Visible` to a fork if it is hashed or in
a grace period that waits for the fork; all the locals are visible (`SightSound`), and
what a dead task still leads to (its parent, its next thread) is visible to all for whom
it is itself (`GraceSound`). An unlinked child leads to itself. The delicate place is
the cursor: it stands on a node that is linked *in the list of the scan's kind* or on a
dead one. Were it merely visible, it could be a thread in a list of children, whose
pointer nobody maintains.

`InheritsFresh` needs `FreshInv`, the times: a fork's samples are not older than its
`now`, a cache's samples not older than its rounded timestamp, and no fork began before
the `floor` of another under way. The wrap-around of the unsigned age makes a cache from
the future count as expired, so that only `now - timestamp * 2^Shift <= Lifetime` is
left, and the bound is the lifetime itself, without the granularity of the timestamps.

`CachedWithinSamples` needs `AverageInv`: in every sum under way one sample is not above
the average and one not below it (`Balanced`), which each further sample preserves, and
by `AverageExact` the table divides. Where nothing exits, `InList` says that a scan stands
in the list it began with, so that it never takes a head for a task.

`ForkerIsSampled` needs `SampledInv`: what a fork that nobody has disturbed knows of the
tree. While it climbs, the task it is at is an ancestor, all below are only children, and
it has none itself; while it scans, the child of the hub it is below is still ahead in the
list, or the descent is on the way from there to it (`Meets`). "Ahead", "on the way" and
"ancestor" are closures, stated as membership in every closed set, so that no induction is
needed; that a list leads from its head to all in it follows from `Chain` by the
pigeonhole principle (`HeadBefore`). The condition that all ancestors are main threads is
used where the climb goes on: only then is the task it leaves in its parent's list. For a
process below another thread the statement is false, and `inherit_exits` has such
processes.

**DragoniteProofs.** `TypeOK` is inductive with `Bounded`: what a call may have collected
at which step. For `NoUseAfterFree`, `SafeInv` says that every list stays a list
(`Sound`, one statement per list, as a leader is on two: the one of its group and the
one of all processes), that a walk stands on a thread that
is linked or in a grace period waiting for the walk, that the threads collected and not
yet handled each carry the reference of their place in the array, and that the driver
drops exactly those.

`MasksAccountedFor` adds that a call's mask and list come from one request, whatever the
target is meanwhile, and that every mask but the full one was asked for a thread of the
`line` of ancestors it was copied along (`MaskInv`, `Asked`). A fork keeps this because
it copies the creator's mask and lengthens the creator's line.

`TakesEffect` (`EffectInv`) and `ResetUndoesAll` (`UndoInv`) are for one call at a time.
Each list keeps the order of the start times when threads exit (`InOrder`), and the walk
has collected, in this order, all that match up to its cursor (`Walked`). A reset or a
set by the wildcard collects without gaps (`Gapless`), so that a thread with a changed
mask is among the first `MaxThreads` of its group (`Ranked`); exits only move it forward,
and a later reset reaches it. What a pin has changed is a leader, and so the first of its
group: the assumption that no thread is older than its leader is used here.

**SharedSlotProofs.** `SlotInv` asks less of the slot than either module alone: to BORE
it is any u64, to latency-nice any two numbers. `BurstTyped` shows that the words
latency-nice writes always make up a u64 (`Digits`: their sizes divide its size), so that
`calc_burst_penalty` stays within its range; `ProbesSound` that the clamp does not depend
on where the offsets come from. What is lost is
what `SlotInv` leaves out, the meaning of the values: `ClassesOrdered` and
`PenaltyUpToDate` do not hold for both modules together. `BoreRecovers` says for how long
BORE's are wrong. It rests on `OwnInv`: in a
burst without a foreign write the burst time is the time charged and the running penalty one that was earned in this burst; when the burst before
was such a one too, what is remembered of it is at most what it earned, because a
restart never remembers more than the running penalty (`SmoothBetween`), whatever it
remembered before. The lemmas `Same...` carry the
arithmetic over from `BoreMathProofs` to the instance of `BoreBurst`.

*Induction.* The prover cannot use the library's induction theorems. Where a proof needs
an extreme element (the first of a list at the beginning, the earliest of the forks), it
goes through the well-foundedness of the natural numbers (`LeastNat`), and where it
needs that a walk comes to an end, through the absence of closed sets in `Chain`.

*Only model-checked:* `RunEnds`, `CopyCatchesUp`, `EveryForkEnds` and `GoneIsFreed`
(liveness under fairness is beyond the prover).

## 6. Observations

No statement in the repository was found to be contradicted by the code. Worth
knowing all the same:

- `Fail` publishes an active size of 0 on the paths before the first swapoff
  (`ax_ram_plus_setup.cpp` 307-333), where the swap of an earlier run of the same
  boot may still be on. `PublishedSizeIsReal` therefore goes in one direction only.
- zram devices that change during a run can make the verification fail with
  `priority_error`, because the lowest priority is read before swapoff and the
  kernel renumbers. The run cleans up; the next one succeeds.
- With unordered writeback, a power loss can leave a hole that the comparison of
  allocated and preserved bytes does not see (it compares totals). swapon refuses
  the file, the run removes it, and the next run starts afresh.
- The comparison also counts what `st_blocks` holds besides data: on f2fs the nodes of
  an 8 GiB file take about 8 MiB, more than a chunk of 4 MiB. A run killed before its last
  chunks may so leave a file that the next one takes for prepared
  (`HolesWithinMetadata` bounds what is missing). swapon refuses the hole, the
  run ends with `activation_failed` and removes the file, and the one after starts afresh;
  `SwapBacked` is not affected. The metadata also takes space that the reserve has not
  accounted for.
- `gRamPlusSwapKb` is in kB; whether lmkd passes free swap in the same unit cannot
  be seen in this repository. The model takes it to.
- After a renice or a retuning of the sysctls, a task's weight can stay better than
  its penalty until the next step of priority in `update_curr`; unloading
  the BORE module leaves the last weights in place until the next renice.
- A forked child keeps its creator's weight, although its penalty is the inherited one:
  the fork hook passes no `new_prio` (`bore_sched_main.c` 351), and `update_curr` returns
  early as long as the child's own burst is not above what it inherited.
  `WeightNotBetter` is about penalties beyond that.
- A renice between `init_latency_tasks` and the registration of the last hook of
  the latency module is not seen; a forked task starts with a latency nice of 0
  whatever its nice value. Both last until the next renice.
- `bore_get_ctx_se` and `latency_get_se` return the same address. With both modules
  loaded, a renice above 0 becomes a large burst time and so a penalty at once; a
  sleep or yield clears the latency offset, so that a task that wakes up is neutral
  for latency-nice; and a burst time is read as an offset. Results stay in range
  (`BothInRange`), but neither feature works as described. A foreign write raises a
  penalty for the burst it falls into and the next one (`BoreRecovers`); an offset that
  BORE has overwritten is back only after the next renice.
- A scan of children that is overtaken by the exit of their parent can take a list
  head for a task. It ends by the scan limit and stays within mapped memory, but
  the sample it takes is arbitrary, so an inherited penalty can exceed
  `MAX_BURST_PENALTY`; the weight is clamped all the same. `BoreBurst` takes inherited
  penalties to be in range.
- A fork that was slow can replace a burst cache by an older one. A fork therefore
  inherits from samples that can be older than `sched_burst_cache_lifetime`; they are
  not if the age is counted from the earliest fork that was under way when it began
  (`InheritsFresh`).
- The lists of children are kept per thread, and a thread is in no list of its
  parent's. The climb of `inherit_from_ancestor_hub` goes from a process to the thread that
  forked it and on to that one's parent, but the descent comes only through main threads:
  what was forked by another thread does not count among the samples it inherits
  from. `ForkerIsSampled` excludes such processes.
- A cleared cache has the timestamp 0 and counts as expired only because the system
  has been up for longer than the lifetime; `BoreInherit` assumes it.
- In a process of more than 512 threads a set by name counts only the threads of
  that name and can reach threads that a reset, which counts all, does not; the
  reset returns success. `ResetUndoesAll` is about sets by the wildcard.
- A boost of level 0 sets nice 0, not what the threads had before. A reset with pid 1
  is for the target. A process whose leader has exited cannot be addressed by its pid.
  `-ENOENT` of a set and `-ESRCH` of a pin are reported to the writer as success.
- A thread or process forked by one whose mask was changed starts with that mask. A
  process therefore may carry a mask that was asked for another one, and keeps it when the
  creator's is reset; `MasksAccountedFor` allows for the ancestors.
- The pin compares the first letters of every process's name: a user process
  called kswapd-something is pinned like the kernel's threads.
- Two sets at a time can leave a process with some threads on either mask, and
  threads created during a walk may be missed: `TakesEffect` is about calls one at a
  time over a group that does not grow.
- The kernel modules are loaded in the background from early-init on, while owner and
  mode of AxDragonite's files are set on boot (`init/init.axion.modules.rc`); if the
  module is late, the modes of `proc_create` stay. Permissions are not modelled.

## 7. Not modelled

- `init/*.rc` other than RAM Plus's, SELinux policy, overlays, prebuilt files, make
  files: settings and data, without state or steps of their own.
- The reports in /proc of the three kernel modules, and reading of AxDragonite's
  files: they only read. The reports are created and
  removed with their modules and fail without consequence.
- The parsers of the handlers and of `/proc/swaps`, character by character: they are
  represented by what they yield.
- Loading BORE over a running latency-nice: `init_bore_tasks` then clears the slot of
  every task, which to latency-nice is a task of nice value 0.
