---------------------------- MODULE RamPlusSetup ----------------------------
(***************************************************************************)
(* config/ramplus/ax_ram_plus_setup.cpp: the one-shot service that turns a *)
(* file on /data into extra swap, together with the part of its world that *)
(* the program's correctness depends on: the kernel's swap table, the file *)
(* (live and durable), the free space of /data, the system properties, and *)
(* init, which starts the service and resets its properties at boot.       *)
(*                                                                         *)
(* One action is one system call (or one group of calls between which      *)
(* nothing observable happens) of main(); a crash of the process or a      *)
(* power loss may come between any two.  Sizes are counted in blocks: one  *)
(* block is one chunk of WriteZeroes, and also the unit of /proc/swaps.    *)
(***************************************************************************)
EXTENDS Integers, FiniteSets

CONSTANTS
    Zram,             \* the zram swap devices
    FixedPriorities,  \* priorities an fstab may give a zram device
    SwapFile,         \* kSwapPath, as an entry of /proc/swaps
    AllowedSizes,     \* the non-zero sizes IsAllowedSize accepts
    BadSizes,         \* what a request may hold that is refused
    Reserve,          \* kDefaultReserveMib
    Tolerance,        \* kSwapSizeToleranceKb
    Overheads,        \* by how much /proc/swaps may report less than the file
    PollAttempts,     \* kZramPollAttempts
    Capacity,         \* the size of /data
    MetadataMax,      \* the most blocks of metadata st_blocks counts for the file
    MayFail,          \* the calls that may fail without a cause in the model
    Env,              \* the disturbances allowed: see the environment actions
    OrderedWriteback  \* whether dirty blocks reach the disk in file order

Calls == {"swapoff", "mkdir", "open", "statvfs", "ftruncate", "write",
          "fsync", "mkswap", "swapon", "swaps", "setprop", "unlink"}

Disturbances == {"kill", "powerloss", "space", "zram", "props"}

ASSUME SetupAssumption ==
    /\ SwapFile \notin Zram /\ IsFiniteSet(Zram)
    /\ FixedPriorities \subseteq Nat
    /\ AllowedSizes \subseteq Nat \ {0}
    /\ BadSizes \cap (AllowedSizes \cup {0}) = {}
    /\ Reserve \in Nat /\ Tolerance \in Nat /\ Capacity \in Nat
    /\ MetadataMax \in Nat
    /\ Overheads \subseteq Nat
    /\ \A size \in AllowedSizes : \E o \in Overheads : o < size
    /\ PollAttempts \in Nat \ {0}
    /\ MayFail \subseteq Calls
    /\ Env \subseteq Disturbances
    /\ OrderedWriteback \in BOOLEAN

VARIABLES
    pc,       \* the next step of main(); "stopped" while no process runs
    main,     \* main()'s locals
    prop,     \* the persist.sys.ax_rp_* and ro.crypto.* properties
    file,     \* the swapfile as the running system sees it
    disk,     \* the swapfile as far as it is certain to survive a power loss
    others,   \* the blocks of /data that everything else uses
    prio,     \* the kernel's swap table: active device -> priority
    entryKb,  \* the size /proc/swaps reports for the swapfile, 0 if inactive
    boot,     \* sys.boot_completed
    exit      \* how the last run of this boot ended

vars == <<pc, main, prop, file, disk, others, prio, entryKb, boot, exit>>

storage == <<file, disk, others>>
kernel == <<prio, entryKb>>
init == <<boot, exit>>

Fails(call) == call \in MayFail

-----------------------------------------------------------------------------
(* Values *)

\* The statuses main() hands to Fail and its relatives.
FailStatuses ==
    {"unsupported", "invalid_size", "encryption_required", "zram_not_ready",
     "swapoff_failed", "file_error", "insufficient_space",
     "allocation_failed", "format_failed", "activation_failed",
     "verification_failed", "priority_error"}

Statuses == FailStatuses \cup {"active", "disabled"}

Requests == AllowedSizes \cup {0} \cup BadSizes

\* main()'s locals before main() has set them.
Fresh == [requested |-> 0, zram_priority |-> 0, attempt |-> 0,
          allocated |-> 0, current |-> 0, offset |-> 0,
          kb |-> 0, status |-> "disabled", size_set |-> FALSE]

\* A file is its size, the addresses that have a block of data, and how many
\* blocks the file system uses beside them (nodes of f2fs, extents of ext4).
NoFile == [exists |-> FALSE, size |-> 0, blocks |-> {}, metadata |-> 0]

NotExited == [code |-> -1, status |-> "disabled", requested |-> 0]

\* Block addresses 0 .. n - 1.
Extent(n) == 0 .. (n - 1)

\* The file has no holes, as the kernel demands of a swapfile.
HoleFree(f) == f.exists /\ f.size > 0 /\ f.blocks = Extent(f.size)

Active == SwapFile \in DOMAIN prio

\* st_blocks of fstat.
StBlocks(f) == Cardinality(f.blocks) + f.metadata

Avail == Capacity - others - StBlocks(file)

-----------------------------------------------------------------------------
(* The kernel's swap table (mm/swapfile.c, external).  A device activated   *)
(* without an explicit priority gets the next lower negative one; the       *)
(* devices below a deactivated one with a negative priority move up.        *)

LeastPriority(p) == -1 - Cardinality({d \in DOMAIN p : p[d] < 0})

ActivatedAt(p, d, n) ==
    [x \in DOMAIN p \cup {d} |-> IF x = d THEN n ELSE p[x]]

Activated(p, d) == ActivatedAt(p, d, LeastPriority(p) - 1)

Deactivated(p, d) ==
    [x \in DOMAIN p \ {d} |->
        IF p[d] < 0 /\ p[x] < p[d] THEN p[x] + 1 ELSE p[x]]

-----------------------------------------------------------------------------
(* Steps of main() *)

Goto(label) == pc' = label /\ UNCHANGED main

\* PublishStatus(kb, status) begins; what follows it depends on the status.
Publish(kb, status) ==
    /\ pc' = "pub_size"
    /\ main' = [main EXCEPT !.kb = kb, !.status = status]

\* Slip: the size of a swap that is gone stays published.
FailKeepingSize(status) == Publish(main.kb, status)

Fail(status) == Publish(0, status)

\* Slip: the half-prepared file is left behind.
FailWithoutUnlink(status) == Fail(status)

FailPreparedSwap(status) ==
    /\ pc' = "fail_prepared"
    /\ main' = [main EXCEPT !.status = status]

\* Slip: the swap that failed its verification is not turned off.
FailWithoutSwapOff(kb, status) == FailPreparedSwap(status)

FailActiveSwap(kb, status) ==
    /\ pc' = "fail_active"
    /\ main' = [main EXCEPT !.kb = kb, !.status = status]

Exit(code) ==
    /\ pc' = "stopped"
    /\ main' = Fresh
    /\ exit' = [code |-> code, status |-> main.status,
                requested |-> main.requested]
    /\ UNCHANGED boot

\* The checks of main() up to the first call that has an effect.
CheckRequest ==
    /\ pc = "main"
    /\ \/ ~prop.supported /\ Fail("unsupported")
       \/ /\ prop.supported
          /\ prop.requested \notin AllowedSizes \cup {0}
          /\ Fail("invalid_size")
       \/ /\ prop.supported
          /\ prop.requested = 0
          /\ Goto("disable")
       \/ /\ prop.supported
          /\ prop.requested \in AllowedSizes
          /\ IF prop.encrypted
             THEN /\ pc' = "wait_zram"
                  /\ main' = [main EXCEPT !.requested = prop.requested]
             ELSE Fail("encryption_required")
    /\ UNCHANGED <<prop, storage, kernel, init>>

\* Slip: a swapoff that does nothing counts as success.
SwapOffIgnored == UNCHANGED kernel

\* DisableSwap.  swapoff of a file that is missing (ENOENT) or not a swap
\* (EINVAL) counts as success.
SwapOffSucceeds ==
    IF Active /\ file.exists
    THEN prio' = Deactivated(prio, SwapFile) /\ entryKb' = 0
    ELSE UNCHANGED kernel

SwapOffFails == Fails("swapoff") /\ UNCHANGED kernel

\* RemoveSwapFile.  A missing file counts as removed.
UnlinkSucceeds == file' = NoFile

UnlinkFails == Fails("unlink") /\ UNCHANGED file

\* The branch for a request of 0: swapoff, unlink, publish.
DisableRequested ==
    /\ pc = "disable"
    /\ \/ SwapOffSucceeds /\ Goto("remove")
       \/ SwapOffFails /\ Fail("swapoff_failed")
    /\ UNCHANGED <<prop, storage, init>>

RemoveRequested ==
    /\ pc = "remove"
    /\ \/ UnlinkSucceeds /\ Publish(0, "disabled")
       \/ UnlinkFails /\ Fail("file_error")
    /\ UNCHANGED <<prop, disk, others, kernel, init>>

\* FindLowestZramPriority over the table as it stands.
ZramOn == Zram \cap DOMAIN prio

LowestZram == {z \in ZramOn : \A y \in ZramOn : prio[z] <= prio[y]}

\* Slip: one round too many.
AttemptsLeftLate == main.attempt < PollAttempts

AttemptsLeft == main.attempt + 1 < PollAttempts

\* Slip: a round is not counted.
AttemptUncounted == pc' = pc /\ UNCHANGED main

\* sleep_for, then the next round.
NextAttempt == pc' = pc /\ main' = [main EXCEPT !.attempt = @ + 1]

\* Slip: no second look when zram is not there yet.
PollZramOnce ==
    /\ pc = "wait_zram"
    /\ pc' = "swapoff"
    /\ UNCHANGED <<main, prop, storage, kernel, init>>

\* One round of WaitForZramPriority.
PollZram ==
    /\ pc = "wait_zram"
    /\ \/ \E z \in LowestZram :
            /\ pc' = "swapoff"
            /\ main' = [main EXCEPT !.zram_priority = prio[z]]
       \/ /\ ZramOn = {} \/ Fails("swaps")
          /\ IF AttemptsLeft
             THEN NextAttempt
             ELSE Fail("zram_not_ready")
    /\ UNCHANGED <<prop, storage, kernel, init>>

\* The swapoff that must come before the file is touched.
DisableStale ==
    /\ pc = "swapoff"
    /\ \/ SwapOffSucceeds /\ Goto("mkdir")
       \/ SwapOffFails /\ Fail("swapoff_failed")
    /\ UNCHANGED <<prop, storage, init>>

EnsureDataDirectory ==
    /\ pc = "mkdir"
    /\ \/ Goto("open")
       \/ Fails("mkdir") /\ Fail("file_error")
    /\ UNCHANGED <<prop, storage, kernel, init>>

\* PrepareSwapFile: open, fstat, fchmod.  fstat's view of the file is what
\* the later steps decide on.
OpenSwapFile ==
    /\ pc = "open"
    /\ \/ /\ file' = [file EXCEPT !.exists = TRUE]
          /\ pc' = "space"
          /\ main' = [main EXCEPT !.allocated = StBlocks(file),
                                  !.current = file.size]
       \/ /\ Fails("open")
          /\ \/ UNCHANGED file
             \/ file' = [file EXCEPT !.exists = TRUE]
          /\ FailPreparedSwap("file_error")
    /\ UNCHANGED <<prop, disk, others, kernel, init>>

Smaller(a, b) == IF a <= b THEN a ELSE b

\* Slip: the reserve is forgotten.
HasSpaceUnreserved ==
    \/ main.requested <= main.allocated
    \/ Avail >= main.requested - main.allocated

\* HasAllocationSpace(min(allocated, requested), requested).
HasSpace ==
    LET current == Smaller(main.allocated, main.requested)
    IN  \/ main.requested <= current
        \/ Avail >= main.requested - current + Reserve

CheckSpace ==
    /\ pc = "space"
    /\ \/ HasSpace /\ Goto("truncate")
       \/ ~HasSpace /\ FailPreparedSwap("insufficient_space")
       \/ Fails("statvfs") /\ FailPreparedSwap("file_error")
    /\ UNCHANGED <<prop, storage, kernel, init>>

\* Slip: a sparse file counts as written up to its size.
WriteOffsetTrusting == Smaller(main.current, main.requested)

\* Where WriteZeroes starts: behind what the file already holds, or at 0
\* when fstat has shown it to be sparse.
WriteOffset ==
    LET preserved == Smaller(main.current, main.requested)
    IN  IF main.allocated < preserved THEN 0 ELSE preserved

Truncate ==
    /\ pc = "truncate"
    /\ \/ /\ \E m \in 0 .. file.metadata :
               file' = [file EXCEPT
                          !.size = main.requested,
                          !.blocks = @ \cap Extent(main.requested),
                          !.metadata = m]
          /\ pc' = "write"
          /\ main' = [main EXCEPT !.offset = WriteOffset]
       \/ /\ Fails("ftruncate")
          /\ FailPreparedSwap("allocation_failed")
          /\ UNCHANGED file
    /\ UNCHANGED <<prop, disk, others, kernel, init>>

\* What a chunk may add to the metadata.
MetadataGrowth == {m \in 0 .. 1 : file.metadata + m <= MetadataMax}

\* One chunk of WriteZeroes; it takes a new block, and metadata at times,
\* unless it overwrites one.
WriteChunk ==
    /\ pc = "write"
    /\ main.offset < main.requested
    /\ \/ /\ \E m \in IF main.offset \in file.blocks THEN {0} ELSE MetadataGrowth :
               /\ main.offset \in file.blocks \/ Avail > m
               /\ file' = [file EXCEPT !.blocks = @ \cup {main.offset},
                                       !.metadata = @ + m]
          /\ main' = [main EXCEPT !.offset = @ + 1]
          /\ UNCHANGED pc
       \/ /\ \/ /\ main.offset \notin file.blocks
                /\ \E m \in MetadataGrowth : Avail <= m
             \/ Fails("write")
          /\ FailPreparedSwap("allocation_failed")
          /\ UNCHANGED file
    /\ UNCHANGED <<prop, disk, others, kernel, init>>

\* Slip: the blocks are left to the page cache.
FsyncSkipped == UNCHANGED disk

FsyncSucceeds == disk' = file

Fsync ==
    /\ pc = "write"
    /\ main.offset >= main.requested
    /\ \/ FsyncSucceeds /\ Goto("mkswap")
       \/ /\ Fails("fsync")
          /\ FailPreparedSwap("file_error")
          /\ UNCHANGED disk
    /\ UNCHANGED <<prop, file, others, kernel, init>>

\* RunMkswap: fork, exec, waitpid.
RunMkswap ==
    /\ pc = "mkswap"
    /\ \/ Goto("swapon")
       \/ Fails("mkswap") /\ FailPreparedSwap("format_failed")
    /\ UNCHANGED <<prop, storage, kernel, init>>

\* swapon(kSwapPath, 0): the kernel refuses a file with holes.
SwapOn ==
    /\ pc = "swapon"
    /\ \/ /\ HoleFree(file)
          /\ prio' = Activated(prio, SwapFile)
          /\ \E o \in Overheads : o < file.size /\ entryKb' = file.size - o
          /\ Goto("verify")
       \/ /\ ~HoleFree(file) \/ Fails("swapon")
          /\ FailPreparedSwap("activation_failed")
          /\ UNCHANGED kernel
    /\ UNCHANGED <<prop, storage, init>>

\* Slip: only too large a swap is refused.
SizeNotAbove == entryKb <= main.requested

SizeVerified ==
    /\ entryKb <= main.requested
    /\ main.requested - entryKb <= Tolerance

\* FindRamPlusSwap and the checks on what it found.
Verify ==
    /\ pc = "verify"
    /\ \/ /\ ~Active \/ Fails("swaps")
          /\ FailActiveSwap(main.requested, "verification_failed")
       \/ /\ Active /\ ~SizeVerified
          /\ FailActiveSwap(entryKb, "verification_failed")
       \/ /\ Active /\ SizeVerified
          /\ IF prio[SwapFile] >= main.zram_priority
             THEN FailActiveSwap(entryKb, "priority_error")
             ELSE Publish(entryKb, "active")
    /\ UNCHANGED <<prop, storage, kernel, init>>

\* FailActiveSwap's swapoff; if it fails too, the size stays published.
UndoActive ==
    /\ pc = "fail_active"
    /\ \/ SwapOffSucceeds /\ Goto("fail_prepared")
       \/ SwapOffFails /\ Publish(main.kb, "swapoff_failed")
    /\ UNCHANGED <<prop, storage, init>>

\* FailPreparedSwap's unlink.
UndoPrepared ==
    /\ pc = "fail_prepared"
    /\ \/ UnlinkSucceeds /\ Fail(main.status)
       \/ UnlinkFails /\ Fail("file_error")
    /\ UNCHANGED <<prop, disk, others, kernel, init>>

\* PublishStatus, first SetProperty.
PublishSize ==
    /\ pc = "pub_size"
    /\ pc' = "pub_status"
    /\ \/ /\ prop' = [prop EXCEPT !.active_kb = main.kb]
          /\ main' = [main EXCEPT !.size_set = TRUE]
       \/ /\ Fails("setprop")
          /\ main' = [main EXCEPT !.size_set = FALSE]
          /\ UNCHANGED prop
    /\ UNCHANGED <<storage, kernel, init>>

\* Slip: PublishStatus's result is ignored.
PublishedUnchecked(ok) ==
    IF main.status \in {"active", "disabled"} THEN Exit(0) ELSE Exit(1)

\* What main() does with PublishStatus's result.
Published(ok) ==
    \/ /\ ok /\ main.status \in {"active", "disabled"}
       /\ Exit(0)
    \/ /\ ~ok /\ main.status = "active"
       /\ FailActiveSwap(main.kb, "activation_failed")
       /\ UNCHANGED init
    \/ /\ main.status # "active"
       /\ ~ok \/ main.status # "disabled"
       /\ Exit(1)

\* PublishStatus, second SetProperty.
PublishOutcome ==
    /\ pc = "pub_status"
    /\ \/ /\ prop' = [prop EXCEPT !.status = main.status]
          /\ Published(main.size_set)
       \/ /\ Fails("setprop")
          /\ Published(FALSE)
          /\ UNCHANGED prop
    /\ UNCHANGED <<storage, kernel>>

MainStep ==
    \/ CheckRequest \/ DisableRequested \/ RemoveRequested \/ PollZram
    \/ DisableStale \/ EnsureDataDirectory \/ OpenSwapFile \/ CheckSpace
    \/ Truncate \/ WriteChunk \/ Fsync \/ RunMkswap \/ SwapOn \/ Verify
    \/ UndoActive \/ UndoPrepared \/ PublishSize \/ PublishOutcome

-----------------------------------------------------------------------------
(* init (init.axion.ramplus.rc) and the rest of the world *)

BootCompleted ==
    /\ ~boot
    /\ boot' = TRUE
    /\ UNCHANGED <<pc, main, prop, storage, kernel, exit>>

\* on property:sys.boot_completed=1 && property:persist.sys.ax_rp_supp=true.
\* The trigger fires again whenever one of the two is set again, as it is
\* when the framework restarts; start does nothing for a running service.
StartService ==
    /\ boot /\ prop.supported
    /\ pc = "stopped"
    /\ pc' = "main"
    /\ main' = Fresh
    /\ exit' = NotExited
    /\ UNCHANGED <<prop, storage, kernel, boot>>

\* A zram device is activated, with the fstab's priority or the kernel's.
\* Left alone, the first one may come up late, the others come up early.
ZramSwapOn ==
    /\ \E z \in Zram \ DOMAIN prio :
        /\ "zram" \in Env \/ ZramOn = {} \/ ~boot
        /\ \/ prio' = Activated(prio, z)
           \/ \E n \in FixedPriorities : prio' = ActivatedAt(prio, z, n)
    /\ UNCHANGED <<pc, main, prop, storage, entryKb, init>>

\* A zram device is taken down, to be resized for instance.
ZramSwapOff ==
    /\ "zram" \in Env
    /\ \E z \in ZramOn : prio' = Deactivated(prio, z)
    /\ UNCHANGED <<pc, main, prop, storage, entryKb, init>>

\* The settings application writes the properties the service reads.
SetRequest ==
    /\ "props" \in Env
    /\ \E r \in Requests \ {prop.requested} :
        prop' = [prop EXCEPT !.requested = r]
    /\ UNCHANGED <<pc, main, storage, kernel, init>>

SetSupported ==
    /\ "props" \in Env
    /\ prop' = [prop EXCEPT !.supported = ~@]
    /\ UNCHANGED <<pc, main, storage, kernel, init>>

\* Someone else fills or frees space on /data.
OthersUseSpace ==
    /\ "space" \in Env
    /\ \E n \in 0 .. (Capacity - StBlocks(file)) : others' = n
    /\ UNCHANGED <<pc, main, prop, file, disk, kernel, init>>

\* The process dies; what the kernel did for it stays.
Kill ==
    /\ "kill" \in Env
    /\ pc # "stopped"
    /\ pc' = "stopped"
    /\ main' = Fresh
    /\ exit' = NotExited
    /\ UNCHANGED <<prop, storage, kernel, boot>>

\* What the file may be after a power loss: each unsynced change of it has
\* reached the disk or has not.
Survivors ==
    {f \in [exists : {disk.exists, file.exists},
            size : {disk.size, file.size},
            blocks : SUBSET (disk.blocks \cup file.blocks),
            metadata : {disk.metadata, file.metadata}] :
        /\ f.exists \/ f = NoFile
        /\ f.blocks \subseteq Extent(f.size)
        /\ f.exists => disk.blocks \cap file.blocks \cap Extent(f.size)
                            \subseteq f.blocks
        /\ OrderedWriteback =>
               \A b \in f.blocks : (disk.blocks \cup file.blocks) \cap Extent(b)
                                       \subseteq f.blocks
        /\ others + StBlocks(f) <= Capacity}

\* A power loss and the boot after it, up to load_persist_props_action,
\* where init.axion.ramplus.rc resets the two published properties.
PowerLoss ==
    /\ "powerloss" \in Env
    /\ pc' = "stopped"
    /\ main' = Fresh
    /\ prop' = [prop EXCEPT !.active_kb = 0, !.status = "disabled"]
    /\ file' \in Survivors
    /\ disk' = file'
    /\ prio' = [d \in {} |-> 0]
    /\ entryKb' = 0
    /\ boot' = FALSE
    /\ exit' = NotExited
    /\ UNCHANGED others

-----------------------------------------------------------------------------

Init ==
    /\ pc = "stopped"
    /\ main = Fresh
    /\ prop \in [requested : Requests, supported : BOOLEAN,
                 encrypted : BOOLEAN, active_kb : {0}, status : {"disabled"}]
    /\ file = NoFile
    /\ disk = NoFile
    /\ others \in 0 .. Capacity
    /\ prio = [d \in {} |-> 0]
    /\ entryKb = 0
    /\ boot = FALSE
    /\ exit = NotExited

World ==
    \/ BootCompleted \/ StartService \/ ZramSwapOn \/ ZramSwapOff
    \/ SetRequest \/ SetSupported \/ OthersUseSpace \/ Kill \/ PowerLoss

Next == MainStep \/ World

\* The process is scheduled as long as it can run; nothing is assumed of the
\* world around it.
Spec == Init /\ [][Next]_vars /\ WF_vars(MainStep)

-----------------------------------------------------------------------------
(* Properties *)

Labels == {"stopped", "main", "disable", "remove", "wait_zram", "swapoff",
           "mkdir", "open", "space", "truncate", "write", "mkswap", "swapon",
           "verify", "fail_active", "fail_prepared", "pub_size", "pub_status"}

File == [exists : BOOLEAN, size : Nat, blocks : SUBSET Nat,
         metadata : 0 .. MetadataMax]

Locals == [requested : AllowedSizes \cup {0}, zram_priority : Int,
           attempt : Extent(PollAttempts), allocated : Nat, current : Nat,
           offset : Nat,
           kb : Nat, status : Statuses, size_set : BOOLEAN]

\* Every variable keeps its type; the published status is one of the words
\* main() and init write.
TypeOK ==
    /\ pc \in Labels
    /\ main \in Locals
    /\ prop \in [requested : Requests, supported : BOOLEAN,
                 encrypted : BOOLEAN, active_kb : Nat, status : Statuses]
    /\ file \in File /\ disk \in File
    /\ others \in Nat
    /\ DOMAIN prio \subseteq Zram \cup {SwapFile}
    /\ \A d \in DOMAIN prio : prio[d] \in Int
    /\ entryKb \in Nat
    /\ boot \in BOOLEAN
    /\ exit \in [code : {-1, 0, 1}, status : Statuses,
                 requested : AllowedSizes \cup {0}]

\* While the kernel swaps to the file, the file exists, has no holes, and is
\* on disk exactly as the kernel sees it: swapon comes after WriteZeroes and
\* fsync, and nothing takes a block away before swapoff.
SwapBacked == Active => HoleFree(file) /\ disk = file /\ entryKb > 0

\* No step creates, resizes, writes or removes the file while it is swapped
\* to, whatever died or failed before: the swapoff of this run comes first,
\* and its EINVAL and ENOENT really mean that there is no swap.
ActiveFileUntouched == [][file' # file => ~Active]_vars

\* A run that exits with 0 has told the truth: "active" is published exactly
\* when swap of the requested size is on, and "disabled" when neither swap
\* nor file is left.  It holds through failing SetProperty calls too.
ExitZeroTruthful ==
    exit.code = 0 =>
        /\ prop.status = exit.status
        /\ prop.active_kb = entryKb
        /\ exit.status = "active" =>
            /\ Active
            /\ entryKb <= exit.requested
            /\ exit.requested - entryKb <= Tolerance
        /\ exit.status # "active" =>
            /\ exit.status = "disabled"
            /\ ~Active
            /\ ~file.exists

\* A run that failed after it began to prepare the file, and could undo what
\* it did, leaves neither the file nor the swap behind.
CleanFailure ==
    (exit.code = 1 /\ exit.status \in
        {"insufficient_space", "allocation_failed", "format_failed",
         "activation_failed", "verification_failed", "priority_error"})
    => ~Active /\ ~file.exists

\* A size that PublishStatus has written and that is not 0 means that the swap
\* is on: after a failure too, whether or not it could be undone.
PublishedSizeIsReal ==
    (pc = "pub_status" /\ main.size_set /\ prop.active_kb > 0) => Active

\* With nobody else writing to /data, a file that grows leaves the reserve of
\* HasAllocationSpace free at every moment of WriteZeroes, even when it takes
\* over a file that an interrupted run left sparse: all but what the metadata
\* takes, which HasAllocationSpace does not ask for.
ReserveKept ==
    ("space" \notin Env /\ pc \in {"write", "mkswap", "swapon", "verify"}
        /\ main.allocated < main.requested)
    => Avail >= Reserve - MetadataMax

\* With blocks reaching the disk in file order, what PrepareSwapFile returns
\* with kOk lacks no more blocks than the metadata in st_blocks can hide from
\* its test allocated < preserved, however many runs were killed while they
\* wrote and whatever sizes they wanted.  Where st_blocks counts data alone it
\* is a file swapon accepts; otherwise swapon may refuse it.
HolesWithinMetadata ==
    (OrderedWriteback /\ pc \in {"mkswap", "swapon"}) =>
        /\ file.exists /\ file.size > 0 /\ file.blocks \subseteq Extent(file.size)
        /\ Cardinality(Extent(file.size) \ file.blocks) <= MetadataMax

\* With the zram devices left alone, a run that reports "active" has put the
\* swapfile below every one of them, so that zram fills up first.
BelowZram ==
    ("zram" \notin Env /\ exit.code = 0 /\ exit.status = "active")
    => ZramOn # {} /\ \A z \in ZramOn : prio[SwapFile] < prio[z]

\* Every run ends: the wait for zram is bounded and so is WriteZeroes.
RunEnds == (pc # "stopped") ~> (pc = "stopped")

-----------------------------------------------------------------------------
(* The promise of SwapService *)

Verdict == CASE exit.code = -1 -> "none"
             [] exit.code = 0 -> exit.status
             [] exit.code = 1 -> "failed"

Service == INSTANCE SwapService WITH
    Totals <- Nat \ {0},
    running <- pc # "stopped",
    total <- entryKb,
    verdict <- Verdict

\* The service keeps its promise to lmkd: the swap changes only during a run,
\* through off, and the run's verdict fits what it leaves.
ServicePromise == Service!ServiceSpec

=============================================================================
