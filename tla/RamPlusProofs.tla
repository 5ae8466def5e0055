---------------------------- MODULE RamPlusProofs ----------------------------
(***************************************************************************)
(* Proofs about RamPlusSetup, for every set of zram devices and sizes, any *)
(* reserve, tolerance and capacity, any set of calls that may fail and any *)
(* disturbance.                                                            *)
(***************************************************************************)
EXTENDS RamPlusSetup, FiniteSetTheorems, TLAPS

\* The blocks and the devices are finitely many, so that they can be counted.
Countable ==
    /\ IsFiniteSet(file.blocks)
    /\ IsFiniteSet(disk.blocks)
    /\ IsFiniteSet(DOMAIN prio)

Typed == TypeOK /\ Countable

-----------------------------------------------------------------------------
(* Facts about the helpers *)

\* The blocks of a file form a finite set of addresses.
LEMMA ExtentFinite ==
    ASSUME NEW n \in Nat
    PROVE  Extent(n) \subseteq Nat /\ IsFiniteSet(Extent(n))
  BY FS_Interval DEF Extent

\* The priority the kernel would hand out next is an integer.
LEMMA LeastPriorityInt ==
    ASSUME NEW p, IsFiniteSet(DOMAIN p)
    PROVE  LeastPriority(p) \in Int
  <1>1. {d \in DOMAIN p : p[d] < 0} \subseteq DOMAIN p
    OBVIOUS
  <1>2. IsFiniteSet({d \in DOMAIN p : p[d] < 0})
    BY <1>1, FS_Subset
  <1>3. Cardinality({d \in DOMAIN p : p[d] < 0}) \in Nat
    BY <1>2, FS_CardinalityType
  <1> QED
    BY <1>3 DEF LeastPriority

\* Deactivation keeps the swap table a table of integers.
LEMMA DeactivatedTyped ==
    ASSUME NEW p, NEW d \in DOMAIN p, IsFiniteSet(DOMAIN p),
           \A x \in DOMAIN p : p[x] \in Int
    PROVE  LET q == Deactivated(p, d)
           IN  /\ DOMAIN q = DOMAIN p \ {d}
               /\ IsFiniteSet(DOMAIN q)
               /\ \A x \in DOMAIN q : q[x] \in Int
  <1>1. IsFiniteSet(DOMAIN p \ {d})
    BY FS_Subset
  <1>2. DOMAIN Deactivated(p, d) = DOMAIN p \ {d}
    BY DEF Deactivated
  <1>3. ASSUME NEW x \in DOMAIN p \ {d}
        PROVE  Deactivated(p, d)[x] \in Int
    BY <1>3 DEF Deactivated
  <1> QED
    BY <1>1, <1>2, <1>3

-----------------------------------------------------------------------------
(* Type correctness *)

Control == pc \in Labels /\ main \in Locals

\* main() starts with locals of the right types.
LEMMA FreshTyped == Fresh \in Locals
  BY SetupAssumption DEF Fresh, Locals, Statuses, FailStatuses, Extent

\* Moving on to the next step keeps main()'s types.
LEMMA GotoTyped ==
    ASSUME Control, NEW label \in Labels, Goto(label)
    PROVE  Control'
  BY DEF Control, Goto

\* So does going on to publish or to undo.
LEMMA PublishTyped ==
    ASSUME Control, NEW kb \in Nat, NEW status \in Statuses,
           \/ Publish(kb, status)
           \/ kb = 0 /\ Fail(status)
           \/ FailActiveSwap(kb, status)
           \/ FailPreparedSwap(status)
    PROVE  Control'
  BY DEF Control, Publish, Fail, FailActiveSwap, FailPreparedSwap, Labels,
         Locals

\* So does returning from main(), whose verdict is typed too.
LEMMA ExitTyped ==
    ASSUME Control, NEW code \in {0, 1}, Exit(code)
    PROVE  /\ Control'
           /\ exit' \in [code : {-1, 0, 1}, status : Statuses,
                         requested : AllowedSizes \cup {0}]
  <1>1. main.status \in Statuses /\ main.requested \in AllowedSizes \cup {0}
    BY DEF Control, Locals
  <1> QED
    BY <1>1, FreshTyped DEF Control, Exit, Labels

\* The first state is typed.
LEMMA TypedInit == Init => Typed
  <1> SUFFICES ASSUME Init PROVE Typed
    OBVIOUS
  <1>1. NoFile \in File /\ IsFiniteSet(NoFile.blocks)
    BY FS_EmptySet, SetupAssumption DEF NoFile, File
  <1>2. prop \in [requested : Requests, supported : BOOLEAN,
                  encrypted : BOOLEAN, active_kb : Nat, status : Statuses]
    BY DEF Init, Statuses
  <1>3. NotExited \in [code : {-1, 0, 1}, status : Statuses,
                       requested : AllowedSizes \cup {0}]
    BY DEF NotExited, Statuses
  <1>4. /\ DOMAIN prio = {}
        /\ IsFiniteSet(DOMAIN prio)
    BY FS_EmptySet DEF Init
  <1>5. /\ pc \in Labels /\ main = Fresh /\ file = NoFile /\ disk = NoFile
        /\ entryKb = 0 /\ boot = FALSE /\ exit = NotExited
    BY DEF Init, Labels
  <1>6. others \in Nat
    BY SetupAssumption DEF Init
  <1> QED
    BY <1>1, <1>2, <1>3, <1>4, <1>5, <1>6, FreshTyped
    DEF Typed, TypeOK, Countable

\* The conjuncts of Typed that change together.
PropTyped == prop \in [requested : Requests, supported : BOOLEAN,
                       encrypted : BOOLEAN, active_kb : Nat, status : Statuses]
FileTyped == file \in File /\ IsFiniteSet(file.blocks)
DiskTyped == disk \in File /\ IsFiniteSet(disk.blocks)
KernelTyped == /\ DOMAIN prio \subseteq Zram \cup {SwapFile}
               /\ \A d \in DOMAIN prio : prio[d] \in Int
               /\ IsFiniteSet(DOMAIN prio)
               /\ entryKb \in Nat
ExitTypes == [code : {-1, 0, 1}, status : Statuses,
              requested : AllowedSizes \cup {0}]
InitTyped == boot \in BOOLEAN /\ exit \in ExitTypes

\* Typed, split by component.
LEMMA TypedParts ==
    Typed <=> /\ Control /\ PropTyped /\ FileTyped /\ DiskTyped
              /\ others \in Nat /\ KernelTyped /\ InitTyped
  BY DEF Typed, TypeOK, Countable, Control, PropTyped, FileTyped, DiskTyped,
         KernelTyped, InitTyped, ExitTypes

\* The same in the next state.
LEMMA TypedPartsNext ==
    Typed' <=> /\ Control' /\ PropTyped' /\ FileTyped' /\ DiskTyped'
               /\ others' \in Nat /\ KernelTyped' /\ InitTyped'
  BY DEF Typed, TypeOK, Countable, Control, PropTyped, FileTyped, DiskTyped,
         KernelTyped, InitTyped, ExitTypes

\* What a step leaves alone keeps its type.
LEMMA Frames ==
    /\ Control /\ UNCHANGED <<pc, main>> => Control'
    /\ PropTyped /\ UNCHANGED prop => PropTyped'
    /\ FileTyped /\ UNCHANGED file => FileTyped'
    /\ DiskTyped /\ UNCHANGED disk => DiskTyped'
    /\ KernelTyped /\ UNCHANGED kernel => KernelTyped'
    /\ InitTyped /\ UNCHANGED init => InitTyped'
  BY DEF Control, PropTyped, FileTyped, DiskTyped, KernelTyped, InitTyped,
         kernel, init

\* A missing file is typed.
LEMMA NoFileTyped == file' = NoFile => FileTyped'
  BY FS_EmptySet, SetupAssumption DEF FileTyped, NoFile, File

\* So is a process that has gone.
LEMMA StoppedTyped ==
    /\ pc' = "stopped" /\ main' = Fresh => Control'
    /\ boot' \in BOOLEAN /\ exit' = NotExited => InitTyped'
  <1>1. NotExited \in ExitTypes
    BY DEF NotExited, Statuses, ExitTypes
  <1> QED
    BY <1>1, FreshTyped DEF Control, Labels, InitTyped

\* What DisableSwap does to the swap table, whether it succeeds or not.
LEMMA SwapOffTyped ==
    ASSUME KernelTyped, SwapOffSucceeds \/ SwapOffFails
    PROVE  KernelTyped'
  <1>1. CASE UNCHANGED kernel
    BY <1>1, Frames
  <1>2. CASE /\ SwapFile \in DOMAIN prio
             /\ prio' = Deactivated(prio, SwapFile)
             /\ entryKb' = 0
    BY <1>2, DeactivatedTyped DEF KernelTyped
  <1> QED
    BY <1>1, <1>2 DEF SwapOffSucceeds, SwapOffFails, Active

\* So does activation.
LEMMA ActivatedTyped ==
    ASSUME KernelTyped, NEW d \in Zram \cup {SwapFile}, NEW n \in Int,
           prio' = ActivatedAt(prio, d, n), entryKb' \in Nat
    PROVE  KernelTyped'
  <1>1. IsFiniteSet(DOMAIN prio \cup {d})
    BY FS_AddElement DEF KernelTyped
  <1>2. DOMAIN prio' = DOMAIN prio \cup {d}
    BY DEF ActivatedAt
  <1>3. \A x \in DOMAIN prio' : prio'[x] \in Int
    BY <1>2 DEF ActivatedAt, KernelTyped
  <1> QED
    BY <1>1, <1>2, <1>3 DEF KernelTyped

\* fstat counts blocks in a natural number.
LEMMA StBlocksNat == FileTyped => StBlocks(file) \in Nat
  <1>1. ASSUME FileTyped
        PROVE  Cardinality(file.blocks) \in Nat /\ file.metadata \in Nat
    BY <1>1, FS_CardinalityType, SetupAssumption DEF FileTyped, File
  <1> QED
    BY <1>1 DEF StBlocks

\* RemoveSwapFile leaves a typed file, whether it succeeds or not.
LEMMA UnlinkTyped ==
    ASSUME FileTyped, UnlinkSucceeds \/ UnlinkFails
    PROVE  FileTyped'
  BY NoFileTyped, Frames DEF UnlinkSucceeds, UnlinkFails

\* What a power loss leaves of the file is a file.
LEMMA SurvivorTyped ==
    ASSUME FileTyped, DiskTyped, file' \in Survivors
    PROVE  FileTyped'
  <1>1. IsFiniteSet(disk.blocks \cup file.blocks)
    BY FS_Union DEF FileTyped, DiskTyped
  <1>2. /\ file' \in [exists : {disk.exists, file.exists},
                      size : {disk.size, file.size},
                      blocks : SUBSET (disk.blocks \cup file.blocks),
                      metadata : {disk.metadata, file.metadata}]
    BY DEF Survivors
  <1>3. file' \in File
    BY <1>2 DEF FileTyped, DiskTyped, File
  <1>4. file'.blocks \subseteq disk.blocks \cup file.blocks
    BY <1>2
  <1>5. IsFiniteSet(file'.blocks)
    BY <1>1, <1>4, FS_Subset
  <1> QED
    BY <1>3, <1>5 DEF FileTyped

\* Every step of main() keeps the types.
LEMMA TypedMainStep == Typed /\ MainStep => Typed'
  <1> SUFFICES ASSUME Typed, MainStep
               PROVE  Typed'
    OBVIOUS
  <1>t. /\ Control /\ PropTyped /\ FileTyped /\ DiskTyped
        /\ others \in Nat /\ KernelTyped /\ InitTyped
    BY TypedParts
  <1>0. StBlocks(file) \in Nat
    BY <1>t, StBlocksNat
  <1>s. FailStatuses \subseteq Statuses /\ "active" \in Statuses
        /\ "disabled" \in Statuses
    BY DEF Statuses
  <1>m. main.kb \in Nat /\ main.status \in Statuses
        /\ main.requested \in Nat /\ main.offset \in Nat
    <2>1. AllowedSizes \cup {0} \subseteq Nat
      BY SetupAssumption
    <2> QED
      BY <1>t, <2>1 DEF Control, Locals
  <1> USE <1>t, TypedPartsNext, Frames DEF storage
  <1>1. CASE CheckRequest
    <2>1. CASE \E status \in FailStatuses : Fail(status)
      BY <1>1, <1>s, <2>1, PublishTyped DEF CheckRequest
    <2>2. CASE Goto("disable")
      BY <1>1, <2>2, GotoTyped DEF CheckRequest, Labels
    <2>3. CASE /\ pc' = "wait_zram"
               /\ main' = [main EXCEPT !.requested = prop.requested]
               /\ prop.requested \in AllowedSizes
      <3>1. Control'
        BY <2>3 DEF Control, Labels, Locals
      <3> QED
        BY <1>1, <3>1 DEF CheckRequest
    <2> QED
      BY <1>1, <2>1, <2>2, <2>3 DEF CheckRequest, FailStatuses
  <1>2. CASE DisableRequested \/ DisableStale
    <2>1. Control'
      BY <1>2, <1>s, PublishTyped, GotoTyped
      DEF DisableRequested, DisableStale, FailStatuses, Labels
    <2> QED
      BY <1>2, <2>1, SwapOffTyped DEF DisableRequested, DisableStale
  <1>3. CASE RemoveRequested
    <2>1. Control'
      BY <1>3, <1>s, PublishTyped DEF RemoveRequested, FailStatuses
    <2> QED
      BY <1>3, <2>1, UnlinkTyped DEF RemoveRequested
  <1>4. CASE PollZram
    <2>1. ASSUME NEW z \in LowestZram, pc' = "swapoff",
                 main' = [main EXCEPT !.zram_priority = prio[z]]
          PROVE  Control'
      BY <2>1 DEF LowestZram, ZramOn, KernelTyped, Control, Labels, Locals
    <2>2. ASSUME AttemptsLeft, NextAttempt
          PROVE  Control'
      BY <2>2, SetupAssumption
      DEF AttemptsLeft, NextAttempt, Extent, Control, Locals
    <2>3. ASSUME Fail("zram_not_ready")
          PROVE  Control'
      BY <2>3, <1>s, PublishTyped DEF FailStatuses
    <2>4. Control'
      BY <1>4, <2>1, <2>2, <2>3 DEF PollZram
    <2> QED
      BY <1>4, <2>4 DEF PollZram
  <1>5. CASE EnsureDataDirectory \/ CheckSpace \/ RunMkswap
    <2>1. Control'
      BY <1>5, <1>m, <1>s, PublishTyped, GotoTyped
      DEF EnsureDataDirectory, CheckSpace, RunMkswap, FailStatuses, Labels
    <2> QED
      BY <1>5, <2>1 DEF EnsureDataDirectory, CheckSpace, RunMkswap
  <1>6. CASE OpenSwapFile
    <2>1. file' = file \/ file' = [file EXCEPT !.exists = TRUE]
      BY <1>6 DEF OpenSwapFile
    <2>2. FileTyped'
      BY <2>1 DEF FileTyped, File
    <2>3. ASSUME pc' = "space",
                 main' = [main EXCEPT !.allocated = StBlocks(file),
                                      !.current = file.size]
          PROVE  Control'
      BY <1>0, <2>3 DEF Control, Labels, Locals, FileTyped, File
    <2>4. Control'
      BY <1>6, <1>m, <1>s, <2>3, PublishTyped DEF OpenSwapFile, FailStatuses
    <2> QED
      BY <1>6, <2>2, <2>4 DEF OpenSwapFile
  <1>7. CASE Truncate
    <2>1. ASSUME NEW m \in 0 .. file.metadata,
                 file' = [file EXCEPT
                            !.size = main.requested,
                            !.blocks = @ \cap Extent(main.requested),
                            !.metadata = m]
          PROVE  FileTyped'
      <3>1. IsFiniteSet(file.blocks \cap Extent(main.requested))
        BY FS_Subset DEF FileTyped
      <3>2. m \in 0 .. MetadataMax
        BY SetupAssumption DEF FileTyped, File
      <3> QED
        BY <2>1, <3>1, <3>2, <1>m DEF FileTyped, File
    <2>2. WriteOffset \in Nat
      BY <1>m DEF WriteOffset, Smaller, Control, Locals
    <2>3. ASSUME pc' = "write", main' = [main EXCEPT !.offset = WriteOffset]
          PROVE  Control'
      BY <2>2, <2>3 DEF Control, Labels, Locals
    <2>4. FileTyped' /\ Control'
      BY <1>7, <1>m, <1>s, <2>1, <2>3, PublishTyped DEF Truncate, FailStatuses
    <2> QED
      BY <1>7, <2>4 DEF Truncate
  <1>8. CASE WriteChunk
    <2>1. ASSUME NEW m \in {0} \cup MetadataGrowth,
                 file' = [file EXCEPT !.blocks = @ \cup {main.offset},
                                      !.metadata = @ + m]
          PROVE  FileTyped'
      <3>1. IsFiniteSet(file.blocks \cup {main.offset})
        BY FS_AddElement DEF FileTyped
      <3>2. file.metadata + m \in 0 .. MetadataMax
        BY SetupAssumption DEF FileTyped, File, MetadataGrowth
      <3> QED
        BY <2>1, <3>1, <3>2, <1>m DEF FileTyped, File
    <2>2. ASSUME UNCHANGED pc, main' = [main EXCEPT !.offset = @ + 1]
          PROVE  Control'
      BY <2>2 DEF Control, Locals
    <2>3. FileTyped' /\ Control'
      BY <1>8, <1>m, <1>s, <2>1, <2>2, PublishTyped
      DEF WriteChunk, FailStatuses
    <2> QED
      BY <1>8, <2>3 DEF WriteChunk
  <1>9. CASE Fsync
    <2>1. Control'
      BY <1>9, <1>m, <1>s, PublishTyped, GotoTyped
      DEF Fsync, FailStatuses, Labels
    <2>2. DiskTyped'
      BY <1>9 DEF Fsync, FsyncSucceeds, DiskTyped, FileTyped
    <2> QED
      BY <1>9, <2>1, <2>2 DEF Fsync
  <1>10. CASE SwapOn
    <2>1. Control'
      BY <1>10, <1>m, <1>s, PublishTyped, GotoTyped
      DEF SwapOn, FailStatuses, Labels
    <2>2. ASSUME prio' = Activated(prio, SwapFile), NEW o \in Overheads,
                 o < file.size, entryKb' = file.size - o
          PROVE  KernelTyped'
      <3>1. LeastPriority(prio) - 1 \in Int
        BY LeastPriorityInt DEF KernelTyped
      <3>3. file.size \in Nat /\ o \in Nat
        BY SetupAssumption DEF FileTyped, File
      <3>4. ASSUME NEW a \in Nat, NEW b \in Nat, b < a
            PROVE  a - b \in Nat
        BY <3>4
      <3>5. entryKb' \in Nat
        BY <2>2, <3>3, <3>4
      <3> QED
        BY <2>2, <3>1, <3>5, ActivatedTyped DEF Activated
    <2>3. KernelTyped'
      BY <1>10, <2>2 DEF SwapOn
    <2> QED
      BY <1>10, <2>1, <2>3 DEF SwapOn
  <1>11. CASE Verify
    <2>1. Control'
      BY <1>11, <1>m, <1>s, PublishTyped
      DEF Verify, FailStatuses, KernelTyped
    <2> QED
      BY <1>11, <2>1 DEF Verify
  <1>12. CASE UndoActive
    <2>1. Control'
      BY <1>12, <1>m, <1>s, PublishTyped, GotoTyped
      DEF UndoActive, FailStatuses, Labels
    <2> QED
      BY <1>12, <2>1, SwapOffTyped DEF UndoActive
  <1>13. CASE UndoPrepared
    <2>1. Control'
      BY <1>13, <1>m, <1>s, PublishTyped DEF UndoPrepared, FailStatuses
    <2> QED
      BY <1>13, <2>1, UnlinkTyped DEF UndoPrepared
  <1>14. CASE PublishSize
    <2>1. PropTyped'
      BY <1>14, <1>m DEF PublishSize, PropTyped
    <2>2. Control'
      BY <1>14 DEF PublishSize, Control, Labels, Locals
    <2> QED
      BY <1>14, <2>1, <2>2 DEF PublishSize
  <1>15. CASE PublishOutcome
    <2>1. PropTyped'
      BY <1>15, <1>m DEF PublishOutcome, PropTyped
    <2>2. PICK ok : Published(ok)
      BY <1>15 DEF PublishOutcome
    <2>3. ASSUME FailActiveSwap(main.kb, "activation_failed"), UNCHANGED init
          PROVE  Control' /\ InitTyped'
      BY <2>3, <1>m, <1>s, PublishTyped DEF FailStatuses
    <2>4. ASSUME NEW code \in {0, 1}, Exit(code)
          PROVE  Control' /\ InitTyped'
      <3>1. boot' = boot
        BY <2>4 DEF Exit
      <3> QED
        BY <2>4, <3>1, ExitTyped DEF InitTyped, ExitTypes
    <2>5. Control' /\ InitTyped'
      BY <2>2, <2>3, <2>4 DEF Published
    <2> QED
      BY <1>15, <2>1, <2>5 DEF PublishOutcome
  <1> QED
    BY <1>1, <1>2, <1>3, <1>4, <1>5, <1>6, <1>7, <1>8, <1>9, <1>10, <1>11,
       <1>12, <1>13, <1>14, <1>15
    DEF MainStep

\* So does every step of the world around it.
LEMMA TypedWorld == Typed /\ World => Typed'
  <1> SUFFICES ASSUME Typed, World
               PROVE  Typed'
    OBVIOUS
  <1>t. /\ Control /\ PropTyped /\ FileTyped /\ DiskTyped
        /\ others \in Nat /\ KernelTyped /\ InitTyped
    BY TypedParts
  <1> USE <1>t, TypedPartsNext, Frames DEF storage
  <1>1. CASE BootCompleted
    BY <1>1 DEF BootCompleted, InitTyped
  <1>2. CASE StartService
    <2>1. Control'
      BY <1>2, FreshTyped DEF StartService, Control, Labels
    <2>2. InitTyped'
      BY <1>2, StoppedTyped DEF StartService, InitTyped
    <2> QED
      BY <1>2, <2>1, <2>2 DEF StartService
  <1>3. CASE ZramSwapOn
    <2>1. PICK z \in Zram, n \in Int : prio' = ActivatedAt(prio, z, n)
      <3>1. LeastPriority(prio) - 1 \in Int
        BY LeastPriorityInt DEF KernelTyped
      <3> QED
        BY <1>3, <3>1, SetupAssumption DEF ZramSwapOn, Activated
    <2>2. KernelTyped'
      BY <1>3, <2>1, ActivatedTyped DEF ZramSwapOn, KernelTyped
    <2> QED
      BY <1>3, <2>2 DEF ZramSwapOn
  <1>4. CASE ZramSwapOff
    <2>1. KernelTyped'
      BY <1>4, DeactivatedTyped DEF ZramSwapOff, ZramOn, KernelTyped
    <2> QED
      BY <1>4, <2>1 DEF ZramSwapOff
  <1>5. CASE SetRequest
    <2>1. PropTyped'
      BY <1>5 DEF SetRequest, PropTyped
    <2> QED
      BY <1>5, <2>1 DEF SetRequest
  <1>6. CASE SetSupported
    <2>1. PropTyped'
      BY <1>6 DEF SetSupported, PropTyped
    <2> QED
      BY <1>6, <2>1 DEF SetSupported
  <1>7. CASE OthersUseSpace
    <2>1. StBlocks(file) \in Nat
      BY StBlocksNat
    <2>2. others' \in Nat
      BY <1>7, <2>1, SetupAssumption DEF OthersUseSpace
    <2> QED
      BY <1>7, <2>2 DEF OthersUseSpace
  <1>8. CASE Kill
    <2>1. Control' /\ InitTyped'
      BY <1>8, StoppedTyped DEF Kill, InitTyped
    <2> QED
      BY <1>8, <2>1 DEF Kill
  <1>9. CASE PowerLoss
    <2>1. Control' /\ InitTyped'
      BY <1>9, StoppedTyped DEF PowerLoss
    <2>2. PropTyped'
      BY <1>9 DEF PowerLoss, PropTyped, Statuses
    <2>3. FileTyped' /\ DiskTyped'
      BY <1>9, SurvivorTyped DEF PowerLoss, FileTyped, DiskTyped
    <2>4. KernelTyped'
      BY <1>9, FS_EmptySet DEF PowerLoss, KernelTyped
    <2> QED
      BY <1>9, <2>1, <2>2, <2>3, <2>4 DEF PowerLoss
  <1> QED
    BY <1>1, <1>2, <1>3, <1>4, <1>5, <1>6, <1>7, <1>8, <1>9 DEF World

\* So does every step.
LEMMA TypedNext == Typed /\ [Next]_vars => Typed'
  <1>1. Typed /\ UNCHANGED vars => Typed'
    BY TypedParts, TypedPartsNext, Frames DEF vars, kernel, init
  <1> QED
    BY <1>1, TypedMainStep, TypedWorld DEF Next

\* Type correctness of the setup service, whatever fails around it.
THEOREM TypeCorrect == Spec => []TypeOK
  <1>1. Typed => TypeOK
    BY DEF Typed
  <1> QED
    BY <1>1, TypedInit, TypedNext, PTL DEF Spec

-----------------------------------------------------------------------------
(* The inductive invariant *)

\* The labels at which this run has turned the swap off.
SwapOffLabels == {"remove", "mkdir", "open", "space", "truncate", "write",
                  "mkswap", "swapon", "fail_prepared"}

Publishing == pc \in {"pub_size", "pub_status"}

\* SwapBacked, and why it stays true: whoever touches the file has turned the
\* swap off before, and swapon comes after the fsync.
SwapSafe ==
    /\ Active => HoleFree(file) /\ disk = file
    /\ Active <=> entryKb > 0
    /\ pc \in SwapOffLabels => ~Active
    /\ pc \in {"mkswap", "swapon"} => disk = file

UndoneStatuses ==
    {"insufficient_space", "allocation_failed", "format_failed",
     "activation_failed", "verification_failed", "priority_error"}

\* What main() is about to publish is what it has done.
PublishesTruth ==
    /\ Publishing /\ main.status = "active" =>
        Active /\ entryKb = main.kb /\ SizeVerified
    /\ Publishing /\ main.status = "disabled" =>
        ~Active /\ ~file.exists /\ main.kb = 0
    /\ Publishing /\ main.status \in UndoneStatuses => ~Active /\ ~file.exists
    /\ pc = "pub_status" /\ main.size_set => prop.active_kb = main.kb

\* An exit code is there only while no process runs.
VerdictFinal == exit.code # -1 => pc = "stopped"

\* A run on its way to undo something will publish a failure.
FailingStatus ==
    pc \in {"fail_active", "fail_prepared"} => main.status \in FailStatuses

IInv == Typed /\ SwapSafe /\ FailingStatus /\ PublishesTruth /\ VerdictFinal
            /\ ExitZeroTruthful /\ CleanFailure

\* The inductive invariant holds at first.
LEMMA IInvInit == Init => IInv
  <1> SUFFICES ASSUME Init PROVE IInv
    OBVIOUS
  <1>1. ~Active
    BY DEF Init, Active
  <1>2. exit.code = -1
    BY DEF Init, NotExited
  <1>3. ExitZeroTruthful /\ CleanFailure /\ VerdictFinal
    BY <1>2 DEF ExitZeroTruthful, CleanFailure, VerdictFinal
  <1>4. SwapSafe
    BY <1>1 DEF Init, SwapSafe, SwapOffLabels
  <1>5. PublishesTruth /\ FailingStatus
    BY DEF Init, PublishesTruth, Publishing, FailingStatus
  <1> QED
    BY <1>3, <1>4, <1>5, TypedInit DEF IInv

\* After a successful DisableSwap there is no swap: its EINVAL and ENOENT
\* cannot hide one.
LEMMA SwapOffIsOff ==
    ASSUME entryKb \in Nat, SwapSafe, SwapOffSucceeds
    PROVE  ~Active' /\ entryKb' = 0
  <1>1. CASE Active
    <2>1. file.exists
      BY <1>1 DEF SwapSafe, HoleFree
    <2> QED
      BY <1>1, <2>1 DEF SwapOffSucceeds, Active, Deactivated
  <1>2. CASE ~Active
    BY <1>2 DEF SwapOffSucceeds, SwapSafe, kernel, Active
  <1> QED
    BY <1>1, <1>2

\* Every step of main() keeps an active swap backed, and the file untouched
\* while it is active.
LEMMA SwapSafeMainStep == Typed /\ SwapSafe /\ MainStep => SwapSafe'
  <1> SUFFICES ASSUME Typed, SwapSafe, MainStep
               PROVE  SwapSafe'
    OBVIOUS
  <1> USE DEF SwapOffLabels, storage, Active
  <1>k. entryKb \in Nat
    BY DEF Typed, TypeOK
  <1>1. CASE CheckRequest \/ PollZram \/ EnsureDataDirectory \/ CheckSpace
             \/ RunMkswap
    <2>1. /\ UNCHANGED <<file, disk, prio, entryKb>>
          /\ pc' \in SwapOffLabels => pc \in SwapOffLabels
          /\ pc' \in {"mkswap", "swapon"} => pc = "mkswap"
      BY <1>1 DEF CheckRequest, PollZram, EnsureDataDirectory, CheckSpace,
        RunMkswap, Fail, Publish, Goto, NextAttempt, FailPreparedSwap, kernel
    <2> QED
      BY <2>1 DEF SwapSafe, HoleFree
  <1>2. CASE Verify \/ PublishSize \/ PublishOutcome
    <2>1. /\ UNCHANGED <<file, disk, prio, entryKb>>
          /\ pc' \in {"fail_active", "pub_size", "pub_status", "stopped"}
      BY <1>2 DEF Verify, PublishSize, PublishOutcome, Published, Exit,
        FailActiveSwap, Publish, kernel
    <2> QED
      BY <2>1 DEF SwapSafe, HoleFree
  <1>3. CASE DisableRequested \/ DisableStale \/ UndoActive
    <2>1. CASE SwapOffSucceeds
      <3>1. ~Active' /\ entryKb' = 0
        BY <1>k, <2>1, SwapOffIsOff
      <3>2. pc' \notin {"mkswap", "swapon"}
        BY <1>3 DEF DisableRequested, DisableStale, UndoActive, Fail, Publish,
          Goto
      <3> QED
        BY <3>1, <3>2 DEF SwapSafe
    <2>2. CASE SwapOffFails /\ pc' = "pub_size"
      <3>1. UNCHANGED <<file, disk, prio, entryKb>>
        BY <1>3, <2>2 DEF DisableRequested, DisableStale, UndoActive,
          SwapOffFails, kernel
      <3> QED
        BY <2>2, <3>1 DEF SwapSafe, HoleFree
    <2> QED
      BY <1>3, <2>1, <2>2 DEF DisableRequested, DisableStale, UndoActive,
        Fail, Publish
  <1>4. CASE RemoveRequested \/ OpenSwapFile \/ Truncate \/ WriteChunk
             \/ UndoPrepared
    <2>1. /\ pc \in SwapOffLabels
          /\ UNCHANGED <<prio, entryKb>>
          /\ pc' \notin {"mkswap", "swapon"}
      BY <1>4 DEF RemoveRequested, OpenSwapFile, Truncate, WriteChunk,
        UndoPrepared, Fail, Publish, FailPreparedSwap, kernel
    <2> QED
      BY <2>1 DEF SwapSafe
  <1>5. CASE Fsync
    <2>1. /\ pc \in SwapOffLabels
          /\ UNCHANGED <<prio, entryKb, file>>
          /\ pc' \in {"mkswap", "swapon"} => disk' = file
      BY <1>5 DEF Fsync, FsyncSucceeds, Goto, FailPreparedSwap, kernel
    <2> QED
      BY <2>1 DEF SwapSafe
  <1>6. CASE SwapOn
    <2>1. UNCHANGED <<file, disk>> /\ disk = file /\ ~Active
      BY <1>6 DEF SwapOn, SwapSafe
    <2>2. CASE HoleFree(file) /\ prio' = Activated(prio, SwapFile)
               /\ (\E o \in Overheads : o < file.size
                                        /\ entryKb' = file.size - o)
               /\ Goto("verify")
      <3>1. SwapFile \in DOMAIN prio'
        BY <2>2 DEF Activated, ActivatedAt
      <3>2. file.size \in Nat /\ Overheads \subseteq Nat
        BY SetupAssumption DEF Typed, TypeOK, File
      <3>3. entryKb' > 0
        BY <2>2, <3>2
      <3> QED
        BY <2>1, <2>2, <3>1, <3>3 DEF SwapSafe, HoleFree, Goto
    <2>3. CASE FailPreparedSwap("activation_failed") /\ UNCHANGED kernel
      BY <2>1, <2>3 DEF SwapSafe, FailPreparedSwap, kernel
    <2> QED
      BY <1>6, <2>2, <2>3 DEF SwapOn
  <1> QED
    BY <1>1, <1>2, <1>3, <1>4, <1>5, <1>6 DEF MainStep

\* So does every step of the world around it, power losses included.
LEMMA SwapSafeWorld == Typed /\ SwapSafe /\ World => SwapSafe'
  <1> SUFFICES ASSUME Typed, SwapSafe, World
               PROVE  SwapSafe'
    OBVIOUS
  <1> USE DEF SwapOffLabels, storage, Active
  <1>1. CASE BootCompleted \/ StartService \/ SetRequest \/ SetSupported
             \/ OthersUseSpace \/ Kill
    <2>1. /\ UNCHANGED <<file, disk, prio, entryKb>>
          /\ pc' \in {pc, "main", "stopped"}
      BY <1>1 DEF BootCompleted, StartService, SetRequest, SetSupported,
        OthersUseSpace, Kill, kernel
    <2> QED
      BY <2>1 DEF SwapSafe, HoleFree
  <1>2. CASE ZramSwapOn \/ ZramSwapOff
    <2>1. UNCHANGED <<file, disk, entryKb, pc>>
      BY <1>2 DEF ZramSwapOn, ZramSwapOff
    <2>2. SwapFile \in DOMAIN prio' <=> SwapFile \in DOMAIN prio
      BY <1>2, SetupAssumption DEF ZramSwapOn, ZramSwapOff, ZramOn,
        Activated, ActivatedAt, Deactivated
    <2> QED
      BY <2>1, <2>2 DEF SwapSafe, HoleFree
  <1>3. CASE PowerLoss
    <2>1. SwapFile \notin DOMAIN prio' /\ entryKb' = 0 /\ pc' = "stopped"
      BY <1>3 DEF PowerLoss
    <2> QED
      BY <2>1 DEF SwapSafe
  <1> QED
    BY <1>1, <1>2, <1>3 DEF World

\* What PublishStatus is called with.
LEMMA PublishFields ==
    ASSUME Control, NEW kb, NEW status, Publish(kb, status)
    PROVE  /\ pc' = "pub_size"
           /\ main'.kb = kb
           /\ main'.status = status
           /\ main'.requested = main.requested
  BY DEF Control, Locals, Publish

\* What FailActiveSwap and FailPreparedSwap are called with.
LEMMA FailFields ==
    ASSUME Control, NEW kb, NEW status,
           FailActiveSwap(kb, status) \/ FailPreparedSwap(status)
    PROVE  /\ pc' \in {"fail_active", "fail_prepared"}
           /\ main'.status = status
  BY DEF Control, Locals, FailActiveSwap, FailPreparedSwap

\* A run that undoes its work carries the status of a failure.
LEMMA FailingStatusMainStep ==
    Typed /\ FailingStatus /\ MainStep => FailingStatus'
  <1> SUFFICES ASSUME Typed, FailingStatus, MainStep,
                      pc' \in {"fail_active", "fail_prepared"}
               PROVE  main'.status \in FailStatuses
    BY DEF FailingStatus
  <1>1. Control
    BY TypedParts
  <1>2. CASE \E status \in FailStatuses : \E kb :
                FailActiveSwap(kb, status) \/ FailPreparedSwap(status)
    BY <1>1, <1>2, FailFields
  <1>3. CASE UndoActive
    BY <1>3 DEF UndoActive, FailingStatus, Publish, Goto
  <1>5. CASE Verify \/ PublishOutcome
    BY <1>2, <1>5 DEF Verify, PublishOutcome, Published, Exit, Publish,
      FailStatuses
  <1>6. CASE OpenSwapFile \/ CheckSpace \/ Truncate \/ WriteChunk \/ Fsync
             \/ RunMkswap \/ SwapOn
    BY <1>2, <1>6 DEF OpenSwapFile, CheckSpace, Truncate, WriteChunk, Fsync,
      RunMkswap, SwapOn, Goto, FailStatuses
  <1>7. CASE CheckRequest \/ DisableRequested \/ RemoveRequested \/ PollZram
             \/ DisableStale \/ EnsureDataDirectory \/ UndoPrepared
             \/ PublishSize
    BY <1>7 DEF CheckRequest, DisableRequested, RemoveRequested, PollZram,
      DisableStale, EnsureDataDirectory, UndoPrepared, PublishSize, Fail,
      Publish, Goto, NextAttempt
  <1> QED
    BY <1>3, <1>5, <1>6, <1>7 DEF MainStep

\* What is being published stays true until it has been published.
LEMMA TruthMainStep ==
    Typed /\ SwapSafe /\ FailingStatus /\ PublishesTruth /\ MainStep
    => PublishesTruth'
  <1> SUFFICES ASSUME Typed, SwapSafe, FailingStatus, PublishesTruth, MainStep
               PROVE  PublishesTruth'
    OBVIOUS
  <1>t. Control
    BY TypedParts
  <1> USE DEF storage
  <1>1. CASE ~Publishing'
    BY <1>1 DEF PublishesTruth, Publishing
  <1>2. ASSUME NEW status \in FailStatuses \ UndoneStatuses, NEW kb,
               Publish(kb, status)
        PROVE  PublishesTruth'
    <2>1. pc' = "pub_size" /\ main'.status = status
      BY <1>t, <1>2, PublishFields
    <2> QED
      BY <2>1 DEF PublishesTruth, Publishing, FailStatuses
  <1>3. CASE CheckRequest \/ DisableRequested \/ PollZram \/ DisableStale
             \/ EnsureDataDirectory \/ OpenSwapFile \/ CheckSpace \/ Truncate
             \/ WriteChunk \/ Fsync \/ RunMkswap \/ SwapOn \/ UndoActive
    BY <1>1, <1>2, <1>3 DEF CheckRequest, DisableRequested, PollZram,
      DisableStale, EnsureDataDirectory, OpenSwapFile, CheckSpace, Truncate,
      WriteChunk, Fsync, RunMkswap, SwapOn, UndoActive, Fail, Goto,
      NextAttempt, FailPreparedSwap, Publishing, FailStatuses, UndoneStatuses
  <1>4. CASE RemoveRequested
    <2>1. CASE UnlinkSucceeds /\ Publish(0, "disabled")
      <3>1. pc' = "pub_size" /\ main'.status = "disabled" /\ main'.kb = 0
        BY <1>t, <2>1, PublishFields
      <3>2. ~Active' /\ ~file'.exists
        BY <1>4, <2>1 DEF RemoveRequested, UnlinkSucceeds, NoFile, SwapSafe,
          SwapOffLabels, Active, kernel
      <3> QED
        BY <3>1, <3>2 DEF PublishesTruth, UndoneStatuses
    <2> QED
      BY <1>4, <1>2, <2>1 DEF RemoveRequested, Fail, FailStatuses,
        UndoneStatuses
  <1>5. CASE Verify
    <2>1. CASE /\ Active /\ SizeVerified
               /\ Publish(entryKb, "active")
      <3>1. /\ pc' = "pub_size" /\ main'.status = "active"
            /\ main'.kb = entryKb /\ main'.requested = main.requested
        BY <1>t, <2>1, PublishFields
      <3>2. Active' /\ entryKb' = entryKb
        BY <1>5, <2>1 DEF Verify, Active, kernel
      <3> QED
        BY <2>1, <3>1, <3>2
        DEF PublishesTruth, SizeVerified, UndoneStatuses
    <2> QED
      BY <1>1, <1>5, <2>1 DEF Verify, FailActiveSwap, Publishing
  <1>6. CASE UndoPrepared
    <2>1. CASE UnlinkSucceeds /\ Fail(main.status)
      <3>1. pc' = "pub_size" /\ main'.status = main.status
        BY <1>t, <2>1, PublishFields DEF Fail
      <3>2. main.status \notin {"active", "disabled"}
        BY <1>6 DEF UndoPrepared, FailingStatus, FailStatuses
      <3>3. ~Active' /\ ~file'.exists
        BY <1>6, <2>1 DEF UndoPrepared, UnlinkSucceeds, NoFile, SwapSafe,
          SwapOffLabels, Active, kernel
      <3> QED
        BY <3>1, <3>2, <3>3 DEF PublishesTruth
    <2> QED
      BY <1>6, <1>2, <2>1 DEF UndoPrepared, Fail, FailStatuses,
        UndoneStatuses
  <1>7. CASE PublishSize
    <2>1. /\ UNCHANGED <<file, prio, entryKb>> /\ Publishing
          /\ main'.status = main.status /\ main'.kb = main.kb
          /\ main'.requested = main.requested
          /\ main'.size_set => prop'.active_kb = main.kb
      BY <1>t, <1>7 DEF PublishSize, Control, Locals, kernel, Publishing,
        Typed, TypeOK
    <2> QED
      BY <2>1 DEF PublishesTruth, SizeVerified, Active
  <1>8. CASE PublishOutcome
    BY <1>1, <1>8 DEF PublishOutcome, Published, Exit, FailActiveSwap,
      Publishing
  <1> QED
    BY <1>3, <1>4, <1>5, <1>6, <1>7, <1>8 DEF MainStep

\* The world changes neither what a run is about to publish nor what it is
\* about, unless it ends the run.
LEMMA TruthWorld ==
    Typed /\ PublishesTruth /\ FailingStatus /\ World
    => PublishesTruth' /\ FailingStatus'
  <1> SUFFICES ASSUME Typed, PublishesTruth, FailingStatus, World
               PROVE  PublishesTruth' /\ FailingStatus'
    OBVIOUS
  <1> USE DEF storage
  <1>1. CASE StartService \/ Kill \/ PowerLoss
    BY <1>1 DEF StartService, Kill, PowerLoss, PublishesTruth, Publishing,
      FailingStatus
  <1>2. CASE BootCompleted \/ SetRequest \/ SetSupported \/ OthersUseSpace
             \/ ZramSwapOn \/ ZramSwapOff
    <2>1. /\ UNCHANGED <<pc, main, file, entryKb>>
          /\ prop'.active_kb = prop.active_kb
      BY <1>2 DEF BootCompleted, SetRequest, SetSupported, OthersUseSpace,
        ZramSwapOn, ZramSwapOff, kernel, Typed, TypeOK
    <2>2. Active' <=> Active
      BY <1>2, SetupAssumption DEF BootCompleted, SetRequest, SetSupported,
        OthersUseSpace, ZramSwapOn, ZramSwapOff, ZramOn, Active, Activated,
        ActivatedAt, Deactivated, kernel
    <2> QED
      BY <2>1, <2>2 DEF PublishesTruth, Publishing, SizeVerified, FailingStatus
  <1> QED
    BY <1>1, <1>2 DEF World

\* A step of main() that exits leaves a verdict that is true.
LEMMA VerdictMainStep ==
    IInv /\ MainStep => VerdictFinal' /\ ExitZeroTruthful' /\ CleanFailure'
  <1> SUFFICES ASSUME IInv, MainStep
               PROVE  VerdictFinal' /\ ExitZeroTruthful' /\ CleanFailure'
    OBVIOUS
  <1> USE DEF storage
  <1>t. Control /\ PropTyped
    BY TypedParts DEF IInv
  <1>1. pc # "stopped"
    BY DEF MainStep, CheckRequest, DisableRequested, RemoveRequested, PollZram,
      DisableStale, EnsureDataDirectory, OpenSwapFile, CheckSpace, Truncate,
      WriteChunk, Fsync, RunMkswap, SwapOn, Verify, UndoActive, UndoPrepared,
      PublishSize, PublishOutcome
  <1>2. exit.code = -1
    BY <1>1 DEF IInv, VerdictFinal
  <1>3. CASE UNCHANGED exit
    BY <1>2, <1>3 DEF VerdictFinal, ExitZeroTruthful, CleanFailure
  <1>4. CASE PublishOutcome /\ ~UNCHANGED exit
    <2>1. Publishing /\ pc = "pub_status" /\ UNCHANGED <<file, prio, entryKb>>
          /\ prop'.active_kb = prop.active_kb
      BY <1>t, <1>4 DEF PublishOutcome, Publishing, kernel, PropTyped
    <2>2. PICK code \in {0, 1} : Exit(code)
      BY <1>4 DEF PublishOutcome, Published, init
    <2>3. /\ pc' = "stopped" /\ exit'.code = code
          /\ exit'.status = main.status /\ exit'.requested = main.requested
      BY <2>2 DEF Exit
    <2>4. VerdictFinal'
      BY <2>3 DEF VerdictFinal
    <2>5. CASE code = 1
      BY <2>1, <2>3, <2>4, <2>5 DEF ExitZeroTruthful, CleanFailure, IInv,
        PublishesTruth, UndoneStatuses, Active
    <2>6. CASE code = 0
      <3>1. /\ main.size_set /\ main.status \in {"active", "disabled"}
            /\ prop'.status = main.status
        BY <1>t, <1>4, <2>3, <2>6 DEF PublishOutcome, Published, Exit, init,
          PropTyped
      <3>2. prop'.active_kb = main.kb
        BY <2>1, <3>1 DEF IInv, PublishesTruth
      <3>3. CASE main.status = "active"
        BY <2>1, <2>3, <2>4, <2>6, <3>1, <3>2, <3>3 DEF ExitZeroTruthful,
          CleanFailure, IInv, PublishesTruth, SizeVerified, Active
      <3>4. CASE main.status = "disabled"
        <4>1. entryKb = 0 /\ main.kb = 0 /\ ~Active /\ ~file.exists
          BY <2>1, <3>4 DEF IInv, PublishesTruth, SwapSafe, Typed, TypeOK
        <4> QED
          BY <2>1, <2>3, <2>4, <2>6, <3>1, <3>2, <3>4, <4>1
          DEF ExitZeroTruthful, CleanFailure, Active
      <3> QED
        BY <3>1, <3>3, <3>4
    <2> QED
      BY <2>5, <2>6
  <1> QED
    BY <1>3, <1>4 DEF MainStep, CheckRequest, DisableRequested,
      RemoveRequested, PollZram, DisableStale, EnsureDataDirectory,
      OpenSwapFile, CheckSpace, Truncate, WriteChunk, Fsync, RunMkswap, SwapOn,
      Verify, UndoActive, UndoPrepared, PublishSize, init

\* The world around main() cannot make the verdict of a run untrue.
LEMMA VerdictWorld ==
    IInv /\ World => VerdictFinal' /\ ExitZeroTruthful' /\ CleanFailure'
  <1> SUFFICES ASSUME IInv, World
               PROVE  VerdictFinal' /\ ExitZeroTruthful' /\ CleanFailure'
    OBVIOUS
  <1> USE DEF storage
  <1>t. PropTyped
    BY TypedParts DEF IInv
  <1>1. CASE StartService \/ Kill \/ PowerLoss
    BY <1>1 DEF StartService, Kill, PowerLoss, NotExited, VerdictFinal,
      ExitZeroTruthful, CleanFailure
  <1>2. CASE BootCompleted \/ SetRequest \/ SetSupported \/ OthersUseSpace
             \/ ZramSwapOn \/ ZramSwapOff
    <2>1. /\ UNCHANGED <<pc, exit, file, entryKb>>
          /\ prop'.active_kb = prop.active_kb
          /\ prop'.status = prop.status
      BY <1>t, <1>2 DEF BootCompleted, SetRequest, SetSupported,
        OthersUseSpace, ZramSwapOn, ZramSwapOff, kernel, init, PropTyped
    <2>2. Active' <=> Active
      BY <1>2, SetupAssumption DEF BootCompleted, SetRequest, SetSupported,
        OthersUseSpace, ZramSwapOn, ZramSwapOff, ZramOn, Active, Activated,
        ActivatedAt, Deactivated, kernel
    <2> QED
      BY <2>1, <2>2 DEF IInv, VerdictFinal, ExitZeroTruthful, CleanFailure
  <1> QED
    BY <1>1, <1>2 DEF World

\* A step that changes nothing keeps the invariant.
LEMMA IInvStutter == IInv /\ UNCHANGED vars => IInv'
  <1>1. Typed /\ UNCHANGED vars => Typed'
    BY TypedNext
  <1> QED
    BY <1>1 DEF IInv, vars, SwapSafe, FailingStatus, PublishesTruth,
      Publishing, VerdictFinal, ExitZeroTruthful, CleanFailure, Active,
      SizeVerified, HoleFree

\* Every step keeps the inductive invariant.
LEMMA IInvNext == IInv /\ [Next]_vars => IInv'
  <1> SUFFICES ASSUME IInv, Next
               PROVE  IInv'
    BY IInvStutter
  <1>1. Typed'
    BY TypedNext DEF IInv
  <1>2. CASE MainStep
    BY <1>1, <1>2, SwapSafeMainStep, FailingStatusMainStep, TruthMainStep,
      VerdictMainStep DEF IInv
  <1>3. CASE World
    BY <1>1, <1>3, SwapSafeWorld, TruthWorld, VerdictWorld DEF IInv
  <1> QED
    BY <1>2, <1>3 DEF Next

\* The inductive invariant holds always.
LEMMA Invariance == Spec => []IInv
  BY IInvInit, IInvNext, PTL DEF Spec

-----------------------------------------------------------------------------
(* The results *)

\* While the kernel swaps to the file, it is complete and durable.
THEOREM BackedSwap == Spec => []SwapBacked
  <1>1. IInv => SwapBacked
    BY DEF IInv, SwapSafe, SwapBacked
  <1> QED
    BY <1>1, Invariance, PTL

\* A run that exits with 0 has published what holds.
THEOREM TruthfulExit == Spec => []ExitZeroTruthful
  <1>1. IInv => ExitZeroTruthful
    BY DEF IInv
  <1> QED
    BY <1>1, Invariance, PTL

\* A run that failed and could undo its work has left nothing behind.
THEOREM FailureCleansUp == Spec => []CleanFailure
  <1>1. IInv => CleanFailure
    BY DEF IInv
  <1> QED
    BY <1>1, Invariance, PTL

\* The swap is on when it is verified, when a run sets out to turn it off
\* again, and when a size other than 0 is published.
SizeHeld ==
    /\ pc \in {"verify", "fail_active"} => Active
    /\ Publishing /\ main.kb > 0 => Active

\* A step of main() keeps SizeHeld: only DisableSwap turns the swap off, and
\* what is published after it is 0.
LEMMA SizeHeldMainStep ==
    IInv /\ SizeHeld /\ MainStep => SizeHeld'
  <1> SUFFICES ASSUME IInv, SizeHeld, MainStep PROVE SizeHeld'
    OBVIOUS
  <1>t. Control
    BY TypedParts DEF IInv
  <1>1. CASE pc' \notin {"verify", "fail_active"} /\ ~Publishing'
    BY <1>1 DEF SizeHeld
  <1>2. ASSUME NEW status, Fail(status)
        PROVE  SizeHeld'
    <2>1. pc' = "pub_size" /\ main'.kb = 0
      BY <1>t, <1>2, PublishFields DEF Fail
    <2> QED
      BY <2>1 DEF SizeHeld
  <1>3. CASE CheckRequest \/ DisableRequested \/ PollZram \/ DisableStale
             \/ EnsureDataDirectory \/ OpenSwapFile \/ CheckSpace \/ Truncate
             \/ WriteChunk \/ Fsync \/ RunMkswap \/ UndoPrepared
    BY <1>1, <1>2, <1>3 DEF CheckRequest, DisableRequested, PollZram,
      DisableStale, EnsureDataDirectory, OpenSwapFile, CheckSpace, Truncate,
      WriteChunk, Fsync, RunMkswap, UndoPrepared, Goto, NextAttempt,
      FailPreparedSwap, Publishing
  <1>4. CASE RemoveRequested
    BY <1>2, <1>4 DEF RemoveRequested, Fail
  <1>5. CASE SwapOn
    <2>1. CASE prio' = Activated(prio, SwapFile) /\ Goto("verify")
      BY <2>1 DEF Activated, ActivatedAt, Active, Goto, SizeHeld, Publishing
    <2> QED
      BY <1>1, <1>5, <2>1 DEF SwapOn, FailPreparedSwap, Publishing
  <1>6. CASE Verify
    <2>1. Active'
      BY <1>6 DEF Verify, SizeHeld, Active, kernel
    <2> QED
      BY <2>1 DEF SizeHeld
  <1>7. CASE UndoActive
    <2>1. CASE SwapOffFails
      BY <1>7, <2>1 DEF UndoActive, SwapOffFails, SizeHeld, Active, kernel
    <2> QED
      BY <1>1, <1>7, <2>1 DEF UndoActive, Goto, Publishing
  <1>8. CASE PublishSize
    <2>1. /\ Publishing /\ main'.kb = main.kb /\ pc' = "pub_status"
          /\ UNCHANGED prio
      BY <1>t, <1>8 DEF PublishSize, Control, Locals, kernel, Publishing
    <2> QED
      BY <2>1 DEF SizeHeld, Active
  <1>9. CASE PublishOutcome
    <2>1. CASE main.status = "active"
      BY <1>9, <2>1 DEF PublishOutcome, IInv, PublishesTruth, Publishing,
        SizeHeld, Active, kernel
    <2>2. CASE main.status # "active"
      BY <1>1, <1>9, <2>2 DEF PublishOutcome, Published, Exit, Publishing
    <2> QED
      BY <2>1, <2>2
  <1> QED
    BY <1>3, <1>4, <1>5, <1>6, <1>7, <1>8, <1>9 DEF MainStep

\* Nothing but main() turns the swapfile off, except a power loss.
LEMMA SizeHeldWorld ==
    IInv /\ SizeHeld /\ World => SizeHeld'
  <1> SUFFICES ASSUME IInv, SizeHeld, World PROVE SizeHeld'
    OBVIOUS
  <1>1. CASE UNCHANGED <<pc, main>> /\ (Active => Active')
    BY <1>1 DEF SizeHeld, Publishing
  <1>2. CASE pc' \in {"stopped", "main"}
    BY <1>2 DEF SizeHeld, Publishing
  <1>3. CASE ZramSwapOn \/ ZramSwapOff
    <2>1. SwapFile \notin Zram
      BY SetupAssumption
    <2> QED
      BY <1>1, <1>3, <2>1 DEF ZramSwapOn, ZramSwapOff, Activated, ActivatedAt,
        Deactivated, Active, ZramOn, init
  <1>4. CASE BootCompleted \/ SetRequest \/ SetSupported \/ OthersUseSpace
    BY <1>1, <1>4 DEF BootCompleted, SetRequest, SetSupported, OthersUseSpace,
      Active, kernel, init
  <1>5. CASE StartService \/ Kill \/ PowerLoss
    BY <1>2, <1>5 DEF StartService, Kill, PowerLoss
  <1> QED
    BY <1>3, <1>4, <1>5 DEF World

\* A published size other than 0 means that the swap is on, through failing
\* calls of every kind.
THEOREM PublishedSizeHolds == Spec => []PublishedSizeIsReal
  <1>1. Init => SizeHeld
    BY DEF Init, SizeHeld, Publishing
  <1>2. IInv /\ SizeHeld /\ [Next]_vars => SizeHeld'
    <2>1. SizeHeld /\ UNCHANGED vars => SizeHeld'
      BY DEF SizeHeld, Publishing, Active, vars
    <2> QED
      BY <2>1, SizeHeldMainStep, SizeHeldWorld DEF Next
  <1>3. IInv /\ SizeHeld => PublishedSizeIsReal
    BY DEF IInv, PublishesTruth, SizeHeld, PublishedSizeIsReal, Publishing
  <1> QED
    BY <1>1, <1>2, <1>3, Invariance, PTL DEF Spec

\* No step touches the file while it is swapped to; after a power loss the
\* file is the one that was synced before swapon.
THEOREM UntouchedWhileActive == Spec => ActiveFileUntouched
  <1>1. IInv /\ [Next]_vars => [file' # file => ~Active]_vars
    <2> SUFFICES ASSUME IInv, Next, Active
                 PROVE  file' = file
      BY DEF vars
    <2>1. /\ pc \notin SwapOffLabels /\ disk = file /\ HoleFree(file)
      BY DEF IInv, SwapSafe
    <2>2. CASE PowerLoss
      <3>1. file \in File
        BY DEF IInv, Typed, TypeOK
      <3>2. /\ file' \in [exists : {file.exists}, size : {file.size},
                          blocks : SUBSET file.blocks,
                          metadata : {file.metadata}]
            /\ file'.exists => file.blocks \cap Extent(file'.size)
                                 \subseteq file'.blocks
        BY <2>1, <2>2 DEF PowerLoss, Survivors
      <3>3. /\ file'.exists = file.exists /\ file'.size = file.size
            /\ file'.blocks = file.blocks /\ file'.metadata = file.metadata
        BY <2>1, <3>2 DEF HoleFree
      <3> QED
        BY <3>1, <3>2, <3>3 DEF File
    <2>3. CASE MainStep
      BY <2>1, <2>3 DEF SwapOffLabels, MainStep, CheckRequest,
        DisableRequested, RemoveRequested, PollZram, DisableStale,
        EnsureDataDirectory, OpenSwapFile, CheckSpace, Truncate, WriteChunk,
        Fsync, RunMkswap, SwapOn, Verify, UndoActive, UndoPrepared,
        PublishSize, PublishOutcome, storage
    <2>4. CASE World /\ ~PowerLoss
      BY <2>4 DEF World, BootCompleted, StartService, ZramSwapOn,
        ZramSwapOff, SetRequest, SetSupported, OthersUseSpace, Kill, storage
    <2> QED
      BY <2>2, <2>3, <2>4 DEF Next
  <1> QED
    BY <1>1, Invariance, PTL DEF Spec, ActiveFileUntouched

\* RamPlusSetup implements SwapService: every step of main(), of init and of
\* the world is a step of the promise, or invisible to it.
THEOREM KeepsServicePromise == Spec => ServicePromise
  <1> DEFINE running == pc # "stopped"
  <1>1. Init => Service!ServiceInit
    BY DEF Init, Service!ServiceInit, Verdict, NotExited
  <1>2. IInv /\ IInv' /\ [Next]_vars
        => [Service!ServiceNext]_(Service!serviceVars)
    <2> SUFFICES ASSUME IInv, IInv', Next
                 PROVE  [Service!ServiceNext]_(Service!serviceVars)
      BY DEF vars, Service!serviceVars, Verdict
    <2> USE DEF Service!ServiceNext, Service!serviceVars
    <2>k. entryKb \in Nat /\ entryKb' \in Nat
      BY DEF IInv, Typed, TypeOK
    <2>1. CASE StartService
      BY <2>1 DEF StartService, Service!Begin, Verdict, NotExited, kernel
    <2>2. CASE Kill
      BY <2>2 DEF Kill, Service!End, Service!Verdicts, Verdict, NotExited,
        kernel
    <2>3. CASE PowerLoss
      BY <2>3 DEF PowerLoss, Service!Reboot, Verdict, NotExited
    <2>4. CASE BootCompleted \/ SetRequest \/ SetSupported \/ OthersUseSpace
               \/ ZramSwapOn \/ ZramSwapOff
      BY <2>4 DEF BootCompleted, SetRequest, SetSupported, OthersUseSpace,
        ZramSwapOn, ZramSwapOff, Verdict, kernel, init
    <2>5. CASE MainStep /\ UNCHANGED exit /\ running /\ running'
      <3>1. CASE UNCHANGED entryKb
        BY <2>5, <3>1 DEF Verdict
      <3>2. CASE entryKb > 0 /\ entryKb' = 0
        BY <2>5, <3>2 DEF Verdict, Service!TurnOff
      <3>3. CASE entryKb = 0 /\ entryKb' > 0
        BY <2>5, <2>k, <3>3 DEF Verdict, Service!TurnOn
      <3>4. CASE SwapOffSucceeds
        BY <2>k, <3>1, <3>2, <3>4 DEF SwapOffSucceeds, kernel
      <3>5. CASE SwapOn
        <4>1. entryKb = 0
          BY <2>k, <3>5 DEF SwapOn, IInv, SwapSafe, SwapOffLabels
        <4> QED
          BY <2>k, <3>1, <3>3, <4>1
      <3> QED
        BY <2>5, <3>1, <3>4, <3>5 DEF MainStep, CheckRequest,
          DisableRequested, RemoveRequested, PollZram, DisableStale,
          EnsureDataDirectory, OpenSwapFile, CheckSpace, Truncate, WriteChunk,
          Fsync, RunMkswap, Verify, UndoActive, UndoPrepared, PublishSize,
          PublishOutcome, SwapOffFails, kernel
    <2>6. CASE PublishOutcome /\ ~(UNCHANGED exit /\ running')
      <3>1. PICK code \in {0, 1} : Exit(code)
        BY <2>6 DEF PublishOutcome, Published, FailActiveSwap, init
      <3>2. /\ running /\ ~running' /\ UNCHANGED entryKb
            /\ exit'.code = code /\ exit'.status = main.status
        BY <2>6, <3>1 DEF PublishOutcome, Exit, kernel
      <3>3. CASE code = 1
        BY <3>2, <3>3 DEF Verdict, Service!End, Service!Verdicts
      <3>4. CASE code = 0
        <4>1. /\ exit'.status \in {"active", "disabled"}
              /\ exit'.status = "active" => entryKb' > 0
              /\ exit'.status = "disabled" => ~(entryKb' > 0)
          BY <3>2, <3>4 DEF IInv, ExitZeroTruthful, SwapSafe
        <4>2. Verdict' = exit'.status
          BY <3>2, <3>4 DEF Verdict
        <4> QED
          BY <2>k, <3>2, <4>1, <4>2 DEF Service!End, Service!Verdicts
      <3> QED
        BY <3>3, <3>4
    <2>7. CASE MainStep /\ ~PublishOutcome
      <3>1. UNCHANGED exit /\ running /\ running'
        BY <2>7 DEF MainStep, CheckRequest, DisableRequested, RemoveRequested,
          PollZram, DisableStale, EnsureDataDirectory, OpenSwapFile,
          CheckSpace, Truncate, WriteChunk, Fsync, RunMkswap, SwapOn, Verify,
          UndoActive, UndoPrepared, PublishSize, Fail, Publish, Goto,
          NextAttempt, FailPreparedSwap, FailActiveSwap, init
      <3> QED
        BY <2>5, <2>7, <3>1
    <2>8. CASE PublishOutcome /\ UNCHANGED exit /\ running'
      BY <2>5, <2>8 DEF MainStep, PublishOutcome
    <2> QED
      BY <2>1, <2>2, <2>3, <2>4, <2>6, <2>7, <2>8 DEF Next, World, MainStep
  <1> QED
    BY <1>1, <1>2, Invariance, PTL
    DEF Spec, ServicePromise, Service!ServiceSpec

-----------------------------------------------------------------------------
(* Preparing the file *)

\* The labels at which the file has been opened, and at which it has its size.
SizedLabels == {"write", "mkswap", "swapon", "verify"}

PreparingLabels == {"swapoff", "mkdir", "open", "space", "truncate"} \cup SizedLabels

\* What fstat has shown is still so when it is decided on, and from ftruncate
\* on the file has the requested size.
FileKnown ==
    /\ pc \in PreparingLabels \cup {"wait_zram"} => main.requested \in AllowedSizes
    /\ pc \in {"space", "truncate"} =>
        /\ main.allocated = StBlocks(file)
        /\ main.current = file.size /\ file.exists
    /\ pc \in SizedLabels =>
        /\ file.size = main.requested /\ file.exists
        /\ file.blocks \subseteq Extent(main.requested)

\* At most MetadataMax blocks are missing below address n.
Few(f, n) == Cardinality(Extent(n) \ f.blocks) <= MetadataMax

\* So it is below every block a file has.
Tight(f) == \A b \in f.blocks : Few(f, b)

\* With ordered writeback few blocks are missing below any that is there, live
\* or on disk, nor has WriteZeroes left more behind it.
FileGaps ==
    OrderedWriteback =>
        /\ Tight(file) /\ Tight(disk)
        /\ pc = "write" => Few(file, main.offset)
        /\ pc \in {"mkswap", "swapon"} => Few(file, file.size)

\* With nobody else writing, the space found is there until the run ends.
RoomLeft ==
    ("space" \notin Env /\ pc \in {"truncate"} \cup SizedLabels
        /\ main.allocated < main.requested)
    => Capacity - others >= main.requested + Reserve

Below ==
    /\ SwapFile \in DOMAIN prio /\ ZramOn # {}
    /\ \A z \in ZramOn : prio[SwapFile] < prio[z]

\* With the zram devices left alone, the lowest priority that was found bounds
\* theirs: no device comes up after the boot, and the swapoff of a stale swap
\* only raises priorities.
ZramKnown ==
    "zram" \notin Env =>
        /\ pc # "stopped" \/ exit.code # -1 => boot
        /\ pc \in PreparingLabels =>
            ZramOn # {} /\ \A z \in ZramOn : main.zram_priority <= prio[z]
        /\ pc \in {"pub_size", "pub_status"} /\ main.status = "active" => Below
        /\ exit.code = 0 /\ exit.status = "active" => Below

\* A step that leaves main()'s work on the file aside keeps what is known.
LEMMA KnownElsewhere ==
    ASSUME pc' \notin PreparingLabels \cup {"wait_zram"}
    PROVE  FileKnown' /\ RoomLeft'
  BY DEF FileKnown, RoomLeft, PreparingLabels, SizedLabels

\* main() decides on what it has found.
LEMMA KnownMainStep ==
    ASSUME Typed, FileKnown, MainStep
    PROVE  FileKnown'
  <1>t. Control /\ FileTyped
    BY TypedParts
  <1>f. main \in Locals /\ file \in File
    BY <1>t DEF Control, FileTyped
  <1> USE DEF storage, Fail, Goto, Publish, FailPreparedSwap
  <1>1. CASE pc' \in {"stopped", "main", "disable", "remove", "fail_active",
                      "fail_prepared", "pub_size", "pub_status"}
    BY <1>1, KnownElsewhere DEF PreparingLabels, SizedLabels
  <1>2. CASE DisableRequested \/ RemoveRequested \/ Verify \/ UndoActive
             \/ UndoPrepared \/ PublishSize \/ PublishOutcome
    BY <1>1, <1>2 DEF DisableRequested, RemoveRequested, Verify, UndoActive,
      UndoPrepared, PublishSize, PublishOutcome, Published, Exit, FailActiveSwap
  <1>3. CASE CheckRequest
    <2>1. CASE /\ prop.requested \in AllowedSizes /\ pc' = "wait_zram"
               /\ main' = [main EXCEPT !.requested = prop.requested]
      <3>1. main'.requested \in AllowedSizes
        BY <1>f, <2>1 DEF Locals
      <3> QED
        BY <2>1, <3>1 DEF FileKnown, SizedLabels
    <2> QED
      BY <1>1, <1>3, <2>1 DEF CheckRequest
  <1>4. CASE PollZram
    <2>1. CASE pc' = "pub_size"
      BY <1>1, <2>1
    <2>2. CASE pc' \in {"wait_zram", "swapoff"} /\ main'.requested = main.requested
      BY <1>4, <2>2 DEF PollZram, FileKnown, SizedLabels
    <2>3. ASSUME NEW n, pc' = "swapoff", main' = [main EXCEPT !.zram_priority = n]
          PROVE  main'.requested = main.requested
      BY <1>f, <2>3 DEF Locals
    <2>4. ASSUME NextAttempt
          PROVE  pc' = pc /\ main'.requested = main.requested
      BY <1>f, <2>4 DEF Locals, NextAttempt
    <2> QED
      BY <1>4, <2>1, <2>2, <2>3, <2>4 DEF PollZram
  <1>5. CASE DisableStale \/ EnsureDataDirectory
    <2>1. CASE pc' \in {"mkdir", "open"} /\ UNCHANGED main
      BY <1>5, <2>1 DEF DisableStale, EnsureDataDirectory, FileKnown,
        PreparingLabels, SizedLabels
    <2> QED
      BY <1>1, <1>5, <2>1 DEF DisableStale, EnsureDataDirectory
  <1>6. CASE OpenSwapFile
    <2>1. CASE /\ file' = [file EXCEPT !.exists = TRUE] /\ pc' = "space"
               /\ main' = [main EXCEPT !.allocated = StBlocks(file),
                                       !.current = file.size]
      <3>1. /\ file'.exists /\ file'.blocks = file.blocks
            /\ file'.size = file.size /\ file'.metadata = file.metadata
        BY <1>f, <2>1 DEF File
      <3>2. /\ main'.allocated = StBlocks(file)
            /\ main'.current = file.size /\ main'.requested = main.requested
        BY <1>f, <2>1 DEF Locals
      <3>3. main.requested \in AllowedSizes
        BY <1>6 DEF OpenSwapFile, FileKnown, PreparingLabels
      <3> QED
        BY <2>1, <3>1, <3>2, <3>3 DEF FileKnown, SizedLabels, StBlocks
    <2> QED
      BY <1>1, <1>6, <2>1 DEF OpenSwapFile
  <1>7. CASE CheckSpace
    <2>1. CASE pc' = "truncate" /\ UNCHANGED main
      BY <1>7, <2>1 DEF CheckSpace, FileKnown, PreparingLabels, SizedLabels
    <2> QED
      BY <1>1, <1>7, <2>1 DEF CheckSpace
  <1>8. CASE Truncate
    <2>1. CASE /\ \E m \in 0 .. file.metadata :
                    file' = [file EXCEPT !.size = main.requested,
                               !.blocks = @ \cap Extent(main.requested),
                               !.metadata = m]
               /\ pc' = "write" /\ main' = [main EXCEPT !.offset = WriteOffset]
      <3>1. /\ file'.exists = file.exists /\ file'.size = main.requested
            /\ file'.blocks \subseteq Extent(main.requested)
        BY <1>f, <2>1 DEF File
      <3>2. main'.requested = main.requested
        BY <1>f, <2>1 DEF Locals
      <3>3. main.requested \in AllowedSizes /\ file.exists
        BY <1>8 DEF Truncate, FileKnown, PreparingLabels
      <3> QED
        BY <2>1, <3>1, <3>2, <3>3 DEF FileKnown
    <2> QED
      BY <1>1, <1>8, <2>1 DEF Truncate
  <1>9. CASE WriteChunk
    <2>1. CASE /\ main.offset < main.requested
               /\ \E m : file' = [file EXCEPT !.blocks = @ \cup {main.offset},
                                              !.metadata = @ + m]
               /\ main' = [main EXCEPT !.offset = @ + 1] /\ pc' = "write"
      <3>1. /\ file'.exists = file.exists /\ file'.size = file.size
            /\ file'.blocks = file.blocks \cup {main.offset}
        BY <1>f, <2>1 DEF File
      <3>2. main'.requested = main.requested
        BY <1>f, <2>1 DEF Locals
      <3>3. /\ main.requested \in AllowedSizes /\ file.exists
            /\ file.size = main.requested
            /\ file.blocks \subseteq Extent(main.requested)
        BY <1>9 DEF WriteChunk, FileKnown, PreparingLabels, SizedLabels
      <3>4. main.offset \in Nat /\ main.requested \in Nat
        BY <1>f, <3>3, SetupAssumption DEF Locals
      <3>5. main.offset \in Extent(main.requested)
        BY <2>1, <3>4 DEF Extent
      <3> QED
        BY <2>1, <3>1, <3>2, <3>3, <3>5 DEF FileKnown
    <2> QED
      BY <1>1, <1>9, <2>1 DEF WriteChunk
  <1>10. CASE Fsync \/ RunMkswap \/ SwapOn
    <2>1. CASE pc' \in {"mkswap", "swapon", "verify"} /\ UNCHANGED main
      <3>1. pc \in SizedLabels /\ UNCHANGED file
        BY <1>10 DEF Fsync, RunMkswap, SwapOn, SizedLabels
      <3> QED
        BY <2>1, <3>1 DEF FileKnown, PreparingLabels
    <2> QED
      BY <1>1, <1>10, <2>1 DEF Fsync, RunMkswap, SwapOn
  <1> QED
    BY <1>2, <1>3, <1>4, <1>5, <1>6, <1>7, <1>8, <1>9, <1>10 DEF MainStep

\* Nothing of main() changes the space others use.
LEMMA RoomMainStep ==
    ASSUME Typed, FileKnown, RoomLeft, MainStep
    PROVE  RoomLeft'
  <1>t. Control /\ FileTyped /\ others \in Nat
    BY TypedParts
  <1>f. main \in Locals /\ others \in Nat /\ Capacity \in Nat /\ Reserve \in Nat
    BY <1>t, SetupAssumption DEF Control
  <1> USE DEF storage, Fail, Goto, Publish, FailPreparedSwap
  <1>1. CASE pc' \notin {"truncate"} \cup SizedLabels
    BY <1>1 DEF RoomLeft
  <1>2. CASE DisableRequested \/ RemoveRequested \/ Verify \/ UndoActive
             \/ UndoPrepared \/ PublishSize \/ PublishOutcome \/ CheckRequest
             \/ DisableStale \/ EnsureDataDirectory \/ OpenSwapFile \/ PollZram
    BY <1>1, <1>2 DEF DisableRequested, RemoveRequested, Verify, UndoActive,
      UndoPrepared, PublishSize, PublishOutcome, Published, Exit, FailActiveSwap,
      CheckRequest, DisableStale, EnsureDataDirectory, OpenSwapFile, PollZram,
      NextAttempt, SizedLabels
  <1>3. CASE CheckSpace
    <2>1. CASE HasSpace /\ pc' = "truncate" /\ UNCHANGED main
      <3>1. UNCHANGED others /\ main.allocated = StBlocks(file)
        BY <1>3 DEF CheckSpace, FileKnown
      <3>2. main.requested \in Nat /\ main.allocated \in Nat
        <4>1. main.requested \in AllowedSizes /\ main.allocated \in Nat
          BY <1>3, <1>f DEF CheckSpace, FileKnown, PreparingLabels, Locals
        <4>2. AllowedSizes \subseteq Nat
          BY SetupAssumption
        <4> QED
          BY <4>1, <4>2
      <3>3. main.allocated < main.requested =>
              Capacity - others - main.allocated
                >= main.requested - main.allocated + Reserve
        BY <2>1, <3>1, <3>2 DEF HasSpace, Smaller, Avail
      <3>4. main.allocated < main.requested =>
              Capacity - others >= main.requested + Reserve
        BY <1>f, <3>2, <3>3
      <3> QED
        BY <2>1, <3>1, <3>4 DEF RoomLeft
    <2> QED
      BY <1>1, <1>3, <2>1 DEF CheckSpace, SizedLabels
  <1>4. CASE Truncate \/ WriteChunk \/ Fsync \/ RunMkswap \/ SwapOn
    <2>1. pc \in {"truncate"} \cup SizedLabels /\ UNCHANGED others
      BY <1>4 DEF Truncate, WriteChunk, Fsync, RunMkswap, SwapOn, SizedLabels
    <2>2. main'.requested = main.requested /\ main'.allocated = main.allocated
      BY <1>4, <1>f DEF Truncate, WriteChunk, Fsync, RunMkswap, SwapOn, Locals
    <2> QED
      BY <2>1, <2>2 DEF RoomLeft
  <1> QED
    BY <1>2, <1>3, <1>4 DEF MainStep

\* Blocks are counted by their addresses.
LEMMA ExtentCount ==
    ASSUME NEW n \in Nat
    PROVE  Cardinality(Extent(n)) = n
  <1>1. IF 0 > n - 1 THEN Cardinality(0 .. (n - 1)) = 0
        ELSE Cardinality(0 .. (n - 1)) = (n - 1) - 0 + 1
    BY FS_Interval
  <1> QED
    BY <1>1 DEF Extent

\* A set is not larger than one it lies in.
LEMMA FewerStill ==
    ASSUME NEW A, NEW B, IsFiniteSet(B), A \subseteq B,
           Cardinality(B) <= MetadataMax
    PROVE  Cardinality(A) <= MetadataMax
  <1>1. /\ IsFiniteSet(A) /\ Cardinality(A) <= Cardinality(B)
    BY FS_Subset
  <1>2. Cardinality(A) \in Nat /\ Cardinality(B) \in Nat /\ MetadataMax \in Nat
    BY <1>1, FS_CardinalityType, SetupAssumption
  <1> QED
    BY <1>1, <1>2

\* Gaps below an address are finitely many.
LEMMA GapsFinite ==
    ASSUME NEW n \in Nat, NEW S
    PROVE  IsFiniteSet(Extent(n) \ S)
  BY ExtentFinite, FS_Subset

\* What a file lacks is what it does not have.
LEMMA GapCount ==
    ASSUME NEW n \in Nat, NEW S, S \subseteq Extent(n)
    PROVE  Cardinality(Extent(n) \ S) = n - Cardinality(S)
  <1>1. IsFiniteSet(Extent(n)) /\ Cardinality(Extent(n)) = n
    BY ExtentFinite, ExtentCount
  <1>2. Cardinality(Extent(n) \ S) = Cardinality(Extent(n)) - Cardinality(Extent(n) \cap S)
    BY <1>1, FS_Difference
  <1>3. Extent(n) \cap S = S
    OBVIOUS
  <1> QED
    BY <1>1, <1>2, <1>3

\* Where WriteZeroes starts, few blocks are missing: either a block behind the
\* place vouches for those before it, or all blocks are before it and st_blocks
\* shows how many there are.
LEMMA OffsetTight ==
    ASSUME FileTyped, Control, Tight(file), main.allocated = StBlocks(file)
    PROVE  Few(file, WriteOffset)
  <1> DEFINE p == Smaller(main.current, main.requested)
  <1>1. /\ main.current \in Nat /\ main.requested \in Nat
        /\ Cardinality(file.blocks) \in Nat /\ file.blocks \subseteq Nat
        /\ file.metadata \in Nat /\ file.metadata <= MetadataMax
        /\ MetadataMax \in Nat
    <2>1. main.current \in Nat /\ main.requested \in AllowedSizes \cup {0}
      BY DEF Control, Locals
    <2>2. AllowedSizes \cup {0} \subseteq Nat
      BY SetupAssumption
    <2>3. main.requested \in Nat
      BY <2>1, <2>2
    <2>4. /\ Cardinality(file.blocks) \in Nat /\ file.blocks \subseteq Nat
          /\ file.metadata \in Nat /\ file.metadata <= MetadataMax
          /\ MetadataMax \in Nat
      BY FS_CardinalityType, SetupAssumption DEF FileTyped, File
    <2> QED
      BY <2>1, <2>3, <2>4
  <1>2. p \in Nat
    BY <1>1 DEF Smaller
  <1>3. WriteOffset = IF main.allocated < p THEN 0 ELSE p
    BY DEF WriteOffset
  <1> HIDE DEF p
  <1>4. CASE main.allocated < p
    <2>1. Extent(0) \ file.blocks = {}
      BY DEF Extent
    <2>2. Cardinality(Extent(0) \ file.blocks) = 0
      BY <2>1, FS_EmptySet
    <2> QED
      BY <1>1, <1>3, <1>4, <2>2 DEF Few
  <1>5. CASE ~(main.allocated < p) /\ file.blocks \subseteq Extent(p)
    <2>1. Cardinality(Extent(p) \ file.blocks) = p - Cardinality(file.blocks)
      BY <1>2, <1>5, GapCount
    <2>2. Cardinality(file.blocks) + file.metadata >= p
      BY <1>1, <1>2, <1>5 DEF StBlocks
    <2>3. Cardinality(Extent(p) \ file.blocks) <= MetadataMax
      BY <1>1, <1>2, <2>1, <2>2
    <2> QED
      BY <1>3, <1>5, <2>3 DEF Few
  <1>6. CASE ~(main.allocated < p) /\ ~(file.blocks \subseteq Extent(p))
    <2>1. PICK b \in file.blocks : b \notin Extent(p)
      BY <1>6
    <2>2. b \in Nat /\ p <= b
      BY <1>1, <1>2, <2>1 DEF Extent
    <2>3. Cardinality(Extent(b) \ file.blocks) <= MetadataMax
      BY <2>1 DEF Tight, Few
    <2>4. Extent(p) \ file.blocks \subseteq Extent(b) \ file.blocks
      BY <1>2, <2>2 DEF Extent
    <2>5. Cardinality(Extent(p) \ file.blocks) <= MetadataMax
      BY <2>2, <2>3, <2>4, GapsFinite, FewerStill
    <2> QED
      BY <1>3, <1>6, <2>5 DEF Few
  <1> QED
    BY <1>4, <1>5, <1>6

\* No step of main() makes the gaps larger.
LEMMA GapsMainStep ==
    ASSUME Typed, FileKnown, FileGaps, MainStep
    PROVE  FileGaps'
  <1> SUFFICES ASSUME OrderedWriteback
               PROVE  /\ Tight(file)' /\ Tight(disk)'
                      /\ pc' = "write" => Few(file, main.offset)'
                      /\ pc' \in {"mkswap", "swapon"} => Few(file, file.size)'
    BY DEF FileGaps
  <1>t. Control /\ FileTyped
    BY TypedParts
  <1>f. main \in Locals /\ file \in File
    BY <1>t DEF Control, FileTyped
  <1>p. Tight(file) /\ Tight(disk)
    BY DEF FileGaps
  <1> USE DEF storage, Fail, Goto, Publish, FailPreparedSwap
  <1>1. CASE UNCHANGED <<file, disk>> /\ pc' \notin {"write", "mkswap", "swapon"}
    BY <1>1, <1>p DEF Tight, Few
  <1>2. CASE file' = NoFile /\ UNCHANGED disk /\ pc' \notin {"write", "mkswap", "swapon"}
    <2>1. file'.blocks = {}
      BY <1>2 DEF NoFile
    <2> QED
      BY <1>2, <1>p, <2>1 DEF Tight, Few
  <1>3. CASE file' = [file EXCEPT !.exists = TRUE] /\ UNCHANGED disk
             /\ pc' \notin {"write", "mkswap", "swapon"}
    <2>1. file'.blocks = file.blocks
      BY <1>3, <1>f DEF File
    <2> QED
      BY <1>3, <1>p, <2>1 DEF Tight, Few
  <1>4. CASE CheckRequest \/ DisableRequested \/ PollZram \/ DisableStale
             \/ EnsureDataDirectory \/ CheckSpace \/ Verify \/ UndoActive
             \/ PublishSize \/ PublishOutcome
    BY <1>1, <1>4 DEF CheckRequest, DisableRequested, PollZram, DisableStale,
      EnsureDataDirectory, CheckSpace, Verify, UndoActive, PublishSize,
      PublishOutcome, Published, Exit, FailActiveSwap, NextAttempt
  <1>5. CASE RemoveRequested \/ UndoPrepared \/ OpenSwapFile
    BY <1>1, <1>2, <1>3, <1>5 DEF RemoveRequested, UndoPrepared, OpenSwapFile,
      UnlinkSucceeds, UnlinkFails
  <1>6. CASE Truncate
    <2>1. CASE /\ \E m \in 0 .. file.metadata :
                    file' = [file EXCEPT !.size = main.requested,
                               !.blocks = @ \cap Extent(main.requested),
                               !.metadata = m]
               /\ pc' = "write" /\ main' = [main EXCEPT !.offset = WriteOffset]
               /\ UNCHANGED disk
      <3>1. file'.blocks = file.blocks \cap Extent(main.requested)
        BY <1>f, <2>1 DEF File
      <3>2. main'.offset = WriteOffset
        BY <1>f, <2>1 DEF Locals
      <3>3. main.allocated = StBlocks(file)
        BY <1>6 DEF Truncate, FileKnown
      <3>4. /\ main.requested \in Nat /\ WriteOffset \in Nat
            /\ WriteOffset <= main.requested
        <4>0. AllowedSizes \cup {0} \subseteq Nat
          BY SetupAssumption
        <4>1. main.requested \in Nat /\ main.current \in Nat /\ main.allocated \in Nat
          BY <1>f, <4>0 DEF Locals
        <4> QED
          BY <4>1 DEF WriteOffset, Smaller
      <3>5. ASSUME NEW n \in Nat, n <= main.requested
            PROVE  Extent(n) \ file'.blocks = Extent(n) \ file.blocks
        <4>1. Extent(n) \subseteq Extent(main.requested)
          BY <3>4, <3>5 DEF Extent
        <4> QED
          BY <3>1, <4>1
      <3>6. Few(file, main.offset)'
        <4>1. Few(file, WriteOffset)
          BY <1>t, <1>p, <3>3, OffsetTight
        <4>2. Cardinality(Extent(WriteOffset) \ file'.blocks) <= MetadataMax
          BY <3>4, <3>5, <4>1 DEF Few
        <4> QED
          BY <3>2, <4>2 DEF Few
      <3>7. Tight(file)'
        <4>1. ASSUME NEW b \in file'.blocks
              PROVE  Cardinality(Extent(b) \ file'.blocks) <= MetadataMax
          <5>1. b \in file.blocks /\ b \in Nat /\ b <= main.requested
            BY <3>1, <3>4 DEF Extent
          <5> QED
            BY <1>p, <3>5, <5>1 DEF Tight, Few
        <4> QED
          BY <4>1 DEF Tight, Few
      <3>8. Tight(disk)'
        BY <1>p, <2>1 DEF Tight, Few
      <3> QED
        BY <2>1, <3>6, <3>7, <3>8
    <2> QED
      BY <1>1, <1>6, <2>1 DEF Truncate
  <1>7. CASE WriteChunk
    <2>1. CASE /\ \E m : file' = [file EXCEPT !.blocks = @ \cup {main.offset},
                                              !.metadata = @ + m]
               /\ main' = [main EXCEPT !.offset = @ + 1] /\ pc' = "write"
               /\ UNCHANGED disk
      <3>1. file'.blocks = file.blocks \cup {main.offset} /\ file.blocks \subseteq Nat
        BY <1>f, <2>1 DEF File
      <3>2. main'.offset = main.offset + 1 /\ main.offset \in Nat
        BY <1>f, <2>1 DEF Locals
      <3>3. Cardinality(Extent(main.offset) \ file.blocks) <= MetadataMax
        BY <1>7 DEF WriteChunk, FileGaps, Few
      <3>4. Few(file, main.offset)'
        <4>1. Extent(main.offset + 1) \ file'.blocks \subseteq Extent(main.offset) \ file.blocks
          BY <3>1, <3>2 DEF Extent
        <4>2. Cardinality(Extent(main.offset + 1) \ file'.blocks) <= MetadataMax
          BY <3>2, <3>3, <4>1, GapsFinite, FewerStill
        <4> QED
          BY <3>2, <4>2 DEF Few
      <3>5. Tight(file)'
        <4>1. ASSUME NEW b \in file'.blocks
              PROVE  Cardinality(Extent(b) \ file'.blocks) <= MetadataMax
          <5>1. b \in Nat
            BY <3>1, <3>2
          <5>2. Cardinality(Extent(b) \ file.blocks) <= MetadataMax
            BY <1>p, <3>1, <3>3 DEF Tight, Few
          <5>3. Extent(b) \ file'.blocks \subseteq Extent(b) \ file.blocks
            BY <3>1
          <5> QED
            BY <5>1, <5>2, <5>3, GapsFinite, FewerStill
        <4> QED
          BY <4>1 DEF Tight, Few
      <3>6. Tight(disk)'
        BY <1>p, <2>1 DEF Tight, Few
      <3> QED
        BY <2>1, <3>4, <3>5, <3>6
    <2> QED
      BY <1>1, <1>7, <2>1 DEF WriteChunk
  <1>8. CASE Fsync
    <2>1. CASE pc' = "mkswap" /\ UNCHANGED <<main, file>> /\ disk' = file
      <3>1. /\ file.size = main.requested /\ file.size \in Nat
            /\ main.offset >= main.requested /\ main.offset \in Nat
            /\ Cardinality(Extent(main.offset) \ file.blocks) <= MetadataMax
        BY <1>8, <1>f DEF Fsync, FileKnown, FileGaps, SizedLabels, File, Locals, Few
      <3>2. Extent(file.size) \ file.blocks \subseteq Extent(main.offset) \ file.blocks
        BY <3>1 DEF Extent
      <3>3. Cardinality(Extent(file.size) \ file.blocks) <= MetadataMax
        BY <3>1, <3>2, GapsFinite, FewerStill
      <3> QED
        BY <1>p, <2>1, <3>3 DEF Tight, Few
    <2>2. CASE UNCHANGED <<file, disk>> /\ pc' = "fail_prepared"
      BY <1>1, <2>2
    <2> QED
      BY <1>8, <2>1, <2>2 DEF Fsync, FsyncSucceeds
  <1>9. CASE RunMkswap \/ SwapOn
    <2>1. CASE pc' = "swapon" /\ UNCHANGED <<file, disk>> /\ pc = "mkswap"
      BY <1>p, <2>1 DEF FileGaps, Tight, Few
    <2> QED
      BY <1>1, <1>9, <2>1 DEF RunMkswap, SwapOn
  <1> QED
    BY <1>4, <1>5, <1>6, <1>7, <1>8, <1>9 DEF MainStep

\* DisableSwap takes no zram device away, and raises priorities if anything.
LEMMA ZramRaised ==
    ASSUME KernelTyped, SwapOffSucceeds \/ SwapOffFails
    PROVE  /\ ZramOn' = ZramOn
           /\ \A z \in ZramOn : prio[z] <= prio'[z] /\ prio[z] \in Int
                                /\ prio'[z] \in Int
  <1>1. SwapFile \notin Zram /\ \A z \in ZramOn : prio[z] \in Int
    BY SetupAssumption DEF KernelTyped, ZramOn
  <1>2. CASE UNCHANGED prio
    BY <1>1, <1>2 DEF ZramOn
  <1>3. CASE SwapFile \in DOMAIN prio /\ prio' = Deactivated(prio, SwapFile)
    <2>1. DOMAIN prio' = DOMAIN prio \ {SwapFile}
      BY <1>3 DEF Deactivated
    <2>2. ASSUME NEW z \in ZramOn
          PROVE  prio'[z] \in {prio[z], prio[z] + 1}
      BY <1>1, <1>3, <2>2 DEF Deactivated, ZramOn
    <2> QED
      BY <1>1, <2>1, <2>2 DEF ZramOn
  <1> QED
    BY <1>2, <1>3 DEF SwapOffSucceeds, SwapOffFails, Active, kernel

\* swapon leaves the zram devices as they are.
LEMMA ZramBeside ==
    ASSUME prio' = Activated(prio, SwapFile)
    PROVE  ZramOn' = ZramOn /\ \A z \in ZramOn : prio'[z] = prio[z]
  <1>1. SwapFile \notin Zram
    BY SetupAssumption
  <1>2. DOMAIN prio' = DOMAIN prio \cup {SwapFile}
    BY DEF Activated, ActivatedAt
  <1>3. \A z \in ZramOn : prio'[z] = prio[z]
    BY <1>1 DEF Activated, ActivatedAt, ZramOn
  <1> QED
    BY <1>1, <1>2, <1>3 DEF ZramOn

Bounded(n) == ZramOn # {} /\ \A z \in ZramOn : n <= prio[z]

\* The bound that was found holds up to the verification.
LEMMA ZramMainStep ==
    ASSUME IInv, ZramKnown, MainStep
    PROVE  ZramKnown'
  <1> SUFFICES ASSUME "zram" \notin Env
               PROVE  /\ pc' # "stopped" \/ exit'.code # -1 => boot'
                      /\ pc' \in PreparingLabels => Bounded(main.zram_priority)'
                      /\ (pc' \in {"pub_size", "pub_status"}
                            /\ main'.status = "active") => Below'
                      /\ (exit'.code = 0 /\ exit'.status = "active") => Below'
    BY DEF ZramKnown, Bounded
  <1> USE DEF storage
  <1>t. Control /\ KernelTyped
    BY TypedParts DEF IInv
  <1>f. main \in Locals
    BY <1>t DEF Control
  <1>0. pc # "stopped" /\ UNCHANGED boot
    BY DEF MainStep, CheckRequest, DisableRequested, RemoveRequested, PollZram,
      DisableStale, EnsureDataDirectory, OpenSwapFile, CheckSpace, Truncate,
      WriteChunk, Fsync, RunMkswap, SwapOn, Verify, UndoActive, UndoPrepared,
      PublishSize, PublishOutcome, Published, Exit, init
  <1>b. boot'
    BY <1>0 DEF ZramKnown
  <1>e. exit.code = -1
    BY <1>0 DEF IInv, VerdictFinal
  <1>1. CASE UNCHANGED exit /\ pc' \notin PreparingLabels
             /\ (pc' \in {"pub_size", "pub_status"} => main'.status # "active")
    BY <1>1, <1>b, <1>e
  <1>2. CASE UNCHANGED exit /\ pc' \in PreparingLabels
             /\ Bounded(main.zram_priority)'
    <2>1. pc' \notin {"pub_size", "pub_status"}
      BY <1>2 DEF PreparingLabels, SizedLabels
    <2> QED
      BY <1>2, <1>b, <1>e, <2>1
  <1>3. ASSUME NEW status \in FailStatuses \cup {"disabled"}, NEW kb,
               Publish(kb, status), UNCHANGED exit
        PROVE  /\ UNCHANGED exit /\ pc' \notin PreparingLabels
               /\ main'.status # "active"
    <2>1. pc' = "pub_size" /\ main'.status = status
      BY <1>t, <1>3, PublishFields
    <2> QED
      BY <1>3, <2>1 DEF FailStatuses, PreparingLabels, SizedLabels
  <1>4. CASE CheckRequest \/ DisableRequested \/ RemoveRequested \/ UndoActive
    <2>1. UNCHANGED exit
      BY <1>4 DEF CheckRequest, DisableRequested, RemoveRequested, UndoActive, init
    <2>2. \/ pc' \in {"disable", "remove", "wait_zram", "fail_prepared"}
          \/ \E kb : \E status \in FailStatuses \cup {"disabled"} :
                Publish(kb, status)
      BY <1>4 DEF CheckRequest, DisableRequested, RemoveRequested, UndoActive,
        Fail, Goto, FailStatuses
    <2> QED
      BY <1>1, <1>3, <2>1, <2>2 DEF PreparingLabels, SizedLabels
  <1>5. CASE UndoPrepared
    <2>1. main.status \in FailStatuses /\ UNCHANGED exit
      BY <1>5 DEF UndoPrepared, IInv, FailingStatus, init
    <2>2. \E kb : \E status \in FailStatuses \cup {"disabled"} :
                Publish(kb, status)
      BY <1>5, <2>1 DEF UndoPrepared, Fail, FailStatuses
    <2> QED
      BY <1>1, <1>3, <2>1, <2>2
  <1>6. CASE PollZram
    <2>1. UNCHANGED <<exit, prio>>
      BY <1>6 DEF PollZram, init, kernel
    <2>2. ASSUME NEW z \in LowestZram, pc' = "swapoff",
                 main' = [main EXCEPT !.zram_priority = prio[z]]
          PROVE  pc' \in PreparingLabels /\ Bounded(main.zram_priority)'
      <3>1. main'.zram_priority = prio[z]
        BY <1>f, <2>2 DEF Locals
      <3>2. z \in ZramOn /\ \A y \in ZramOn : prio[z] <= prio[y]
        BY DEF LowestZram
      <3> QED
        BY <2>1, <2>2, <3>1, <3>2 DEF Bounded, ZramOn, PreparingLabels
    <2>3. \/ pc' = "wait_zram"
          \/ Publish(0, "zram_not_ready")
          \/ \E z \in LowestZram :
                pc' = "swapoff" /\ main' = [main EXCEPT !.zram_priority = prio[z]]
      BY <1>6 DEF PollZram, Fail, NextAttempt
    <2>4. CASE pc' = "wait_zram"
      BY <1>1, <2>1, <2>4 DEF PreparingLabels, SizedLabels
    <2>5. CASE Publish(0, "zram_not_ready")
      BY <1>1, <1>3, <2>1, <2>5 DEF FailStatuses
    <2> QED
      BY <1>2, <2>1, <2>2, <2>3, <2>4, <2>5
  <1>7. CASE DisableStale
    <2>1. UNCHANGED exit /\ pc = "swapoff"
      BY <1>7 DEF DisableStale, init
    <2>2. Bounded(main.zram_priority) /\ main.zram_priority \in Int
      BY <1>f, <2>1 DEF ZramKnown, Bounded, PreparingLabels, Locals
    <2>3. CASE pc' = "mkdir" /\ UNCHANGED main /\ SwapOffSucceeds
      <3>1. /\ ZramOn' = ZramOn
            /\ \A z \in ZramOn : prio[z] <= prio'[z] /\ prio[z] \in Int
                                 /\ prio'[z] \in Int
        BY <1>t, <2>3, ZramRaised
      <3>2. Bounded(main.zram_priority)'
        BY <2>2, <2>3, <3>1 DEF Bounded
      <3> QED
        BY <1>2, <2>1, <2>3, <3>2 DEF PreparingLabels
    <2>4. CASE Publish(0, "swapoff_failed")
      BY <1>1, <1>3, <2>1, <2>4 DEF FailStatuses
    <2> QED
      BY <1>7, <2>3, <2>4 DEF DisableStale, Goto, Fail
  <1>8. CASE EnsureDataDirectory \/ OpenSwapFile \/ CheckSpace \/ Truncate
             \/ WriteChunk \/ Fsync \/ RunMkswap
    <2>1. UNCHANGED <<exit, prio>> /\ pc \in PreparingLabels
      BY <1>8 DEF EnsureDataDirectory, OpenSwapFile, CheckSpace, Truncate,
        WriteChunk, Fsync, RunMkswap, init, kernel, PreparingLabels, SizedLabels
    <2>2. CASE main'.zram_priority = main.zram_priority /\ pc' \in PreparingLabels
      <3>1. Bounded(main.zram_priority)'
        BY <2>1, <2>2 DEF ZramKnown, Bounded, ZramOn
      <3> QED
        BY <1>2, <2>1, <2>2, <3>1
    <2>3. CASE pc' = "fail_prepared"
      BY <1>1, <2>1, <2>3 DEF PreparingLabels, SizedLabels
    <2>4. CASE Publish(0, "file_error")
      BY <1>1, <1>3, <2>1, <2>4 DEF FailStatuses
    <2>5. \/ pc' = "fail_prepared"
          \/ Publish(0, "file_error")
          \/ pc' \in PreparingLabels /\ main'.zram_priority = main.zram_priority
      <3>1. CASE EnsureDataDirectory \/ CheckSpace \/ Fsync \/ RunMkswap
        BY <3>1 DEF EnsureDataDirectory, CheckSpace, Fsync, RunMkswap, Goto,
          Fail, FailPreparedSwap, PreparingLabels, SizedLabels
      <3>2. CASE OpenSwapFile \/ Truncate \/ WriteChunk
        BY <1>f, <3>2 DEF OpenSwapFile, Truncate, WriteChunk, FailPreparedSwap,
          PreparingLabels, SizedLabels, Locals
      <3> QED
        BY <1>8, <3>1, <3>2
    <2> QED
      BY <2>2, <2>3, <2>4, <2>5
  <1>9. CASE SwapOn
    <2>1. UNCHANGED exit /\ pc \in PreparingLabels
      BY <1>9 DEF SwapOn, init, PreparingLabels, SizedLabels
    <2>2. CASE prio' = Activated(prio, SwapFile) /\ pc' = "verify" /\ UNCHANGED main
      <3>1. Bounded(main.zram_priority)'
        BY <2>1, <2>2, ZramBeside DEF ZramKnown, Bounded
      <3> QED
        BY <1>2, <2>1, <2>2, <3>1 DEF PreparingLabels, SizedLabels
    <2>3. CASE pc' = "fail_prepared"
      BY <1>1, <2>1, <2>3 DEF PreparingLabels, SizedLabels
    <2> QED
      BY <1>9, <2>2, <2>3 DEF SwapOn, Goto, FailPreparedSwap
  <1>10. CASE Verify
    <2>1. UNCHANGED <<exit, prio>> /\ pc = "verify"
      BY <1>10 DEF Verify, init, kernel
    <2>2. CASE pc' = "fail_active"
      BY <1>1, <2>1, <2>2 DEF PreparingLabels, SizedLabels
    <2>3. CASE /\ Active /\ ~(prio[SwapFile] >= main.zram_priority)
               /\ Publish(entryKb, "active")
      <3>1. Bounded(main.zram_priority)
        BY <2>1 DEF ZramKnown, Bounded, PreparingLabels, SizedLabels
      <3>2. /\ main.zram_priority \in Int /\ prio[SwapFile] \in Int
            /\ \A z \in ZramOn : prio[z] \in Int
        BY <1>f, <1>t, <2>3 DEF Locals, KernelTyped, Active, ZramOn
      <3>3. Below
        BY <2>3, <3>1, <3>2 DEF Below, Bounded, Active
      <3>4. Below'
        BY <2>1, <3>3 DEF Below, ZramOn
      <3>5. pc' = "pub_size"
        BY <2>3 DEF Publish
      <3> QED
        BY <1>b, <1>e, <2>1, <3>4, <3>5 DEF PreparingLabels, SizedLabels
    <2> QED
      BY <1>10, <2>2, <2>3 DEF Verify, FailActiveSwap
  <1>11. CASE PublishSize
    <2>1. /\ UNCHANGED <<exit, prio>> /\ main'.status = main.status
          /\ pc = "pub_size" /\ pc' = "pub_status"
      BY <1>11, <1>f DEF PublishSize, Locals, init, kernel
    <2>2. main'.status = "active" => Below'
      BY <2>1 DEF ZramKnown, Below, ZramOn
    <2> QED
      BY <1>b, <1>e, <2>1, <2>2 DEF PreparingLabels, SizedLabels
  <1>12. CASE PublishOutcome
    <2>1. UNCHANGED prio /\ pc = "pub_status"
      BY <1>12 DEF PublishOutcome, kernel
    <2>2. CASE pc' = "fail_active" /\ UNCHANGED exit
      BY <1>1, <2>2 DEF PreparingLabels, SizedLabels
    <2>3. CASE pc' = "stopped" /\ exit'.status = main.status
      <3>1. main.status = "active" => Below'
        BY <2>1 DEF ZramKnown, Below, ZramOn
      <3> QED
        BY <1>b, <2>3, <3>1 DEF PreparingLabels, SizedLabels
    <2> QED
      BY <1>12, <2>2, <2>3 DEF PublishOutcome, Published, Exit, FailActiveSwap, init
  <1> QED
    BY <1>4, <1>5, <1>6, <1>7, <1>8, <1>9, <1>10, <1>11, <1>12 DEF MainStep

\* A power loss makes the gaps no larger when blocks reach the disk in order.
LEMMA SurvivorTight ==
    ASSUME FileTyped, DiskTyped, OrderedWriteback, Tight(file), Tight(disk),
           NEW f \in Survivors
    PROVE  Tight(f)
  <1> DEFINE all == disk.blocks \cup file.blocks
  <1>1. /\ f.blocks \subseteq all
        /\ \A b \in f.blocks : all \cap Extent(b) \subseteq f.blocks
    BY DEF Survivors
  <1> HIDE DEF all
  <1>2. ASSUME NEW b \in f.blocks
        PROVE  Cardinality(Extent(b) \ f.blocks) <= MetadataMax
    <2>1. Extent(b) \ f.blocks \subseteq Extent(b) \ all
      BY <1>1
    <2>2. PICK g \in {file, disk} : b \in g.blocks /\ Tight(g)
      BY <1>1 DEF all
    <2>3. Extent(b) \ f.blocks \subseteq Extent(b) \ g.blocks
      BY <2>1, <2>2 DEF all
    <2>4. b \in Nat
      BY <1>1 DEF all, FileTyped, DiskTyped, File
    <2>5. Cardinality(Extent(b) \ g.blocks) <= MetadataMax
      BY <2>2 DEF Tight, Few
    <2> QED
      BY <2>3, <2>4, <2>5, GapsFinite, FewerStill
  <1> QED
    BY <1>2 DEF Tight, Few

Prepared == FileKnown /\ FileGaps /\ RoomLeft /\ ZramKnown

\* A step of the world ends a run or leaves it what it has found.
LEMMA PreparedWorld ==
    ASSUME IInv, Prepared, World
    PROVE  Prepared'
  <1> USE DEF storage
  <1>t. Control /\ FileTyped /\ DiskTyped /\ KernelTyped
    BY TypedParts DEF IInv
  <1>p. OrderedWriteback => Tight(file) /\ Tight(disk)
    BY DEF Prepared, FileGaps
  <1>1. CASE StartService \/ Kill \/ PowerLoss
    <2>1. /\ pc' \in {"stopped", "main"} /\ exit'.code = -1
          /\ pc' = "main" => boot'
      BY <1>1 DEF StartService, Kill, PowerLoss, NotExited
    <2>2. FileKnown' /\ RoomLeft'
      BY <2>1, KnownElsewhere DEF PreparingLabels, SizedLabels
    <2>3. OrderedWriteback => Tight(file)' /\ Tight(disk)'
      <3>1. CASE UNCHANGED <<file, disk>>
        BY <1>p, <3>1 DEF Tight, Few
      <3>2. CASE file' \in Survivors /\ disk' = file'
        <4>1. ASSUME OrderedWriteback
              PROVE  \A b \in file'.blocks :
                       Cardinality(Extent(b) \ file'.blocks) <= MetadataMax
          BY <1>t, <1>p, <3>2, <4>1, SurvivorTight DEF Tight, Few
        <4> QED
          BY <3>2, <4>1 DEF Tight, Few
      <3> QED
        BY <1>1, <3>1, <3>2 DEF StartService, Kill, PowerLoss
    <2>4. FileGaps'
      BY <2>1, <2>3 DEF FileGaps
    <2>5. ZramKnown'
      BY <2>1 DEF ZramKnown, PreparingLabels, SizedLabels
    <2> QED
      BY <2>2, <2>4, <2>5 DEF Prepared
  <1>2. CASE BootCompleted \/ SetRequest \/ SetSupported \/ OthersUseSpace
             \/ ZramSwapOn \/ ZramSwapOff
    <2>1. UNCHANGED <<pc, main, file, disk, exit>>
      BY <1>2 DEF BootCompleted, SetRequest, SetSupported, OthersUseSpace,
        ZramSwapOn, ZramSwapOff, init
    <2>2. FileKnown' /\ FileGaps'
      BY <2>1 DEF Prepared, FileKnown, FileGaps, StBlocks, Tight, Few
    <2>3. RoomLeft'
      <3>1. "space" \notin Env => UNCHANGED others
        BY <1>2 DEF BootCompleted, SetRequest, SetSupported, OthersUseSpace,
          ZramSwapOn, ZramSwapOff
      <3> QED
        BY <2>1, <3>1 DEF Prepared, RoomLeft
    <2>4. ZramKnown'
      <3>1. CASE UNCHANGED prio /\ (boot => boot')
        BY <2>1, <3>1 DEF Prepared, ZramKnown, Below, ZramOn
      <3>2. CASE "zram" \in Env
        BY <3>2 DEF ZramKnown
      <3>3. CASE ZramSwapOn /\ "zram" \notin Env
        <4>1. ZramOn = {} \/ ~boot
          BY <3>3 DEF ZramSwapOn
        <4>2. UNCHANGED boot
          BY <3>3 DEF ZramSwapOn, init
        <4>3. pc \notin PreparingLabels
          BY <3>3, <4>1 DEF Prepared, ZramKnown, PreparingLabels, SizedLabels
        <4>4. /\ ~(pc \in {"pub_size", "pub_status"} /\ main.status = "active")
              /\ ~(exit.code = 0 /\ exit.status = "active")
          BY <3>3, <4>1 DEF Prepared, ZramKnown, Below
        <4> QED
          BY <2>1, <4>2, <4>3, <4>4 DEF Prepared, ZramKnown
      <3> QED
        BY <1>2, <3>1, <3>2, <3>3 DEF BootCompleted, SetRequest, SetSupported,
          OthersUseSpace, ZramSwapOff, kernel, init
    <2> QED
      BY <2>2, <2>3, <2>4 DEF Prepared
  <1> QED
    BY <1>1, <1>2 DEF World

\* What a run knows of the file, the space and zram is so, at all times.
LEMMA PreparedAlways == Spec => []Prepared
  <1>1. Init => Prepared
    <2> SUFFICES ASSUME Init PROVE Prepared
      OBVIOUS
    <2>1. /\ pc = "stopped" /\ exit.code = -1
          /\ file.blocks = {} /\ disk.blocks = {}
      BY DEF Init, NotExited, NoFile
    <2> QED
      BY <2>1 DEF Prepared, FileKnown, FileGaps, Tight, RoomLeft, ZramKnown,
        PreparingLabels, SizedLabels
  <1>2. IInv /\ Prepared /\ [Next]_vars => Prepared'
    <2>1. Prepared /\ UNCHANGED vars => Prepared'
      BY DEF Prepared, FileKnown, FileGaps, RoomLeft, ZramKnown, Below, ZramOn,
        StBlocks, Tight, Few, vars
    <2>2. IInv /\ Prepared /\ MainStep => Prepared'
      BY KnownMainStep, RoomMainStep, GapsMainStep, ZramMainStep
        DEF Prepared, IInv
    <2> QED
      BY <2>1, <2>2, PreparedWorld DEF Next
  <1> QED
    BY <1>1, <1>2, Invariance, PTL DEF Spec

\* With ordered writeback PrepareSwapFile never hands mkswap and swapon a file
\* that lacks more blocks than the metadata hides, whatever interrupted runs
\* and power losses left behind.
THEOREM HolesStayWithinMetadata == Spec => []HolesWithinMetadata
  <1>1. IInv /\ Prepared => HolesWithinMetadata
    <2> SUFFICES ASSUME IInv, Prepared, OrderedWriteback,
                        pc \in {"mkswap", "swapon"}
                 PROVE  /\ file.exists /\ file.size > 0
                        /\ file.blocks \subseteq Extent(file.size)
                        /\ Cardinality(Extent(file.size) \ file.blocks) <= MetadataMax
      BY DEF HolesWithinMetadata
    <2>1. /\ file.exists /\ file.size = main.requested
          /\ main.requested \in AllowedSizes
          /\ file.blocks \subseteq Extent(main.requested)
      BY DEF Prepared, FileKnown, PreparingLabels, SizedLabels
    <2>2. Few(file, file.size)
      BY DEF Prepared, FileGaps
    <2>3. main.requested > 0
      <3>1. AllowedSizes \subseteq Nat \ {0}
        BY SetupAssumption
      <3>2. main.requested \in Nat \ {0}
        BY <2>1, <3>1
      <3> QED
        BY <3>2
    <2> QED
      BY <2>1, <2>2, <2>3 DEF Few
  <1> QED
    BY <1>1, PreparedAlways, Invariance, PTL

\* Where st_blocks counts data alone, swapon accepts what PrepareSwapFile
\* returns.
THEOREM PreparedWithoutHoles ==
    ASSUME MetadataMax = 0, OrderedWriteback
    PROVE  Spec => [](pc \in {"mkswap", "swapon"} => HoleFree(file))
  <1>1. ASSUME HolesWithinMetadata, IInv, pc \in {"mkswap", "swapon"}
        PROVE  HoleFree(file)
    <2>1. /\ file.exists /\ file.size > 0 /\ file.blocks \subseteq Extent(file.size)
          /\ Cardinality(Extent(file.size) \ file.blocks) <= 0
      BY <1>1 DEF HolesWithinMetadata
    <2>2. IsFiniteSet(Extent(file.size) \ file.blocks)
      <3>1. file.size \in Nat
        BY <1>1, TypedParts DEF IInv, FileTyped, File
      <3> QED
        BY <3>1, GapsFinite
    <2>3. Cardinality(Extent(file.size) \ file.blocks) = 0
      BY <2>1, <2>2, FS_CardinalityType
    <2>4. Extent(file.size) \ file.blocks = {}
      BY <2>2, <2>3, FS_EmptySet
    <2> QED
      BY <2>1, <2>4 DEF HoleFree
  <1> QED
    BY <1>1, HolesStayWithinMetadata, Invariance, PTL

\* With /data left alone, the reserve stays free while the file grows, but for
\* the file's metadata.
THEOREM ReserveStaysFree == Spec => []ReserveKept
  <1>1. IInv /\ Prepared => ReserveKept
    <2> SUFFICES ASSUME IInv, Prepared, "space" \notin Env, pc \in SizedLabels,
                        main.allocated < main.requested
                 PROVE  Avail >= Reserve - MetadataMax
      BY DEF ReserveKept, SizedLabels
    <2>1. /\ Capacity - others >= main.requested + Reserve
          /\ main.requested \in AllowedSizes
          /\ file.blocks \subseteq Extent(main.requested)
      BY DEF Prepared, FileKnown, RoomLeft, PreparingLabels, SizedLabels
    <2>2. main.requested \in Nat /\ Capacity \in Nat /\ Reserve \in Nat
      BY <2>1, SetupAssumption
    <2>3. others \in Nat
      BY TypedParts DEF IInv
    <2>4. /\ Cardinality(file.blocks) \in Nat
          /\ Cardinality(file.blocks) <= main.requested
      <3>1. IsFiniteSet(Extent(main.requested))
        BY <2>2, ExtentFinite
      <3>2. Cardinality(Extent(main.requested)) = main.requested
        BY <2>2, ExtentCount
      <3>3. IsFiniteSet(file.blocks)
        BY TypedParts DEF IInv, FileTyped
      <3>4. Cardinality(file.blocks) \in Nat
        BY <3>3, FS_CardinalityType
      <3>5. Cardinality(file.blocks) <= Cardinality(Extent(main.requested))
        BY <2>1, <3>1, FS_Subset
      <3> QED
        BY <3>2, <3>4, <3>5
    <2>5. file.metadata \in Nat /\ file.metadata <= MetadataMax /\ MetadataMax \in Nat
      BY TypedParts, SetupAssumption DEF IInv, FileTyped, File
    <2> QED
      BY <2>1, <2>2, <2>3, <2>4, <2>5 DEF Avail, StBlocks
  <1> QED
    BY <1>1, PreparedAlways, Invariance, PTL

\* With the zram devices left alone, a run that reports "active" has put the
\* swapfile below all of them.
THEOREM ActiveBelowZram == Spec => []BelowZram
  <1>1. Prepared => BelowZram
    BY DEF Prepared, ZramKnown, Below, BelowZram
  <1> QED
    BY <1>1, PreparedAlways, PTL

=============================================================================
