\* Crashes and restarts.
SPECIFICATION Spec
CONSTANTS
    z1 = z1
    z2 = z2
    Zram = {z1}
    FixedPriorities = {}
    SwapFile = swapfile
    AllowedSizes = {2, 3}
    BadSizes = {}
    Reserve = 2
    Tolerance = 1
    Overheads = {1}
    PollAttempts = 2
    Capacity = 5
    MetadataMax = 1
    MayFail = {}
    Env = {"kill", "powerloss", "props"}
    OrderedWriteback = TRUE
INVARIANTS TypeOK SwapBacked HolesWithinMetadata ReserveKept BelowZram
PROPERTIES ActiveFileUntouched ServicePromise RunEnds
