\* Every call may fail, space is taken by others, zram comes late.
SPECIFICATION Spec
CONSTANTS
    z1 = z1
    z2 = z2
    Zram = {z1}
    FixedPriorities = {5}
    SwapFile = swapfile
    AllowedSizes = {2}
    BadSizes = {9}
    Reserve = 1
    Tolerance = 0
    Overheads = {0, 1}
    PollAttempts = 2
    Capacity = 3
    MetadataMax = 0
    MayFail <- MCAllCalls
    Env = {"kill", "powerloss", "props", "space", "zram"}
    OrderedWriteback = FALSE
INVARIANTS ExitZeroTruthful CleanFailure PublishedSizeIsReal
