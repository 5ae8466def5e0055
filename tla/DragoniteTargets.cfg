\* Two writers that retarget one another.
SPECIFICATION Spec
CONSTANTS
    a1 = a1
    a2 = a2
    a3 = a3
    b1 = b1
    b2 = b2
    k1 = k1
    A = A
    B = B
    K = K
    Procs = Procs
    Writers = {w1, w2}
    Threads = {a1, a2, b1, k1}
    Groups = {A, B, K}
    Started = {a1, a2, k1}
    GroupOf <- MCGroupOf
    LeaderOf <- MCLeaderOf
    PidOf <- MCPidOf
    NameOf <- MCNameOf
    StartTime <- MCStartTime
    CPUs = {1, 2, 3}
    Requests <- MixedRequests
    PidWrites = {12, 13}
    MaxThreads = 3
    MaxKswapd = 1
    MaxCalls = 3
    Env = {"create", "hotplug", "module"}
SYMMETRY WriterSymmetry
INVARIANTS MasksAccountedFor
CHECK_DEADLOCK FALSE
