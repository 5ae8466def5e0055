\* Two calls at a time over threads that come and go.
SPECIFICATION Spec
CONSTANTS
    a1 = a1
    a2 = a2
    a3 = a3
    b1 = b1
    b2 = b2
    k1 = k1
    A = A
    B = B
    K = K
    Procs = Procs
    Writers = {w1, w2}
    Threads = {a1, a2, a3}
    Groups = {A}
    Started = {a1, a2}
    GroupOf <- MCGroupOf
    LeaderOf <- MCLeaderOf
    PidOf <- MCPidOf
    NameOf <- MCNameOf
    StartTime <- MCStartTime
    CPUs = {1, 2}
    Requests <- RefRequests
    PidWrites = {}
    MaxThreads = 3
    MaxKswapd = 1
    MaxCalls = 2
    Env = {"create", "exit", "nomem"}
INVARIANT NoUseAfterFree
PROPERTY GoneIsFreed
CHECK_DEADLOCK FALSE
