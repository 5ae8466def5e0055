\* One call after the other, threads exit meanwhile; a group larger than the array.
SPECIFICATION Spec
CONSTANTS
    a1 = a1
    a2 = a2
    a3 = a3
    b1 = b1
    b2 = b2
    k1 = k1
    A = A
    B = B
    K = K
    Procs = Procs
    Writers = {w1}
    Threads = {a1, a2, a3, b1, b2}
    Groups = {A, B}
    Started = {a1, a2, a3, b1, b2}
    GroupOf <- MCGroupOf
    LeaderOf <- MCLeaderOf
    PidOf <- MCPidOf
    NameOf <- MCNameOf
    StartTime <- MCStartTime
    CPUs = {1, 2}
    Requests <- PlainRequests
    PidWrites = {12, 15}
    MaxThreads = 2
    MaxKswapd = 1
    MaxCalls = 3
    Env = {"exit", "nomem"}
INVARIANTS TypeOK TakesEffect ResetUndoesAll
CHECK_DEADLOCK FALSE
