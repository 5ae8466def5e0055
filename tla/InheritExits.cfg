\* Forks by a thread, below it and below the main one, all of which may exit.
SPECIFICATION Spec
CONSTANTS
    tr = tr
    ta = ta
    tb = tb
    tc = tc
    td = td
    te = te
    Root = tr
    Bits = 16
    pow2 <- MCpow2
    TimeBits = 8
    WordBits = 14
    HalfBits = 4
    Fp = 1
    Levels = 4
    ScaleShift = 2
    SampleLimit = 2
    Tasks = {tr, ta, tb, tc, td, te}
    Started = {tr, ta, tb, tc}
    FirstParent <- Line
    FirstLeader <- Threaded
    StartOrder <- Order
    Forkers = {tb, tc, td}
    Eligible = {tr, tb, tc, td, te}
    Protected = {tr, ta}
    Penalties = {3}
    Garbage = {0, 15}
    InheritTypes = {1, 2}
    Clones = {"process", "thread"}
    Lifetime = 1
    Shift = 1
    ScanLimit = 3
    FirstTime = 2
    LastTime = 2
    Env = {"exit"}
INVARIANTS TypeOK NoUseAfterFree ForkerIsSampled
PROPERTY EveryForkEnds
CHECK_DEADLOCK FALSE
