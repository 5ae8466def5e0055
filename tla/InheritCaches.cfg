\* Two forks at a time that fill the same caches while time passes.
SPECIFICATION Spec
CONSTANTS
    tr = tr
    ta = ta
    tb = tb
    tc = tc
    td = td
    te = te
    Root = tr
    Bits = 16
    pow2 <- MCpow2
    TimeBits = 8
    WordBits = 14
    HalfBits = 4
    Fp = 1
    Levels = 4
    ScaleShift = 2
    SampleLimit = 2
    Tasks = {tr, ta, tc, td, te}
    Started = {tr, ta, tc}
    FirstParent <- Fan
    FirstLeader <- Pair
    StartOrder <- Order
    Forkers = {ta, tc}
    Eligible = {tr, ta, tc, td, te}
    Protected = {tr}
    Penalties = {5}
    Garbage = {}
    InheritTypes = {0, 2}
    Clones = {"process", "thread"}
    Lifetime = 1
    Shift = 1
    ScanLimit = 3
    FirstTime = 2
    LastTime = 5
    Env = {"charge"}
INVARIANTS InheritsFresh CachedWithinSamples
CHECK_DEADLOCK FALSE
