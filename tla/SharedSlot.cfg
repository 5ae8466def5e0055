\* Latency-nice comes and goes while BORE is loaded.
SPECIFICATION Spec
CONSTANTS
    t1 = t1
    t2 = t2
    Tasks = {t1, t2}
    Self = t1
    Bursts = {11}
    NiceSpan = 64
    Maxes = {10}
    DefaultMax = 10
    IntHalf = 8
    LongHalf = 1024
    LatencyEnv = {"module", "retune"}
    Bits = 12
    pow2 <- MCpow2
    TimeBits = 11
    WordBits = 12
    HalfBits = 4
    Fp = 0
    Levels = 4
    ScaleShift = 2
    SampleLimit = 4
    Defaults <- MCDefaults
    Kthreads = {FALSE}
    Deltas = {800}
    Statics = {1, 3}
    Smoothness = {1}
    Offsets = {9}
    Scales = {6}
    BoreEnv = {"renice", "retune"}
INVARIANTS BothInRange BoreRecovers
CHECK_DEADLOCK FALSE
