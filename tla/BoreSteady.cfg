SPECIFICATION Spec
CONSTANTS
    Bits = 10
    pow2 <- MCpow2
    TimeBits = 5
    WordBits = 10
    HalfBits = 4
    Fp = 2
    Levels = 4
    ScaleShift = 2
    SampleLimit = 4
    Defaults <- MCDefaults
    Kthreads = {TRUE, FALSE}
    Deltas = {1, 3, 7}
    Statics = {0, 2, 3}
    Smoothness = {1}
    Offsets = {2}
    Scales = {6}
    Inherited = {0, 7, 15}
    Env = {}
INVARIANTS PenaltyUpToDate WeightNotBetter
