SPECIFICATION Spec
CONSTANTS
    Bits = 10
    pow2 <- MCpow2
    TimeBits = 4
    WordBits = 10
    HalfBits = 4
    Fp = 2
    Levels = 4
    ScaleShift = 2
    SampleLimit = 4
    Defaults <- MCDefaults
    Kthreads = {TRUE, FALSE}
    Deltas = {5}
    Statics = {1, 3}
    Smoothness = {1, 19}
    Offsets = {2, 255}
    Scales = {6, 1000}
    Inherited = {6}
    Env = {"retune", "renice", "module"}
INVARIANTS TypeOK WeightInRange
PROPERTIES ProtectedNeverGains HistoryConverges
