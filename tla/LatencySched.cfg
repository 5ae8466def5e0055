\* Offsets of different maxima side by side; the module comes and goes.
CONSTANTS
    t1 = t1
    t2 = t2
    Tasks <- TwoTasks
    Maxes <- FittingMaxes
    DefaultMax = 12
    IntHalf = 16
    LongHalf = 1024
    Env = {"retune", "fork", "policy", "module"}
SPECIFICATION Spec
INVARIANTS
    TypeOK
    OffsetWithinMax
    NoMutualPreemption
    ClassesOrdered
