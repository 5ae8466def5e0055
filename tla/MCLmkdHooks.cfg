SPECIFICATION Spec
CONSTANTS
    Totals = {2, 3}
    ZramTotal = 2
    SwapsMayFail = FALSE
    Inputs <- MCInputs
INVARIANTS TypeOK CopyInSync EstimateNear EstimateWithinFree
PROPERTY CopyCatchesUp
