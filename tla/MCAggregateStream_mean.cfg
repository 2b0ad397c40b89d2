SPECIFICATION Spec
CONSTANTS
    Null = Null
    MaxRows = 4
    MaxBatches = 3
    F64Exact = 8
    Group <- Plain
    Value <- MCValue
    I64 <- MCI64
    Requests <- MeanOnly
    PyRep <- Same
    Fresh = {}
INVARIANT FailsOnlyWithKernel
