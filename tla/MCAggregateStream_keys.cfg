SPECIFICATION Spec
CONSTANTS
    Null = Null
    MaxRows = 4
    MaxBatches = 3
    F64Exact = 8
    Group <- Floats
    Value <- MCValue
    I64 <- MCI64
    Requests <- SumOnly
    PyRep <- Zeros
    Fresh <- NaNs
INVARIANT OneRowPerGroup
