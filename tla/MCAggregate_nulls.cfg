SPECIFICATION KernelSpec
CONSTANTS
    NullCell = NullCell
    Hidden = Hidden
    Overflow = Overflow
    MaxRows = 3
    F64Exact = 8
    Batches <- NullBatches
    Calls <- CountV
    Int64 <- MCInt64
    U64 <- MCU64
    Mantissa <- MCInt64
INVARIANT CountsNonNull
