SPECIFICATION KernelSpec
CONSTANTS
    NullCell = NullCell
    Hidden = Hidden
    Overflow = Overflow
    MaxRows = 4
    F64Exact = 8
    Batches <- MCBatches
    Calls <- MCCalls
    Int64 <- MCInt64
    U64 <- MCU64
    Mantissa <- MCInt64
INVARIANTS
    GroupedSoFar
    OverflowIsExact
    CellsAreExact
