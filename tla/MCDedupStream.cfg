SPECIFICATION Spec
CONSTANTS
    NoLimit = NoLimit
    MaxBatches = 2
    MaxRows = 4
    Row <- MCRow
    Hash <- MCHash
    HashOf <- MCHashOf
    PyEqual <- MCPyEqual
    Inputs <- MCInputs
    Hashable <- MCHashable
    Requests <- MCRequests
    Limits <- MCLimits
INVARIANTS
    VerdictsSpanBatches
    YieldedHashesWithinLimit
    StatsDescribeStream
PROPERTIES
    ImplementsFirstOccurrence
