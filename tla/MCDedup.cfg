SPECIFICATION KernelSpec
CONSTANTS
    Encoding <- MCEncoding
    Hash <- MCHash
    HashOf <- MCHashOf
    Inputs <- MCInputs
    Hashable <- MCHashable
    Requests <- MCRequests
INVARIANTS
    VerdictsAreExact
    BucketsIndexKeptRows
PROPERTIES
    ImplementsFirstOccurrence
