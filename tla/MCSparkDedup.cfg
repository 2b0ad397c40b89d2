SPECIFICATION Spec
CONSTANTS
    MaxRows = 3
    MaxFailures = 2
    Attempt = {a0, a1}
    Row <- MCRow
    PyEqual <- MCPyEqual
    Partition <- MCPartition
    Route <- MCRoute
    Tables <- MCTables
INVARIANTS
    AtMostOnePerKey
    EveryKeySurvives
