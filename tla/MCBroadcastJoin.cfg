SPECIFICATION BroadcastSpec
CONSTANTS
    MaxRows = 2
    MaxEmpty = 1
    Partition = {p0, p1}
    Key <- MCKey
    Code <- MCCode
    Nulled = {"null"}
    Parts <- MCParts
    Smalls <- MCSmalls
INVARIANTS
    StreamedJoin
    DataFrameJoined
