SPECIFICATION Spec
CONSTANTS
    MaxRows = 3
    Key <- MCKey
    Code <- MCCode
    Nulled <- MCNulled
    IsNull <- MCNulled
    Lefts <- MCSides
    Rights <- MCSides
    LeftTypes <- MCLeftTypes
    RightTypes <- MCRightTypes
    Requests <- MCRequests
INVARIANTS
    OutputIsJoin
