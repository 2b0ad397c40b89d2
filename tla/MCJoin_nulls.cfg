SPECIFICATION Spec
CONSTANTS
    MaxRows = 2
    Key <- HiddenKey
    Code <- HiddenCode
    Nulled <- HiddenNulled
    IsNull = {}
    Lefts <- MCSides
    Rights <- MCSides
    LeftTypes <- MCLeftTypes
    RightTypes <- MCRightTypes
    Requests <- MCRequests
INVARIANT NullNeverMatches
