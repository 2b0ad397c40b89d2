SPECIFICATION Spec
CONSTANTS
    MaxRows = 1
    Key <- HiddenKey
    Code <- HiddenCode
    Nulled <- HiddenNulled
    IsNull = {}
    Lefts <- MCSides
    Rights <- MCSides
    LeftTypes <- JoinedTypes
    RightTypes <- PlainTypes
    Requests <- ById
INVARIANT OutputNamesDistinct
