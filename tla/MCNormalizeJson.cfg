SPECIFICATION JsonSpec
CONSTANTS
    Bad = Bad
    NullText = NullText
    MaxRows = 3
    Texts <- MCTexts
    Schemas <- MCSchemas
INVARIANTS
    ColumnsAligned
    StatsExplainNulls
