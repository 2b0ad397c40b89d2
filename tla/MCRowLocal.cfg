SPECIFICATION Spec
CONSTANTS
    Null = Null
    Unnamed = Unnamed
    Invalid = Invalid
    HashWidth = 3
    Hashes = {0, 3, 4, 7}
    Jobs <- MCJobs
INVARIANTS
    DeclaredIsYielded
    RowsStayInPlace
    SignedHashesCompareAlike
    PresetsAsDocumented
