SPECIFICATION CallSpec
CONSTANTS
    Null = Null
    Shared = Shared
    TypeOf <- MCTypes
    Schemas <- MCSchemas
    Calls <- MCCalls
    TextOf <- MCTexts
INVARIANT NullsHashApart
