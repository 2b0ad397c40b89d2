SPECIFICATION CallSpec
CONSTANTS
    Null = Null
    Shared = Shared
    TypeOf <- MCTypes
    Schemas <- MCSchemas
    Calls <- MCCalls
    TextOf <- MCTexts
INVARIANTS
    BreakingIsExact
    EvolutionComposes
    EmptyMeansSameColumns
    ReportsEveryFault
    FingerprintNoticesChange
    ExactIsProof
    EquivalentIsReadable
    FastTellsValuesApart
    HashesTellRowsApart
