SPECIFICATION RecordsSpec
CONSTANTS
    Bases <- KeyBases
    Scenarios <- LongWith
INVARIANTS
    FieldsLimited
