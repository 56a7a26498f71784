SPECIFICATION RecordsSpec
CONSTANTS
    Bases <- KeyBases
    Scenarios <- LongFloat
INVARIANTS
    OutputFaithful
