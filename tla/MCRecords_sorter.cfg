SPECIFICATION RecordsSpec
CONSTANTS
    Bases <- KeyBases
    Scenarios <- SortedInPlace
INVARIANTS
    OutputFaithful
