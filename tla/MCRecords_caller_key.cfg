SPECIFICATION RecordsSpec
CONSTANTS
    Bases <- KeyBases
    Scenarios <- CallerKey
INVARIANTS
    NoKeyTwice
