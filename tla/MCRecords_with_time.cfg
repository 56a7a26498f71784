SPECIFICATION RecordsSpec
CONSTANTS
    Bases <- KeyBases
    Scenarios <- Retimed
INVARIANTS
    CallerKnown
