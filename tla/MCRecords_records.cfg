SPECIFICATION RecordsSpec
CONSTANTS
    Bases <- KeyBases
    Scenarios <- AllScenarios
INVARIANTS
    RecordsTypeOK
    OutputFaithful
    KeysDistinct
    CallerKnown
