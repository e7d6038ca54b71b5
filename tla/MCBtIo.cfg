SPECIFICATION FairSpec
CONSTANTS
    PipeSize = 3
    PipeMayFill = TRUE
    Faults = {"error", "again"}
    Singles = TRUE
INVARIANTS
    TypeOK
    DrivesWhatItOpened
    NoDanglingProfile
    OneProfile
    RequestPending
PROPERTIES
    RequestsServed
