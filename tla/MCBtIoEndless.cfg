SPECIFICATION Spec
CONSTANTS
    PipeSize = 3
    PipeMayFill = FALSE
    Faults = {}
    Singles = FALSE
PROPERTIES
    RequestsDoNotMultiply
