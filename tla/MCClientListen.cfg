SPECIFICATION FairSpec
CONSTANTS
    MaxStarts = 1
    MaxConns = 1
    MaxAdds = 0
    MaxFaults = 0
    Reads = FALSE
PROPERTIES
    AlwaysReconnects
