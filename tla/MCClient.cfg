SPECIFICATION FairSpec
CONSTANTS
    MaxStarts = 2
    MaxConns = 2
    MaxAdds = 1
    MaxFaults = 2
    Reads = TRUE
INVARIANTS
    TypeOK
    ConnectionAgrees
    ReaderKeepsMapping
    StreamsOfThisConnection
    NoOrphanStream
PROPERTIES
    SnapshotIsConsistent
    Reconnects
    StreamsAreAnswered
