SPECIFICATION Spec
CONSTANTS
    FO = FO
    D1 = D1
    D2 = D2
    n1 = n1
    n2 = n2
    p1 = p1
    a = a
    b = b
    NoDev = NoDev
    dir1 = "output"
    Devs = {FO, D1}
    Streams = {p1}
    Nodes = {1}
    InitialDevs = {D1}
    ApmStreams = {}
    RestartDevs = {}
    OpenFaults <- NoFaults
    AppendFaults <- NoFaults
    ThreadFaults = {}
    MaxMessages = 0
    MaxPins = 2
    Directions <- MCDirections
    Dir <- MCDir
    Fallback <- MCFallback
    Group <- Alone
    Pos <- MCPos
    MaxChannels <- MCMaxChannels
    Channels <- MCChannels
    Client <- MCClient
    PinnedTo <- MCPinnedTo
    Attachable <- TakesAll
INVARIANTS
    PinsAreStreams
