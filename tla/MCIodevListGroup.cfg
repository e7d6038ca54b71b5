SPECIFICATION Spec
CONSTANTS
    FO = FO
    D1 = D1
    D2 = D2
    n1 = n1
    n2 = n2
    p1 = p1
    a = a
    b = b
    NoDev = NoDev
    dir1 = "input"
    Devs = {FO, D1, D2}
    Streams = {n1, n2, p1}
    Nodes = {1}
    InitialDevs = {}
    ApmStreams = {p1, n1}
    RestartDevs = {D1}
    OpenFaults <- AnyOpen
    AppendFaults <- OneAppend
    ThreadFaults = {}
    MaxMessages = 0
    MaxPins = 2
    Directions <- MCDirections
    Dir <- MCDir
    Fallback <- MCFallback
    Group <- Grouped
    Pos <- MCPos
    MaxChannels <- MCMaxChannels
    Channels <- MCChannels
    Client <- MCClient
    PinnedTo <- MCPinnedTo
    Attachable <- SplitByUse
INVARIANTS
    NoDanglingStream
