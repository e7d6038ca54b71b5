SPECIFICATION Spec
CONSTANTS
    d1 = d1
    d2 = d2
    app = app
    srv = srv
    srv2 = srv2
    bulk = bulk
    Devs = {d1, d2}
    Streams = {app, srv, srv2, bulk}
    Order <- ListOrder
    ServerOnly = {srv, srv2, bulk}
    Bulk = {bulk}
    Route <- AllDevs
    Cb <- LargeAndSmall
    BufFrames = 3
    HwSize = 3
    SockSize = 2
    FrameIds = 13
    Budgets <- TwoOnTwo
INVARIANTS
    NoMutualHold
CHECK_DEADLOCK FALSE
