SPECIFICATION Spec
CONSTANTS
    d1 = d1
    d2 = d2
    big = big
    small = small
    small2 = small2
    Devs = {d1, d2}
    Streams = {big, small, small2}
    CanStart = {d1}
    Order <- ListOrder
    Route <- AllDevs
    Cb <- Cbs
    BufFrames = 3
    HwSize = 2
    FrameIds = 5
    Budgets <- Scenarios
INVARIANTS
    TypeOK
    NoWrap
    PlaysInOrder
    DrainedIsPlayed
    HeldOnlyIfShort
CHECK_DEADLOCK FALSE
