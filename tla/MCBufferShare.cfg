CONSTANTS
  Ids = {i0, i1, i2}
  ZeroId = i0
  InitialIdSize = 2
  BufSz = 1
  Modulus = 3
SPECIFICATION Spec
INVARIANTS TypeOK UsedIsFirst
PROPERTY ImplementsSharedBuffer
