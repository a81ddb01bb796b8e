\* Three processes share two buffers for three blocks, of which one may be pinned.
\* Seven descriptors: two requests in flight, a third process waiting while one
\* descriptor is left over; the ring indices wrap at 7.
SPECIFICATION SpecUnit
CONSTANTS
  Procs = {p1, p2, p3}
  Bufs = {x1, x2}
  Blocks = {k1, k2, k3}
  Val = {v1, v2}
  MaxPins = 1
  None = None
  NUM = 7
  UINT16 = 7
  Intr = Intr
SYMMETRY Symmetric
INVARIANTS CacheConsistent ReadsLatest DriverConsistent NothingMissed
PROPERTY ReturnsServed
