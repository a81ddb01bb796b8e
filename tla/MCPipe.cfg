\* One writer, one reader; the ring of 2 wraps, and so do the counters (mod 4).
SPECIFICATION FairSpec
CONSTANTS
  Writers = {w}
  Readers = {r}
  PIPESIZE = 2
  UINT = 4
  Byte = {0, 1}
  MaxReq = 1
INVARIANTS MutualExclusion EofIsFinal NoUseAfterFree
PROPERTIES ImplementsStream CallsEnd
CHECK_DEADLOCK FALSE
