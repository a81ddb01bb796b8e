SPECIFICATION SchedSpec
CONSTANTS
  w = w
  r = r
  Writers = {w}
  Readers = {r}
  PIPESIZE = 1
  UINT = 2
  Byte = {0}
  MaxReq = 1
  Slot <- MCSlot
  Quota = 1
  Idle = Idle
PROPERTY OtherRuns
CHECK_DEADLOCK FALSE
