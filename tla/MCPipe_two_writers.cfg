\* Two processes sharing the write end, as after a fork().
SPECIFICATION Spec
CONSTANTS
  Writers = {w1, w2}
  Readers = {r}
  PIPESIZE = 2
  UINT = 4
  Byte = {0}
  MaxReq = 1
INVARIANT MutualExclusion
CHECK_DEADLOCK FALSE
