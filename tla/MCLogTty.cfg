\* Two operations of up to two blocks each; the log has room for both only while
\* it is empty.  Two processes write one or two batches to the UART, while the
\* kernel prints two bytes and a character arrives.  Two processes read a
\* console buffer of two characters, whose indices wrap at 4.
SPECIFICATION SpecUnit
CONSTANTS
  Ops = {p1, p2}
  Blocks = {b1, b2}
  Val = {0, 1}
  MAXOPBLOCKS = 2
  LOGBLOCKS = 4
  Writers = {w1, w2}
  BATCH = 2
  WriteSizes = {1, 3}
  MaxIn = 1
  MaxPrint = 2
  Readers = {q1, q2}
  INPUT_BUF_SIZE = 2
  UINT = 4
  ReadSizes = {2}
  Keys = {"x", "nl", "cr", "^D", "^U", "^H", "^P", "nul"}
  None = None
INVARIANTS LogConsistent UartConsistent ConsoleConsistent
PROPERTIES ImplementsAtomicDisk SleepersWake ReadsLines
