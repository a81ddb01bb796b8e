\* Two CPUs, two slots, windows of one tick across the wrap of ticks.  The property
\* is about the table and the CPUs, so states are told apart without the history.
SPECIFICATION Spec
CONSTANTS
  NCPU = 2
  NPROC = 2
  WINDOW_SIZE = 1
  UINT = 4
  DefaultQuota = 1
  SetQuotas <- SomeQuotas
  QuotaPids = {1, 2}
  MaxPid = 2
  MaxTicks = 4
VIEW NoHistory
INVARIANT CpusConsistent
