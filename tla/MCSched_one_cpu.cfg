\* One CPU, two children besides the first process, windows across the wrap of
\* ticks.
SPECIFICATION FairSpec
CONSTANTS
  NCPU = 1
  NPROC = 3
  WINDOW_SIZE = 2
  UINT = 4
  DefaultQuota = 1
  SetQuotas <- SomeQuotas
  QuotaPids = {2}
  MaxPid = 4
  MaxTicks = 4
INVARIANTS QuotaPerWindow
PROPERTIES SmallestPidFirst ThrottlingEnds
