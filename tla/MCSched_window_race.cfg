SPECIFICATION Spec
CONSTANTS
  NCPU = 2
  NPROC = 1
  WINDOW_SIZE = 2
  UINT = 8
  DefaultQuota = 1
  SetQuotas = {}
  QuotaPids = {}
  MaxPid = 1
  MaxTicks = 5
INVARIANTS QuotaPerWindow
