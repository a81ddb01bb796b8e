\* Three slots; kill() is called only with 0, which is the pid of no process.
SPECIFICATION Spec
CONSTANTS
  NPROC = 3
  MaxPid = 3
  KillPids = {0}
INVARIANTS OnlyVictimsKilled
CHECK_DEADLOCK FALSE
