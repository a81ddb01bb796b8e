\* Three slots and three forks, so that a slot is used again; kill() is also called with 0,
\* the pid of the free slots.
SPECIFICATION FairSpec
CONSTANTS
  NPROC = 3
  MaxPid = 4
  KillPids = {0, 3}
INVARIANTS TableConsistent NoMissedExit
PROPERTIES OrphansReaped KillEndsPause
CHECK_DEADLOCK FALSE
