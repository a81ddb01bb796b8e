\* Two processes, three inodes besides the root, and a table with room for three: any
\* four calls of one set and one more, and seven calls around nested directories that
\* are removed.
SPECIFICATION Spec
CONSTANTS
  NPROCS = 2
  NINODES = 4
  NINODE = 3
  File = "a"
  MaxLink = 3
  Names <- NamesAD
  Workloads <- Two
INVARIANTS TableConsistent ImageConsistent LocksSafe OrphansReclaimed
