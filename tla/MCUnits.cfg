\* Memory: two processes, 22 pages of two bytes, four system calls.  Files: two
\* processes, two descriptors each, three files on a disk of six blocks of two bytes,
\* one direct block.  Spinlocks: two
\* CPUs, two threads.  Shell: argv of three, six processes.  Allocator: a heap of
\* up to eight units.  Strings: names of two characters, memories of six bytes,
\* 8-bit numbers.  Filters: a buffer of four bytes.
SPECIFICATION SpecUnit
CONSTANTS
  NPROCS = 2
  NPAGES = 22
  PGSIZE = 2
  Progs <- TwoProgs
  Incs <- SomeIncs
  MaxCalls = 4
  NDESC = 2
  NFILE = 2
  NINODES = 3
  FSSIZE = 6
  BSIZE = 2
  NDIRECT = 1
  MaxChunk = 2
  Files <- ThreeFiles
  Opens <- SomeOpens
  Sizes = {3}
  MaxFileCalls = 5
  CPU = {c1, c2}
  Threads = {t1, t2}
  Cpu0 = c1
  None = None
  MAXARGS = 3
  Lines <- SomeLines
  NPROC = 6
  NOFILE = 5
  Limit = 8
  MinCore = 4
  Requests = {2, 3}
  DIRSIZ = 2
  W = 8
  Names <- SomeNames
  Paths <- SomePaths
  Cells = 6
  BUF = 4
  Texts <- SomeTexts
  Patterns <- SomePatterns
INVARIANTS
  MemoryConsistent DiskConsistent FileHolds SharingSafe LocksExclude InterruptsRestored
  ParserMeetsGrammar ProgramsWired CommandEnds
  HeapSound TextRoutinesCorrect
PROPERTY FailureUndone
