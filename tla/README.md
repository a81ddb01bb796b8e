# TLA+ models of the xv6 kernel of Group10OS

The repository is an xv6-riscv kernel with four changes of its own: pipes that
exclude reader from writer with Peterson's algorithm instead of a spinlock, a
scheduler that prefers the children of `schedtest`, a CPU quota per window of
ticks ("eco mode") that throttles processes, and a `kps` listing. This directory
holds TLA+ modules for the parts where processes, CPUs, interrupts, crashes and
devices meet, the TLC configurations that check them on small instances, and
TLAPS proofs, for every value of the constants, about the pipe, the scheduler, the
process table, the log, the buffer cache, the disk driver, the console, the UART
and the spinlocks.

All line numbers refer to the files under `src/`. `kernel/proc.c` line 498 has a
stray `q`, so the file does not compile as committed; the models read the loop
around it as it is plainly meant (`reset_cpu_quotas()`).

## The system and what models it

| Part | Source | Module | Status |
|---|---|---|---|
| pipe with Peterson's algorithm | `kernel/pipe.c` | `Pipe`, `ByteStream`, `PipeProofs` | modelled, proved |
| pipe under the scheduler | `kernel/pipe.c`, `proc.c`, `trap.c` | `PipeSched` | modelled |
| scheduler, quota, tick accounting | `kernel/proc.c`, `trap.c`, `sysproc.c` | `Sched`, `SchedProofs` | modelled, proved |
| fork, exit, wait, kill, sleep, wakeup | `kernel/proc.c`, `sysproc.c`, `user/init.c` | `ProcTable`, `ProcProofs` | modelled, proved |
| write-ahead log and recovery | `kernel/log.c` | `Log`, `AtomicDisk`, `LogProofs` | modelled, proved |
| buffer cache, sleep-locks | `kernel/bio.c`, `sleeplock.c` | `Bcache`, `BcacheProofs` | modelled, proved |
| virtio disk driver | `kernel/virtio_disk.c` | `VirtioDisk`, `VirtioProofs` | modelled, proved |
| inodes, directories, path names, file system calls | `kernel/fs.c`, `sysfile.c` | `FileSys` | modelled |
| file contents, file table, descriptors | `kernel/fs.c`, `file.c`, `sysfile.c` | `FileData` | modelled |
| image builder | `mkfs/mkfs.c` | `FileData` (its initial state) | partly |
| page allocator, virtual memory, exec, sbrk | `kernel/kalloc.c`, `vm.c`, `exec.c`, `proc.c` | `Vm` | modelled |
| console input | `kernel/console.c` | `Console`, `InputLine`, `TtyProofs` | modelled, proved |
| UART, console output, printing | `kernel/uart.c`, `console.c`, `plic.c` | `Uart`, `TtyProofs` | modelled, proved |
| spinlocks, interrupt nesting | `kernel/spinlock.c`, `proc.c`, `trap.c` | `Spinlock`, `SpinProofs` | modelled, proved |
| shell | `user/sh.c` | `ShellSyntax`, `Shell` | modelled |
| user malloc | `user/umalloc.c` | `Umalloc` | modelled |
| string, name and number routines | `kernel/string.c`, `fs.c`, `vm.c`, `printf.c`, `user/ulib.c` | `Strings` | partly |
| filters | `user/grep.c`, `wc.c` | `Filters` | modelled |
| assembly, boot, trap entry | `kernel/*.S`, `start.c`, `main.c` | | left out |
| system call table | `kernel/syscall.c` | | left out |
| other user programs, tests | `user/` | | left out |

"Proved" is about the safety properties; liveness is model-checked everywhere.

How they interact: a process in `pipewrite()` or `piperead()` spins with
`yield()`, so its progress depends on `scheduler()`. `scheduler()` runs on every
CPU, picks a process without holding its lock and tests it again; the timer
charges the process in `usertrap()`. `kfork()`, `kexit()`, `kwait()` and
`kkill()` meet under `p->lock` and `wait_lock`. File system calls run between
`begin_op()` and `end_op()`; the log pins buffers of the cache; the cache reads
and writes through the driver; the driver sleeps until the device interrupts.
`FileSys` starts from what `Log` shows (operations that were in progress together
are committed together), `FileData` from what `FileSys` shows (an inode that is
open stays). The shell's pipelines rest on descriptors that `fork()` copies and
on a pipe's end of file. All spinlocks rest on `Spinlock`: interrupts are off
while one is held, which is why the other modules may treat a locked section as
one step.

A section under one spinlock is one step throughout, because nothing else that
takes the lock can see its middle; accesses without a lock (Peterson's flags,
`quota_window_start`, the device rings) are steps of their own. When a lock is
held across several visible steps (`wait_lock` in `kexit()` and `kwait()`,
`vdisk_lock`), the lock is a variable.

## Modules

### Pipe, ByteStream

`Pipe` has the fields of `struct pipe` as variables and one action per access
to shared memory of `peterson_enter()`, `peterson_exit()`, `pipewrite()` and
`piperead()`; `pipeclose()` runs under `pi->lock` and is part of `Close`. A
process is in the set `Writers` or `Readers` according to its end, and uses the
Peterson identity 0 or 1 accordingly, as in the code. `nread` and `nwrite` wrap
at `UINT`. `left` stands for `n - i` of the two loops. The expression
`data[nwrite++ % PIPESIZE] = ch` leaves the order of its two stores open, and
so does `write_store`. Accesses take effect in program order; the missing fence
of `peterson_enter()` is listed as a hazard.

`ByteStream` is what a pipe promises: a bounded FIFO of bytes. `Pipe` implements
it under the mapping `Queue` (the bytes between `nread` and `nwrite`).

### PipeSched

`Pipe` on a single CPU: only the process that `running` names takes steps,
`yield()` and timer interrupts return to the scheduler, ticks in user space are
charged and throttle, ticks in the kernel are not, and the scan of `proc[]`
starts at the first slot each time.

### Sched

`scheduler()` step by step on `NCPU` CPUs: reading `ticks` under `tickslock`,
the unlocked comparison and store of `quota_window_start`, the reset of one slot
after the other, the scan for the `schedtest` child of smallest pid, the
fallback, and the second test under `p->lock` before the switch. Processes enter
and leave the kernel, fork, exec, exit, sleep, yield and set their quota. The
counters `waiting_tick` and `quota_violations` are written and never read to
decide anything, so they are left out. `sinceOpen`, `due`,
`charged` and `granted` (the largest quota since the last reset) are history, used by
`QuotaPerWindow`.

### ProcTable

`proc[]` with state, pid, parent, chan and killed; `kfork()` in its three locked
sections, `kexit()` in two, `kwait()` with the scan, the test of `killed`, and
the sleep as separate steps; `sys_pause()` as the other kind of sleeper;
`kkill()` and the fault path of `usertrap()`. `init` behaves as `user/init.c`:
it starts children and waits. It never exits and is not killed, because
`kexit()` panics for it. `kill(0)` is among the calls: it finds the free slots,
whose pid is 0.

### Log, AtomicDisk

`begin_op()`, `log_write()`, `end_op()` and each block write of `commit()` and
`recover_from_log()` are actions; `Crash` may come between any two, also in
recovery, and keeps only the disk. The buffer cache appears as contents that may
be evicted when not pinned. `AtomicDisk` is the abstract disk whose contents
change only by a whole group of finished operations; `Log` implements it under
the mapping `Recovered`, the disk as recovery would leave it.

### Bcache

`bget()` (hit, recycle, panic), `bread()`, `bwrite()`, `brelse()` in its two
sections, `bpin()`, `bunpin()`, and the sleep-lock of a buffer. The list order
decides which buffer is recycled. `latest` is history.

### VirtioDisk

`virtio_disk_rw()` and `virtio_disk_intr()` with the descriptor table and both
rings, against a device that takes chains in order, finishes them in any order
and raises interrupts late. The device is external: it is modelled from how the
driver uses it.

### FileSys

The inode table with `ref`, `valid` and the sleep-lock of each slot, the inodes
and directories on disk, and the system calls `open`, `mkdir`, `mknod`, `chdir`,
`link`, `unlink` and `close` by several processes. A system call is the list
`todo[p]` of calls into `fs.c` that are left of it; a step executes the first
and puts what its outcome leads to in front. `iput()` has its two sections,
between which other processes run. Any `dirlink()` may find the disk full, and the
table has fewer slots than the disk has inodes. A `panic()` is a state of `mode`,
named by its message. A `Crash`, also after a panic, goes back to the last
committed image, and `boot` runs `ireclaim()`.
Names are atoms here; how they are spelled and compared is in `Strings`. `removed`,
`stray` and `left` are history: directories that were removed, inodes linked into
one, and whether a path has left one through `..`.

### FileData

The block bitmap, the direct and the indirect block of each inode, the file
table and the descriptors. `writei()` lets others in after every block, `balloc()`
fails when the disk is full, and the offset of an open file is shared after
`dup()` and `fork()`. `either_copyin()` may fail after some bytes of a block: these
are then in the buffer (`data`) but not logged (`logged`), and are lost when the
buffer is recycled, unless the transaction has logged the block for another reason.
The initial state is what `mkfs` lays out for three files. `content` is history: for
each byte of a file the value a write counted there last and those that failed
writes were putting there since.

### Vm

Three-level page tables with two entries per node, the free list as a count per
page, and `fork`, `exit`, `wait`, `exec`, `sbrk` (eager, lazy, negative), page
faults and copies as actions. The function bodies are operators on a record of
page table and free pages, joined with `andThen` and `orElse`, so that
`kalloc()` may fail at each of its calls and the clean-up code runs.

### Console, InputLine

`consoleread()` by several readers, `consoleintr()` for each kind of key, and the
ring with the indices `r`, `w`, `e`, which wrap at `UINT`. A reader holds
`cons.lock` between its test of `killed()` and its sleep, so the lock is a
variable. `InputLine` is the promise: a line is edited, then committed as a
whole, and taken in order, at most one line per read. `Console` implements it.

### Uart

`uartwrite()` by several processes under `tx_lock`; `uartputc_sync()` of
`printf()` and of the echo without it; `uartintr()` in the order of its register
accesses; the PLIC's claim and completion. The device (transmit FIFO, interrupt
condition, received character) is external.

### Spinlock

`acquire()`, `release()`, `push_off()` and `pop_off()` as sequences of elementary
steps. A timer interrupt may put the steps of `kerneltrap()` in front of those of
any context whose CPU has interrupts on; `yield()`, `sleep()` and `scheduler()`
switch contexts while a lock is held, and a thread resumes on any CPU. On the CPU
that counts the ticks the handler also runs `clockintr()`, whose `wakeup()` takes
`p->lock` of every other thread in turn while it has `tickslock`.

### ShellSyntax, Shell

`ShellSyntax` has the parser function by function, on positions in a line, with
`nulterminate()`; `grammar` in the same module is an independent definition by
splitting at operators. `Shell` executes the tree: each process has a list of
what it still has to do, descriptors are `lowest` free numbers, `fork()` fails when
`NPROC` is reached and `pipe()` may fail at any time. Programs are external.

### Umalloc, Strings, Filters

`Umalloc` has the headers in memory, the circular list and `sbrk()` by others.
`Strings` is one state per call: byte loops are executed one byte at a time on
small memories and compared with what they should compute. `Filters` has the
loops of `grep` and `wc` with a `read()` that may return any part of the rest.

## Runs

| Run | Properties and what they say | Result |
|---|---|---|
| `pipe` | `MutualExclusion`; `ImplementsStream`: a FIFO of bytes (refinement); `EofIsFinal`; `NoUseAfterFree`; `CallsEnd`: entry, end of hopeless waits, end of waits | holds |
| `pipe_two_writers` | `MutualExclusion` with two processes at the write end | violated |
| `pipe_one_cpu_other` | `OtherRuns`: yielding at a full or empty pipe lets the other end run | violated |
| `sched_one_cpu` | `QuotaPerWindow`; `SmallestPidFirst` among the children of `schedtest`; `ThrottlingEnds` | holds |
| `sched_two_cpus` | `CpusConsistent`: one CPU per process, throttled processes stay off, throttling only for ticks used | holds |
| `sched_window_race` | `QuotaPerWindow` with two CPUs | violated |
| `proc` | `TableConsistent`: unique pids, live parents, one maker, marks of `kill()` explained; `NoMissedExit`; `OrphansReaped`; `KillEndsPause` | holds |
| `proc_kill_free` | `OnlyVictimsKilled`: only a process whose pid was passed to `kill()`, or that faulted, is marked | violated |
| `log_tty` | log: `ImplementsAtomicDisk` (refinement), `LogConsistent`: commit alone, space reserved. UART: `UartConsistent`: no forgotten transmission, one byte of each origin in the FIFO. Console: `ConsoleConsistent`: nobody sleeps over input; `ReadsLines`: the ring is a line editor (refinement), an end of file is one empty read. `SleepersWake`: in `begin_op()` and in `uartwrite()` | holds |
| `disk` | cache: `CacheConsistent`: one copy, exclusive use, exact reference counts, no sleeper without a holder; `ReadsLatest`. Driver: `DriverConsistent`: descriptors conserved, no panic; `NothingMissed`: no lost wakeup or completion; `ReturnsServed` | holds |
| `file_sys` | `TableConsistent`: exact references, one slot per inode, no panic but for a full table or a stale `..`; `ImageConsistent` after any crash; `LocksSafe`: no lock cycle, `iput()` never blocks; `OrphansReclaimed` at boot | holds |
| `units` | memory: `MemoryConsistent`, `FailureUndone`. Files: `DiskConsistent`: every block in one place, reads allocate nothing, no panic; `FileHolds` what was written; `SharingSafe`: exact references, stable shared offsets. Spinlocks: `LocksExclude`, `InterruptsRestored`. Shell: `ParserMeetsGrammar`, `ProgramsWired`, `CommandEnds`. Heap: `HeapSound`. `TextRoutinesCorrect`: `memmove()`, names, paths, `copyinstr()`, numbers, and `grep` and `wc` however the input is cut | holds |

An invariant whose name ends in "Consistent", "Safe", "Sound" or "Correct" is a
conjunction: each conjunct has a name and a comment of its own in the module, the
type invariant `TypeOK` among them. `TypeOK` of `Pipe` is not checked by a run but
proved.

`log_tty`, `disk` and `units` check several components in one run. A variable
`unit`, chosen initially, says which of them moves in a behaviour; the others stay
as they are. They share no state, so each is explored exactly as in a run of its
own. The modules of these runs are `MCLogTty`, `MCDisk` and `MCUnits`; they extend
`Log`, `Bcache` and `Spinlock` and instantiate the other components. `proc`,
`file_sys`, `pipe` and the scheduler have their own runs.

### What the violated ones show

- `pipe_two_writers`: after `fork()` several processes may write to a pipe. All
  of them use identity 0, Peterson's algorithm does not exclude them from each
  other, and one byte may overwrite another. `pipe.c:21` speaks of "two
  participants: 0=writer, 1=reader"; the ends are not limited to two processes.
- `pipe_one_cpu_other`: a process that waits at the pipe stays RUNNABLE, and the
  scan of the table starts at slot 0 after every `yield()`. With one CPU the
  process in the earlier slot is picked for ever; kernel ticks do not throttle
  it.
- `sched_window_race`: a CPU that read `ticks` before another CPU opened the
  next window finds, in unsigned arithmetic, that its older value lies a whole
  window later. It moves the window back and resets all usage.
- `proc_kill_free`: `kkill()` looks for the pid without looking at the state, and a
  free slot has pid 0. `kill(0)` marks the first free slot, `allocproc()` does not
  clear the mark, and the next process made there is killed at its first trap.

### Bounds

The instances are small, and chosen so that the cases that matter happen:

- `pipe`: a ring of 2 with counters mod 4, so the ring and the counters wrap;
  two byte values, so order shows; requests of one byte, repeated without limit,
  so every wait of a longer request occurs as that of a one-byte request.
- `sched_one_cpu`: three slots, so two children of `schedtest` compete; windows
  of two ticks with `ticks` mod 4, which wraps; one process raises and lowers its
  quota. `sched_two_cpus`: two slots, windows of one tick, `ticks` mod 4 again, lower, higher and rejected arguments of
  `setquota()`. Its property does not speak of the history and no guard depends on
  it, so a VIEW leaves the history out of what tells states apart.
- `proc`: three slots and three forks after init, so a slot is freed and used
  again, and a grandchild is orphaned; `kill()` with the pid of a grandchild and with
  0.
- `log_tty`: two operations of two blocks in a log of four, so they fit together
  only while the log is empty, absorb each other's writes, and wait for space.
  Two writers with batches of two and writes of up to two batches, two printed
  bytes and a typed character, so every pair of origins meets in the FIFO. Two
  readers of a ring of two with indices mod 4: full, empty and wrapped.
- `disk`: two buffers for three blocks and three processes, so buffers are
  recycled while others wait. Seven descriptors for three processes, so two
  requests are in flight while the third process gets one descriptor of three and
  gives it back; the ring indices wrap.
- `file_sys`: two processes, four inodes, three slots in the table. One workload is
  five calls, four of them from a set in which every name is looked up, removed and
  created again by the other process, with paths through `..` and without elements;
  the table and the disk run full. The other has seven calls around a directory in
  a directory: both are removed while one process works there, and their inodes
  used again.
- `units`: files with blocks of two bytes, one direct and two indirect blocks, on
  a disk of six blocks that fills up, transactions of two bytes and calls of
  three, two descriptors, two open files, five calls; memory of 22 pages, so
  `exec` and `fork` fail at each of their allocations; two CPUs and two threads; every command line of up to three
  characters and nine longer ones, six processes, so forks fail; a heap of eight
  units; names one longer than `DIRSIZ`; every path of up to five characters;
  every 8-bit number; every text of up to four characters, every pattern of up to
  three, and a buffer that one of the lines exceeds.

`MaxReq`, `MaxPid`, `MaxTicks`, `MaxPins`, `MaxCalls`, `MaxFileCalls`, `MaxLink`,
`MaxIn`, `MaxPrint` and the length of the `Workloads` bound what is unbounded in the
program; `QuotaPids` says which processes call `setquota()`. Deadlock checking is
off where the instance may really stop: when all
ends of a pipe are closed, when no pids are left. Symmetry is used only in
`disk`, which has no liveness property.

### Fairness

- `Pipe`: each process in a call keeps taking steps, as when each has a CPU or
  the scheduler is fair, and a killed process closes its files. `PipeSched` does
  not assume this: there the CPU is fair (it executes, schedules, and is
  interrupted), and the scheduler's own order decides.
- `Sched`: CPUs execute and timers fire. Strong fairness for the timer, because
  a process enters and leaves the states in which it is taken.
- `ProcTable`: every process in the kernel gets on (strongly fair, since
  `wait_lock` is contended), the timer ticks, a killed process exits on its way
  to user space, and init waits when it has a child.
- `Log`: operations end, commits and recovery proceed.
- `Uart`: the device sends, interrupts are delivered and handled. The loop that
  waits for the UART before an echo is strongly fair: it tests again and again.
  Printing and typing are bounded; without end they could keep a writer waiting,
  in the code too.

The shell has no fairness: `NoStandstill` says that some process can always go
on, and a command line has finitely many steps.

## Proofs

The runs show the properties on small instances; the theorems state them for
every value of the constants that satisfies the assumption named in the module
(`PipeAssumption`, `LogAssumption`, ...). The assumptions are weak: sets that are
disjoint or finite, sizes that are positive, a ring length that divides the range
of its counters (as 512 and 128 divide 2^32, and 8 divides 2^16), `MAXOPBLOCKS`
not above the log's size, and a quota window below the range of `ticks`. TLC
evaluates them in every run. Hypotheses that go beyond this stand in the theorem
itself and are explained below. The bounds of the instances (`MaxPid`,
`MaxTicks`, `MaxPrint`, ...) are constants too, so the theorems hold for all of
them.

Each proof follows the same plan: an inductive invariant, a lemma that it holds
initially, one lemma or one step per action, and the theorem, which combines
them.

| Property | Theorem | Hypothesis |
|---|---|---|
| `TypeOK` of `Pipe` | `PipeProofs!TypeCorrect` | |
| `MutualExclusion`, `EofIsFinal` | `PipeProofs!Exclusion`, `EofFinality` | `OneEach` |
| `NoUseAfterFree` | `PipeProofs!FreeIsSafe` | |
| `ImplementsStream` | `PipeProofs!PipeIsStream` | `OneEach` |
| `CpusConsistent` | `SchedProofs!CpusAgree` | |
| `SmallestPidFirst` | `SchedProofs!SmallestPid` | `NCPU = 1` |
| `QuotaPerWindow` | `SchedProofs!QuotaHolds` | `NCPU = 1` |
| `NoMissedExit` | `ProcProofs!ExitNotMissed` | |
| `TableConsistent` of `ProcTable` | `ProcProofs!TableSound` | |
| `LogConsistent` | `LogProofs!LogSound` | |
| `ImplementsAtomicDisk` | `LogProofs!LogRefines` | |
| `CacheConsistent`, `ReadsLatest` | `BcacheProofs!CacheCorrect`, `ReadsWhatWasWritten` | |
| `DriverConsistent`, `NothingMissed`, `ReturnsServed` | `BcacheProofs!UnitDriverSound`, `UnitNothingMissed`, `UnitReturnsServed`, from `VirtioProofs` | |
| `UartConsistent` | `TtyProofs!UartSound` | |
| `ConsoleConsistent`, `ReadsLines` | `TtyProofs!UnitConsoleSound`, `UnitReadsLines` | |
| `LocksExclude`, `InterruptsRestored` | `SpinProofs!SpinSound`, `SpinRestores` | |

### Pipe

`TInv` adds to the types that a call past its loop test has a byte left to move,
without which `left` could become negative. `PInv` says that `want` tells exactly
who competes, and that when one side is inside while the other is inside or has
given the turn away, the turn is the insider's; exclusion follows, since `turn`
cannot be both. `FInv`: a closed end has no holder left, and a process in a call
holds its end. `EInv`: what a reader has found out about the ring stays true
until it acts on it.

For the refinement `RInv` says what the two sides know between their steps: the
slot the writer fills is outside of the bytes in the ring, which of the two stores
is done, and which byte the reader has loaded. The step that stores the second of
`data` and `nwrite` appends to the abstract queue, the step that stores `nread`
takes its head, all others stutter. `data` stored first is invisible because
`nwrite` does not cover it; `nwrite` stored first is harmless only because
Peterson's algorithm keeps the reader out until `data` follows. The lemmas are
about remainders: slots at a distance below `PIPESIZE` are different.

`OneEach` (each end belongs to at most one process) is needed: `pipe_two_writers`
violates the property without it.

### Scheduler

`CpuInv`: a CPU has a process exactly while it executes one, and switches only to
one it has chosen; with this, the second test under `p->lock` is what keeps two
CPUs from one process. `ScanInv`, on one CPU: the process chosen so far has the
smallest pid of the candidates already passed, and no candidate appears behind
the scan, because the table does not change while this CPU scans it. `QuotaInv`,
on one CPU: the window that the kernel measures is never ahead of the one that
really elapsed, also when `ticks` wraps, and what was charged since it opened is
at most what the slot's counter says and at most the largest quota since then.

`NCPU = 1` is needed: `sched_window_race` violates `QuotaPerWindow` with two CPUs,
and with two CPUs a smaller pid may become runnable behind the scan. The largest
quota is what bounds the charge: one lowered after the ticks were used is exceeded
already.

### Process table

`ProcInv` says that a slot in the making has one maker, that parents are alive
and one that is about to be a zombie has given its children away, and that
`wait_lock` is held from the scan of `wait()` to its sleep and from the wakeup of
`exit()` to the ZOMBIE. So a scan without a zombie is still right when the parent
falls asleep. `MarksExplained` is inductive beside it: a process made in a marked
free slot owes the mark to `kill(0)`.

### Log

`LogInv` has four parts beside the types: `ControlInv` (`outstanding` counts the
operations in progress, `commit()` excludes them, nobody runs in recovery),
`WroteInv` (an operation's blocks are in the header, at most `MAXOPBLOCKS`),
`HeaderInv` (no block twice; the header on disk is empty except from the commit
point to its clearing; pinned blocks are in the log and not yet installed) and
`CopyInv` (which copies of a block agree at which step). `SpaceReserved` is by
counting: what is in the log and what the operations in progress may add fit.
Under the mapping `Recovered` only `write_head()` changes the abstract disk, by
all that finished operations wrote; a crash at any other step, also inside
recovery, leaves it alone, because installing a block again changes nothing.

### Buffer cache and disk driver

`CacheInv` says that reference counts are exact: the users and waiters of a
buffer and its pin. So `bget()` recycles only a buffer nobody has. `Contents`
adds that a valid buffer holds what was last written, and that the disk is behind
only for a block that is pinned or in the hands of somebody about to write it.

`VirtioProofs` proves the driver for any number of processes and descriptors:
`ChainInv` (chains and free descriptors partition the table), `LockInv` (what
`b->disk` and the lock say at each step, and that an unseen completion has an
interrupt to come) and `PlaceInv` (a request under way is in the avail ring, in
the device or in the used ring, in one of them and once). The rings do not
overflow because a chain takes three descriptors. `BcacheProofs` carries the
three theorems over to the specification of the run `disk`: a step of the run is
a step of the driver or leaves it alone.

### UART and console

`UartInv`: while `tx_busy` is set, a byte is in the FIFO or an interrupt is
pending or being handled past its acknowledgment; and who may store a byte has
none in the FIFO.

`ConsoleInv`: the indices `r`, `w`, `e` are in order on the circle and at most
`INPUT_BUF_SIZE` apart; a reader holds `cons.lock` from `acquire()` to
`release()` or `sleep()`; who decided to sleep had nothing to read; and the line
being edited contains no end of line (`OneLine`). The last is why `^U`, which
stops at `w` or at a newline, takes back the whole line, as `InputLine` says it
does. The refinement maps the bytes from `r` to `w` to the committed ones and
those from `w` to `e` to the line; the lemmas say how these two sequences change
when an index moves by one or a slot outside of them is stored. `EofOnce`: a
`^D` after other bytes ends that read and is put back for the next one.

### Spinlocks

What a context (a thread, or `scheduler()` on a CPU) has left to do is a sequence
of elementary steps, to which interrupts, `wakeup()` and context switches add.
The invariant cannot speak of program counters, so it says that every such
sequence can be annotated (`Leads`): before each step stands the depth of
`push_off()`, the locks the CPU has, those that record it, and what interrupts
will be afterwards; each step may rely on what stands before it (`Does`). The
first annotation is what the CPU is really in (`Running`), or, for a context no
CPU executes, a CPU handed over with `p->lock` held (`Parked`, `Waiting`); the
last one is "no locks, interrupts on" for a thread. `Leads` of the whole of
`acquire()`, `yield()`, `sleep()`, `kerneltrap()` and the others is shown once;
an interrupt puts a sequence from a state to the same state in front. That a
thread may come back on another CPU is covered because an annotation names no
CPU; that `intena` must travel with the thread is the step `resume`.

### Only model-checked

- Liveness (`CallsEnd`, `ThrottlingEnds`, `OrphansReaped`, `KillEndsPause`,
  `SleepersWake`): the prover has no rules for fairness.
- `FileData`, `Shell`, `ShellSyntax`, `Strings`, `Filters` and `Umalloc` compute
  with recursive operators over lines, texts and lists; what these return for
  every input needs induction over data, which the prover cannot do.
- `Vm`: its function bodies are folds over page numbers, with the same need.
- `FileSys`: a system call is a list of calls that each outcome extends, walking
  paths of any length. An invariant like that of `Spinlock` is conceivable, with
  references counted along the list; it has not been worked out.
- `PipeSched`: its run reports a violation.

## Observations

Behaviours of the code that came up in modelling and that no run reports:

- `log.c:221`: `log_write()` tests for a full log before it looks for the block in
  the log. Operations within `MAXOPBLOCKS` may fill the log exactly; an absorbed
  write then panics although it needs no room. `SpaceReserved` shows that nothing
  needs more than the log has.
- `proc.c:481`: a `kill()` between the test of `killed(p)` in `kwait()` and the
  sleep that follows finds the process RUNNING and wakes nobody; the victim sleeps
  until one of its children exits. `KillEndsPause` holds for `pause()` because
  the next tick wakes the sleeper.
- `fs.c:361`: after `iput()` has freed an inode on disk and before it drops its
  own reference, another process may allocate the same inode and find it in the
  table. When that process drops it with no links left, `ref` is not 1, and the
  inode stays allocated until `ireclaim()` at the next boot. `OrphansReclaimed`
  is about that boot.
- `fs.c:316`: a process whose working directory was removed, and then the parent
  of it, finds a freed inode at `..`, and `ilock()` panics ("no type"). Or it finds
  the inode that another process's `ialloc()` has just taken, opens and closes it,
  and `iput()` frees it since it has no links yet: then the other process panics.
  Both happen in the run `file_sys`; `PanicsExplained` says that only a path that
  leaves a removed directory leads there.
- `fs.c:545`: when `either_copyin()` fails within a block, the bytes copied so far
  stay in the buffer. A write that returns less than it was asked for, or -1, may
  thus have changed bytes of the file beyond those it counts, for as long as the
  buffer is cached or for good. `FileHolds` allows exactly that.
- Creating or linking a file in a directory that another process has removed
  but still holds leaves an inode with links that no path reaches. Such inodes
  are marked `stray` in `FileSys`, and `ImageConsistent` leaves them out.
- `mkfs.c:164` rounds the size of the root up by a whole block when it is a
  multiple of `BSIZE`; `ReadsDontAllocate` shows when that would matter. With the
  files of the `Makefile` it does not occur.
- `vmfault()` uses `p->pagetable` and `p->sz` also when `kexec()` copies into the
  new page table; the pages concerned are mapped, so it is not reached.
  `copyinstr()` does not fault lazily grown pages in, unlike `copyin()`.
- `sh`: of two redirections of one descriptor the first one on the line wins;
  `a & b` is a syntax error; these are what `grammar` says too.
- `grep` does not look at a last line without a newline, and stops at a line that
  fills its buffer; `GrepWritesMatches` says "exactly" up to there.
- `consoleread()` loses the character whose `copyout` fails. `malloc()` of 2^31
  bytes or more is cut to an `int` by `sbrk()`. `iget()` panics when 50 inodes are
  in use, fewer than the 100 open files the table allows; the run `file_sys` reaches
  this with its three slots.

## Not modelled

- Registers, trap frames, page-table bits, assembly and the boot sequence; the
  modules start from the state it leaves.
- A memory that reorders accesses: `peterson_enter()` has no fence, and the model
  executes in program order.
- The system call table and the fetching of arguments, except `copyinstr()`.
- Format strings, the panic output, the listing of `kps` and of `^P`.
- In the shell, a `malloc()` that returns 0 and a line of 100 characters or more.
- `memset()`, `memcmp()`, `strlen()`, `strcmp()`, `gets()`: short loops without
  overlap or state. Texts with NUL bytes in `grep`.
- `ls`, `cat`, `echo`, `rm` and the like are straight-line uses of system calls.
  The tests and stress programs (`usertests`, `grind`, `forktest`, `stressfs`,
  `logstress`, `schedtest`, `quota_test`) are scenarios for the system; what they
  exercise is the modules' environment.
- The superblock and the byte order of what `mkfs` writes.
