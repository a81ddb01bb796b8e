------------------------------- MODULE Bcache -------------------------------
(***************************************************************************)
(* The buffer cache of kernel/bio.c and the sleep-locks of                 *)
(* kernel/sleeplock.c that protect its buffers.                            *)
(*                                                                         *)
(* A section under bcache.lock or under a sleep-lock's spinlock is one     *)
(* step, and so is a transfer by the disk.  The processes use the cache as *)
(* the file system does: a buffer that was modified is written with        *)
(* bwrite(), or pinned by log_write() until install_trans() has written it *)
(* with bwrite() and calls bunpin().                                       *)
(***************************************************************************)
EXTENDS Integers, FiniteSets

CONSTANTS Procs, Bufs,
          Blocks,     \* block numbers
          Val,        \* contents of a block
          MaxPins,    \* bound: blocks pinned at a time
          None

ASSUME BcacheAssumption ==
  /\ IsFiniteSet(Procs)
  /\ IsFiniteSet(Bufs) /\ Bufs # {}
  /\ None \notin Procs \cup Blocks \cup Bufs
  /\ MaxPins \in Nat

VARIABLES
  blockno, valid, refcnt, data,   \* struct buf
  locked,      \* holder of b->lock, or None
  list,        \* the list of buffers, most recently used first
  disk,        \* contents of the blocks on disk
  mode,        \* "up" or "panic"
  pc, b, want, \* of each process: its place, its buffer, the block it asked for
  pinned,      \* history: blocks that have a pin
  latest       \* history: what was last written to each block

bufvars == <<blockno, valid, refcnt, data, locked, list>>
vars == <<bufvars, disk, mode, pc, b, want, pinned, latest>>

PCs == {"idle", "lock", "sleep", "valid", "read", "use", "dirty", "write", "unref"}
Holding == {"valid", "read", "use", "dirty", "write"}

goto(p, l) == pc' = [pc EXCEPT ![p] = l]

\* binit().  No buffer has a block of the root device yet.
Init ==
  /\ blockno = [x \in Bufs |-> None]
  /\ valid = [x \in Bufs |-> 0]
  /\ refcnt = [x \in Bufs |-> 0]
  /\ data \in [Bufs -> Val]
  /\ locked = [x \in Bufs |-> None]
  /\ list \in [1..Cardinality(Bufs) -> Bufs] /\ \A x \in Bufs : \E k \in DOMAIN list : list[k] = x
  /\ disk \in [Blocks -> Val]
  /\ mode = "up"
  /\ pc = [p \in Procs |-> "idle"]
  /\ b = [p \in Procs |-> None]
  /\ want = [p \in Procs |-> None]
  /\ pinned = {}
  /\ latest = disk

---------------------------------------------------------------------------
(* bget(), under bcache.lock.                                              *)

cached(blk) == {x \in Bufs : blockno[x] = blk}

\* The buffer is referenced; next comes acquiresleep().
found(p, blk, x) ==
  /\ want' = [want EXCEPT ![p] = blk]
  /\ b' = [b EXCEPT ![p] = x]
  /\ goto(p, "lock")

\* Is the block already cached?
bget_hit(p) ==
  /\ mode = "up" /\ pc[p] = "idle"
  /\ \E blk \in Blocks : \E x \in cached(blk) :
       /\ refcnt' = [refcnt EXCEPT ![x] = @ + 1]
       /\ found(p, blk, x)
  /\ UNCHANGED <<blockno, valid, data, locked, list, disk, mode, pinned, latest>>

\* Mutant: a buffer that is not locked at the moment counts as unused.
unused_unlocked(x) == locked[x] = None

unused(x) == refcnt[x] = 0

\* x is the last unused buffer of the list.
victim(x) ==
  \E k \in DOMAIN list :
    /\ list[k] = x /\ unused(x)
    /\ \A j \in DOMAIN list : unused(list[j]) => j <= k

\* Mutant: the recycled buffer keeps its valid flag.
bget_recycle_valid(p) ==
  /\ mode = "up" /\ pc[p] = "idle"
  /\ \E blk \in Blocks, x \in Bufs :
       /\ cached(blk) = {} /\ victim(x)
       /\ blockno' = [blockno EXCEPT ![x] = blk]
       /\ refcnt' = [refcnt EXCEPT ![x] = 1]
       /\ found(p, blk, x)
  /\ UNCHANGED <<valid, data, locked, list, disk, mode, pinned, latest>>

\* Not cached: recycle the least recently used unused buffer ...
bget_recycle(p) ==
  /\ mode = "up" /\ pc[p] = "idle"
  /\ \E blk \in Blocks, x \in Bufs :
       /\ cached(blk) = {} /\ victim(x)
       /\ blockno' = [blockno EXCEPT ![x] = blk]
       /\ valid' = [valid EXCEPT ![x] = 0]
       /\ refcnt' = [refcnt EXCEPT ![x] = 1]
       /\ found(p, blk, x)
  /\ UNCHANGED <<data, locked, list, disk, mode, pinned, latest>>

\* ... or panic("bget: no buffers").
bget_panic(p) ==
  /\ mode = "up" /\ pc[p] = "idle"
  /\ \A x \in Bufs : ~ unused(x)
  /\ \E blk \in Blocks : cached(blk) = {}
  /\ mode' = "panic"
  /\ UNCHANGED <<bufvars, disk, pc, b, want, pinned, latest>>

---------------------------------------------------------------------------
(* acquiresleep() and releasesleep(), under lk->lk.                        *)

acquiresleep(p) ==
  /\ mode = "up" /\ pc[p] = "lock"
  /\ IF locked[b[p]] # None
     THEN goto(p, "sleep") /\ UNCHANGED locked
     ELSE goto(p, "valid") /\ locked' = [locked EXCEPT ![b[p]] = p]
  /\ UNCHANGED <<blockno, valid, refcnt, data, list, disk, mode, b, want, pinned, latest>>

\* kkill() may wake a sleeper at any time; it tests again.
Kill(p) ==
  /\ mode = "up" /\ pc[p] = "sleep"
  /\ goto(p, "lock")
  /\ UNCHANGED <<bufvars, disk, mode, b, want, pinned, latest>>

\* The lock is free and everyone asleep on it is woken.
releasesleep(p) ==
  /\ locked' = [locked EXCEPT ![b[p]] = None]
  /\ pc' = [q \in Procs |-> IF q = p THEN "unref"
                            ELSE IF pc[q] = "sleep" /\ b[q] = b[p] THEN "lock" ELSE pc[q]]

---------------------------------------------------------------------------
(* bread(), bwrite(), brelse(), bpin(), bunpin() and what callers do.      *)

\* bread(): only an invalid buffer is read from disk.
bread(p) ==
  /\ mode = "up" /\ pc[p] = "valid"
  /\ goto(p, IF valid[b[p]] = 1 THEN "use" ELSE "read")
  /\ UNCHANGED <<bufvars, disk, mode, b, want, pinned, latest>>

\* virtio_disk_rw(b, 0) returns; b->valid = 1.
read_done(p) ==
  /\ mode = "up" /\ pc[p] = "read"
  /\ data' = [data EXCEPT ![b[p]] = disk[blockno[b[p]]]]
  /\ valid' = [valid EXCEPT ![b[p]] = 1]
  /\ goto(p, "use")
  /\ UNCHANGED <<blockno, refcnt, locked, list, disk, mode, b, want, pinned, latest>>

\* The caller changes the contents.
Modify(p) ==
  /\ mode = "up" /\ pc[p] = "use"
  /\ \E v \in Val :
       /\ data' = [data EXCEPT ![b[p]] = v]
       /\ latest' = [latest EXCEPT ![want[p]] = v]
  /\ goto(p, "dirty")
  /\ UNCHANGED <<blockno, valid, refcnt, locked, list, disk, mode, b, want, pinned>>

\* bwrite(); install_trans() then calls bunpin() for a pinned block.
bwrite(p) ==
  LET x == b[p] IN
  /\ mode = "up" /\ pc[p] \in {"use", "dirty"}
  /\ disk' = [disk EXCEPT ![blockno[x]] = data[x]]
  /\ goto(p, "write")
  /\ UNCHANGED <<bufvars, mode, b, want, pinned, latest>>

bunpin(p) ==
  /\ mode = "up" /\ pc[p] = "write" /\ want[p] \in pinned
  /\ refcnt' = [refcnt EXCEPT ![b[p]] = @ - 1]
  /\ pinned' = pinned \ {want[p]}
  /\ goto(p, "use")
  /\ UNCHANGED <<blockno, valid, data, locked, list, disk, mode, b, want, latest>>

\* log_write() pins a block that the log does not hold yet.
log_write(p) ==
  /\ mode = "up" /\ pc[p] = "dirty"
  /\ IF want[p] \in pinned
     THEN UNCHANGED <<refcnt, pinned>>
     ELSE /\ Cardinality(pinned) < MaxPins
          /\ refcnt' = [refcnt EXCEPT ![b[p]] = @ + 1]     \* bpin()
          /\ pinned' = pinned \cup {want[p]}
  /\ goto(p, "use")
  /\ UNCHANGED <<blockno, valid, data, locked, list, disk, mode, b, want, latest>>

\* brelse(): releasesleep(), then the rest under bcache.lock.
brelse(p) ==
  /\ mode = "up" /\ pc[p] \in {"use", "write"}
  /\ releasesleep(p)
  /\ UNCHANGED <<blockno, valid, refcnt, data, list, disk, mode, b, want, pinned, latest>>

\* A buffer without references becomes the first of the list.
toFront(x) ==
  LET i == CHOOSE k \in DOMAIN list : list[k] = x
  IN  [k \in DOMAIN list |-> IF k = 1 THEN x ELSE IF k <= i THEN list[k - 1] ELSE list[k]]

brelse_unref(p) ==
  LET x == b[p] IN
  /\ mode = "up" /\ pc[p] = "unref"
  /\ refcnt' = [refcnt EXCEPT ![x] = @ - 1]
  /\ list' = IF refcnt'[x] = 0 THEN toFront(x) ELSE list
  /\ goto(p, "idle")
  /\ b' = [b EXCEPT ![p] = None]
  /\ want' = [want EXCEPT ![p] = None]
  /\ UNCHANGED <<blockno, valid, data, locked, disk, mode, pinned, latest>>

---------------------------------------------------------------------------
bget(p) == bget_hit(p) \/ bget_recycle(p) \/ bget_panic(p)

\* What a process that holds or waits for a buffer does next.
Use(p) ==
  \/ acquiresleep(p) \/ bread(p) \/ read_done(p) \/ bwrite(p) \/ bunpin(p) \/ log_write(p)
  \/ brelse(p) \/ brelse_unref(p)

Next == \E p \in Procs : bget(p) \/ Use(p) \/ Modify(p) \/ Kill(p)

Spec == Init /\ [][Next]_vars

---------------------------------------------------------------------------
(* Properties.                                                             *)

\* Types; the list holds every buffer exactly once.
TypeOK ==
  /\ blockno \in [Bufs -> Blocks \cup {None}]
  /\ valid \in [Bufs -> 0..1]
  /\ refcnt \in [Bufs -> Nat]
  /\ data \in [Bufs -> Val]
  /\ locked \in [Bufs -> Procs \cup {None}]
  /\ list \in [1..Cardinality(Bufs) -> Bufs]
  /\ \A x \in Bufs : \E k \in DOMAIN list : list[k] = x
  /\ disk \in [Blocks -> Val]
  /\ mode \in {"up", "panic"}
  /\ pc \in [Procs -> PCs]
  /\ b \in [Procs -> Bufs \cup {None}]
  /\ want \in [Procs -> Blocks \cup {None}]
  /\ pinned \subseteq Blocks
  /\ latest \in [Blocks -> Val]

\* A block is in at most one buffer: the cache is "a synchronization point for
\* disk blocks used by multiple processes" (bio.c:6).
OneCopy ==
  \A x, y \in Bufs : blockno[x] = blockno[y] /\ blockno[x] # None => x = y

\* "Only one process at a time can use a buffer" (bio.c:13), and from bget() to
\* brelse() the buffer stays the one of the block asked for.
ExclusiveUse ==
  \A p \in Procs :
    /\ pc[p] # "idle" => blockno[b[p]] = want[p]
    /\ pc[p] \in Holding => locked[b[p]] = p

\* refcnt counts exactly the processes between bget() and the end of brelse(),
\* and the pins of the log.
RefcntExact ==
  \A x \in Bufs :
    refcnt[x] = Cardinality({p \in Procs : pc[p] # "idle" /\ b[p] = x})
                + IF blockno[x] \in pinned THEN 1 ELSE 0

\* bread() gives what was last written to the block by anybody, whatever was
\* evicted, pinned or written back in between.
ReadsLatest ==
  \A p \in Procs : pc[p] \in {"use", "dirty", "write"} => data[b[p]] = latest[want[p]]

\* The wakeup of releasesleep() is not lost: nobody sleeps on a free sleep-lock.
SleepersHaveHolder ==
  \A p \in Procs : pc[p] = "sleep" => locked[b[p]] # None

\* The cache is what bio.c:6 says, whoever comes in between the sections under
\* bcache.lock and the sleep-locks: one buffer per block, one user per buffer,
\* no buffer recycled under a user or a waiter, no waiter forgotten.
CacheConsistent == TypeOK /\ OneCopy /\ ExclusiveUse /\ RefcntExact /\ SleepersHaveHolder
============================================================================
