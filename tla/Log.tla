-------------------------------- MODULE Log --------------------------------
(***************************************************************************)
(* The write-ahead log of kernel/log.c: group commit by concurrent file    *)
(* system operations, crashes at any moment, and recovery at boot.         *)
(*                                                                         *)
(* A section under log.lock is one step, and so is every block written to  *)
(* disk.  The buffer cache appears as the contents it gives the file       *)
(* system: a block that is not pinned may be evicted and read again at any *)
(* time, a pinned one may not.                                             *)
(***************************************************************************)
EXTENDS Integers, Sequences, FiniteSets

CONSTANTS Ops,           \* processes that run file system calls
          Blocks,        \* home blocks
          Val,           \* contents of a block
          MAXOPBLOCKS,   \* most blocks an operation writes
          LOGBLOCKS      \* data blocks in the on-disk log

ASSUME LogAssumption ==
  /\ IsFiniteSet(Ops)
  /\ MAXOPBLOCKS \in Nat \ {0}
  /\ LOGBLOCKS \in Nat
  /\ MAXOPBLOCKS <= LOGBLOCKS

VARIABLES
  \* the disk
  home,        \* home blocks
  logblock,    \* log.start + 1 ...
  dhead,       \* header block at log.start: block[0 .. n-1]
  \* memory
  lh,          \* log.lh: block[0 .. n-1]
  outstanding, committing,
  cache,       \* contents of the buffers
  pinned,      \* blocks whose buffer bpin() holds in the cache
  mode,        \* "up", "panic", or the step of recover_from_log()
  tail,        \* loop index of write_log() and install_trans()
  \* operations
  pc,
  wrote        \* blocks the operation has written

disk == <<home, logblock, dhead>>
logvars == <<lh, outstanding, committing>>
memory == <<logvars, cache, pinned, mode, tail>>
opvars == <<pc, wrote>>
vars == <<disk, memory, opvars>>

CommitPCs == {"write_log", "write_head", "install", "clear", "committed"}
PCs == {"idle", "begin", "sleep", "op"} \cup CommitPCs

goto(p, l) == pc' = [pc EXCEPT ![p] = l]

\* A freshly made file system, just mounted.
Init ==
  /\ home \in [Blocks -> Val]
  /\ logblock \in [1..LOGBLOCKS -> Val]
  /\ dhead = <<>>
  /\ lh = <<>>
  /\ outstanding = 0
  /\ committing = FALSE
  /\ cache = home
  /\ pinned = {}
  /\ mode = "up"
  /\ tail = 1
  /\ pc = [p \in Ops |-> "idle"]
  /\ wrote = [p \in Ops |-> {}]

---------------------------------------------------------------------------
(* begin_op(), log_write(), end_op().                                      *)

StartCall(p) ==
  /\ mode = "up"
  /\ pc[p] = "idle"
  /\ goto(p, "begin")
  /\ UNCHANGED <<disk, memory, wrote>>

\* Mutant: begin_op() forgets to count itself.
mustWait_offByOne == committing \/ Len(lh) + outstanding * MAXOPBLOCKS > LOGBLOCKS

mustWait ==
  \/ committing
  \/ Len(lh) + (outstanding + 1) * MAXOPBLOCKS > LOGBLOCKS

\* One turn of the loop, under log.lock: sleep on &log, or get in.
begin_op(p) ==
  /\ mode = "up"
  /\ pc[p] = "begin"
  /\ IF mustWait
     THEN goto(p, "sleep") /\ UNCHANGED outstanding
     ELSE goto(p, "op") /\ outstanding' = outstanding + 1
  /\ UNCHANGED <<disk, lh, committing, cache, pinned, mode, tail, wrote>>

\* wakeup(&log), with p's own step to label l.
wakeupAnd(p, l) ==
  pc' = [q \in Ops |-> IF q = p THEN l ELSE IF pc[q] = "sleep" THEN "begin" ELSE pc[q]]

logged(b) == \E j \in 1..Len(lh) : lh[j] = b

\* Mutant: a logged buffer is not pinned.
log_write_unpinned(p) ==
  /\ mode = "up"
  /\ pc[p] = "op"
  /\ \E b \in Blocks, v \in Val :
       /\ Cardinality(wrote[p] \cup {b}) <= MAXOPBLOCKS
       /\ cache' = [cache EXCEPT ![b] = v]
       /\ wrote' = [wrote EXCEPT ![p] = @ \cup {b}]
       /\ IF Len(lh) >= LOGBLOCKS
          THEN mode' = "panic" /\ UNCHANGED lh
          ELSE /\ lh' = IF logged(b) THEN lh ELSE Append(lh, b)
               /\ UNCHANGED mode
  /\ UNCHANGED <<disk, outstanding, committing, pinned, tail, pc>>

\* A call modifies a buffer it holds locked and logs it; no operation writes
\* more than MAXOPBLOCKS different blocks.
log_write(p) ==
  /\ mode = "up"
  /\ pc[p] = "op"
  /\ \E b \in Blocks, v \in Val :
       /\ Cardinality(wrote[p] \cup {b}) <= MAXOPBLOCKS
       /\ cache' = [cache EXCEPT ![b] = v]
       /\ wrote' = [wrote EXCEPT ![p] = @ \cup {b}]
       /\ IF Len(lh) >= LOGBLOCKS
          THEN mode' = "panic" /\ UNCHANGED <<lh, pinned>>
          ELSE /\ lh' = IF logged(b) THEN lh ELSE Append(lh, b)
               /\ pinned' = pinned \cup {b}
               /\ UNCHANGED mode
  /\ UNCHANGED <<disk, outstanding, committing, tail, pc>>

\* The locked part of end_op(); the last one out commits.
end_op(p) ==
  /\ mode = "up"
  /\ pc[p] = "op"
  /\ outstanding' = outstanding - 1
  /\ mode' = IF committing THEN "panic" ELSE mode
  /\ IF outstanding' = 0
     THEN /\ committing' = TRUE
          /\ goto(p, IF lh = <<>> THEN "committed" ELSE "write_log")
     ELSE wakeupAnd(p, "idle") /\ UNCHANGED committing
  /\ wrote' = [wrote EXCEPT ![p] = {}]
  /\ UNCHANGED <<disk, lh, cache, pinned, tail>>

---------------------------------------------------------------------------
(* commit(), without a lock.                                               *)

\* write_log(): copy one block from the cache to the log.
write_log(p) ==
  /\ mode = "up"
  /\ pc[p] = "write_log"
  /\ logblock' = [logblock EXCEPT ![tail] = cache[lh[tail]]]
  /\ IF tail < Len(lh)
     THEN tail' = tail + 1 /\ UNCHANGED pc
     ELSE tail' = 1 /\ goto(p, "write_head")
  /\ UNCHANGED <<home, dhead, logvars, cache, pinned, mode, wrote>>

\* write_head(): the commit point.
write_head(p) ==
  /\ mode = "up"
  /\ pc[p] = "write_head"
  /\ dhead' = lh
  /\ goto(p, "install")
  /\ UNCHANGED <<home, logblock, memory, wrote>>

\* One block of install_trans(): from the log to its home, in the cache and on
\* disk.
install_block ==
  /\ home' = [home EXCEPT ![lh[tail]] = logblock[tail]]
  /\ cache' = [cache EXCEPT ![lh[tail]] = logblock[tail]]
  /\ tail' = IF tail < Len(lh) THEN tail + 1 ELSE 1
  /\ UNCHANGED <<logblock, dhead, logvars>>

install_trans(p) ==
  /\ mode = "up"
  /\ pc[p] = "install"
  /\ install_block
  /\ pinned' = pinned \ {lh[tail]}
  /\ IF tail < Len(lh) THEN UNCHANGED pc ELSE goto(p, "clear")
  /\ UNCHANGED <<mode, wrote>>

\* log.lh.n = 0; write_head().
clear(p) ==
  /\ mode = "up"
  /\ pc[p] = "clear"
  /\ lh' = <<>>
  /\ dhead' = <<>>
  /\ goto(p, "committed")
  /\ UNCHANGED <<home, logblock, outstanding, committing, cache, pinned, mode, tail, wrote>>

\* Mutant: nobody is woken after a commit.
end_commit_silent(p) ==
  /\ mode = "up"
  /\ pc[p] = "committed"
  /\ committing' = FALSE
  /\ goto(p, "idle")
  /\ UNCHANGED <<disk, lh, outstanding, cache, pinned, mode, tail, wrote>>

\* Back in end_op(): let the others in.
end_commit(p) ==
  /\ mode = "up"
  /\ pc[p] = "committed"
  /\ committing' = FALSE
  /\ wakeupAnd(p, "idle")
  /\ UNCHANGED <<disk, lh, outstanding, cache, pinned, mode, tail, wrote>>

---------------------------------------------------------------------------
(* The buffer cache, crashes and recovery.                                 *)

\* An unpinned buffer is recycled and its block read again later.
Evict(b) ==
  /\ mode = "up"
  /\ b \notin pinned
  /\ cache' = [cache EXCEPT ![b] = home[b]]
  /\ UNCHANGED <<disk, logvars, pinned, mode, tail, opvars>>

\* Power fails, or the panicked machine is restarted: memory is gone.  The next
\* boot starts with initlog().
Crash ==
  /\ lh' = <<>>
  /\ outstanding' = 0
  /\ committing' = FALSE
  /\ cache' = home
  /\ pinned' = {}
  /\ mode' = "read_head"
  /\ tail' = 1
  /\ pc' = [p \in Ops |-> "idle"]
  /\ wrote' = [p \in Ops |-> {}]
  /\ UNCHANGED disk

\* recover_from_log(): read the header ...
read_head ==
  /\ mode = "read_head"
  /\ lh' = dhead
  /\ mode' = IF dhead = <<>> THEN "recover_clear" ELSE "recover_install"
  /\ UNCHANGED <<disk, outstanding, committing, cache, pinned, tail, opvars>>

\* ... copy the committed blocks home ...
recover_install ==
  /\ mode = "recover_install"
  /\ install_block
  /\ mode' = IF tail < Len(lh) THEN mode ELSE "recover_clear"
  /\ UNCHANGED <<pinned, opvars>>

\* ... and clear the log.
recover_clear ==
  /\ mode = "recover_clear"
  /\ lh' = <<>>
  /\ dhead' = <<>>
  /\ mode' = "up"
  /\ UNCHANGED <<home, logblock, outstanding, committing, cache, pinned, tail, opvars>>

---------------------------------------------------------------------------
commit(p) == write_log(p) \/ write_head(p) \/ install_trans(p) \/ clear(p) \/ end_commit(p)

recover_from_log == read_head \/ recover_install \/ recover_clear

Next ==
  \/ \E p \in Ops : StartCall(p) \/ begin_op(p) \/ log_write(p) \/ end_op(p) \/ commit(p)
  \/ \E b \in Blocks : Evict(b)
  \/ Crash
  \/ recover_from_log

Spec == Init /\ [][Next]_vars

\* Processes go on: a begun operation ends, a commit and a recovery proceed.
Fairness ==
  /\ \A p \in Ops : WF_vars(begin_op(p)) /\ WF_vars(end_op(p)) /\ WF_vars(commit(p))
  /\ WF_vars(recover_from_log)

FairSpec == Spec /\ Fairness

---------------------------------------------------------------------------
(* Properties.                                                             *)

\* Types of the disk, the log and the operations.
TypeOK ==
  /\ home \in [Blocks -> Val]
  /\ logblock \in [1..LOGBLOCKS -> Val]
  /\ dhead \in Seq(Blocks) /\ Len(dhead) <= LOGBLOCKS
  /\ lh \in Seq(Blocks) /\ Len(lh) <= LOGBLOCKS
  /\ outstanding \in Nat
  /\ committing \in BOOLEAN
  /\ cache \in [Blocks -> Val]
  /\ pinned \subseteq Blocks
  /\ mode \in {"up", "panic", "read_head", "recover_install", "recover_clear"}
  /\ tail \in 1..LOGBLOCKS
  /\ pc \in [Ops -> PCs]
  /\ wrote \in [Ops -> SUBSET Blocks]

\* What recovery would make of the disk if the machine stopped now.
Recovered ==
  [b \in Blocks |->
     IF \E j \in 1..Len(dhead) : dhead[j] = b
     THEN logblock[CHOOSE j \in 1..Len(dhead) : dhead[j] = b]
     ELSE home[b]]

InOp == {p \in Ops : pc[p] = "op"}

\* A crash at any moment, also during commit() and during recovery itself,
\* leaves all of a group of operations or none of it, and never a part of one
\* still in progress (log.c:13, "only commits when there are no FS system calls
\* active"; log.c:101, "the true point at which the current transaction
\* commits").  Until then no eviction loses what an operation wrote.
Atomic ==
  INSTANCE AtomicDisk WITH disk <- Recovered, active <- InOp,
                           view <- IF mode \in {"up", "panic"} THEN cache ELSE Recovered
ImplementsAtomicDisk == Atomic!ASpec

\* At most one process is in commit(), and then no operation is in progress.
CommitAlone ==
  \A p \in Ops : pc[p] \in CommitPCs =>
    /\ InOp = {} /\ outstanding = 0
    /\ \A q \in Ops : pc[q] \in CommitPCs => p = q

\* One element for every block that an operation in progress may still add.
mayAdd == {x \in InOp \X (1..MAXOPBLOCKS) : x[2] > Cardinality(wrote[x[1]])}

\* begin_op() reserves enough: the log has room for every block that the
\* operations in progress may still add.
SpaceReserved ==
  mode = "up" => Len(lh) + Cardinality(mayAdd) <= LOGBLOCKS

\* Nobody sleeps in begin_op() forever: some end_op() wakes it.
NoLostWakeup ==
  \A p \in Ops : pc[p] = "sleep" ~> pc[p] # "sleep"

\* The reservation of begin_op() suffices and commit() is alone.
LogConsistent == TypeOK /\ CommitAlone /\ SpaceReserved
============================================================================
