------------------------------ MODULE FileData ------------------------------
(***************************************************************************)
(* The contents of files, from the block bitmap to the file descriptors:   *)
(* balloc, bfree, bmap, itrunc, readi and writei of kernel/fs.c, the file  *)
(* table of kernel/file.c, the descriptors of kernel/sysfile.c with open,  *)
(* dup, close, fork and exit, and the image that mkfs/mkfs.c lays out.     *)
(*                                                                         *)
(* The inodes exist and keep their links (module FileSys); the inode lock  *)
(* is explicit, and another process may come in after every block of a     *)
(* writei().  A block holds BSIZE values, bytes or block addresses.        *)
(***************************************************************************)
EXTENDS Integers, Sequences, SequencesExt, FiniteSets, FiniteSetsExt

CONSTANTS NPROCS, NOFILE,       \* processes, descriptors of each
          NFILE,                \* size of the file table
          NINODES,              \* inodes
          FSSIZE, BSIZE,        \* blocks of the disk, values in a block
          NDIRECT,              \* direct addresses of an inode
          MaxChunk,             \* bytes that filewrite() writes in one transaction
          Files,                \* the sizes of the files mkfs is given, a sequence
          Opens,                \* the open() calls: <<inode, writable, truncate>>
          Sizes,                \* the sizes of reads and writes
          MaxCalls              \* bound: calls of open, dup, fork, read and write

\* What is assumed of the constants.
FileDataAssumption ==
  /\ {NPROCS, NOFILE, NFILE, NINODES, FSSIZE, BSIZE, NDIRECT, MaxChunk} \subseteq Nat \ {0}
  /\ Files \in Seq(Nat) /\ Len(Files) = NINODES
  /\ Opens \subseteq (1..NINODES) \X BOOLEAN \X BOOLEAN
  /\ Sizes \subseteq Nat /\ MaxCalls \in Nat

Procs == 1..NPROCS
Fds == 0..(NOFILE - 1)
Inums == 1..NINODES
ROOTINO == 1
Blocks == 0..(FSSIZE - 1)
NINDIRECT == BSIZE
MAXFILE == NDIRECT + NINDIRECT

VARIABLES
  used,     \* the bitmap: the blocks in use
  data,     \* contents of the blocks, as bread() gives them
  logged,   \* their contents as the log or the disk has them
  ino,      \* inodes: size, addresses, references of open files, lock
  ftab,     \* ftable.file[]
  ofile,    \* descriptors of each process: an index of ftab, or 0
  pc,       \* what each process is doing
  content,  \* ghost: what a file may hold, for each byte a set of values
  mode,     \* "up" or "panic"
  ncalls    \* calls made

vars == <<used, data, logged, ino, ftab, ofile, pc, content, mode, ncalls>>

zeroes == [k \in 0..(BSIZE - 1) |-> 0]
NoFile == [ref |-> 0, type |-> "none", ip |-> 0, off |-> 0, writable |-> FALSE]
Idle == [op |-> "user", f |-> 0, ip |-> 0, i |-> 0, n |-> 0, n1 |-> 0, off |-> 0, tot |-> 0]
Unused == [Idle EXCEPT !.op = "unused"]

\* A disk being worked on: the bitmap, the blocks, the addresses of one inode.
Disk(u, d, l, a) == [used |-> u, data |-> d, logged |-> l, addrs |-> a, addr |-> 0]

log_write(st, b) == [st EXCEPT !.logged[b] = st.data[b]]

---------------------------------------------------------------------------
(* mkfs: blocks are handed out in order, from freeblock on.                *)

\* One more block for the file: its address in addr.
mkfs_block(st, fbn) ==
  LET free(s) == Cardinality(s.used)
      take(s) == [s EXCEPT !.used = @ \cup {free(s)}]
      ind == IF st.addrs[NDIRECT] = 0 THEN [take(st) EXCEPT !.addrs[NDIRECT] = free(st)] ELSE st
  IN  IF fbn < NDIRECT
      THEN IF st.addrs[fbn] # 0 THEN [st EXCEPT !.addr = st.addrs[fbn]]
           ELSE [take(st) EXCEPT !.addrs[fbn] = free(st), !.addr = free(st)]
      ELSE IF ind.data[ind.addrs[NDIRECT]][fbn - NDIRECT] # 0
           THEN [ind EXCEPT !.addr = ind.data[ind.addrs[NDIRECT]][fbn - NDIRECT]]
           ELSE [take(ind) EXCEPT !.data[ind.addrs[NDIRECT]][fbn - NDIRECT] = free(ind), !.addr = free(ind)]

\* iappend() of the bytes from off to n, a block at a time.
RECURSIVE iappend(_, _, _, _)
iappend(st, byte, off, n) ==
  IF off >= n THEN st
  ELSE LET fbn == off \div BSIZE
           n1 == Min({n - off, (fbn + 1) * BSIZE - off})
           b == mkfs_block(st, fbn)
           w == [b EXCEPT !.data[b.addr] = [k \in 0..(BSIZE - 1) |->
                   IF k \in (off - fbn * BSIZE)..(off - fbn * BSIZE + n1 - 1) THEN byte ELSE @[k]]]
       IN  iappend(w, byte, off + n1, n)

\* "fix size of root inode dir": the root is inode 1, its size a number of blocks.
isize(i) == IF i = ROOTINO THEN (Files[i] \div BSIZE + 1) * BSIZE ELSE Files[i]

\* The image with the files 1..i, and the addresses of each.
RECURSIVE mkfs(_)
mkfs(i) ==
  IF i = 0 THEN [used |-> {0}, data |-> [b \in Blocks |-> zeroes], addrs |-> <<>>]
  ELSE LET st == mkfs(i - 1)
           w == iappend(Disk(st.used, st.data, st.data, [k \in 0..NDIRECT |-> 0]), 9, 0, Files[i])
       IN  [used |-> w.used, data |-> w.data, addrs |-> Append(st.addrs, w.addrs)]

Init ==
  LET image == mkfs(NINODES) IN
  /\ used = image.used /\ data = image.data /\ logged = image.data
  /\ ino = [i \in Inums |-> [size |-> isize(i), addrs |-> image.addrs[i], ref |-> 0, lock |-> 0]]
  /\ ftab = [f \in 1..NFILE |-> NoFile]
  /\ ofile = [p \in Procs |-> [fd \in Fds |-> 0]]
  /\ pc = [p \in Procs |-> IF p = 1 THEN Idle ELSE Unused]
  /\ content = [i \in Inums |-> [k \in 1..isize(i) |-> {IF k <= Files[i] THEN 9 ELSE 0}]]
  /\ mode = "up"
  /\ ncalls = 0

---------------------------------------------------------------------------
(* Blocks and the addresses of an inode.                                   *)

\* A zeroed block in addr, 0 if there is none.
balloc(st) ==
  LET free == Blocks \ st.used IN
  IF free = {} THEN [st EXCEPT !.addr = 0]
  ELSE log_write([st EXCEPT !.used = @ \cup {Min(free)}, !.data[Min(free)] = zeroes, !.addr = Min(free)], Min(free))

\* The address of block bn in addr; the block, and the indirect block, are allocated
\* when they are missing.
bmap(st, bn) ==
  LET new == balloc(st)
      ind == IF st.addrs[NDIRECT] # 0 THEN [st EXCEPT !.addr = st.addrs[NDIRECT]]
             ELSE [new EXCEPT !.addrs[NDIRECT] = new.addr]
      a == ind.addr
      sub == balloc(ind)
  IN  IF bn < NDIRECT
      THEN IF st.addrs[bn] # 0 THEN [st EXCEPT !.addr = st.addrs[bn]]
           ELSE [new EXCEPT !.addrs[bn] = new.addr]
      ELSE IF a = 0 THEN ind
      ELSE IF ind.data[a][bn - NDIRECT] # 0 THEN [ind EXCEPT !.addr = ind.data[a][bn - NDIRECT]]
      ELSE log_write([sub EXCEPT !.data[a][bn - NDIRECT] = sub.addr], a)

\* The blocks an inode holds, with how often: direct, indirect and through it.
direct(i) == {k \in 0..NDIRECT : ino[i].addrs[k] # 0}
indirect(i) == IF ino[i].addrs[NDIRECT] = 0 THEN {}
               ELSE {k \in 0..(NINDIRECT - 1) : data[ino[i].addrs[NDIRECT]][k] # 0}
blocksOf(i) == {ino[i].addrs[k] : k \in direct(i)} \cup {data[ino[i].addrs[NDIRECT]][k] : k \in indirect(i)}

panic == mode' = "panic" /\ UNCHANGED <<used, data, logged, ino, ftab, ofile, pc, content, ncalls>>

\* bfree() of every block panics on "freeing free block".
canTrunc(i) ==
  blocksOf(i) \subseteq used /\ Cardinality(blocksOf(i)) = Cardinality(direct(i)) + Cardinality(indirect(i))

\* Mutant: the indirect block itself is not freed.
itrunc_keeps(i) == used \ (blocksOf(i) \ {ino[i].addrs[NDIRECT]})

\* The bitmap after itrunc().
itrunc(i) == used \ blocksOf(i)

\* readi(): the bytes from off, and the disk, which bmap() may have changed.
RECURSIVE readi(_, _, _)
readi(st, off, end) ==
  LET b == bmap(st, off \div BSIZE)
      m == Min({end - off, BSIZE - (off % BSIZE)})
      rest == readi(b, off + m, end)
  IN  IF off >= end THEN [st |-> st, bytes |-> <<>>]
      ELSE IF b.addr = 0 THEN [st |-> b, bytes |-> <<>>]
      ELSE [st |-> rest.st, bytes |-> [k \in 1..m |-> b.data[b.addr][(off % BSIZE) + k - 1]] \o rest.bytes]

readEnd(i, off, n) == IF off > ino[i].size THEN off ELSE Min({off + n, ino[i].size})
diskOf(i) == Disk(used, data, logged, ino[i].addrs)

---------------------------------------------------------------------------
(* The file table and the descriptors.                                     *)

freeFiles == {f \in 1..NFILE : ftab[f].ref = 0}
freeFds(p) == {fd \in Fds : ofile[p][fd] = 0}
user(p) == mode = "up" /\ pc[p].op = "user"
call(p) == user(p) /\ ncalls < MaxCalls /\ ncalls' = ncalls + 1

\* ftab's entry after the last fileclose().
closed(file) == [file EXCEPT !.ref = 0, !.type = "none"]

\* sys_open(), with ip locked from namei() or create() on.
sys_open(p, i, writable, trunc) ==
  LET f == Min(freeFiles)  fd == Min(freeFds(p)) IN
  /\ call(p) /\ ino[i].lock = 0
  /\ i = ROOTINO => ~ writable /\ ~ trunc
  /\ freeFiles # {} /\ freeFds(p) # {}
  /\ IF trunc /\ ~ canTrunc(i) THEN mode' = "panic" /\ UNCHANGED <<used, data, logged, ino, ftab, ofile, pc, content>>
     ELSE /\ ofile' = [ofile EXCEPT ![p][fd] = f]
          /\ ftab' = [ftab EXCEPT ![f] = [ref |-> 1, type |-> "inode", ip |-> i, off |-> 0, writable |-> writable]]
          /\ used' = IF trunc THEN itrunc(i) ELSE used
          /\ content' = IF trunc THEN [content EXCEPT ![i] = <<>>] ELSE content
          /\ ino' = [ino EXCEPT ![i] = IF trunc THEN [@ EXCEPT !.size = 0, !.addrs = [k \in 0..NDIRECT |-> 0], !.ref = @ + 1]
                                       ELSE [@ EXCEPT !.ref = @ + 1]]
          /\ UNCHANGED <<data, logged, pc, mode>>

\* No descriptor is left: fileclose() of the entry just allocated, iunlockput(ip).
open_nofd(p) ==
  /\ user(p) /\ freeFds(p) = {} /\ freeFiles # {}
  /\ LET f == Min(freeFiles) IN
     /\ pc' = IF ftab[f].type = "inode" THEN [pc EXCEPT ![p] = [Idle EXCEPT !.op = "iput", !.ip = ftab[f].ip]] ELSE pc
     /\ ftab' = [ftab EXCEPT ![f] = closed(@)]
  /\ UNCHANGED <<used, data, logged, ino, ofile, content, mode, ncalls>>

sys_dup(p, fd) ==
  /\ call(p) /\ ofile[p][fd] # 0 /\ freeFds(p) # {}
  /\ ofile' = [ofile EXCEPT ![p][Min(freeFds(p))] = ofile[p][fd]]
  /\ ftab' = [ftab EXCEPT ![ofile[p][fd]].ref = @ + 1]
  /\ UNCHANGED <<used, data, logged, ino, pc, content, mode>>

\* fileclose(), up to the release of ftable.lock; then is what the process does next.
fileclose(p, fd, then) ==
  LET f == ofile[p][fd] IN
  /\ f # 0
  /\ IF ftab[f].ref < 1 THEN panic
     ELSE /\ ofile' = [ofile EXCEPT ![p][fd] = 0]
          /\ IF ftab[f].ref > 1
             THEN ftab' = [ftab EXCEPT ![f].ref = @ - 1] /\ UNCHANGED pc
             ELSE /\ ftab' = [ftab EXCEPT ![f] = closed(@)]
                  /\ pc' = [pc EXCEPT ![p] = [Idle EXCEPT !.op = then, !.ip = ftab[f].ip]]
          /\ UNCHANGED <<used, data, logged, ino, content, mode, ncalls>>

sys_close(p, fd) == user(p) /\ fileclose(p, fd, "iput")

\* The iput() of a file that was closed, for close() and for exit().
close_iput(p) ==
  /\ pc[p].op \in {"iput", "exit_iput"}
  /\ ino' = [ino EXCEPT ![pc[p].ip].ref = @ - 1]
  /\ pc' = [pc EXCEPT ![p] = [Idle EXCEPT !.op = IF pc[p].op = "iput" THEN "user" ELSE "exit"]]
  /\ UNCHANGED <<used, data, logged, ftab, ofile, content, mode, ncalls>>

\* kfork(): filedup() of every descriptor.
kfork(p, q) ==
  /\ call(p) /\ pc[q].op = "unused"
  /\ ofile' = [ofile EXCEPT ![q] = ofile[p]]
  /\ ftab' = [f \in DOMAIN ftab |->
                [ftab[f] EXCEPT !.ref = @ + Cardinality({fd \in Fds : ofile[p][fd] = f})]]
  /\ pc' = [pc EXCEPT ![q] = Idle]
  /\ UNCHANGED <<used, data, logged, ino, content, mode>>

\* kexit(): close the descriptors in order.
kexit(p) ==
  /\ user(p) /\ p # 1
  /\ pc' = [pc EXCEPT ![p] = [Idle EXCEPT !.op = "exit"]]
  /\ UNCHANGED <<used, data, logged, ino, ftab, ofile, content, mode, ncalls>>

kexit_close(p) ==
  LET open == Fds \ freeFds(p) IN
  /\ mode = "up" /\ pc[p].op = "exit"
  /\ IF open # {} THEN fileclose(p, Min(open), "exit_iput")
     ELSE /\ pc' = [pc EXCEPT ![p] = Unused]
          /\ UNCHANGED <<used, data, logged, ino, ftab, ofile, content, mode, ncalls>>

---------------------------------------------------------------------------
(* Reading and writing.                                                    *)

\* fileread(): readi() and the move of the offset, under the inode's lock.
sys_read(p, fd, n) ==
  LET f == ofile[p][fd]  i == ftab[f].ip  off == ftab[f].off
      r == readi(diskOf(i), off, readEnd(i, off, n))
  IN
  /\ call(p) /\ f # 0 /\ ino[i].lock = 0
  /\ ftab' = [ftab EXCEPT ![f].off = @ + Len(r.bytes)]
  /\ used' = r.st.used /\ data' = r.st.data /\ logged' = r.st.logged
  /\ ino' = [ino EXCEPT ![i].addrs = r.st.addrs]
  /\ UNCHANGED <<ofile, pc, content, mode>>

\* filewrite() enters its loop.
sys_write(p, fd, n) ==
  LET f == ofile[p][fd] IN
  /\ call(p) /\ f # 0 /\ ftab[f].writable
  /\ pc' = [pc EXCEPT ![p] = [Idle EXCEPT !.op = "lock", !.f = f, !.ip = ftab[f].ip, !.n = n]]
  /\ UNCHANGED <<used, data, logged, ino, ftab, ofile, content, mode>>

\* Mutant: the offset is the one the loop began with.
offset_stale(p) == IF pc[p].i = 0 THEN ftab[pc[p].f].off ELSE pc[p].off + pc[p].tot

offset(p) == ftab[pc[p].f].off

fits(off, n) == off + n <= MAXFILE * BSIZE

\* What the file may hold after tot bytes b were written at off, and after a write
\* failed that had copied j bytes b to off.
overwrite(c, off, tot, b) ==
  [k \in 1..Max({Len(c), off + tot}) |-> IF k > off /\ k <= off + tot THEN {b} ELSE c[k]]
tried(c, off, j, b) == [k \in 1..Len(c) |-> IF k > off /\ k <= off + j THEN c[k] \cup {b} ELSE c[k]]

\* ilock(), and the tests at the head of writei().
filewrite_lock(p) ==
  LET w == pc[p]  off == offset(p)  n1 == Min({w.n - w.i, MaxChunk}) IN
  /\ mode = "up" /\ w.op = "lock" /\ ino[w.ip].lock = 0
  /\ IF off > ino[w.ip].size \/ ~ fits(off, n1)
     THEN pc' = [pc EXCEPT ![p] = Idle] /\ UNCHANGED ino
     ELSE /\ pc' = [pc EXCEPT ![p] = [w EXCEPT !.op = "write", !.off = off, !.n1 = n1, !.tot = 0]]
          /\ ino' = [ino EXCEPT ![w.ip].lock = p]
  /\ UNCHANGED <<used, data, logged, ftab, ofile, content, mode, ncalls>>

\* One turn of the loop of writei(): either_copyin() copies j bytes into the buffer.
\* If those are not all, the write stops there and the buffer is not logged.  The bytes
\* that were copied stay in it (pinned: until the transaction that has logged this block
\* before commits it, with these bytes) or are lost when it is recycled.
writei_block(p, j, pinned) ==
  LET w == pc[p]  off == w.off + w.tot
      m == Min({w.n1 - w.tot, BSIZE - (off % BSIZE)})
      b == bmap(diskOf(w.ip), off \div BSIZE)
      new == b.addr \notin used
      c == [b EXCEPT !.data[b.addr] = [k \in 0..(BSIZE - 1) |->
              IF k \in (off % BSIZE)..((off % BSIZE) + j - 1) THEN p ELSE @[k]]]
      d == IF b.addr = 0 THEN b ELSE IF j = m \/ new \/ pinned THEN log_write(c, b.addr) ELSE c
      stop == b.addr = 0 \/ j < m
  IN
  /\ mode = "up" /\ w.op = "write" /\ w.tot < w.n1
  /\ j <= m /\ (pinned => j \in 1..(m - 1))
  /\ IF off \div BSIZE >= MAXFILE THEN panic           \* "bmap: out of range"
     ELSE /\ used' = d.used /\ data' = d.data /\ logged' = d.logged
          /\ ino' = [ino EXCEPT ![w.ip].addrs = d.addrs]
          /\ pc' = [pc EXCEPT ![p] = IF stop THEN [w EXCEPT !.op = "written"] ELSE [w EXCEPT !.tot = @ + m]]
          /\ content' = IF b.addr # 0 /\ j < m THEN [content EXCEPT ![w.ip] = tried(@, off, j, p)] ELSE content
          /\ UNCHANGED <<ftab, ofile, mode, ncalls>>

\* bget() recycles a buffer that is not pinned: the next bread() gives what was logged.
Recycle(b) ==
  /\ mode = "up" /\ data[b] # logged[b]
  /\ data' = [data EXCEPT ![b] = logged[b]]
  /\ UNCHANGED <<used, logged, ino, ftab, ofile, pc, content, mode, ncalls>>


\* Mutant: a short write returns before the size is set.
filewrite_done_short(p) ==
  LET w == pc[p]  i == w.i + w.tot IN
  /\ mode = "up" /\ (w.op = "written" \/ (w.op = "write" /\ w.tot = w.n1))
  /\ ino' = [ino EXCEPT ![w.ip].size = IF w.tot < w.n1 THEN @ ELSE Max({@, w.off + w.tot}), ![w.ip].lock = 0]
  /\ ftab' = [ftab EXCEPT ![w.f].off = @ + w.tot]
  /\ content' = [content EXCEPT ![w.ip] = overwrite(@, w.off, w.tot, p)]
  /\ pc' = [pc EXCEPT ![p] = IF w.tot # w.n1 \/ i >= w.n THEN Idle
                             ELSE [w EXCEPT !.op = "lock", !.i = i]]
  /\ UNCHANGED <<used, data, logged, ofile, mode, ncalls>>

\* The end of writei(), f->off += r, iunlock(); then the next turn of filewrite().
filewrite_done(p) ==
  LET w == pc[p]  i == w.i + w.tot IN
  /\ mode = "up" /\ (w.op = "written" \/ (w.op = "write" /\ w.tot = w.n1))
  /\ ino' = [ino EXCEPT ![w.ip].size = Max({@, w.off + w.tot}), ![w.ip].lock = 0]
  /\ ftab' = [ftab EXCEPT ![w.f].off = @ + w.tot]
  /\ content' = [content EXCEPT ![w.ip] = overwrite(@, w.off, w.tot, p)]
  /\ pc' = [pc EXCEPT ![p] = IF w.tot # w.n1 \/ i >= w.n THEN Idle
                             ELSE [w EXCEPT !.op = "lock", !.i = i]]
  /\ UNCHANGED <<used, data, logged, ofile, mode, ncalls>>

\* Between calls the processes may rest.
Rest == (\A p \in Procs : pc[p].op \in {"user", "unused"}) /\ UNCHANGED vars

Next ==
  \/ Rest
  \/ \E b \in Blocks : Recycle(b)
  \/ \E p \in Procs :
       \/ \E o \in Opens : sys_open(p, o[1], o[2], o[3])
       \/ open_nofd(p)
       \/ \E fd \in Fds : sys_dup(p, fd) \/ sys_close(p, fd)
       \/ \E fd \in Fds, n \in Sizes : sys_read(p, fd, n) \/ sys_write(p, fd, n)
       \/ close_iput(p)
       \/ \E q \in Procs : kfork(p, q)
       \/ kexit(p) \/ kexit_close(p)
       \/ filewrite_lock(p) \/ filewrite_done(p)
       \/ \E j \in 0..BSIZE, pinned \in BOOLEAN : writei_block(p, j, pinned)

Spec == Init /\ [][Next]_vars

---------------------------------------------------------------------------
(* Properties.                                                             *)

\* Types of the disk, the open files, the descriptors and the calls in progress.
TypeOK ==
  /\ used \subseteq Blocks
  /\ {data, logged} \subseteq [Blocks -> [0..(BSIZE - 1) -> Nat]]
  /\ \A i \in Inums : /\ ino[i].size \in 0..(MAXFILE * BSIZE)
                      /\ ino[i].lock \in 0..NPROCS
                      /\ \A k \in 0..NDIRECT : ino[i].addrs[k] \in Blocks
  /\ ofile \in [Procs -> [Fds -> 0..NFILE]]

\* A block in use belongs to exactly one place of one file: whatever fails in the
\* middle of a write (no block left, the user's bytes not readable), no block is
\* leaked and none is in two files.  The image of mkfs starts that way.
BlocksOwnedOnce ==
  LET places == UNION {{i} \X ({"direct"} \X direct(i) \cup {"indirect"} \X indirect(i)) : i \in Inums} IN
  /\ used = {0} \cup UNION {blocksOf(i) : i \in Inums}
  /\ Cardinality(used) = 1 + Cardinality(places)

\* Every byte of a file that a read to its end returns, from each offset in a block
\* on and through the direct and the indirect blocks, is the one that a write counted there last, or one that a write which
\* failed later was putting there: writei() leaves such bytes in the buffer without
\* logging it.  They are never found beyond the end the file had, however it grows.
FileHolds ==
  \A i \in Inums : ino[i].lock = 0 =>
    /\ ino[i].size = Len(content[i])
    /\ \A off \in 0..Min({BSIZE - 1, ino[i].size}) :
         \E bytes \in {readi(diskOf(i), off, ino[i].size).bytes} :
           /\ Len(bytes) = ino[i].size - off
           /\ \A k \in DOMAIN bytes : bytes[k] \in content[i][off + k]

\* fileread() is not in a transaction of the log, where log_write() panics: no read
\* inside a file allocates a block.
ReadsDontAllocate ==
  \A i \in Inums : ino[i].lock = 0 => readi(diskOf(i), 0, ino[i].size).st.used = used

\* The processes that share an open file after dup() or fork() also share its offset:
\* while one writes, nobody moves it, so their bytes never overwrite each other.
OffsetStable == \A p \in Procs : pc[p].op \in {"write", "written"} => ftab[pc[p].f].off = pc[p].off

\* f->ref is the number of descriptors, and ip->ref the number of open files with the
\* inode and of iput() calls to come: none is lost or dropped twice by dup, fork,
\* close, exit, or an open() that fails for want of a descriptor.
RefsExact ==
  /\ \A f \in 1..NFILE : ftab[f].ref = Cardinality({x \in Procs \X Fds : ofile[x[1]][x[2]] = f})
  /\ \A i \in Inums :
       ino[i].ref = Cardinality({f \in 1..NFILE : ftab[f].ref > 0 /\ ftab[f].ip = i})
                    + Cardinality({p \in Procs : pc[p].op \in {"iput", "exit_iput"} /\ pc[p].ip = i})

\* No bfree() of a free block, no block number out of range, no close of a free file.
NoPanic == mode # "panic"

\* The bitmap and the inodes agree on who owns each block, reads leave both
\* alone, and no panic of fs.c and file.c is reached.
DiskConsistent == TypeOK /\ BlocksOwnedOnce /\ ReadsDontAllocate /\ NoPanic

\* Descriptors, open files and inodes count each other exactly, and those who
\* share an open file share its offset.
SharingSafe == RefsExact /\ OffsetStable
=============================================================================
