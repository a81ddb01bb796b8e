---------------------------- MODULE BcacheProofs ----------------------------
(***************************************************************************)
(* Proofs about Bcache, for any number of processes, buffers and blocks:   *)
(* the cache keeps one copy of a block, lends it to one process at a time, *)
(* counts its users and its pin exactly, and what a process finds in a     *)
(* buffer is what was last written to the block.                           *)
(* Last, the theorems of VirtioProofs about the disk driver, stated for    *)
(* the specification of MCDisk in which the driver is one of the units.    *)
(***************************************************************************)
EXTENDS MCDisk, TLAPS

\* The processes between bget() and the end of brelse() of buffer x.
users(x) == {p \in Procs : pc[p] # "idle" /\ b[p] = x}

\* A process in bget() ... brelse() has a buffer and a block; a pinned block is
\* in the cache.
CacheInv ==
  /\ CacheConsistent
  /\ \A p \in Procs : pc[p] # "idle" => b[p] \in Bufs /\ want[p] \in Blocks
  /\ \A blk \in pinned : \E x \in Bufs : blockno[x] = blk

\* A valid buffer holds what was last written to its block.  The disk is behind
\* only for a block that is pinned or about to be written or pinned; so the one
\* that reads a block from the disk gets what was last written.
Contents ==
  /\ \A x \in Bufs : valid[x] = 1 => blockno[x] # None /\ data[x] = latest[blockno[x]]
  /\ \A x \in Bufs : blockno[x] \in pinned => valid[x] = 1
  /\ \A p \in Procs :
       /\ pc[p] \in {"use", "dirty", "write"} => valid[b[p]] = 1
       /\ pc[p] = "read" => valid[b[p]] = 0
       /\ pc[p] = "write" => disk[want[p]] = latest[want[p]]
  /\ \A blk \in Blocks : disk[blk] # latest[blk] =>
       blk \in pinned \/ \E p \in Procs : pc[p] = "dirty" /\ want[p] = blk

DataInv == CacheInv /\ Contents

\* What the proofs use of Cardinality, for finitely many processes and buffers.
Counting ==
  /\ Cardinality(Bufs) \in Nat
  /\ \A S \in SUBSET Procs : Cardinality(S) \in Nat /\ (Cardinality(S) = 0 <=> S = {})
  /\ \A S \in SUBSET Procs : \A p \in Procs \ S : Cardinality(S \cup {p}) = Cardinality(S) + 1
  /\ \A S \in SUBSET Procs : \A p \in S : Cardinality(S \ {p}) = Cardinality(S) - 1

\* The users of a buffer can be counted.
LEMMA UsersCounted ==
  ASSUME Counting, NEW x
  PROVE  /\ users(x) \in SUBSET Procs
         /\ Cardinality(users(x)) \in Nat /\ (Cardinality(users(x)) = 0 <=> users(x) = {})
<1>1. users(x) \in SUBSET Procs
  BY Zenon DEF users
<1>2. QED
  BY <1>1, Zenon DEF Counting

\* binit() establishes the invariant.
LEMMA CacheInvInit == ASSUME Counting PROVE Init => CacheInv
<1> SUFFICES ASSUME Init PROVE CacheInv
  OBVIOUS
<1>1. TypeOK
  BY DEF Init, TypeOK, PCs
<1>2. RefcntExact
  <2>1. \A x \in Bufs : {p \in Procs : pc[p] # "idle" /\ b[p] = x} = {}
    BY DEF Init
  <2>2. \A x \in Bufs : refcnt[x] = 0 /\ blockno[x] \notin pinned
    BY DEF Init
  <2>3. \A x \in Bufs : Cardinality({p \in Procs : pc[p] # "idle" /\ b[p] = x}) = 0
    BY <2>1, Zenon DEF Counting
  <2>4. QED
    BY <2>2, <2>3 DEF RefcntExact
<1>3. QED
  BY <1>1, <1>2 DEF Init, CacheInv, CacheConsistent, OneCopy, ExclusiveUse, SleepersHaveHolder, Holding

---------------------------------------------------------------------------
(* The types.                                                              *)

\* Moving a buffer to the front keeps every buffer on the list.
LEMMA ToFront ==
  ASSUME Counting, TypeOK, NEW x \in Bufs
  PROVE  /\ toFront(x) \in [1..Cardinality(Bufs) -> Bufs]
         /\ \A y \in Bufs : \E k \in DOMAIN toFront(x) : toFront(x)[k] = y
<1> DEFINE n == Cardinality(Bufs)
           i == CHOOSE k \in DOMAIN list : list[k] = x
<1>0. n \in Nat
  BY DEF Counting
<1>1. DOMAIN list = 1..n /\ \A k \in 1..n : list[k] \in Bufs
  BY Zenon DEF TypeOK
<1>2. i \in 1..n /\ list[i] = x
  BY <1>1, Zenon DEF TypeOK
<1>3. toFront(x) = [k \in 1..n |-> IF k = 1 THEN x ELSE IF k <= i THEN list[k - 1] ELSE list[k]]
  BY <1>1 DEF toFront
<1> HIDE DEF n, i
<1>4. \A k \in 1..n : k # 1 => k - 1 \in 1..n
  BY <1>0
<1>5. toFront(x) \in [1..n -> Bufs]
  BY <1>1, <1>3, <1>4
<1>6. ASSUME NEW y \in Bufs PROVE \E k \in 1..n : toFront(x)[k] = y
  <2>1. PICK k \in 1..n : list[k] = y
    BY <1>1 DEF TypeOK
  <2>2. CASE y = x
    <3>1. 1 \in 1..n
      BY <1>0, <1>2
    <3>2. QED
      BY <1>3, <2>2, <3>1
  <2>3. CASE y # x /\ k < i
    <3>1. k + 1 \in 1..n /\ k + 1 # 1 /\ k + 1 <= i /\ (k + 1) - 1 = k
      BY <1>0, <1>2, <2>3
    <3>2. QED
      BY <1>3, <2>1, <3>1
  <2>4. CASE y # x /\ k > i
    <3>1. k # 1 /\ ~ (k <= i)
      BY <1>0, <1>2, <2>4
    <3>2. QED
      BY <1>3, <2>1, <3>1
  <2>5. k < i \/ k > i \/ k = i
    BY <1>0, <1>2
  <2>6. QED
    BY <1>2, <2>1, <2>2, <2>3, <2>4, <2>5
<1>7. QED
  BY <1>3, <1>5, <1>6 DEF n

\* A buffer in use has a reference.
LEMMA HasReference ==
  ASSUME Counting, CacheInv, NEW p \in Procs, pc[p] # "idle"
  PROVE  /\ b[p] \in Bufs /\ refcnt[b[p]] - 1 \in Nat
         /\ blockno[b[p]] \in pinned => refcnt[b[p]] - 2 \in Nat
<1>1. b[p] \in Bufs /\ p \in users(b[p])
  BY DEF CacheInv, users
<1>2. Cardinality(users(b[p])) # 0
  BY <1>1, UsersCounted, Zenon
<1>3. refcnt[b[p]] = Cardinality(users(b[p])) + IF blockno[b[p]] \in pinned THEN 1 ELSE 0
  BY <1>1, Zenon DEF CacheInv, CacheConsistent, RefcntExact, users
<1>4. QED
  BY <1>1, <1>2, <1>3, UsersCounted

\* A counter may be incremented.
LEMMA CountUp ==
  ASSUME NEW S, NEW f \in [S -> Nat], NEW x \in S
  PROVE  [f EXCEPT ![x] = @ + 1] \in [S -> Nat]
  OBVIOUS

\* The types are preserved by every step.
LEMMA TypeNext ==
  ASSUME Counting, CacheInv, NEW p \in Procs, bget(p) \/ Use(p) \/ Modify(p) \/ Kill(p)
  PROVE  TypeOK'
<1>0. TypeOK /\ (pc[p] # "idle" => b[p] \in Bufs /\ want[p] \in Blocks)
  BY DEF CacheInv, CacheConsistent
<1> USE <1>0 DEF TypeOK, PCs, goto, bufvars
<1>1. CASE bget_hit(p)
  BY <1>1 DEF bget_hit, found, cached
<1>2. CASE bget_recycle(p)
  BY <1>2 DEF bget_recycle, found
<1>3. CASE bget_panic(p)
  BY <1>3 DEF bget_panic
<1>4. CASE acquiresleep(p) \/ Kill(p) \/ bread(p)
  BY <1>4, ZenonT(30) DEF acquiresleep, Kill, bread
<1>5. CASE read_done(p)
  <2>1. blockno[b[p]] \in Blocks
    BY <1>5, Zenon DEF read_done, CacheInv, CacheConsistent, ExclusiveUse
  <2>2. QED
    BY <1>5, <2>1 DEF read_done
<1>6. CASE Modify(p)
  BY <1>6 DEF Modify
<1>7. CASE bwrite(p)
  <2>1. blockno[b[p]] \in Blocks
    BY <1>7 DEF bwrite, CacheInv, CacheConsistent, ExclusiveUse
  <2>2. QED
    BY <1>7, <2>1 DEF bwrite
<1>8. CASE bunpin(p)
  BY <1>8, HasReference DEF bunpin
<1>9. CASE log_write(p)
  <2>1. pinned' \subseteq Blocks
    BY <1>9 DEF log_write
  <2>2. refcnt' \in [Bufs -> Nat]
    <3>1. PICK x \in Bufs : b[p] = x
      BY <1>9 DEF log_write
    <3>2. refcnt' = refcnt \/ refcnt' = [refcnt EXCEPT ![x] = @ + 1]
      BY <1>9, <3>1 DEF log_write
    <3>3. refcnt \in [Bufs -> Nat]
      OBVIOUS
    <3>4. [refcnt EXCEPT ![x] = @ + 1] \in [Bufs -> Nat]
      BY ONLY <3>1, <3>3, CountUp
    <3>5. QED
      BY ONLY <3>2, <3>3, <3>4
  <2>3. QED
    BY <1>9, <2>1, <2>2 DEF log_write
<1>10. CASE brelse(p)
  BY <1>10, Zenon DEF brelse, releasesleep
<1>11. CASE brelse_unref(p)
  <2>1. refcnt' \in [Bufs -> Nat]
    BY <1>11, HasReference DEF brelse_unref
  <2>2. list' = list \/ list' = toFront(b[p])
    BY <1>11, Zenon DEF brelse_unref
  <2>3. list' \in [1..Cardinality(Bufs) -> Bufs] /\ \A x \in Bufs : \E k \in DOMAIN list' : list'[k] = x
    BY <1>11, <2>2, ToFront, Zenon DEF brelse_unref
  <2>4. QED
    BY <1>11, <2>1, <2>3, Zenon DEF brelse_unref
<1>12. QED
  BY <1>1, <1>2, <1>3, <1>4, <1>5, <1>6, <1>7, <1>8, <1>9, <1>10, <1>11, Zenon DEF bget, Use

---------------------------------------------------------------------------
(* The counts.                                                             *)

\* A step between bget() and brelse() changes the users of no buffer.
LEMMA SameUsers ==
  ASSUME b' = b, \A q \in Procs : pc'[q] = "idle" <=> pc[q] = "idle"
  PROVE  \A x : users(x)' = users(x)
  BY DEF users

\* bget() adds its caller to the users of one buffer.
LEMMA OneMoreUser ==
  ASSUME Counting, CacheInv, NEW p \in Procs, pc[p] = "idle", NEW blk \in Blocks, NEW x \in Bufs, found(p, blk, x)
  PROVE  /\ Cardinality(users(x)') = Cardinality(users(x)) + 1
         /\ \A y \in Bufs : y # x => users(y)' = users(y)
<1>0. pc \in [Procs -> PCs] /\ b \in [Procs -> Bufs \cup {None}]
  BY DEF CacheInv, CacheConsistent, TypeOK
<1>1. users(x)' = users(x) \cup {p}
  BY <1>0 DEF users, found, goto
<1>2. p \notin users(x)
  BY DEF users
<1>3. \A y \in Bufs : y # x => users(y)' = users(y)
  BY <1>0, Zenon DEF users, found, goto
<1>4. QED
  BY <1>1, <1>2, <1>3, UsersCounted, Zenon DEF Counting

\* Every step counts the users of a buffer exactly.
LEMMA RefcntNext ==
  ASSUME Counting, CacheInv, NEW p \in Procs, bget(p) \/ Use(p) \/ Modify(p) \/ Kill(p)
  PROVE  RefcntExact'
<1> DEFINE pin(x) == IF blockno[x] \in pinned THEN 1 ELSE 0
<1>0. TypeOK /\ \A x \in Bufs : refcnt[x] = Cardinality(users(x)) + pin(x)
  BY Zenon DEF CacheInv, CacheConsistent, RefcntExact, users
<1> SUFFICES \A x \in Bufs : refcnt'[x] = Cardinality(users(x)') + pin(x)'
  BY DEF RefcntExact, users
<1>1. CASE bget_hit(p)
  <2>1. PICK blk \in Blocks, x \in Bufs :
          x \in cached(blk) /\ refcnt' = [refcnt EXCEPT ![x] = @ + 1] /\ found(p, blk, x)
    BY <1>1, Zenon DEF bget_hit, cached
  <2>2. x \in Bufs /\ pc[p] = "idle" /\ UNCHANGED <<blockno, pinned>>
    BY <1>1 DEF cached, bget_hit
  <2>3. /\ Cardinality(users(x)') = Cardinality(users(x)) + 1
        /\ \A y \in Bufs : y # x => users(y)' = users(y)
    BY <2>1, <2>2, OneMoreUser
  <2>4. QED
    BY <1>0, <2>1, <2>2, <2>3, UsersCounted DEF TypeOK
<1>2. CASE bget_recycle(p)
  <2>1. PICK blk \in Blocks, x \in Bufs :
          /\ cached(blk) = {} /\ victim(x)
          /\ blockno' = [blockno EXCEPT ![x] = blk]
          /\ refcnt' = [refcnt EXCEPT ![x] = 1]
          /\ found(p, blk, x)
    BY <1>2, Zenon DEF bget_recycle
  <2>2. refcnt[x] = 0 /\ pc[p] = "idle" /\ UNCHANGED pinned
    BY <1>2, <2>1 DEF bget_recycle, victim, unused
  <2>3. /\ Cardinality(users(x)') = Cardinality(users(x)) + 1
        /\ \A y \in Bufs : y # x => users(y)' = users(y)
    BY <2>1, <2>2, OneMoreUser
  <2>4. Cardinality(users(x)) = 0
    BY <1>0, <2>1, <2>2, UsersCounted
  <2>5. blk \notin pinned
    BY <2>1 DEF CacheInv, cached
  <2>6. QED
    BY <1>0, <2>1, <2>2, <2>3, <2>4, <2>5 DEF TypeOK
<1>3. CASE bunpin(p) \/ log_write(p)
  <2>0. /\ b[p] \in Bufs /\ blockno[b[p]] = want[p] /\ want[p] \in Blocks
        /\ \A y \in Bufs : blockno[y] = want[p] => y = b[p]
    BY <1>3, BcacheAssumption, SMTT(30) DEF bunpin, log_write, CacheInv, CacheConsistent, ExclusiveUse, OneCopy
  <2>1. \A x : users(x)' = users(x)
    <3>1. b' = b /\ \A q \in Procs : pc'[q] = "idle" <=> pc[q] = "idle"
      BY <1>0, <1>3, Zenon DEF bunpin, log_write, goto, TypeOK
    <3>2. QED
      BY <3>1, SameUsers
  <2>2. \/ UNCHANGED <<refcnt, pinned>>
        \/ /\ refcnt' = [refcnt EXCEPT ![b[p]] = @ - 1]
           /\ want[p] \in pinned /\ pinned' = pinned \ {want[p]}
        \/ /\ refcnt' = [refcnt EXCEPT ![b[p]] = @ + 1]
           /\ want[p] \notin pinned /\ pinned' = pinned \cup {want[p]}
    BY <1>3, Zenon DEF bunpin, log_write
  <2>3. blockno' = blockno
    BY <1>3, Zenon DEF bunpin, log_write
  <2>4. PICK x \in Bufs : x = b[p]
    BY <2>0
  <2>5. \A y \in Bufs : y # x => refcnt'[y] = refcnt[y] /\ pin(y)' = pin(y)
    BY <1>0, <2>0, <2>2, <2>3, <2>4 DEF TypeOK
  <2>6. refcnt'[x] - pin(x)' = refcnt[x] - pin(x)
    BY <1>0, <2>0, <2>2, <2>3, <2>4 DEF TypeOK
  <2>7. /\ refcnt[x] \in Nat /\ refcnt'[x] \in Int /\ pin(x) \in {0, 1} /\ pin(x)' \in {0, 1}
        /\ refcnt[x] = Cardinality(users(x)) + pin(x)
    BY <1>0, <2>0, <2>2, <2>4, UsersCounted DEF TypeOK
  <2>8. refcnt'[x] = Cardinality(users(x)') + pin(x)'
    <3> HIDE DEF pin
    <3>1. users(x)' = users(x) /\ Cardinality(users(x)) \in Nat
      BY <2>1, UsersCounted
    <3>2. QED
      BY <2>6, <2>7, <3>1
  <2>9. \A y \in Bufs : y # x => refcnt'[y] = Cardinality(users(y)') + pin(y)'
    BY <1>0, <2>1, <2>5
  <2>10. QED
    BY <2>8, <2>9
<1>4. CASE brelse_unref(p)
  <2>0. PICK x \in Bufs : b[p] = x /\ p \in users(x)
    BY <1>4 DEF brelse_unref, CacheInv, users
  <2>1. users(x)' = users(x) \ {p} /\ \A y \in Bufs : y # x => users(y)' = users(y)
    BY <1>0, <1>4, <2>0, BcacheAssumption, Zenon DEF brelse_unref, users, goto, TypeOK
  <2>2. Cardinality(users(x)') = Cardinality(users(x)) - 1
    BY <2>0, <2>1, UsersCounted, Zenon DEF Counting
  <2>3. refcnt' = [refcnt EXCEPT ![x] = @ - 1] /\ UNCHANGED <<blockno, pinned>>
    BY <1>4, <2>0 DEF brelse_unref
  <2>4. refcnt'[x] = refcnt[x] - 1 /\ \A y \in Bufs : y # x => refcnt'[y] = refcnt[y]
    BY <1>0, <2>0, <2>3 DEF TypeOK
  <2>5. \A y \in Bufs : pin(y)' = pin(y)
    BY <2>3
  <2>6. refcnt'[x] = Cardinality(users(x)') + pin(x)'
    BY <1>0, <2>0, <2>2, <2>4, <2>5, UsersCounted
  <2>7. \A y \in Bufs : y # x => refcnt'[y] = Cardinality(users(y)') + pin(y)'
    BY <1>0, <2>1, <2>4, <2>5
  <2>8. QED
    BY <2>6, <2>7
<1>5. CASE \/ bget_panic(p) \/ acquiresleep(p) \/ Kill(p) \/ bread(p) \/ read_done(p) \/ Modify(p)
           \/ bwrite(p) \/ brelse(p)
  <2>1. UNCHANGED <<refcnt, blockno, pinned>>
    BY <1>5, Zenon DEF bget_panic, acquiresleep, Kill, bread, read_done, Modify, bwrite, brelse, bufvars
  <2>2. b' = b /\ \A q \in Procs : pc'[q] = "idle" <=> pc[q] = "idle"
    <3>1. b' = b
      BY <1>5, ZenonT(30) DEF bget_panic, acquiresleep, Kill, bread, read_done, Modify, bwrite, brelse
    <3>2. CASE brelse(p)
      BY <1>0, <3>1, <3>2 DEF brelse, releasesleep, TypeOK
    <3>3. CASE bget_panic(p)
      BY <3>1, <3>3, Zenon DEF bget_panic
    <3>4. CASE acquiresleep(p) \/ Kill(p) \/ bread(p) \/ read_done(p) \/ Modify(p) \/ bwrite(p)
      BY <1>0, <3>1, <3>4, ZenonT(30) DEF acquiresleep, Kill, bread, read_done, Modify, bwrite, goto, TypeOK
    <3>5. QED
      BY <1>5, <3>2, <3>3, <3>4, ZenonT(30)
  <2>3. \A x : users(x)' = users(x)
    BY <2>2, SameUsers
  <2>4. QED
    BY <1>0, <2>1, <2>3
<1>6. QED
  BY <1>1, <1>2, <1>3, <1>4, <1>5, Zenon DEF bget, Use

---------------------------------------------------------------------------
(* One copy, one user, no forgotten sleeper.                               *)

\* What RefcntExact says of a buffer that bget() may recycle.
LEMMA Recyclable ==
  ASSUME Counting, CacheInv, NEW x \in Bufs, refcnt[x] = 0
  PROVE  blockno[x] \notin pinned /\ \A q \in Procs : pc[q] # "idle" => b[q] # x
<1>1. \A q \in Procs : pc[q] # "idle" => b[q] # x
  BY HasReference
<1>2. refcnt[x] = Cardinality(users(x)) + IF blockno[x] \in pinned THEN 1 ELSE 0
  BY DEF CacheInv, CacheConsistent, RefcntExact, users
<1>3. QED
  BY <1>1, <1>2, UsersCounted

\* The conjuncts of CacheInv other than the types and the counts.
OwnInv ==
  /\ OneCopy /\ ExclusiveUse /\ SleepersHaveHolder
  /\ \A p \in Procs : pc[p] # "idle" => b[p] \in Bufs /\ want[p] \in Blocks
  /\ \A blk \in pinned : \E x \in Bufs : blockno[x] = blk

\* A step that changes only the place of its process, which holds its buffer
\* before and after it, and pins at most the block of that buffer.
LEMMA OwnStep ==
  ASSUME CacheInv, NEW p \in Procs, pc[p] \in Holding,
         UNCHANGED <<blockno, locked, b, want>>,
         pinned' \subseteq pinned \cup {want[p]},
         NEW l \in Holding, goto(p, l)
  PROVE  OwnInv'
<1>1. pc \in [Procs -> PCs] /\ l # "idle" /\ l # "sleep"
  BY Zenon DEF CacheInv, CacheConsistent, TypeOK, Holding
<1>2. b[p] \in Bufs /\ blockno[b[p]] = want[p]
  BY DEF CacheInv, CacheConsistent, ExclusiveUse, Holding
<1>3. \A blk \in pinned' : \E x \in Bufs : blockno'[x] = blk
  BY <1>2 DEF CacheInv
<1>4. OneCopy' /\ ExclusiveUse' /\ SleepersHaveHolder'
  BY <1>1 DEF CacheInv, CacheConsistent, OneCopy, ExclusiveUse, SleepersHaveHolder, goto, Holding
<1>5. \A q \in Procs : pc'[q] # "idle" => b'[q] \in Bufs /\ want'[q] \in Blocks
  BY <1>1, Zenon DEF CacheInv, goto, Holding
<1>6. QED
  BY <1>3, <1>4, <1>5 DEF OwnInv

\* Every step keeps the sleep-locks exclusive, their sleepers behind a holder.
LEMMA OwnNext ==
  ASSUME Counting, CacheInv, NEW p \in Procs, bget(p) \/ Use(p) \/ Modify(p) \/ Kill(p)
  PROVE  OwnInv'
<1>0. /\ TypeOK /\ OwnInv
      /\ pc \in [Procs -> PCs] /\ b \in [Procs -> Bufs \cup {None}]
      /\ want \in [Procs -> Blocks \cup {None}] /\ blockno \in [Bufs -> Blocks \cup {None}]
      /\ locked \in [Bufs -> Procs \cup {None}]
  BY DEF CacheInv, CacheConsistent, TypeOK, OwnInv
<1> USE DEF OwnInv, OneCopy, ExclusiveUse, SleepersHaveHolder, Holding, goto
<1>1. CASE bget_hit(p)
  <2>1. PICK blk \in Blocks, x \in Bufs : blockno[x] = blk /\ found(p, blk, x)
    BY <1>1 DEF bget_hit, cached
  <2>2. pc[p] = "idle" /\ UNCHANGED <<pinned, locked, blockno>>
    BY <1>1, SMTT(30) DEF bget_hit
  <2>3. QED
    BY <1>0, <2>1, <2>2 DEF found
<1>2. CASE bget_recycle(p)
  <2>1. PICK blk \in Blocks, x \in Bufs :
          /\ cached(blk) = {} /\ victim(x)
          /\ blockno' = [blockno EXCEPT ![x] = blk]
          /\ found(p, blk, x)
    BY <1>2, Zenon DEF bget_recycle
  <2>2. refcnt[x] = 0 /\ pc[p] = "idle" /\ UNCHANGED <<pinned, locked>>
    BY <1>2, <2>1 DEF bget_recycle, victim, unused
  <2>3. blockno[x] \notin pinned /\ \A q \in Procs : pc[q] # "idle" => b[q] # x
    BY <2>2, Recyclable
  <2>4. \A y \in Bufs : blockno[y] # blk
    BY <2>1 DEF cached
  <2>5. OneCopy'
    BY <1>0, <2>1, <2>4
  <2>6. ExclusiveUse' /\ SleepersHaveHolder'
    BY <1>0, <2>1, <2>2, <2>3 DEF found
  <2>7. \A q \in Procs : pc'[q] # "idle" => b'[q] \in Bufs /\ want'[q] \in Blocks
    BY <1>0, <2>1, <2>2 DEF found
  <2>8. \A c \in pinned' : \E y \in Bufs : blockno'[y] = c
    BY <1>0, <2>1, <2>2, <2>3
  <2>9. QED
    BY <2>5, <2>6, <2>7, <2>8
<1>3. CASE bget_panic(p)
  BY <1>0, <1>3, ZenonT(30) DEF bget_panic, bufvars
<1>4. CASE acquiresleep(p)
  <2>0. PICK x \in Bufs : b[p] = x
    BY <1>0, <1>4 DEF acquiresleep
  <2>1. pc[p] = "lock" /\ UNCHANGED <<blockno, b, want, pinned>>
    BY <1>4 DEF acquiresleep
  <2>2. CASE locked[x] # None
    <3>1. pc' = [pc EXCEPT ![p] = "sleep"] /\ locked' = locked
      BY <1>4, <2>0, <2>2, Zenon DEF acquiresleep
    <3>2. QED
      BY <1>0, <2>0, <2>1, <2>2, <3>1
  <2>3. CASE locked[x] = None
    <3>1. pc' = [pc EXCEPT ![p] = "valid"] /\ locked' = [locked EXCEPT ![x] = p]
      BY <1>4, <2>0, <2>3 DEF acquiresleep
    <3>2. \A q \in Procs : pc[q] \in Holding => b[q] # x
      BY <1>0, <2>3, BcacheAssumption
    <3>3. p # None
      BY BcacheAssumption, Zenon
    <3>4. QED
      BY <1>0, <2>0, <2>1, <3>1, <3>2, <3>3
  <2>4. QED
    BY <2>2, <2>3, Zenon
<1>5. CASE Kill(p)
  BY <1>0, <1>5, ZenonT(30) DEF Kill, bufvars
<1>6. CASE bread(p) \/ read_done(p) \/ Modify(p) \/ bwrite(p) \/ bunpin(p) \/ log_write(p)
  <2>1. pc[p] \in Holding /\ UNCHANGED <<blockno, locked, b, want>>
    BY <1>6, ZenonT(30) DEF bread, read_done, Modify, bwrite, bunpin, log_write, bufvars
  <2>2. pinned' \subseteq pinned \cup {want[p]}
    BY <1>6, Zenon DEF bread, read_done, Modify, bwrite, bunpin, log_write
  <2>3. \E l \in Holding : goto(p, l)
    BY <1>6, Zenon DEF bread, read_done, Modify, bwrite, bunpin, log_write
  <2>4. QED
    BY <2>1, <2>2, <2>3, OwnStep, Zenon
<1>7. CASE brelse(p)
  <2>0. PICK x \in Bufs : b[p] = x
    BY <1>0, <1>7, Zenon DEF brelse
  <2>1. /\ pc[p] \in Holding /\ UNCHANGED <<blockno, b, want, pinned>>
        /\ locked' = [locked EXCEPT ![x] = None]
        /\ pc' = [q \in Procs |-> IF q = p THEN "unref"
                                  ELSE IF pc[q] = "sleep" /\ b[q] = x THEN "lock" ELSE pc[q]]
    BY <1>7, <2>0, Zenon DEF brelse, releasesleep
  <2>2. \A q \in Procs : q # p /\ pc[q] \in Holding => b[q] # x
    BY <1>0, <2>0, <2>1
  <2>3. QED
    BY <1>0, <2>0, <2>1, <2>2
<1>8. CASE brelse_unref(p)
  <2>1. /\ pc' = [pc EXCEPT ![p] = "idle"] /\ b' = [b EXCEPT ![p] = None] /\ want' = [want EXCEPT ![p] = None]
        /\ UNCHANGED <<blockno, locked, pinned>>
    BY <1>8 DEF brelse_unref
  <2>2. QED
    BY <1>0, <2>1
<1>9. QED
  BY <1>1, <1>2, <1>3, <1>4, <1>5, <1>6, <1>7, <1>8, Zenon DEF bget, Use

\* The invariant is inductive.
LEMMA CacheInvNext == ASSUME Counting PROVE CacheInv /\ [Next]_vars => CacheInv'
<1> SUFFICES ASSUME CacheInv, [Next]_vars PROVE CacheInv'
  OBVIOUS
<1>1. CASE UNCHANGED vars
  <2>1. TypeOK'
    BY <1>1, Zenon DEF vars, bufvars, CacheInv, CacheConsistent, TypeOK
  <2>2. RefcntExact'
    BY <1>1, Zenon DEF vars, bufvars, CacheInv, CacheConsistent, RefcntExact
  <2>3. OwnInv'
    BY <1>1, ZenonT(30) DEF vars, bufvars, CacheInv, CacheConsistent, OwnInv, OneCopy, ExclusiveUse, SleepersHaveHolder
  <2>4. QED
    BY <2>1, <2>2, <2>3, Zenon DEF CacheInv, CacheConsistent, OwnInv
<1>2. CASE Next
  <2>1. PICK p \in Procs : bget(p) \/ Use(p) \/ Modify(p) \/ Kill(p)
    BY <1>2, Zenon DEF Next
  <2>2. TypeOK'
    BY <2>1, TypeNext, Zenon
  <2>3. RefcntExact'
    BY <2>1, RefcntNext, Zenon
  <2>4. OwnInv'
    BY <2>1, OwnNext, Zenon
  <2>5. QED
    BY <2>2, <2>3, <2>4, Zenon DEF CacheInv, CacheConsistent, OwnInv
<1>3. QED
  BY <1>1, <1>2

---------------------------------------------------------------------------
(* The contents.                                                           *)

\* Two holders of buffers of the same block are one process.
LEMMA OneHolder ==
  ASSUME CacheInv, NEW p \in Procs, NEW q \in Procs,
         pc[p] \in Holding, pc[q] \in Holding, want[p] = want[q] \/ b[p] = b[q]
  PROVE  p = q
<1>1. /\ b[p] \in Bufs /\ b[q] \in Bufs /\ want[p] \in Blocks
      /\ blockno[b[p]] = want[p] /\ blockno[b[q]] = want[q]
      /\ locked[b[p]] = p /\ locked[b[q]] = q
  BY ZenonT(30) DEF CacheInv, CacheConsistent, ExclusiveUse, Holding
<1>2. b[p] = b[q]
  BY <1>1, BcacheAssumption, ZenonT(30) DEF CacheInv, CacheConsistent, OneCopy
<1>3. QED
  BY <1>1, <1>2, Zenon

\* What buffers and disk hold of the last write is preserved.
LEMMA ContentsNext ==
  ASSUME Counting, CacheInv, Contents, NEW p \in Procs, bget(p) \/ Use(p) \/ Modify(p) \/ Kill(p)
  PROVE  Contents'
<1>0. /\ pc \in [Procs -> PCs] /\ b \in [Procs -> Bufs \cup {None}]
      /\ want \in [Procs -> Blocks \cup {None}] /\ blockno \in [Bufs -> Blocks \cup {None}]
      /\ valid \in [Bufs -> 0..1] /\ data \in [Bufs -> Val]
      /\ disk \in [Blocks -> Val] /\ latest \in [Blocks -> Val]
  BY Zenon DEF CacheInv, CacheConsistent, TypeOK
<1>h. ASSUME pc[p] # "idle"
      PROVE  \E x \in Bufs, w \in Blocks : b[p] = x /\ want[p] = w /\ blockno[x] = w
  BY <1>h, Zenon DEF CacheInv, CacheConsistent, ExclusiveUse
<1>o. \A q \in Procs : pc[q] # "idle" => b[q] \in Bufs /\ want[q] \in Blocks /\ blockno[b[q]] = want[q]
  BY Zenon DEF CacheInv, CacheConsistent, ExclusiveUse
<1>u. \A x, y \in Bufs : blockno[x] = blockno[y] /\ blockno[x] # None => x = y
  BY Zenon DEF CacheInv, CacheConsistent, OneCopy
<1>c. /\ \A x \in Bufs : valid[x] = 1 => blockno[x] # None /\ data[x] = latest[blockno[x]]
      /\ \A x \in Bufs : blockno[x] \in pinned => valid[x] = 1
      /\ \A q \in Procs :
           /\ pc[q] \in {"use", "dirty", "write"} => valid[b[q]] = 1
           /\ pc[q] = "read" => valid[b[q]] = 0
           /\ pc[q] = "write" => disk[want[q]] = latest[want[q]]
      /\ \A blk \in Blocks : disk[blk] # latest[blk] =>
           blk \in pinned \/ \E q \in Procs : pc[q] = "dirty" /\ want[q] = blk
  BY Zenon DEF Contents
<1> USE DEF goto
<1>1. CASE bget_hit(p)
  <2>1. PICK blk \in Blocks, x \in Bufs : found(p, blk, x)
    BY <1>1, Zenon DEF bget_hit, cached
  <2>2. pc[p] = "idle" /\ UNCHANGED <<pinned, blockno, valid, data, disk, latest>>
    BY <1>1, Zenon DEF bget_hit
  <2>3. QED
    BY <1>c, <1>0, <2>1, <2>2 DEF found, Contents
<1>2. CASE bget_recycle(p)
  <2>1. PICK blk \in Blocks, x \in Bufs :
          /\ cached(blk) = {} /\ victim(x)
          /\ blockno' = [blockno EXCEPT ![x] = blk]
          /\ valid' = [valid EXCEPT ![x] = 0]
          /\ found(p, blk, x)
    BY <1>2, Zenon DEF bget_recycle
  <2>2. refcnt[x] = 0 /\ pc[p] = "idle" /\ UNCHANGED <<pinned, data, disk, latest>>
    BY <1>2, <2>1, Zenon DEF bget_recycle, victim, unused
  <2>3. blockno[x] \notin pinned /\ \A q \in Procs : pc[q] # "idle" => b[q] # x
    BY <2>2, Recyclable, Zenon
  <2>4. blk \notin pinned
    BY <2>1, Zenon DEF CacheInv, cached
  <2>5. \A y \in Bufs : valid'[y] = 1 => blockno'[y] # None /\ data'[y] = latest'[blockno'[y]]
    BY <1>c, <1>0, <2>1, <2>2
  <2>6. \A y \in Bufs : blockno'[y] \in pinned' => valid'[y] = 1
    BY <1>c, <1>0, <2>1, <2>2, <2>4, Zenon
  <2>7. \A q \in Procs :
          /\ pc'[q] \in {"use", "dirty", "write"} => valid'[b'[q]] = 1
          /\ pc'[q] = "read" => valid'[b'[q]] = 0
          /\ pc'[q] = "write" => disk'[want'[q]] = latest'[want'[q]]
    BY <1>c, <1>0, <1>o, <2>1, <2>2, <2>3 DEF found
  <2>8. \A c \in Blocks : disk'[c] # latest'[c] =>
          c \in pinned' \/ \E q \in Procs : pc'[q] = "dirty" /\ want'[q] = c
    BY <1>c, <1>0, <2>1, <2>2, Zenon DEF found
  <2>9. QED
    BY <2>5, <2>6, <2>7, <2>8, Zenon DEF Contents
<1>3. CASE bget_panic(p)
  BY <1>c, <1>3, Zenon DEF bget_panic, bufvars, Contents
<1>4. CASE acquiresleep(p) \/ Kill(p)
  <2>1. /\ pc[p] \in {"lock", "sleep"} /\ UNCHANGED <<pinned, blockno, valid, data, disk, latest, b, want>>
        /\ \E l \in {"lock", "sleep", "valid"} : pc' = [pc EXCEPT ![p] = l]
    BY <1>4, Zenon DEF acquiresleep, Kill, bufvars
  <2>2. QED
    BY <1>c, <1>0, <2>1 DEF Contents
<1>5. CASE bread(p)
  <2>1. /\ pc[p] = "valid" /\ UNCHANGED <<pinned, blockno, valid, data, disk, latest, b, want>>
        /\ pc' = [pc EXCEPT ![p] = IF valid[b[p]] = 1 THEN "use" ELSE "read"]
    BY <1>5, Zenon DEF bread, bufvars
  <2>2. valid[b[p]] \in 0..1
    BY <1>0, <1>o, <2>1, Zenon
  <2>3. QED
    BY <1>c, <1>0, <2>1, <2>2 DEF Contents
<1>6. CASE read_done(p)
  <2>0. PICK x \in Bufs, w \in Blocks : b[p] = x /\ want[p] = w /\ blockno[x] = w
    BY <1>h, <1>6, Zenon DEF read_done
  <2>1. /\ pc[p] = "read" /\ UNCHANGED <<pinned, blockno, disk, latest, b, want>>
        /\ data' = [data EXCEPT ![x] = disk[w]]
        /\ valid' = [valid EXCEPT ![x] = 1]
        /\ pc' = [pc EXCEPT ![p] = "use"]
    BY <1>6, <2>0, ZenonT(30) DEF read_done
  <2>2. w \notin pinned
    <3>1. valid[x] = 0 /\ (w \in pinned => valid[x] = 1)
      BY <1>c, <2>0, <2>1, Zenon
    <3>2. 0 # 1
      OBVIOUS
    <3>3. QED
      BY <3>1, <3>2, Zenon
  <2>3. \A q \in Procs : pc[q] \in Holding /\ (b[q] = x \/ want[q] = w) => q = p
    <3>1. pc[p] \in Holding
      BY <2>1, Zenon DEF Holding
    <3>2. QED
      BY <2>0, <3>1, OneHolder, Zenon
  <2>4. disk[w] = latest[w]
    BY <1>c, <2>1, <2>2, <2>3, Zenon DEF Holding
  <2>5. \A y \in Bufs : valid'[y] = 1 => blockno'[y] # None /\ data'[y] = latest'[blockno'[y]]
    BY <1>c, <1>0, <2>0, <2>1, <2>4, BcacheAssumption, ZenonT(30)
  <2>6. \A y \in Bufs : blockno'[y] \in pinned' => valid'[y] = 1
    BY <1>c, <1>0, <2>1, Zenon
  <2>7. \A q \in Procs :
          /\ pc'[q] \in {"use", "dirty", "write"} => valid'[b'[q]] = 1
          /\ pc'[q] = "read" => valid'[b'[q]] = 0
          /\ pc'[q] = "write" => disk'[want'[q]] = latest'[want'[q]]
    BY <1>c, <1>0, <1>o, <2>0, <2>1, <2>3 DEF Holding
  <2>8. \A c \in Blocks : disk'[c] # latest'[c] =>
          c \in pinned' \/ \E q \in Procs : pc'[q] = "dirty" /\ want'[q] = c
    BY <1>c, <1>0, <2>1, Zenon
  <2>9. QED
    BY <2>5, <2>6, <2>7, <2>8, Zenon DEF Contents
<1>7. CASE Modify(p)
  <2>0. PICK x \in Bufs, w \in Blocks : b[p] = x /\ want[p] = w /\ blockno[x] = w
    BY <1>h, <1>7, Zenon DEF Modify
  <2>1. PICK v \in Val : data' = [data EXCEPT ![x] = v] /\ latest' = [latest EXCEPT ![w] = v]
    BY <1>7, <2>0, ZenonT(30) DEF Modify
  <2>2. /\ pc[p] = "use" /\ UNCHANGED <<pinned, blockno, valid, disk, b, want>>
        /\ pc' = [pc EXCEPT ![p] = "dirty"]
    BY <1>7, Zenon DEF Modify
  <2>3. \A q \in Procs : pc[q] = "write" => want[q] # w
    <3> SUFFICES ASSUME NEW q \in Procs, pc[q] = "write", want[q] = w PROVE FALSE
      BY Zenon
    <3>1. pc[p] \in Holding /\ pc[q] \in Holding
      BY <2>2, Zenon DEF Holding
    <3>2. q = p
      BY <2>0, <3>1, OneHolder, Zenon
    <3>3. QED
      BY <2>2, <3>2, Zenon
  <2>4. \A y \in Bufs : y # x => blockno[y] # w
    <3>1. w # None /\ blockno[x] = w
      BY <2>0, BcacheAssumption, Zenon
    <3>2. QED
      BY <1>u, <3>1, Zenon
  <2>5. \A y \in Bufs : valid'[y] = 1 => blockno'[y] # None /\ data'[y] = latest'[blockno'[y]]
    BY <1>c, <1>0, <2>0, <2>1, <2>2, <2>4, SMTT(30)
  <2>6. \A q \in Procs :
          /\ pc'[q] \in {"use", "dirty", "write"} => valid'[b'[q]] = 1
          /\ pc'[q] = "read" => valid'[b'[q]] = 0
          /\ pc'[q] = "write" => disk'[want'[q]] = latest'[want'[q]]
    BY <1>c, <1>0, <1>o, <2>1, <2>2, <2>3, SMTT(30)
  <2>7. \A c \in Blocks : disk'[c] # latest'[c] =>
          c \in pinned' \/ \E q \in Procs : pc'[q] = "dirty" /\ want'[q] = c
    <3>1. \A c \in Blocks : c # w => latest'[c] = latest[c]
      BY <1>0, <2>1
    <3>2. pc'[p] = "dirty" /\ want'[p] = w /\ \A q \in Procs : pc[q] = "dirty" => pc'[q] = "dirty"
      BY <1>0, <2>0, <2>2, Zenon
    <3>3. QED
      BY <1>c, <2>2, <3>1, <3>2, ZenonT(30)
  <2>8. QED
    BY <1>c, <2>2, <2>5, <2>6, <2>7, Zenon DEF Contents
<1>8. CASE bwrite(p)
  <2>0. PICK x \in Bufs, w \in Blocks : b[p] = x /\ want[p] = w /\ blockno[x] = w
    BY <1>h, <1>8, Zenon DEF bwrite
  <2>1. /\ pc[p] \in {"use", "dirty"} /\ UNCHANGED <<pinned, blockno, valid, data, latest, b, want>>
        /\ disk' = [disk EXCEPT ![w] = data[x]]
        /\ pc' = [pc EXCEPT ![p] = "write"]
    BY <1>8, <2>0, ZenonT(30) DEF bwrite, bufvars
  <2>2. data[x] = latest[w]
    BY <1>c, <2>0, <2>1, Zenon
  <2>3. disk'[w] = latest'[w] /\ \A c \in Blocks : c # w => disk'[c] = disk[c]
    BY <1>0, <2>1, <2>2, Zenon
  <2>4. \A q \in Procs :
          /\ pc'[q] \in {"use", "dirty", "write"} => valid'[b'[q]] = 1
          /\ pc'[q] = "read" => valid'[b'[q]] = 0
          /\ pc'[q] = "write" => disk'[want'[q]] = latest'[want'[q]]
    BY <1>c, <1>0, <1>o, <2>0, <2>1, <2>3, SMTT(30)
  <2>5. \A c \in Blocks : disk'[c] # latest'[c] =>
          c \in pinned' \/ \E q \in Procs : pc'[q] = "dirty" /\ want'[q] = c
    BY <1>c, <1>0, <2>0, <2>1, <2>3
  <2>6. QED
    BY <1>c, <2>1, <2>4, <2>5, Zenon DEF Contents
<1>9. CASE bunpin(p)
  <2>0. PICK x \in Bufs, w \in Blocks : b[p] = x /\ want[p] = w /\ blockno[x] = w
    BY <1>h, <1>9, Zenon DEF bunpin
  <2>1. /\ pc[p] = "write" /\ UNCHANGED <<blockno, valid, data, disk, latest, b, want>>
        /\ pinned' = pinned \ {w}
        /\ pc' = [pc EXCEPT ![p] = "use"]
    BY <1>9, <2>0, Zenon DEF bunpin
  <2>2. QED
    BY <1>c, <1>0, <2>0, <2>1, SMTT(30) DEF Contents
<1>10. CASE log_write(p)
  <2>0. PICK x \in Bufs, w \in Blocks : b[p] = x /\ want[p] = w /\ blockno[x] = w
    BY <1>h, <1>10, ZenonT(30) DEF log_write
  <2>1. /\ pc[p] = "dirty" /\ UNCHANGED <<blockno, valid, data, disk, latest, b, want>>
        /\ pinned' = pinned \cup {want[p]}
        /\ pc' = [pc EXCEPT ![p] = "use"]
    BY <1>10, ZenonT(30) DEF log_write
  <2>2. \A y \in Bufs : blockno[y] = w => y = x
    <3>1. w # None /\ blockno[x] = w
      BY <2>0, BcacheAssumption, Zenon
    <3>2. QED
      BY <1>u, <3>1, Zenon
  <2>3. QED
    BY <1>c, <1>0, <2>0, <2>1, <2>2 DEF Contents
<1>11. CASE brelse(p)
  <2>1. /\ pc[p] \in {"use", "write"} /\ UNCHANGED <<pinned, blockno, valid, data, disk, latest, b, want>>
        /\ pc' = [q \in Procs |-> IF q = p THEN "unref"
                                  ELSE IF pc[q] = "sleep" /\ b[q] = b[p] THEN "lock" ELSE pc[q]]
    BY <1>11 DEF brelse, releasesleep
  <2>2. QED
    BY <1>c, <1>0, <2>1 DEF Contents
<1>12. CASE brelse_unref(p)
  <2>1. /\ pc[p] = "unref" /\ pc' = [pc EXCEPT ![p] = "idle"]
        /\ b' = [b EXCEPT ![p] = None] /\ want' = [want EXCEPT ![p] = None]
        /\ UNCHANGED <<pinned, blockno, valid, data, disk, latest>>
    BY <1>12, Zenon DEF brelse_unref
  <2>2. QED
    BY <1>c, <1>0, <2>1, ZenonT(30) DEF Contents
<1>13. QED
  BY <1>1, <1>2, <1>3, <1>4, <1>5, <1>6, <1>7, <1>8, <1>9, <1>10, <1>11, <1>12, Zenon DEF bget, Use

---------------------------------------------------------------------------
(* The theorems about the cache.                                           *)

INSTANCE FiniteSetTheorems

\* What Counting says follows from the finiteness of the sets.
LEMMA Counts == Counting
<1>1. Cardinality(Bufs) \in Nat
  BY BcacheAssumption, FS_CardinalityType, Zenon
<1>2. \A S \in SUBSET Procs : IsFiniteSet(S)
  BY BcacheAssumption, FS_Subset, Zenon
<1>3. \A S \in SUBSET Procs : Cardinality(S) \in Nat /\ (Cardinality(S) = 0 <=> S = {})
  BY <1>2, FS_CardinalityType, FS_EmptySet, Zenon
<1>4. \A S \in SUBSET Procs : \A p \in Procs \ S : Cardinality(S \cup {p}) = Cardinality(S) + 1
  BY <1>2, FS_AddElement, Zenon
<1>5. \A S \in SUBSET Procs : \A p \in S : Cardinality(S \ {p}) = Cardinality(S) - 1
  BY <1>2, FS_RemoveElement, Zenon
<1>6. QED
  BY <1>1, <1>3, <1>4, <1>5, Zenon DEF Counting

\* The cache is what bio.c promises, for any number of processes, buffers and
\* blocks: one buffer per block, one user per buffer, exact reference counts, so
\* that no buffer is recycled under a user, a waiter or a pin, and nobody asleep
\* on a free sleep-lock.
THEOREM CacheCorrect == Spec => []CacheConsistent
<1>1. CacheInv => CacheConsistent
  BY DEF CacheInv
<1>2. QED
  BY CacheInvInit, CacheInvNext, Counts, <1>1, PTL DEF Spec

\* What a process finds in a buffer it holds is what was last written to the
\* block, through any sequence of evictions, pins, write-backs and reads by any
\* number of processes.
THEOREM ReadsWhatWasWritten == Spec => []ReadsLatest
<1>1. Init => DataInv
  <2>1. Init => Contents
    BY DEF Init, Contents
  <2>2. QED
    BY <2>1, CacheInvInit, Counts, Zenon DEF DataInv
<1>2. DataInv /\ [Next]_vars => DataInv'
  <2>1. CacheInv /\ Contents /\ Next => Contents'
    BY ContentsNext, Counts, ZenonT(30) DEF Next
  <2>2. Contents /\ UNCHANGED vars => Contents'
    <3> SUFFICES ASSUME Contents, UNCHANGED vars PROVE Contents'
      OBVIOUS
    <3>1. UNCHANGED <<pc, b, want, blockno, valid, data, disk, latest, pinned>>
      BY Zenon DEF vars, bufvars
    <3>2. QED
      BY <3>1, Zenon DEF Contents
  <2>3. QED
    BY <2>1, <2>2, CacheInvNext, Counts, Zenon DEF DataInv
<1>3. DataInv => ReadsLatest
  <2> SUFFICES ASSUME DataInv, NEW p \in Procs, pc[p] \in {"use", "dirty", "write"}
               PROVE  data[b[p]] = latest[want[p]]
    BY Zenon DEF ReadsLatest
  <2>1. b[p] \in Bufs /\ blockno[b[p]] = want[p]
    BY Zenon DEF DataInv, CacheInv, CacheConsistent, ExclusiveUse
  <2>2. valid[b[p]] = 1
    BY Zenon DEF DataInv, Contents
  <2>3. \A x \in Bufs : valid[x] = 1 => data[x] = latest[blockno[x]]
    BY Zenon DEF DataInv, Contents
  <2>4. QED
    BY <2>1, <2>2, <2>3, Zenon
<1>4. QED
  BY <1>1, <1>2, <1>3, PTL DEF Spec

---------------------------------------------------------------------------
(* The disk driver: what VirtioProofs proves of it alone.                  *)

VP == INSTANCE VirtioProofs WITH pc <- dpc

\* The driver of VirtioProofs is the one of this unit.
LEMMA SameDriver ==
  /\ VP!VirtioAssumption
  /\ VP!Init <=> Disk!Init
  /\ VP!Next <=> Disk!Next
  /\ UNCHANGED diskvars => UNCHANGED VP!vars
<1>1. VP!VirtioAssumption
  BY DiskAssumption, Zenon DEF VP!VirtioAssumption, Disk!VirtioAssumption
<1>2. VP!Init <=> Disk!Init
  BY Zenon DEF VP!Init, Disk!Init, VP!Desc, Disk!Desc
<1>3. VP!Next <=> Disk!Next
  BY ZenonT(60) DEF VP!Cardinality, Disk!Cardinality, VP!IsFiniteSet, Disk!IsFiniteSet,
      VP!Desc, Disk!Desc, VP!driver, Disk!driver, VP!device, Disk!device, VP!goto, Disk!goto,
      VP!add, Disk!add, VP!Call, Disk!Call, VP!alloc_desc, Disk!alloc_desc,
      VP!alloc3_desc, Disk!alloc3_desc, VP!wakeFree, Disk!wakeFree, VP!alloc_fail, Disk!alloc_fail,
      VP!submit, Disk!submit, VP!notify, Disk!notify, VP!chain, Disk!chain, VP!finish, Disk!finish,
      VP!Kill, Disk!Kill, VP!intr, Disk!intr, VP!complete, Disk!complete,
      VP!intr_entry, Disk!intr_entry, VP!intr_done, Disk!intr_done, VP!DeviceTake, Disk!DeviceTake,
      VP!DeviceFinish, Disk!DeviceFinish, VP!DeviceRaise, Disk!DeviceRaise,
      VP!virtio_disk_rw, Disk!virtio_disk_rw, VP!virtio_disk_intr, Disk!virtio_disk_intr,
      VP!Device, Disk!Device, VP!Next, Disk!Next
<1>4. UNCHANGED diskvars => UNCHANGED VP!vars
  BY Zenon DEF VP!vars, VP!driver, VP!device, diskvars
<1>5. QED
  BY <1>1, <1>2, <1>3, <1>4, Zenon

\* The driver and the device of the unit move as VirtioDisk says.
LEMMA DriverMoves == SpecUnit => VP!Spec
<1>1. InitUnit => VP!Init
  BY SameDriver, Zenon DEF InitUnit
<1>2. [NextUnit]_everything => [VP!Next]_(VP!vars)
  BY SameDriver, Zenon DEF NextUnit, everything
<1>3. QED
  BY <1>1, <1>2, PTL DEF SpecUnit, VP!Spec

\* In this unit each descriptor is free or in the chain of exactly one request, and
\* neither free_desc() nor virtio_disk_intr() panics.
THEOREM UnitDriverSound == SpecUnit => []DriverConsistent
<1>1. VP!DriverConsistent => DriverConsistent
  BY Zenon DEF DriverConsistent, VP!DriverConsistent, Disk!DriverConsistent, VP!TypeOK, Disk!TypeOK,
      VP!DescOwned, Disk!DescOwned, VP!NoPanic, Disk!NoPanic, VP!Desc, Disk!Desc, VP!PCs, Disk!PCs,
      VP!Cardinality, Disk!Cardinality, VP!IsFiniteSet, Disk!IsFiniteSet
<1>2. VP!Spec => []VP!DriverConsistent
  BY SameDriver, VP!DriverSound, SMTT(30)
<1>3. QED
  BY <1>1, <1>2, DriverMoves, PTL

\* In this unit no sleeper of virtio_disk_rw() has missed its wakeup.
THEOREM UnitNothingMissed == SpecUnit => []NothingMissed
<1>1. VP!NothingMissed => NothingMissed
  BY Zenon DEF NothingMissed, VP!NothingMissed, Disk!NothingMissed, VP!NoMissedFree, Disk!NoMissedFree,
      VP!NoLostInterrupt, Disk!NoLostInterrupt, VP!Pending, Disk!Pending, VP!add, Disk!add,
      VP!Cardinality, Disk!Cardinality, VP!IsFiniteSet, Disk!IsFiniteSet
<1>2. VP!Spec => []VP!NothingMissed
  BY SameDriver, VP!NothingIsMissed
<1>3. QED
  BY <1>1, <1>2, DriverMoves, PTL

\* In this unit virtio_disk_rw() returns only after the device has done its request.
THEOREM UnitReturnsServed == SpecUnit => ReturnsServed
<1>1. VP!ReturnsServed => ReturnsServed
  BY DEF ReturnsServed, VP!ReturnsServed, Disk!ReturnsServed, VP!vars, Disk!vars, VP!driver, Disk!driver,
      VP!device, Disk!device
<1>2. VP!Spec => VP!ReturnsServed
  BY SameDriver, VP!ReturnsWhenServed
<1>3. QED
  BY <1>1, <1>2, DriverMoves, PTL
=============================================================================
