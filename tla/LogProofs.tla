----------------------------- MODULE LogProofs -----------------------------
(***************************************************************************)
(* Proofs about Log, for any number of operations and blocks and any size  *)
(* of the log: begin_op() reserves enough, commit() is alone, and the log  *)
(* with its crashes and recoveries implements AtomicDisk.                  *)
(***************************************************************************)
EXTENDS Log, FiniteSetTheorems, SequenceTheorems, TLAPS

\* The blocks in the header in memory.
inLog == {lh[j] : j \in 1..Len(lh)}

\* Who is where: outstanding counts the operations in progress, commit() excludes
\* them, nobody runs during recovery, and the loops stay inside the header.
ControlInv ==
  /\ outstanding = Cardinality(InOp)
  /\ CommitAlone
  /\ \A p \in Ops : pc[p] \in CommitPCs => committing
  /\ mode \notin {"up", "panic"} => \A p \in Ops : pc[p] = "idle"
  /\ \A p \in Ops : pc[p] \in {"write_log", "write_head", "install", "clear"} => lh # <<>>
  /\ mode = "recover_install" => lh # <<>>
  /\ tail = 1 \/ tail <= Len(lh)
  /\ tail # 1 => mode = "recover_install" \/ \E p \in Ops : pc[p] \in {"write_log", "install"}

\* What an operation has written is in the header, and no more than it may write.
WroteInv ==
  \A p \in Ops :
    /\ IsFiniteSet(wrote[p]) /\ Cardinality(wrote[p]) <= MAXOPBLOCKS
    /\ pc[p] # "op" => wrote[p] = {}
    /\ mode = "up" => wrote[p] \subseteq inLog

\* The header has no block twice; on disk it is empty except from the commit
\* point to its clearing.  Pinned blocks are in the log and not yet installed.
HeaderInv ==
  /\ \A i, j \in 1..Len(lh) : lh[i] = lh[j] => i = j
  /\ \A i, j \in 1..Len(dhead) : dhead[i] = dhead[j] => i = j
  /\ mode \in {"up", "panic"} =>
       dhead = IF \E p \in Ops : pc[p] \in {"install", "clear"} THEN lh ELSE <<>>
  /\ mode \in {"recover_install", "recover_clear"} => dhead = lh
  /\ mode = "read_head" => lh = <<>>
  /\ \A b \in pinned : \E j \in 1..Len(lh) :
       /\ lh[j] = b
       /\ \A p \in Ops : /\ pc[p] = "install" => tail <= j
                         /\ pc[p] # "clear"
  /\ mode \notin {"up", "panic"} => pinned = {}

\* Copies agree: what is not pinned is on disk as in the cache, what write_log()
\* has copied is in the log as in the cache, what install_trans() has copied is
\* at home as in the log.
CopyInv ==
  /\ mode = "up" => \A b \in Blocks \ pinned : cache[b] = home[b]
  /\ mode \notin {"up", "panic"} => cache = home
  /\ \A p \in Ops :
       /\ pc[p] = "write_log" => \A j \in 1..Len(lh) : j < tail => logblock[j] = cache[lh[j]]
       /\ pc[p] \in {"write_head", "install"} => \A j \in 1..Len(lh) : logblock[j] = cache[lh[j]]
       /\ pc[p] = "install" => \A j \in 1..Len(lh) : j < tail => home[lh[j]] = logblock[j]
       /\ pc[p] = "clear" => \A j \in 1..Len(lh) : home[lh[j]] = logblock[j]
  /\ mode = "recover_install" => \A j \in 1..Len(lh) : j < tail => home[lh[j]] = logblock[j]
  /\ mode = "recover_clear" => \A j \in 1..Len(lh) : home[lh[j]] = logblock[j]

LogInv == TypeOK /\ ControlInv /\ WroteInv /\ HeaderInv /\ CopyInv

---------------------------------------------------------------------------
(* Sequences and the initial state.                                        *)

\* What the proofs use of sequences of blocks.
LEMMA SeqFacts ==
  ASSUME NEW s \in Seq(Blocks)
  PROVE  /\ Len(s) \in Nat /\ (s = <<>> <=> Len(s) = 0)
         /\ \A j \in 1..Len(s) : s[j] \in Blocks
<1>1. s = <<>> => Len(s) = 0
  OBVIOUS
<1>2. QED
  BY <1>1, LenProperties, EmptySeq, ElementOfSeq

\* Appending a block leaves the others where they are.
LEMMA AppendFacts ==
  ASSUME NEW s \in Seq(Blocks), NEW b \in Blocks
  PROVE  /\ Append(s, b) \in Seq(Blocks) /\ Len(Append(s, b)) = Len(s) + 1
         /\ Append(s, b)[Len(s) + 1] = b
         /\ \A j \in 1..Len(s) : Append(s, b)[j] = s[j]
  BY AppendProperties

\* The invariant holds before the first boot.
LEMMA LogInvInit == Init => LogInv
<1> SUFFICES ASSUME Init PROVE LogInv
  OBVIOUS
<1>0. <<>> \in Seq(Blocks) /\ Len(<<>>) = 0 /\ 0 <= LOGBLOCKS /\ 1 \in 1..LOGBLOCKS
  BY EmptySeq, LogAssumption
<1>1. TypeOK
  <2>1. pc \in [Ops -> PCs] /\ wrote \in [Ops -> SUBSET Blocks] /\ cache \in [Blocks -> Val]
    BY DEF Init, PCs
  <2>2. QED
    BY <1>0, <2>1, Zenon DEF Init, TypeOK
<1>2. InOp = {} /\ Cardinality({}) = 0 /\ IsFiniteSet({})
  BY FS_EmptySet DEF Init, InOp
<1>3. ControlInv
  BY <1>0, <1>2 DEF Init, ControlInv, CommitAlone, CommitPCs
<1>4. WroteInv
  BY <1>2, LogAssumption DEF Init, WroteInv
<1>5. HeaderInv /\ CopyInv
  BY <1>0 DEF Init, HeaderInv, CopyInv
<1>6. QED
  BY <1>1, <1>3, <1>4, <1>5 DEF LogInv

---------------------------------------------------------------------------
(* The types.                                                              *)

\* The types, and what the proofs below need to know of each action's process.
LEMMA Types ==
  ASSUME TypeOK
  PROVE  /\ home \in [Blocks -> Val] /\ logblock \in [1..LOGBLOCKS -> Val] /\ cache \in [Blocks -> Val]
         /\ dhead \in Seq(Blocks) /\ Len(dhead) <= LOGBLOCKS /\ Len(dhead) \in Nat
         /\ lh \in Seq(Blocks) /\ Len(lh) <= LOGBLOCKS /\ Len(lh) \in Nat
         /\ \A j \in 1..Len(lh) : lh[j] \in Blocks /\ j \in 1..LOGBLOCKS
         /\ outstanding \in Nat /\ committing \in BOOLEAN /\ pinned \subseteq Blocks
         /\ tail \in 1..LOGBLOCKS /\ pc \in [Ops -> PCs] /\ wrote \in [Ops -> SUBSET Blocks]
         /\ LOGBLOCKS \in Nat /\ LOGBLOCKS # 0
  BY SeqFacts, LogAssumption DEF TypeOK

\* While the loop runs, tail points into the header.
LEMMA TailInside ==
  ASSUME TypeOK, ControlInv,
         (\E p \in Ops : pc[p] \in {"write_log", "install"}) \/ mode = "recover_install"
  PROVE  tail \in 1..Len(lh) /\ lh[tail] \in Blocks
<1>1. lh # <<>> /\ Len(lh) \in Nat /\ Len(lh) # 0 /\ tail \in Nat /\ tail >= 1
  BY Types, SeqFacts DEF ControlInv
<1>2. tail \in 1..Len(lh)
  BY <1>1 DEF ControlInv
<1>3. QED
  BY <1>2, Types

\* An operation that has begun is counted in log.outstanding.
LEMMA OutstandingPositive ==
  ASSUME LogInv, NEW p \in Ops, pc[p] = "op"
  PROVE  outstanding \in Nat \ {0} /\ IsFiniteSet(InOp)
<1>1. IsFiniteSet(InOp) /\ p \in InOp
  BY LogAssumption, FS_Subset DEF InOp
<1>2. Cardinality(InOp) # 0 /\ Cardinality(InOp) \in Nat
  BY <1>1, FS_EmptySet, FS_CardinalityType
<1>3. QED
  BY <1>1, <1>2 DEF LogInv, ControlInv

\* The types are preserved by every step.
LEMMA TypeNext == LogInv /\ Next => TypeOK'
<1> SUFFICES ASSUME LogInv, Next PROVE TypeOK'
  OBVIOUS
<1>0. TypeOK
  BY DEF LogInv
<1>m. mode \in {"up", "panic", "read_head", "recover_install", "recover_clear"}
  BY <1>0 DEF TypeOK
<1>e. <<>> \in Seq(Blocks) /\ Len(<<>>) = 0 /\ 0 <= LOGBLOCKS /\ 1 \in 1..LOGBLOCKS
  BY EmptySeq, LogAssumption
<1> USE <1>0, <1>m, Types DEF disk, logvars, memory, opvars, goto, CommitPCs
<1>1. ASSUME NEW p \in Ops, StartCall(p) \/ begin_op(p) \/ end_op(p) PROVE TypeOK'
  <2>1. CASE StartCall(p)
    BY <2>1 DEF StartCall, TypeOK, PCs
  <2>2. CASE begin_op(p)
    <3>1. pc' \in [Ops -> PCs] /\ outstanding' \in Nat
      <4>1. CASE mustWait
        BY <2>2, <4>1, Zenon DEF begin_op, PCs
      <4>2. CASE ~ mustWait
        <5>1. pc' = [pc EXCEPT ![p] = "op"] /\ outstanding' = outstanding + 1
          BY <2>2, <4>2 DEF begin_op
        <5>2. pc' \in [Ops -> PCs]
          BY <5>1 DEF PCs
        <5>3. outstanding' \in Nat
          BY <5>1
        <5>4. QED
          BY <5>2, <5>3
      <4>3. QED
        BY <4>1, <4>2
    <3>2. QED
      BY <2>2, <3>1 DEF begin_op, TypeOK
  <2>3. CASE end_op(p)
    <3>1. outstanding' \in Nat
      BY <2>3, OutstandingPositive DEF end_op
    <3>2. pc' \in [Ops -> PCs] /\ wrote' \in [Ops -> SUBSET Blocks] /\ committing' \in BOOLEAN
      BY <2>3, Zenon DEF end_op, wakeupAnd, PCs
    <3>3. mode' \in {mode, "panic"} /\ UNCHANGED <<home, logblock, dhead, lh, cache, pinned, tail>>
      BY <2>3 DEF end_op
    <3>4. QED
      BY <3>1, <3>2, <3>3 DEF TypeOK
  <2>4. QED
    BY <1>1, <2>1, <2>2, <2>3, Zenon
<1>2. ASSUME NEW p \in Ops, log_write(p) PROVE TypeOK'
  <2>1. PICK b \in Blocks, v \in Val :
          /\ cache' = [cache EXCEPT ![b] = v]
          /\ wrote' = [wrote EXCEPT ![p] = @ \cup {b}]
          /\ IF Len(lh) >= LOGBLOCKS
             THEN mode' = "panic" /\ UNCHANGED <<lh, pinned>>
             ELSE /\ lh' = IF logged(b) THEN lh ELSE Append(lh, b)
                  /\ pinned' = pinned \cup {b}
                  /\ UNCHANGED mode
    BY <1>2, Zenon DEF log_write
  <2>2. lh' = lh \/ (Len(lh) < LOGBLOCKS /\ lh' = Append(lh, b))
    BY <2>1
  <2>3. lh' \in Seq(Blocks) /\ Len(lh') <= LOGBLOCKS
    BY <2>2, AppendFacts, SMTT(30)
  <2>4. cache' \in [Blocks -> Val] /\ wrote' \in [Ops -> SUBSET Blocks] /\ pinned' \subseteq Blocks
    BY <2>1
  <2>5. mode' \in {mode, "panic"} /\ UNCHANGED <<home, logblock, dhead, outstanding, committing, tail, pc>>
    BY <1>2, <2>1 DEF log_write
  <2>6. QED
    BY <2>3, <2>4, <2>5 DEF TypeOK
<1>3. ASSUME NEW p \in Ops, commit(p) PROVE TypeOK'
  <2>1. CASE write_log(p)
    <3>1. tail \in 1..Len(lh) /\ lh[tail] \in Blocks
      BY <2>1, TailInside, Zenon DEF write_log, LogInv
    <3>2. logblock' \in [1..LOGBLOCKS -> Val]
      BY <2>1, <3>1, Zenon DEF write_log
    <3>3. tail' \in 1..LOGBLOCKS
      BY <2>1, <3>1 DEF write_log
    <3>4. pc' \in [Ops -> PCs]
      BY <2>1, Zenon DEF write_log, PCs
    <3>5. QED
      BY <2>1, <3>2, <3>3, <3>4, Zenon DEF write_log, TypeOK
  <2>2. CASE write_head(p)
    BY <2>2 DEF write_head, TypeOK, PCs
  <2>3. CASE install_trans(p)
    <3>1. tail \in 1..Len(lh) /\ lh[tail] \in Blocks
      BY <2>3, TailInside DEF install_trans, LogInv
    <3>2. home' \in [Blocks -> Val] /\ cache' \in [Blocks -> Val]
      BY <2>3, <3>1 DEF install_trans, install_block
    <3>3. tail' \in 1..LOGBLOCKS
      BY <2>3, <3>1 DEF install_trans, install_block
    <3>4. pc' \in [Ops -> PCs] /\ pinned' \subseteq Blocks
      BY <2>3, Zenon DEF install_trans, PCs
    <3>5. QED
      BY <2>3, <3>2, <3>3, <3>4 DEF install_trans, install_block, TypeOK
  <2>4. CASE clear(p)
    BY <1>e, <2>4, Zenon DEF clear, TypeOK, PCs
  <2>5. CASE end_commit(p)
    BY <2>5, Zenon DEF end_commit, wakeupAnd, TypeOK, PCs
  <2>6. QED
    BY <1>3, <2>1, <2>2, <2>3, <2>4, <2>5, Zenon DEF commit
<1>4. ASSUME NEW b \in Blocks, Evict(b) PROVE TypeOK'
  BY <1>4 DEF Evict, TypeOK
<1>5. CASE Crash
  BY <1>5, <1>e, Zenon DEF Crash, TypeOK, PCs
<1>6. CASE recover_from_log
  <2>1. CASE read_head
    BY <2>1 DEF read_head, TypeOK
  <2>2. CASE recover_install
    <3>1. tail \in 1..Len(lh) /\ lh[tail] \in Blocks
      BY <2>2, TailInside DEF recover_install, LogInv
    <3>2. home' \in [Blocks -> Val] /\ cache' \in [Blocks -> Val]
      BY <2>2, <3>1 DEF recover_install, install_block
    <3>3. tail' \in 1..LOGBLOCKS
      BY <2>2, <3>1 DEF recover_install, install_block
    <3>4. QED
      BY <2>2, <3>2, <3>3, Zenon DEF recover_install, install_block, TypeOK
  <2>3. CASE recover_clear
    BY <1>e, <2>3, Zenon DEF recover_clear, TypeOK
  <2>4. QED
    BY <1>6, <2>1, <2>2, <2>3 DEF recover_from_log
<1>7. QED
  BY <1>1, <1>2, <1>3, <1>4, <1>5, <1>6, Zenon DEF Next

---------------------------------------------------------------------------
(* Who is where.                                                           *)

\* The operations in progress are finitely many.
LEMMA InOpFinite == IsFiniteSet(InOp) /\ Cardinality(InOp) \in Nat
  BY LogAssumption, FS_Subset, FS_CardinalityType DEF InOp

\* A step to another label than "op" and from another one.
LEMMA SameInOp ==
  ASSUME \A q \in Ops : pc'[q] = "op" <=> pc[q] = "op"
  PROVE  InOp' = InOp
  BY DEF InOp

\* Every step keeps commit() and recovery apart from the operations.
LEMMA ControlNext == LogInv /\ Next => ControlInv'
<1> SUFFICES ASSUME LogInv, Next PROVE ControlInv'
  OBVIOUS
<1>0. TypeOK /\ ControlInv
  BY DEF LogInv
<1>t. pc \in [Ops -> PCs] /\ tail \in Nat /\ Len(lh) \in Nat /\ tail >= 1 /\ (lh = <<>> <=> Len(lh) = 0)
  BY <1>0, Types, SeqFacts
<1>a. \A p \in Ops : pc[p] \in CommitPCs =>
        /\ outstanding = 0 /\ \A q \in Ops : pc[q] # "op" /\ (pc[q] \in CommitPCs => p = q)
  BY <1>0 DEF ControlInv, CommitAlone, InOp
<1> USE DEF disk, logvars, memory, opvars, goto
<1>1. ASSUME NEW p \in Ops, StartCall(p) PROVE ControlInv'
  <2>1. /\ pc[p] = "idle" /\ pc' = [pc EXCEPT ![p] = "begin"] /\ mode = "up"
        /\ UNCHANGED <<outstanding, committing, mode, lh, tail>>
    BY <1>1 DEF StartCall
  <2>2. InOp' = InOp
    BY <1>t, <2>1, SameInOp, Zenon
  <2>3. QED
    BY <1>0, <1>t, <2>1, <2>2, Zenon DEF ControlInv, CommitAlone, CommitPCs
<1>2. ASSUME NEW p \in Ops, begin_op(p) PROVE ControlInv'
  <2>1. pc[p] = "begin" /\ mode = "up" /\ UNCHANGED <<committing, mode, lh, tail>>
    BY <1>2 DEF begin_op
  <2>2. CASE mustWait
    <3>1. pc' = [pc EXCEPT ![p] = "sleep"] /\ outstanding' = outstanding
      BY <1>2, <2>2 DEF begin_op
    <3>2. InOp' = InOp
      BY <1>t, <2>1, <3>1, SameInOp, Zenon
    <3>3. QED
      BY <1>0, <1>t, <2>1, <3>1, <3>2, Zenon DEF ControlInv, CommitAlone, CommitPCs
  <2>3. CASE ~ mustWait
    <3>1. pc' = [pc EXCEPT ![p] = "op"] /\ outstanding' = outstanding + 1 /\ ~ committing
      BY <1>2, <2>3 DEF begin_op, mustWait
    <3>2. InOp' = InOp \cup {p} /\ p \notin InOp
      BY <1>t, <2>1, <3>1, Zenon DEF InOp
    <3>3. outstanding' = Cardinality(InOp')
      BY <1>0, <3>1, <3>2, InOpFinite, FS_AddElement, Zenon DEF ControlInv
    <3>4. \A q \in Ops : pc'[q] \notin CommitPCs
      BY <1>0, <1>t, <3>1 DEF ControlInv, CommitPCs
    <3>5. tail = 1
      BY <1>0, <2>1, <3>1 DEF ControlInv, CommitPCs
    <3>6. QED
      BY <2>1, <3>3, <3>4, <3>5, Zenon DEF ControlInv, CommitAlone, CommitPCs
  <2>4. QED
    BY <2>2, <2>3
<1>3. ASSUME NEW p \in Ops, log_write(p) PROVE ControlInv'
  <2>1. /\ pc[p] = "op" /\ mode = "up" /\ mode' \in {"up", "panic"}
        /\ UNCHANGED <<outstanding, committing, tail, pc>>
    BY <1>3 DEF log_write
  <2>2. \A q \in Ops : pc[q] \notin CommitPCs
    BY <1>a, <2>1
  <2>3. tail = 1
    BY <1>0, <2>1, <2>2, Zenon DEF ControlInv, CommitPCs
  <2>4. InOp' = InOp
    BY <2>1, SameInOp
  <2>5. QED
    BY <1>0, <2>1, <2>2, <2>3, <2>4 DEF ControlInv, CommitAlone, CommitPCs
<1>4. ASSUME NEW p \in Ops, end_op(p) PROVE ControlInv'
  <2>1. /\ pc[p] = "op" /\ mode = "up" /\ mode' \in {"up", "panic"} /\ UNCHANGED <<lh, tail>>
        /\ outstanding' = outstanding - 1
    BY <1>4 DEF end_op
  <2>2. \A q \in Ops : pc[q] \notin CommitPCs
    BY <1>a, <2>1
  <2>3. tail = 1
    BY <1>0, <2>1, <2>2, Zenon DEF ControlInv, CommitPCs
  <2>4. CASE outstanding' = 0
    <3>1. committing' = TRUE /\ pc' = [pc EXCEPT ![p] = IF lh = <<>> THEN "committed" ELSE "write_log"]
      BY <1>4, <2>4, Zenon DEF end_op
    <3>2. InOp' = InOp \ {p} /\ p \in InOp
      BY <1>t, <2>1, <3>1 DEF InOp
    <3>3. outstanding' = Cardinality(InOp')
      BY <1>0, <2>1, <3>2, InOpFinite, FS_RemoveElement, Zenon DEF ControlInv
    <3>4. InOp' = {}
      BY <2>4, <3>2, <3>3, InOpFinite, FS_RemoveElement, FS_EmptySet
    <3>5. \A q \in Ops : pc'[q] \in CommitPCs => q = p
      BY <1>t, <2>2, <3>1
    <3>6. pc'[p] \in {"committed", "write_log"} /\ (pc'[p] # "committed" => lh # <<>>)
      BY <1>t, <3>1
    <3>7. QED
      BY <2>1, <2>3, <2>4, <3>1, <3>3, <3>4, <3>5, <3>6, Zenon DEF ControlInv, CommitAlone, CommitPCs
  <2>5. CASE outstanding' # 0
    <3>1. committing' = committing /\
          pc' = [q \in Ops |-> IF q = p THEN "idle" ELSE IF pc[q] = "sleep" THEN "begin" ELSE pc[q]]
      BY <1>4, <2>5 DEF end_op, wakeupAnd
    <3>2. InOp' = InOp \ {p} /\ p \in InOp
      BY <1>t, <2>1, <3>1, Zenon DEF InOp
    <3>3. outstanding' = Cardinality(InOp')
      BY <1>0, <2>1, <3>2, InOpFinite, FS_RemoveElement, SMTT(30) DEF ControlInv
    <3>4. \A q \in Ops : pc'[q] \notin CommitPCs
      BY <2>2, <3>1 DEF CommitPCs
    <3>5. QED
      BY <2>1, <2>3, <3>3, <3>4 DEF ControlInv, CommitAlone, CommitPCs
  <2>6. QED
    BY <2>4, <2>5
<1>5. ASSUME NEW p \in Ops, commit(p) PROVE ControlInv'
  <2>1. pc[p] \in CommitPCs /\ mode = "up" /\ UNCHANGED <<mode, outstanding>>
    BY <1>5 DEF commit, write_log, write_head, install_trans, clear, end_commit, CommitPCs, install_block
  <2>2. InOp = {} /\ outstanding = 0 /\ committing /\ \A q \in Ops : q # p => pc[q] \notin CommitPCs
    BY <1>0, <2>1 DEF ControlInv, CommitAlone
  <2>3. \A q \in Ops : pc[q] # "op"
    BY <2>2, Zenon DEF InOp
  <2>4. CASE end_commit(p)
    <3>1. pc[p] = "committed" /\ UNCHANGED <<lh, tail>> /\
          pc' = [q \in Ops |-> IF q = p THEN "idle" ELSE IF pc[q] = "sleep" THEN "begin" ELSE pc[q]]
      BY <2>4 DEF end_commit, wakeupAnd
    <3>2. \A q \in Ops : pc'[q] \notin CommitPCs
      BY <2>2, <3>1 DEF CommitPCs
    <3>3. InOp' = InOp
      BY <2>3, <3>1, SameInOp, Zenon
    <3>4. tail = 1
      BY <1>0, <2>1, <2>2, <3>1, Zenon DEF ControlInv, CommitPCs
    <3>5. QED
      BY <1>0, <2>1, <3>1, <3>2, <3>3, <3>4, Zenon DEF ControlInv, CommitAlone, CommitPCs
  <2>5. ASSUME NEW l \in CommitPCs, pc' = [pc EXCEPT ![p] = l], committing' = committing,
               l \in {"write_log", "write_head", "install", "clear"} => lh' # <<>>,
               tail' = 1 \/ (tail' <= Len(lh') /\ l \in {"write_log", "install"})
        PROVE  ControlInv'
    <3>1. pc'[p] = l /\ \A q \in Ops : q # p => pc'[q] = pc[q]
      BY <1>t, <2>5
    <3>2. InOp' = InOp
      BY <2>3, <2>5, <3>1, SameInOp, Zenon DEF CommitPCs
    <3>3. QED
      BY <1>0, <2>1, <2>2, <2>5, <3>1, <3>2, ZenonT(30) DEF ControlInv, CommitAlone, CommitPCs
  <2>6. CASE write_log(p)
    <3>1. /\ pc[p] = "write_log" /\ UNCHANGED <<committing, lh>>
          /\ \/ tail < Len(lh) /\ tail' = tail + 1 /\ pc' = pc
             \/ tail' = 1 /\ pc' = [pc EXCEPT ![p] = "write_head"]
      BY <2>6 DEF write_log
    <3>2. lh # <<>>
      BY <1>0, <3>1 DEF ControlInv
    <3>3. pc = [pc EXCEPT ![p] = "write_log"]
      BY <1>t, <3>1
    <3>4. QED
      BY <1>t, <2>5, <3>1, <3>2, <3>3 DEF CommitPCs
  <2>7. CASE write_head(p)
    <3>1. pc[p] = "write_head" /\ UNCHANGED <<committing, lh, tail>> /\ pc' = [pc EXCEPT ![p] = "install"]
      BY <2>7 DEF write_head
    <3>2. lh # <<>> /\ tail = 1
      BY <1>0, <2>1, <2>2, <3>1, Zenon DEF ControlInv, CommitPCs
    <3>3. QED
      BY <2>5, <3>1, <3>2, Zenon DEF CommitPCs
  <2>8. CASE install_trans(p)
    <3>1. /\ pc[p] = "install" /\ UNCHANGED <<committing, lh>>
          /\ \/ tail < Len(lh) /\ tail' = tail + 1 /\ pc' = pc
             \/ tail' = 1 /\ pc' = [pc EXCEPT ![p] = "clear"]
      BY <2>8 DEF install_trans, install_block
    <3>2. lh # <<>>
      BY <1>0, <3>1 DEF ControlInv
    <3>3. pc = [pc EXCEPT ![p] = "install"]
      BY <1>t, <3>1
    <3>4. QED
      BY <1>t, <2>5, <3>1, <3>2, <3>3 DEF CommitPCs
  <2>9. CASE clear(p)
    <3>1. pc[p] = "clear" /\ UNCHANGED <<committing, tail>> /\ pc' = [pc EXCEPT ![p] = "committed"]
      BY <2>9 DEF clear
    <3>2. tail = 1
      BY <1>0, <2>1, <2>2, <3>1, Zenon DEF ControlInv, CommitPCs
    <3>3. QED
      BY <2>5, <3>1, <3>2 DEF CommitPCs
  <2>10. QED
    BY <1>5, <2>4, <2>6, <2>7, <2>8, <2>9, Zenon DEF commit
<1>6. ASSUME NEW b \in Blocks, Evict(b) PROVE ControlInv'
  <2>1. UNCHANGED <<pc, outstanding, committing, mode, lh, tail>>
    BY <1>6 DEF Evict
  <2>2. QED
    BY <1>0, <2>1, SameInOp DEF ControlInv, CommitAlone
<1>7. CASE Crash
  <2>1. InOp' = {}
    BY <1>7 DEF Crash, InOp
  <2>2. QED
    BY <1>7, <2>1, FS_EmptySet DEF Crash, ControlInv, CommitAlone, CommitPCs
<1>8. CASE recover_from_log
  <2>1. /\ mode \notin {"up", "panic"} /\ UNCHANGED <<pc, outstanding, committing>>
        /\ \A q \in Ops : pc[q] = "idle"
    BY <1>0, <1>8 DEF recover_from_log, read_head, recover_install, recover_clear, install_block, ControlInv
  <2>2. InOp' = InOp
    BY <2>1, SameInOp
  <2>3. CASE read_head
    <3>1. mode = "read_head" /\ lh' = dhead /\ tail' = tail /\ (mode' = "recover_install" => lh' # <<>>)
      BY <2>3 DEF read_head
    <3>2. tail = 1
      BY <1>0, <2>1, <3>1, Zenon DEF ControlInv
    <3>3. QED
      BY <1>0, <2>1, <2>2, <3>1, <3>2, Zenon DEF ControlInv, CommitAlone, CommitPCs
  <2>4. CASE recover_install
    <3>1. /\ mode = "recover_install" /\ lh' = lh
          /\ \/ tail < Len(lh) /\ tail' = tail + 1 /\ mode' = mode
             \/ tail' = 1 /\ mode' = "recover_clear"
      BY <2>4 DEF recover_install, install_block
    <3>2. tail' = 1 \/ tail' <= Len(lh')
      BY <1>t, <3>1
    <3>3. QED
      BY <1>0, <2>1, <2>2, <3>1, <3>2, Zenon DEF ControlInv, CommitAlone, CommitPCs
  <2>5. CASE recover_clear
    <3>1. mode = "recover_clear" /\ mode' = "up" /\ tail' = tail
      BY <2>5 DEF recover_clear
    <3>2. tail = 1
      BY <1>0, <2>1, <3>1, Zenon DEF ControlInv
    <3>3. QED
      BY <1>0, <2>1, <2>2, <3>1, <3>2, Zenon DEF ControlInv, CommitAlone, CommitPCs
  <2>6. QED
    BY <1>8, <2>3, <2>4, <2>5, Zenon DEF recover_from_log
<1>9. QED
  BY <1>1, <1>2, <1>3, <1>4, <1>5, <1>6, <1>7, <1>8, Zenon DEF Next

---------------------------------------------------------------------------
(* What operations write.                                                  *)

\* log_write() in its two outcomes: the block is in the header afterwards, or
\* the kernel panics because the header is full.
LEMMA LogWriteStep ==
  ASSUME TypeOK, NEW p \in Ops, log_write(p)
  PROVE  \E b \in Blocks, v \in Val :
           /\ IsFiniteSet(wrote[p]) => Cardinality(wrote[p] \cup {b}) <= MAXOPBLOCKS
           /\ cache' = [cache EXCEPT ![b] = v]
           /\ wrote' = [wrote EXCEPT ![p] = @ \cup {b}]
           /\ \/ mode' = "panic" /\ UNCHANGED <<lh, pinned>>
              \/ /\ mode' = mode /\ pinned' = pinned \cup {b}
                 /\ \/ lh' = lh /\ b \in inLog
                    \/ lh' = Append(lh, b) /\ b \notin inLog /\ Len(lh) < LOGBLOCKS
<1>1. PICK b \in Blocks, v \in Val :
        /\ Cardinality(wrote[p] \cup {b}) <= MAXOPBLOCKS
        /\ cache' = [cache EXCEPT ![b] = v]
        /\ wrote' = [wrote EXCEPT ![p] = @ \cup {b}]
        /\ IF Len(lh) >= LOGBLOCKS
           THEN mode' = "panic" /\ UNCHANGED <<lh, pinned>>
           ELSE /\ lh' = IF logged(b) THEN lh ELSE Append(lh, b)
                /\ pinned' = pinned \cup {b}
                /\ UNCHANGED mode
  BY Zenon DEF log_write
<1>2. logged(b) <=> b \in inLog
  BY DEF logged, inLog
<1>3. Len(lh) >= LOGBLOCKS \/ Len(lh) < LOGBLOCKS
  BY Types
<1>4. CASE Len(lh) >= LOGBLOCKS
  BY <1>1, <1>4, Zenon
<1>5. CASE Len(lh) < LOGBLOCKS
  <2>1. ~ (Len(lh) >= LOGBLOCKS)
    BY <1>5, Types
  <2>2. QED
    BY <1>1, <1>2, <1>5, <2>1, Zenon
<1>6. QED
  BY <1>3, <1>4, <1>5, Zenon

\* Appending a block adds it to the header.
LEMMA InLogAppend ==
  ASSUME TypeOK, NEW b \in Blocks, lh' = Append(lh, b)
  PROVE  inLog' = inLog \cup {b} /\ Len(lh') = Len(lh) + 1
<1>1. /\ Len(lh) \in Nat /\ Len(lh') = Len(lh) + 1 /\ lh'[Len(lh) + 1] = b
      /\ \A j \in 1..Len(lh) : lh'[j] = lh[j]
  BY AppendFacts, Types
<1>2. 1..Len(lh') = (1..Len(lh)) \cup {Len(lh) + 1}
  BY <1>1
<1>3. QED
  BY <1>1, <1>2 DEF inLog

\* What an operation wrote stays in the log header until the commit.
LEMMA WroteNext == LogInv /\ Next => WroteInv'
<1> SUFFICES ASSUME LogInv, Next PROVE WroteInv'
  OBVIOUS
<1>0. TypeOK /\ ControlInv /\ WroteInv
  BY DEF LogInv
<1>t. pc \in [Ops -> PCs] /\ wrote \in [Ops -> SUBSET Blocks]
  BY <1>0, Types
<1>e. IsFiniteSet({}) /\ Cardinality({}) <= MAXOPBLOCKS
  BY FS_EmptySet, LogAssumption
<1> USE DEF disk, logvars, memory, opvars, goto
\* Steps outside of the operations.
<1>s. ASSUME \A q \in Ops : pc[q] = "op" => pc'[q] = "op", wrote' = wrote, mode' = "up" => mode = "up" /\ lh' = lh
      PROVE  WroteInv'
  BY <1>0, <1>s, Zenon DEF WroteInv, inLog
<1>n. ASSUME \A q \in Ops : wrote'[q] = {} PROVE WroteInv'
  BY <1>e, <1>n, Zenon DEF WroteInv
<1>1. ASSUME NEW p \in Ops, StartCall(p) PROVE WroteInv'
  BY <1>1, <1>s, <1>t, Zenon DEF StartCall
<1>2. ASSUME NEW p \in Ops, begin_op(p) PROVE WroteInv'
  <2>1. \E l \in {"op", "sleep"} : pc' = [pc EXCEPT ![p] = l]
    BY <1>2 DEF begin_op
  <2>2. QED
    BY <1>2, <1>s, <1>t, <2>1, Zenon DEF begin_op
<1>3. ASSUME NEW p \in Ops, log_write(p) PROVE WroteInv'
  <2>1. PICK b \in Blocks, v \in Val :
           /\ IsFiniteSet(wrote[p]) => Cardinality(wrote[p] \cup {b}) <= MAXOPBLOCKS
           /\ wrote' = [wrote EXCEPT ![p] = @ \cup {b}]
           /\ \/ mode' = "panic" /\ UNCHANGED lh
              \/ /\ mode' = mode
                 /\ (lh' = lh /\ b \in inLog) \/ lh' = Append(lh, b)
    BY <1>0, <1>3, LogWriteStep, Zenon
  <2>2. pc[p] = "op" /\ pc' = pc /\ mode = "up"
    BY <1>3 DEF log_write
  <2>3. mode' = "up" => inLog \cup {b} \subseteq inLog'
    <3>1. CASE lh' = lh
      BY <2>1, <3>1 DEF inLog
    <3>2. CASE lh' = Append(lh, b)
      BY <1>0, <3>2, InLogAppend
    <3>3. QED
      BY <2>1, <3>1, <3>2, Zenon
  <2>4. wrote'[p] = wrote[p] \cup {b} /\ \A q \in Ops : q # p => wrote'[q] = wrote[q]
    BY <1>t, <2>1
  <2>5. IsFiniteSet(wrote'[p]) /\ Cardinality(wrote'[p]) <= MAXOPBLOCKS
    <3>1. IsFiniteSet(wrote[p])
      BY <1>0 DEF WroteInv
    <3>2. IsFiniteSet(wrote[p] \cup {b})
      BY <3>1, FS_AddElement
    <3>3. QED
      BY <2>1, <2>4, <3>1, <3>2, Zenon
  <2>6. QED
    BY <1>0, <2>2, <2>3, <2>4, <2>5, Zenon DEF WroteInv
<1>4. ASSUME NEW p \in Ops, end_op(p) PROVE WroteInv'
  <2>1. wrote' = [wrote EXCEPT ![p] = {}] /\ lh' = lh /\ mode = "up"
    BY <1>4 DEF end_op
  <2>2. \A q \in Ops : q # p /\ pc[q] = "op" => pc'[q] = "op"
    BY <1>4, <1>t DEF end_op, wakeupAnd
  <2>3. wrote'[p] = {} /\ \A q \in Ops : q # p => wrote'[q] = wrote[q]
    BY <1>t, <2>1, Zenon
  <2>4. QED
    BY <1>0, <1>e, <2>1, <2>2, <2>3 DEF WroteInv, inLog
<1>5. ASSUME NEW p \in Ops, commit(p) PROVE WroteInv'
  <2>1. pc[p] \in CommitPCs /\ wrote' = wrote
    BY <1>5 DEF commit, write_log, write_head, install_trans, clear, end_commit, CommitPCs
  <2>2. \A q \in Ops : pc[q] # "op"
    BY <1>0, <2>1 DEF ControlInv, CommitAlone, InOp
  <2>3. QED
    BY <1>0, <1>n, <2>1, <2>2, Zenon DEF WroteInv
<1>6. ASSUME NEW b \in Blocks, Evict(b) PROVE WroteInv'
  BY <1>6, <1>s DEF Evict
<1>7. CASE Crash
  BY <1>7, <1>n, Zenon DEF Crash
<1>8. CASE recover_from_log
  <2>1. mode \notin {"up", "panic"} /\ wrote' = wrote
    BY <1>8 DEF recover_from_log, read_head, recover_install, recover_clear
  <2>2. \A q \in Ops : pc[q] # "op"
    BY <1>0, <2>1 DEF ControlInv
  <2>3. QED
    BY <1>0, <1>n, <2>1, <2>2 DEF WroteInv
<1>9. QED
  BY <1>1, <1>2, <1>3, <1>4, <1>5, <1>6, <1>7, <1>8, SMTT(30) DEF Next

---------------------------------------------------------------------------
(* The reservation of begin_op().                                          *)

\* There are no more reserved blocks than MAXOPBLOCKS for each operation.
LEMMA MayAddBound ==
  IsFiniteSet(mayAdd) /\ Cardinality(mayAdd) \in Nat
  /\ Cardinality(mayAdd) <= Cardinality(InOp) * MAXOPBLOCKS
<1>1. IsFiniteSet(1..MAXOPBLOCKS) /\ Cardinality(1..MAXOPBLOCKS) = MAXOPBLOCKS
  BY LogAssumption, FS_Interval
<1>2. /\ IsFiniteSet(InOp \X (1..MAXOPBLOCKS))
      /\ Cardinality(InOp \X (1..MAXOPBLOCKS)) = Cardinality(InOp) * MAXOPBLOCKS
  BY <1>1, InOpFinite, FS_Product, Zenon
<1>3. mayAdd \subseteq InOp \X (1..MAXOPBLOCKS)
  BY DEF mayAdd
<1>4. QED
  BY <1>2, <1>3, FS_Subset, FS_CardinalityType

\* Fewer reserved blocks.
LEMMA MayAddLess ==
  ASSUME mayAdd' \subseteq mayAdd
  PROVE  Cardinality(mayAdd') <= Cardinality(mayAdd) /\ Cardinality(mayAdd') \in Nat
  BY MayAddBound, FS_Subset, FS_CardinalityType

\* The room that begin_op() reserved suffices after every step.
LEMMA SpaceNext == LogInv /\ SpaceReserved /\ Next => SpaceReserved'
<1> SUFFICES ASSUME LogInv, SpaceReserved, Next, mode' = "up" PROVE Len(lh') + Cardinality(mayAdd') <= LOGBLOCKS
  BY DEF SpaceReserved
<1>0. TypeOK /\ ControlInv /\ WroteInv
  BY DEF LogInv
<1>t. /\ pc \in [Ops -> PCs] /\ wrote \in [Ops -> SUBSET Blocks] /\ Len(lh) \in Nat /\ outstanding \in Nat
      /\ LOGBLOCKS \in Nat /\ MAXOPBLOCKS \in Nat
  BY <1>0, Types, LogAssumption
<1>s. ASSUME mode = "up", InOp' \subseteq InOp, \A q \in InOp' : wrote'[q] = wrote[q], lh' = lh
      PROVE  Len(lh') + Cardinality(mayAdd') <= LOGBLOCKS
  <2>1. mayAdd' \subseteq mayAdd
    BY <1>s DEF mayAdd
  <2>2. QED
    BY <1>s, <1>t, <2>1, MayAddLess, MayAddBound, SMTT(30) DEF SpaceReserved
<1>n. ASSUME InOp' = {}, Len(lh') \in Nat, Len(lh') <= LOGBLOCKS
      PROVE  Len(lh') + Cardinality(mayAdd') <= LOGBLOCKS
  <2>1. mayAdd' = {}
    BY <1>n DEF mayAdd
  <2>2. QED
    BY <1>n, <1>t, <2>1, FS_EmptySet
<1>l. Len(lh') \in Nat /\ Len(lh') <= LOGBLOCKS
  <2>1. TypeOK'
    BY TypeNext
  <2>2. QED
    BY <2>1, SeqFacts DEF TypeOK
<1> USE DEF disk, logvars, memory, opvars, goto
<1>1. ASSUME NEW p \in Ops, StartCall(p) PROVE Len(lh') + Cardinality(mayAdd') <= LOGBLOCKS
  BY <1>1, <1>s, <1>t DEF StartCall, InOp
<1>2. ASSUME NEW p \in Ops, begin_op(p) PROVE Len(lh') + Cardinality(mayAdd') <= LOGBLOCKS
  <2>1. mode = "up" /\ pc[p] = "begin" /\ UNCHANGED <<lh, wrote>>
    BY <1>2 DEF begin_op
  <2>2. CASE mustWait
    BY <1>2, <1>s, <1>t, <2>1, <2>2, Zenon DEF begin_op, InOp
  <2>3. CASE ~ mustWait
    <3>1. pc' = [pc EXCEPT ![p] = "op"] /\ Len(lh) + (outstanding + 1) * MAXOPBLOCKS <= LOGBLOCKS
      BY <1>2, <1>t, <2>3 DEF begin_op, mustWait
    <3>2. outstanding' = outstanding + 1 /\ outstanding' = Cardinality(InOp')
      BY <1>2, <2>3, ControlNext, Zenon DEF begin_op, ControlInv
    <3>3. InOp' = InOp \cup {p}
      BY <1>t, <2>1, <3>1 DEF InOp
    <3>4. IsFiniteSet(InOp')
      BY <3>3, InOpFinite, FS_AddElement
    <3>5. Cardinality(mayAdd') \in Nat /\ Cardinality(mayAdd') <= (outstanding + 1) * MAXOPBLOCKS
      <4>1. /\ IsFiniteSet(1..MAXOPBLOCKS) /\ Cardinality(1..MAXOPBLOCKS) = MAXOPBLOCKS
        BY LogAssumption, FS_Interval
      <4>2. /\ IsFiniteSet(InOp' \X (1..MAXOPBLOCKS))
            /\ Cardinality(InOp' \X (1..MAXOPBLOCKS)) = Cardinality(InOp') * MAXOPBLOCKS
        BY <3>4, <4>1, FS_Product, Zenon
      <4>3. mayAdd' \subseteq InOp' \X (1..MAXOPBLOCKS)
        BY DEF mayAdd
      <4>4. QED
        BY <3>2, <4>2, <4>3, FS_Subset, FS_CardinalityType
    <3>6. Len(lh') = Len(lh)
      BY <2>1
    <3>7. (outstanding + 1) * MAXOPBLOCKS \in Nat
      BY <1>t
    <3> DEFINE room == (outstanding + 1) * MAXOPBLOCKS
    <3> HIDE DEF room
    <3>8. QED
      BY <1>t, <3>1, <3>5, <3>6, <3>7 DEF room
  <2>4. QED
    BY <2>2, <2>3
<1>3. ASSUME NEW p \in Ops, log_write(p) PROVE Len(lh') + Cardinality(mayAdd') <= LOGBLOCKS
  <2>1. PICK b \in Blocks, v \in Val :
           /\ IsFiniteSet(wrote[p]) => Cardinality(wrote[p] \cup {b}) <= MAXOPBLOCKS
           /\ wrote' = [wrote EXCEPT ![p] = @ \cup {b}]
           /\ \/ mode' = "panic" /\ UNCHANGED lh
              \/ /\ mode' = mode
                 /\ \/ lh' = lh /\ b \in inLog
                    \/ lh' = Append(lh, b) /\ b \notin inLog
    BY <1>0, <1>3, LogWriteStep, Zenon
  <2>2. pc[p] = "op" /\ pc' = pc /\ mode = "up"
    BY <1>3 DEF log_write
  <2>3. InOp' = InOp /\ p \in InOp
    BY <2>2 DEF InOp
  <2>4. IsFiniteSet(wrote[p]) /\ Cardinality(wrote[p]) \in Nat
    BY <1>0, FS_CardinalityType DEF WroteInv
  <2>5. /\ wrote'[p] = wrote[p] \cup {b} /\ \A q \in Ops : q # p => wrote'[q] = wrote[q]
        /\ Cardinality(wrote'[p]) = IF b \in wrote[p] THEN Cardinality(wrote[p]) ELSE Cardinality(wrote[p]) + 1
    BY <1>t, <2>1, <2>4, FS_AddElement, ZenonT(30)
  <2>6. mayAdd' \subseteq mayAdd
    <3>1. Cardinality(wrote[p]) <= Cardinality(wrote'[p]) /\ Cardinality(wrote'[p]) \in Nat
      BY <2>4, <2>5
    <3>2. ASSUME NEW x \in mayAdd' PROVE x \in mayAdd
      <4>1. x \in InOp \X (1..MAXOPBLOCKS) /\ x[2] > Cardinality(wrote'[x[1]]) /\ x[1] \in Ops /\ x[2] \in Nat
        BY <1>t, <2>3, <3>2, SMTT(30) DEF mayAdd, InOp
      <4>2. CASE x[1] = p
        BY <2>4, <3>1, <4>1, <4>2 DEF mayAdd
      <4>3. CASE x[1] # p
        BY <2>5, <4>1, <4>3, Zenon DEF mayAdd
      <4>4. QED
        BY <4>2, <4>3
    <3>3. QED
      BY <3>2
  <2>7. CASE lh' = lh
    BY <1>t, <2>2, <2>6, <2>7, MayAddLess, MayAddBound DEF SpaceReserved
  <2>8. CASE lh' = Append(lh, b) /\ b \notin inLog
    <3>1. b \notin wrote[p]
      BY <1>0, <2>2, <2>8, Zenon DEF WroteInv
    <3>2. Cardinality(wrote'[p]) = Cardinality(wrote[p]) + 1 /\ Cardinality(wrote'[p]) <= MAXOPBLOCKS
      BY <2>1, <2>4, <2>5, <3>1, ZenonT(30)
    <3> DEFINE c == Cardinality(wrote'[p])
    <3>3. c \in 1..MAXOPBLOCKS /\ c > Cardinality(wrote[p]) /\ ~ (c > c)
      BY <1>t, <2>4, <3>2, SMTT(30)
    <3>4. <<p, c>> \in mayAdd /\ <<p, c>> \notin mayAdd'
      BY <2>3, <3>3 DEF mayAdd
    <3>5. mayAdd' \subseteq mayAdd \ {<<p, c>>}
      BY <2>6, <3>4
    <3>6. IsFiniteSet(mayAdd \ {<<p, c>>}) /\ Cardinality(mayAdd \ {<<p, c>>}) = Cardinality(mayAdd) - 1
      BY <3>4, MayAddBound, FS_RemoveElement, SMTT(30)
    <3>7. Cardinality(mayAdd') <= Cardinality(mayAdd) - 1 /\ Cardinality(mayAdd') \in Nat
      BY <3>5, <3>6, FS_Subset, FS_CardinalityType
    <3>8. Len(lh') = Len(lh) + 1
      BY <1>0, <2>8, InLogAppend
    <3>9. QED
      BY <1>t, <2>2, <3>7, <3>8, MayAddBound DEF SpaceReserved
  <2>9. QED
    BY <2>1, <2>7, <2>8
<1>4. ASSUME NEW p \in Ops, end_op(p) PROVE Len(lh') + Cardinality(mayAdd') <= LOGBLOCKS
  <2>1. wrote' = [wrote EXCEPT ![p] = {}] /\ lh' = lh /\ mode = "up"
    BY <1>4 DEF end_op
  <2>2. \A q \in Ops : pc'[q] = "op" => q # p /\ pc[q] = "op"
    BY <1>4, <1>t DEF end_op, wakeupAnd
  <2>3. InOp' \subseteq InOp /\ \A q \in InOp' : wrote'[q] = wrote[q]
    BY <1>t, <2>1, <2>2 DEF InOp
  <2>4. QED
    BY <1>s, <2>1, <2>3
<1>5. ASSUME NEW p \in Ops, commit(p) PROVE Len(lh') + Cardinality(mayAdd') <= LOGBLOCKS
  <2>1. pc[p] \in CommitPCs
    BY <1>5 DEF commit, write_log, write_head, install_trans, clear, end_commit, CommitPCs
  <2>2. \A q \in Ops : pc[q] # "op"
    BY <1>0, <2>1, Zenon DEF ControlInv, CommitAlone, InOp
  <2>3. \A q \in Ops : pc'[q] # "op"
    BY <1>5, <1>t, <2>2 DEF commit, write_log, write_head, install_trans, clear, end_commit, wakeupAnd
  <2>4. InOp' = {}
    BY <2>3 DEF InOp
  <2>5. QED
    BY <1>l, <1>n, <2>4, Zenon
<1>6. ASSUME NEW b \in Blocks, Evict(b) PROVE Len(lh') + Cardinality(mayAdd') <= LOGBLOCKS
  BY <1>6, <1>s DEF Evict, InOp
<1>7. CASE Crash
  BY <1>7 DEF Crash
<1>8. CASE recover_from_log
  <2>1. mode \notin {"up", "panic"} /\ pc' = pc
    BY <1>8 DEF recover_from_log, read_head, recover_install, recover_clear
  <2>2. InOp' = {}
    BY <1>0, <2>1 DEF ControlInv, InOp
  <2>3. QED
    BY <1>l, <1>n, <2>2, Zenon
<1>9. QED
  BY <1>1, <1>2, <1>3, <1>4, <1>5, <1>6, <1>7, <1>8 DEF Next

---------------------------------------------------------------------------
(* The header in memory and on disk.                                       *)

\* Nobody else is in commit(), and no operation is in progress.
LEMMA Alone ==
  ASSUME ControlInv, NEW p \in Ops, pc[p] \in CommitPCs
  PROVE  \A q \in Ops : pc[q] # "op" /\ (pc[q] \in CommitPCs => q = p)
  BY Zenon DEF ControlInv, CommitAlone, InOp

\* While an operation is in progress nobody is in commit().
LEMMA NoCommit ==
  ASSUME ControlInv, NEW p \in Ops, pc[p] = "op", mode = "up"
  PROVE  tail = 1 /\ \A q \in Ops : pc[q] \notin CommitPCs
<1>1. \A q \in Ops : pc[q] \notin CommitPCs
  BY Zenon DEF ControlInv, CommitAlone, InOp
<1>2. QED
  BY <1>1 DEF ControlInv, CommitPCs

\* HeaderInv is preserved.
LEMMA HeaderNext == LogInv /\ Next => HeaderInv'
<1> SUFFICES ASSUME LogInv, Next PROVE HeaderInv'
  OBVIOUS
<1>0. TypeOK /\ ControlInv /\ HeaderInv
  BY DEF LogInv
<1>t. /\ pc \in [Ops -> PCs] /\ tail \in Nat /\ tail >= 1 /\ Len(lh) \in Nat /\ lh \in Seq(Blocks)
      /\ \A j \in 1..Len(lh) : lh[j] \in Blocks
  BY <1>0, Types
<1>e. Len(<<>>) = 0
  OBVIOUS
<1> USE DEF disk, logvars, memory, opvars, goto
\* Steps that leave the headers alone.
<1>s. ASSUME UNCHANGED <<lh, dhead, pinned>>, mode \in {"up", "panic"}, mode' \in {"up", "panic"},
             \A q \in Ops : /\ pc'[q] = "install" <=> pc[q] = "install"
                            /\ pc'[q] = "clear" <=> pc[q] = "clear",
             tail' = tail \/ \A q \in Ops : pc'[q] # "install"
      PROVE  HeaderInv'
  BY <1>0, <1>s DEF HeaderInv
<1>1. ASSUME NEW p \in Ops, StartCall(p) PROVE HeaderInv'
  BY <1>1, <1>s, <1>t, Zenon DEF StartCall
<1>2. ASSUME NEW p \in Ops, begin_op(p) PROVE HeaderInv'
  <2>1. /\ pc[p] = "begin" /\ mode = "up" /\ UNCHANGED <<lh, dhead, pinned, mode, tail>>
        /\ \E l \in {"op", "sleep"} : pc' = [pc EXCEPT ![p] = l]
    BY <1>2 DEF begin_op
  <2>2. QED
    BY <1>s, <1>t, <2>1
<1>3. ASSUME NEW p \in Ops, log_write(p) PROVE HeaderInv'
  <2>1. PICK b \in Blocks, v \in Val :
           \/ mode' = "panic" /\ UNCHANGED <<lh, pinned>>
           \/ /\ mode' = mode /\ pinned' = pinned \cup {b}
              /\ \/ lh' = lh /\ b \in inLog
                 \/ lh' = Append(lh, b) /\ b \notin inLog
    BY <1>0, <1>3, LogWriteStep, Zenon
  <2>2. pc[p] = "op" /\ mode = "up" /\ UNCHANGED <<dhead, tail, pc>>
    BY <1>3 DEF log_write
  <2>3. \A q \in Ops : pc[q] \notin CommitPCs
    BY <1>0, <2>2, NoCommit
  <2>4. dhead = <<>>
    BY <1>0, <2>2, <2>3, SMTT(30) DEF HeaderInv, CommitPCs
  <2>5. CASE mode' = "panic" /\ UNCHANGED <<lh, pinned>>
    BY <1>s, <2>2, <2>5, SMTT(30)
  <2>6. CASE mode' = mode /\ pinned' = pinned \cup {b} /\ lh' = lh /\ b \in inLog
    <3>1. \A c \in pinned' : \E j \in 1..Len(lh') : lh'[j] = c
      BY <1>0, <2>6 DEF HeaderInv, inLog
    <3>2. QED
      BY <1>0, <2>2, <2>3, <2>6, <3>1 DEF HeaderInv, CommitPCs
  <2>7. CASE mode' = mode /\ pinned' = pinned \cup {b} /\ lh' = Append(lh, b) /\ b \notin inLog
    <3>1. /\ Len(lh') = Len(lh) + 1 /\ lh'[Len(lh) + 1] = b
          /\ \A j \in 1..Len(lh) : lh'[j] = lh[j]
      BY <1>t, <2>7, AppendFacts, Zenon
    <3>2. \A j \in 1..Len(lh) : lh[j] # b
      BY <2>7, ZenonT(30) DEF inLog
    <3>3. \A i, j \in 1..Len(lh') : lh'[i] = lh'[j] => i = j
      BY <1>0, <1>t, <3>1, <3>2, SMTT(30) DEF HeaderInv
    <3>4. \A c \in pinned' : \E j \in 1..Len(lh') : lh'[j] = c
      BY <1>0, <1>t, <2>7, <3>1 DEF HeaderInv
    <3>5. QED
      BY <1>e, <2>2, <2>3, <2>4, <2>7, <3>3, <3>4, SMTT(30) DEF HeaderInv, CommitPCs
  <2>8. QED
    BY <2>1, <2>5, <2>6, <2>7, Zenon
<1>4. ASSUME NEW p \in Ops, end_op(p) PROVE HeaderInv'
  <2>1. pc[p] = "op" /\ mode = "up" /\ mode' \in {"up", "panic"} /\ UNCHANGED <<lh, dhead, pinned, tail>>
    BY <1>4 DEF end_op
  <2>2. \A q \in Ops : pc'[q] \notin {"install", "clear"} /\ pc[q] \notin {"install", "clear"}
    <3>1. \A q \in Ops : pc[q] \notin CommitPCs
      BY <1>0, <2>1, NoCommit, Zenon
    <3>2. QED
      BY <1>4, <1>t, <3>1, Zenon DEF end_op, wakeupAnd, CommitPCs
  <2>3. QED
    BY <1>s, <2>1, <2>2, ZenonT(30)
<1>5. ASSUME NEW p \in Ops, commit(p) PROVE HeaderInv'
  <2>0. mode = "up" /\ mode' = "up" /\ pc[p] \in CommitPCs
    BY <1>5 DEF commit, write_log, write_head, install_trans, clear, end_commit, CommitPCs
  <2>a. \A q \in Ops : q # p => pc[q] \notin CommitPCs
    BY <1>0, <2>0, Alone, Zenon
  <2>1. CASE write_log(p)
    <3>1. pc[p] = "write_log" /\ UNCHANGED <<lh, dhead, pinned>> /\ (pc' = pc \/ pc' = [pc EXCEPT ![p] = "write_head"])
      BY <2>1, Zenon DEF write_log
    <3>2. \A q \in Ops : pc'[q] \notin {"install", "clear"} /\ pc[q] \notin {"install", "clear"}
      BY <1>t, <2>a, <3>1, ZenonT(30) DEF CommitPCs
    <3>3. QED
      BY <1>s, <2>0, <3>1, <3>2, Zenon
  <2>2. CASE write_head(p)
    <3>1. pc[p] = "write_head" /\ dhead' = lh /\ pc' = [pc EXCEPT ![p] = "install"] /\ UNCHANGED <<lh, pinned, tail>>
      BY <2>2, Zenon DEF write_head
    <3>2. tail = 1
      BY <1>0, <2>0, <2>a, <3>1, Zenon DEF ControlInv, CommitPCs
    <3>3. pc'[p] = "install" /\ \A q \in Ops : q # p => pc'[q] \notin CommitPCs
      BY <1>t, <2>a, <3>1, Zenon
    <3>4. \A c \in pinned' : \E j \in 1..Len(lh') : lh'[j] = c /\ tail' <= j
      BY <1>0, <1>t, <3>1, <3>2 DEF HeaderInv
    <3>5. QED
      BY <1>0, <2>0, <3>1, <3>3, <3>4 DEF HeaderInv, CommitPCs
  <2>3. CASE install_trans(p)
    <3>1. pc[p] = "install" /\ pinned' = pinned \ {lh[tail]} /\ UNCHANGED <<lh, dhead>>
      BY <2>3, Zenon DEF install_trans, install_block
    <3>2. tail \in 1..Len(lh)
      BY <1>0, <3>1, TailInside, Zenon
    <3>3. dhead = lh
      BY <1>0, <2>0, <3>1, Zenon DEF HeaderInv
    <3>4. \A c \in pinned' : \E j \in 1..Len(lh) : lh[j] = c /\ tail < j
      BY <1>0, <1>t, <3>1, <3>2 DEF HeaderInv
    <3>5. CASE tail < Len(lh)
      <4>1. pc' = pc /\ tail' = tail + 1
        BY <2>3, <3>5 DEF install_trans, install_block
      <4>2. \A c \in pinned' : \E j \in 1..Len(lh) : lh[j] = c /\ tail' <= j
        BY <1>t, <3>4, <4>1
      <4>3. QED
        BY <1>0, <2>0, <2>a, <3>1, <3>3, <4>1, <4>2, SMTT(30) DEF HeaderInv, CommitPCs
    <3>6. CASE ~ (tail < Len(lh))
      <4>1. pc' = [pc EXCEPT ![p] = "clear"]
        BY <2>3, <3>6, Zenon DEF install_trans, install_block
      <4>2. pinned' = {}
        BY <1>t, <3>4, <3>6
      <4>3. pc'[p] = "clear"
        BY <1>t, <4>1, ZenonT(30)
      <4>4. QED
        BY <1>0, <2>0, <3>1, <3>3, <4>2, <4>3, SMTT(30) DEF HeaderInv
    <3>7. QED
      BY <3>5, <3>6, Zenon
  <2>4. CASE clear(p)
    <3>1. pc[p] = "clear" /\ lh' = <<>> /\ dhead' = <<>> /\ pinned' = pinned /\ pc' = [pc EXCEPT ![p] = "committed"]
      BY <2>4, Zenon DEF clear
    <3>2. pinned = {}
      BY <1>0, <3>1, Zenon DEF HeaderInv
    <3>3. QED
      BY <1>e, <2>0, <3>1, <3>2 DEF HeaderInv
  <2>5. CASE end_commit(p)
    <3>1. pc[p] = "committed" /\ UNCHANGED <<lh, dhead, pinned, tail>>
      BY <2>5, Zenon DEF end_commit
    <3>2. \A q \in Ops : pc'[q] \notin {"install", "clear"} /\ pc[q] \notin {"install", "clear"}
      BY <1>t, <2>5, <2>a, <3>1, Zenon DEF end_commit, wakeupAnd, CommitPCs
    <3>3. QED
      BY <1>s, <2>0, <3>1, <3>2, Zenon
  <2>6. QED
    BY <1>5, <2>1, <2>2, <2>3, <2>4, <2>5, SMTT(30) DEF commit
<1>6. ASSUME NEW b \in Blocks, Evict(b) PROVE HeaderInv'
  BY <1>6, <1>s, Zenon DEF Evict
<1>7. CASE Crash
  <2>1. lh' = <<>> /\ pinned' = {} /\ mode' = "read_head" /\ dhead' = dhead
    BY <1>7, Zenon DEF Crash
  <2>2. QED
    BY <1>0, <1>e, <2>1 DEF HeaderInv
<1>8. CASE recover_from_log
  <2>1. CASE read_head
    <3>1. lh' = dhead /\ dhead' = dhead /\ pinned' = pinned /\ mode' \in {"recover_clear", "recover_install"} /\ mode = "read_head"
      BY <2>1, Zenon DEF read_head
    <3>2. QED
      BY <1>0, <3>1 DEF HeaderInv
  <2>2. CASE recover_install
    <3>1. UNCHANGED <<lh, dhead, pinned>> /\ mode' \in {"recover_clear", "recover_install"} /\ mode = "recover_install"
      BY <2>2 DEF recover_install, install_block
    <3>2. QED
      BY <1>0, <3>1 DEF HeaderInv
  <2>3. CASE recover_clear
    <3>1. lh' = <<>> /\ dhead' = <<>> /\ pinned' = pinned /\ mode = "recover_clear"
      BY <2>3 DEF recover_clear
    <3>2. pinned' = {} /\ mode' = "up"
      BY <1>0, <2>3, <3>1, Zenon DEF HeaderInv, recover_clear
    <3>3. QED
      BY <1>e, <3>1, <3>2 DEF HeaderInv
  <2>4. QED
    BY <1>8, <2>1, <2>2, <2>3 DEF recover_from_log
<1>9. QED
  BY <1>1, <1>2, <1>3, <1>4, <1>5, <1>6, <1>7, <1>8 DEF Next

---------------------------------------------------------------------------
(* The copies in the cache, in the log and at home.                        *)

\* One block of install_trans(): the blocks copied so far are home.
LEMMA InstallStep ==
  ASSUME TypeOK, HeaderInv, tail \in 1..Len(lh), install_block,
         \A j \in 1..Len(lh) : j < tail => home[lh[j]] = logblock[j]
  PROVE  /\ UNCHANGED <<lh, dhead, logblock>>
         /\ \A j \in 1..Len(lh) : j <= tail => home'[lh[j]] = logblock[j]
         /\ home'[lh[tail]] = logblock[tail] /\ cache'[lh[tail]] = logblock[tail]
         /\ \A b \in Blocks : b # lh[tail] => home'[b] = home[b] /\ cache'[b] = cache[b]
<1>1. /\ home \in [Blocks -> Val] /\ cache \in [Blocks -> Val] /\ \A j \in 1..Len(lh) : lh[j] \in Blocks
      /\ Len(lh) \in Nat /\ tail \in Nat
  BY Types
<1>2. /\ UNCHANGED <<lh, dhead, logblock>>
      /\ home' = [home EXCEPT ![lh[tail]] = logblock[tail]]
      /\ cache' = [cache EXCEPT ![lh[tail]] = logblock[tail]]
  BY DEF install_block, logvars
<1>3. /\ home'[lh[tail]] = logblock[tail] /\ cache'[lh[tail]] = logblock[tail]
      /\ \A b \in Blocks : b # lh[tail] => home'[b] = home[b] /\ cache'[b] = cache[b]
  BY <1>1, <1>2, Zenon
<1>4. ASSUME NEW j \in 1..Len(lh), j <= tail PROVE home'[lh[j]] = logblock[j]
  <2>1. CASE j = tail
    BY <1>3, <2>1, Zenon
  <2>2. CASE j # tail
    <3>1. lh[j] # lh[tail] /\ j < tail
      BY <1>1, <1>4, <2>2, SMTT(30) DEF HeaderInv
    <3>2. QED
      BY <1>1, <1>3, <3>1, Zenon
  <2>3. QED
    BY <2>1, <2>2, Zenon
<1>5. QED
  BY <1>2, <1>3, <1>4, Zenon

\* CopyInv is preserved.
LEMMA CopyNext == LogInv /\ Next => CopyInv'
<1> SUFFICES ASSUME LogInv, Next PROVE CopyInv'
  OBVIOUS
<1>0. TypeOK /\ ControlInv /\ HeaderInv /\ CopyInv
  BY DEF LogInv
<1>t. /\ pc \in [Ops -> PCs] /\ tail \in Nat /\ tail >= 1 /\ Len(lh) \in Nat /\ Len(lh) <= LOGBLOCKS
      /\ \A j \in 1..Len(lh) : lh[j] \in Blocks
      /\ home \in [Blocks -> Val] /\ cache \in [Blocks -> Val] /\ logblock \in [1..LOGBLOCKS -> Val]
      /\ LOGBLOCKS \in Nat
  BY <1>0, Types
<1>e. Len(<<>>) = 0
  OBVIOUS
<1> USE DEF disk, logvars, memory, opvars, goto
\* Steps that copy nothing.
<1>s. ASSUME UNCHANGED <<lh, pinned, home, cache, logblock, tail>>,
             mode = "up", mode' \in {"up", "panic"},
             \A q \in Ops : pc[q] \in CommitPCs \/ pc'[q] \in CommitPCs => pc'[q] = pc[q]
      PROVE  CopyInv'
  BY <1>0, <1>s, Zenon DEF CopyInv, CommitPCs
\* Steps after which nobody is in commit().
<1>n. ASSUME mode' \in {"up", "panic"},
             mode' = "up" => \A b \in Blocks \ pinned' : cache'[b] = home'[b],
             \A q \in Ops : pc'[q] \notin CommitPCs \ {"committed"}
      PROVE  CopyInv'
  BY <1>n, Zenon DEF CopyInv, CommitPCs
<1>1. ASSUME NEW p \in Ops, StartCall(p) PROVE CopyInv'
  BY <1>1, <1>s, <1>t, Zenon DEF StartCall, CommitPCs
<1>2. ASSUME NEW p \in Ops, begin_op(p) PROVE CopyInv'
  <2>1. /\ pc[p] = "begin" /\ mode = "up" /\ UNCHANGED <<lh, pinned, home, cache, logblock, tail, mode>>
        /\ \E l \in {"op", "sleep"} : pc' = [pc EXCEPT ![p] = l]
    BY <1>2, Zenon DEF begin_op
  <2>2. QED
    BY <1>s, <1>t, <2>1, Zenon DEF CommitPCs
<1>3. ASSUME NEW p \in Ops, log_write(p) PROVE CopyInv'
  <2>1. PICK b \in Blocks, v \in Val :
           /\ cache' = [cache EXCEPT ![b] = v]
           /\ \/ mode' = "panic" /\ UNCHANGED <<lh, pinned>>
              \/ mode' = mode /\ pinned' = pinned \cup {b}
    BY <1>0, <1>3, LogWriteStep, Zenon
  <2>2. pc[p] = "op" /\ mode = "up" /\ UNCHANGED <<home, pc>>
    BY <1>3 DEF log_write
  <2>3. \A q \in Ops : pc'[q] \notin CommitPCs
    BY <1>0, <2>2, NoCommit
  <2>4. mode' = "up" => \A c \in Blocks \ pinned' : cache'[c] = home'[c]
    BY <1>0, <1>t, <2>1, <2>2 DEF CopyInv
  <2>5. QED
    BY <1>n, <2>1, <2>2, <2>3, <2>4, Zenon
<1>4. ASSUME NEW p \in Ops, end_op(p) PROVE CopyInv'
  <2>1. /\ pc[p] = "op" /\ mode = "up" /\ mode' \in {"up", "panic"}
        /\ UNCHANGED <<lh, home, cache, logblock, pinned, tail>>
    BY <1>4 DEF end_op
  <2>2. tail = 1 /\ \A q \in Ops : pc[q] \notin CommitPCs
    BY <1>0, <2>1, NoCommit, Zenon
  <2>3. \A q \in Ops : pc'[q] \notin {"write_head", "install", "clear"}
    BY <1>4, <1>t, <2>2, Zenon DEF end_op, wakeupAnd, CommitPCs
  <2>4. \A j \in 1..Len(lh') : ~ (j < tail')
    BY <1>t, <2>1, <2>2, SMTT(30)
  <2>5. QED
    BY <1>0, <2>1, <2>3, <2>4, Zenon DEF CopyInv
<1>5. ASSUME NEW p \in Ops, commit(p) PROVE CopyInv'
  <2>0. mode = "up" /\ mode' = "up" /\ pc[p] \in CommitPCs
    BY <1>5 DEF commit, write_log, write_head, install_trans, clear, end_commit, CommitPCs
  <2>a. \A q \in Ops : q # p => pc[q] \notin CommitPCs
    BY <1>0, <2>0, Alone, Zenon
  <2>c. \A b \in Blocks \ pinned : cache[b] = home[b]
    BY <1>0, <2>0, Zenon DEF CopyInv
  <2>1. CASE write_log(p)
    <3>1. /\ pc[p] = "write_log" /\ UNCHANGED <<lh, home, cache, pinned>>
          /\ logblock' = [logblock EXCEPT ![tail] = cache[lh[tail]]]
      BY <2>1, Zenon DEF write_log
    <3>2. tail \in 1..Len(lh)
      BY <1>0, <3>1, TailInside, Zenon
    <3>3. \A j \in 1..Len(lh) : j <= tail => logblock'[j] = cache[lh[j]]
      BY <1>0, <1>t, <3>1, <3>2 DEF CopyInv
    <3>4. CASE tail < Len(lh)
      <4>1. pc' = pc /\ tail' = tail + 1
        BY <2>1, <3>4, Zenon DEF write_log
      <4>2. \A j \in 1..Len(lh) : j < tail' => logblock'[j] = cache[lh[j]]
        BY <1>t, <3>3, <4>1
      <4>3. \A q \in Ops : pc'[q] \notin {"write_head", "install", "clear"}
        BY <2>a, <3>1, <4>1, Zenon DEF CommitPCs
      <4>4. QED
        BY <2>0, <2>c, <3>1, <4>2, <4>3, ZenonT(30) DEF CopyInv
    <3>5. CASE ~ (tail < Len(lh))
      <4>1. pc' = [pc EXCEPT ![p] = "write_head"]
        BY <2>1, <3>5, Zenon DEF write_log
      <4>2. \A j \in 1..Len(lh) : logblock'[j] = cache[lh[j]]
        BY <1>t, <3>2, <3>3, <3>5
      <4>3. \A q \in Ops : pc'[q] \notin {"write_log", "install", "clear"}
        BY <1>t, <2>a, <4>1, Zenon DEF CommitPCs
      <4>4. QED
        BY <2>0, <2>c, <3>1, <4>2, <4>3, Zenon DEF CopyInv
    <3>6. QED
      BY <3>4, <3>5
  <2>2. CASE write_head(p)
    <3>1. /\ pc[p] = "write_head" /\ pc' = [pc EXCEPT ![p] = "install"]
          /\ UNCHANGED <<lh, pinned, tail, home, cache, logblock>>
      BY <2>2, Zenon DEF write_head
    <3>2. tail = 1
      BY <1>0, <2>0, <2>a, <3>1, ZenonT(30) DEF ControlInv, CommitPCs
    <3>3. \A j \in 1..Len(lh) : logblock[j] = cache[lh[j]] /\ ~ (j < tail)
      BY <1>0, <1>t, <3>1, <3>2 DEF CopyInv
    <3>4. \A q \in Ops : pc'[q] \notin {"write_log", "write_head", "clear"}
      BY <1>t, <2>a, <3>1, ZenonT(30) DEF CommitPCs
    <3>5. QED
      BY <2>0, <2>c, <3>1, <3>3, <3>4, Zenon DEF CopyInv
  <2>3. CASE install_trans(p)
    <3>1. pc[p] = "install" /\ pinned' = pinned \ {lh[tail]} /\ install_block
      BY <2>3 DEF install_trans
    <3>2. tail \in 1..Len(lh) /\ lh[tail] \in Blocks
      BY <1>0, <3>1, TailInside, Zenon
    <3>3. /\ \A j \in 1..Len(lh) : logblock[j] = cache[lh[j]]
          /\ \A j \in 1..Len(lh) : j < tail => home[lh[j]] = logblock[j]
      BY <1>0, <3>1, Zenon DEF CopyInv
    <3>4. /\ UNCHANGED <<lh, dhead, logblock>>
          /\ \A j \in 1..Len(lh) : j <= tail => home'[lh[j]] = logblock[j]
          /\ home'[lh[tail]] = logblock[tail] /\ cache'[lh[tail]] = logblock[tail]
          /\ \A b \in Blocks : b # lh[tail] => home'[b] = home[b] /\ cache'[b] = cache[b]
      BY <1>0, <3>1, <3>2, <3>3, InstallStep, Zenon
    <3>5. \A b \in Blocks : cache'[b] = cache[b]
      BY <3>2, <3>3, <3>4, Zenon
    <3>6. \A b \in Blocks \ pinned' : cache'[b] = home'[b]
      BY <2>c, <3>1, <3>4, Zenon
    <3>7. \A j \in 1..Len(lh) : logblock'[j] = cache'[lh'[j]]
      BY <1>t, <3>3, <3>4, <3>5, Zenon
    <3>8. CASE tail < Len(lh)
      <4>1. pc' = pc /\ tail' = tail + 1
        BY <2>3, <3>8 DEF install_trans, install_block
      <4>2. \A j \in 1..Len(lh) : j < tail' => home'[lh[j]] = logblock[j]
        BY <1>t, <3>4, <4>1
      <4>3. \A q \in Ops : pc'[q] \notin {"write_log", "write_head", "clear"}
        BY <2>a, <3>1, <4>1, Zenon DEF CommitPCs
      <4>4. QED
        BY <2>0, <3>4, <3>6, <3>7, <4>2, <4>3, ZenonT(30) DEF CopyInv
    <3>9. CASE ~ (tail < Len(lh))
      <4>1. pc' = [pc EXCEPT ![p] = "clear"]
        BY <2>3, <3>9, SMTT(30) DEF install_trans, install_block
      <4>2. \A j \in 1..Len(lh) : home'[lh[j]] = logblock[j]
        BY <1>t, <3>2, <3>4, <3>9, SMTT(30)
      <4>3. \A q \in Ops : pc'[q] \notin {"write_log", "write_head", "install"}
        BY <1>t, <2>a, <4>1, Zenon DEF CommitPCs
      <4>4. QED
        BY <2>0, <3>4, <3>6, <4>2, <4>3, Zenon DEF CopyInv
    <3>10. QED
      BY <3>8, <3>9
  <2>4. CASE clear(p)
    <3>1. pc' = [pc EXCEPT ![p] = "committed"] /\ UNCHANGED <<home, cache, pinned>>
      BY <2>4, Zenon DEF clear
    <3>2. \A q \in Ops : pc'[q] \notin CommitPCs \ {"committed"}
      BY <1>t, <2>a, <3>1, ZenonT(30)
    <3>3. QED
      BY <1>n, <2>0, <2>c, <3>1, <3>2, Zenon
  <2>5. CASE end_commit(p)
    <3>1. UNCHANGED <<home, cache, pinned>>
      BY <2>5, Zenon DEF end_commit
    <3>2. \A q \in Ops : pc'[q] \notin CommitPCs \ {"committed"}
      BY <1>t, <2>5, <2>a, Zenon DEF end_commit, wakeupAnd, CommitPCs
    <3>3. QED
      BY <1>n, <2>0, <2>c, <3>1, <3>2, Zenon
  <2>6. QED
    BY <1>5, <2>1, <2>2, <2>3, <2>4, <2>5 DEF commit
<1>6. ASSUME NEW b \in Blocks, Evict(b) PROVE CopyInv'
  <2>1. /\ mode = "up" /\ b \notin pinned /\ cache' = [cache EXCEPT ![b] = home[b]]
        /\ UNCHANGED <<lh, pinned, home, logblock, tail, mode, pc>>
    BY <1>6, Zenon DEF Evict
  <2>2. cache' = cache
    BY <1>0, <1>t, <2>1, Zenon DEF CopyInv
  <2>3. QED
    BY <1>s, <2>1, <2>2, Zenon
<1>7. CASE Crash
  <2>1. mode' = "read_head" /\ cache' = home' /\ \A q \in Ops : pc'[q] = "idle"
    BY <1>7, ZenonT(30) DEF Crash
  <2>2. QED
    BY <2>1, Zenon DEF CopyInv
<1>8. CASE recover_from_log
  <2>0. mode \notin {"up", "panic"} /\ pc' = pc
    BY <1>8, Zenon DEF recover_from_log, read_head, recover_install, recover_clear
  <2>a. cache = home /\ \A q \in Ops : pc'[q] = "idle"
    BY <1>0, <2>0, ZenonT(30) DEF ControlInv, CopyInv
  <2>1. CASE read_head
    <3>1. /\ UNCHANGED <<home, cache, logblock, tail>> /\ lh' = dhead /\ mode = "read_head"
          /\ mode' = IF dhead = <<>> THEN "recover_clear" ELSE "recover_install"
      BY <2>1, Zenon DEF read_head
    <3>2. tail = 1
      BY <1>0, <2>0, <2>a, <3>1, Zenon DEF ControlInv
    <3>3. \A j \in 1..Len(dhead) : ~ (j < tail')
      BY <3>1, <3>2
    <3>4. QED
      <4>1. cache' = home' /\ mode' # "up"
        BY <2>a, <3>1, Zenon
      <4>2. \A j \in 1..Len(lh') : ~ (j < tail')
        BY <3>1, <3>3, Zenon
      <4>3. mode' = "recover_clear" => Len(lh') = 0
        BY <1>e, <3>1, Zenon
      <4>4. mode' = "recover_clear" => \A j \in 1..Len(lh') : home'[lh'[j]] = logblock'[j]
        BY <4>3
      <4>5. QED
        BY <2>a, <4>1, <4>2, <4>4, ZenonT(30) DEF CopyInv
  <2>2. CASE recover_install
    <3>1. mode = "recover_install" /\ install_block
      BY <2>2 DEF recover_install
    <3>2. tail \in 1..Len(lh) /\ lh[tail] \in Blocks
      BY <1>0, <3>1, TailInside, Zenon
    <3>3. \A j \in 1..Len(lh) : j < tail => home[lh[j]] = logblock[j]
      BY <1>0, <3>1, Zenon DEF CopyInv
    <3>4. /\ UNCHANGED <<lh, dhead, logblock>>
          /\ \A j \in 1..Len(lh) : j <= tail => home'[lh[j]] = logblock[j]
      BY <1>0, <3>1, <3>2, <3>3, InstallStep, Zenon
    <3>5. cache' = home'
      BY <2>a, <3>1, Zenon DEF install_block
    <3>6. CASE tail < Len(lh)
      <4>1. mode' = "recover_install" /\ tail' = tail + 1
        BY <2>2, <3>6, Zenon DEF recover_install, install_block
      <4>2. \A j \in 1..Len(lh) : j < tail' => home'[lh[j]] = logblock[j]
        BY <1>t, <3>4, <4>1
      <4>3. QED
        BY <2>a, <3>4, <3>5, <4>1, <4>2, Zenon DEF CopyInv
    <3>7. CASE ~ (tail < Len(lh))
      <4>1. mode' = "recover_clear"
        BY <2>2, <3>7, Zenon DEF recover_install, install_block
      <4>2. \A j \in 1..Len(lh) : home'[lh[j]] = logblock[j]
        BY <1>t, <3>2, <3>4, <3>7
      <4>3. QED
        BY <2>a, <3>4, <3>5, <4>1, <4>2, ZenonT(30) DEF CopyInv
    <3>8. QED
      BY <3>6, <3>7, Zenon
  <2>3. CASE recover_clear
    <3>1. mode' = "up" /\ UNCHANGED <<home, cache>>
      BY <2>3 DEF recover_clear
    <3>2. QED
      BY <1>n, <2>a, <3>1, Zenon DEF CommitPCs
  <2>4. QED
    BY <1>8, <2>1, <2>2, <2>3 DEF recover_from_log
<1>9. QED
  BY <1>1, <1>2, <1>3, <1>4, <1>5, <1>6, <1>7, <1>8 DEF Next

---------------------------------------------------------------------------
(* The invariant.                                                          *)

\* Every step preserves the invariant, and so does stuttering.
LEMMA LogInvNext == LogInv /\ [Next]_vars => LogInv'
<1>1. LogInv /\ Next => LogInv'
  BY TypeNext, ControlNext, WroteNext, HeaderNext, CopyNext, ZenonT(30) DEF LogInv
<1>2. ASSUME LogInv, UNCHANGED vars PROVE LogInv'
  <2>1. UNCHANGED <<home, logblock, dhead, lh, outstanding, committing, cache, pinned, mode, tail, pc, wrote>>
    BY <1>2, Zenon DEF vars, disk, memory, logvars, opvars
  <2>2. TypeOK'
    BY <1>2, <2>1, Zenon DEF LogInv, TypeOK
  <2>3. ControlInv'
    BY <1>2, <2>1, Zenon DEF LogInv, ControlInv, CommitAlone, InOp
  <2>4. WroteInv'
    BY <1>2, <2>1, Zenon DEF LogInv, WroteInv, inLog
  <2>5. HeaderInv'
    <3>1. HeaderInv
      BY <1>2, Zenon DEF LogInv
    <3>2. ASSUME NEW blk \in pinned'
          PROVE  \E j \in 1..Len(lh') :
                   /\ lh'[j] = blk
                   /\ \A p \in Ops : (pc'[p] = "install" => tail' <= j) /\ pc'[p] # "clear"
      <4>1. PICK j \in 1..Len(lh) :
              lh[j] = blk /\ \A p \in Ops : (pc[p] = "install" => tail <= j) /\ pc[p] # "clear"
        BY <2>1, <3>1, <3>2, Zenon DEF HeaderInv
      <4>2. QED
        BY <2>1, <4>1, Zenon
    <3>3. (\E p \in Ops : pc'[p] \in {"install", "clear"}) <=> \E p \in Ops : pc[p] \in {"install", "clear"}
      BY <2>1, Zenon
    <3>4. mode' \in {"up", "panic"} =>
            dhead' = IF \E p \in Ops : pc'[p] \in {"install", "clear"} THEN lh' ELSE <<>>
      BY <2>1, <3>1, <3>3 DEF HeaderInv
    <3>5. /\ \A i, j \in 1..Len(lh') : lh'[i] = lh'[j] => i = j
          /\ \A i, j \in 1..Len(dhead') : dhead'[i] = dhead'[j] => i = j
          /\ mode' \in {"recover_install", "recover_clear"} => dhead' = lh'
          /\ mode' = "read_head" => lh' = <<>>
          /\ mode' \notin {"up", "panic"} => pinned' = {}
      BY <2>1, <3>1 DEF HeaderInv
    <3>6. QED
      BY <3>2, <3>4, <3>5, Zenon DEF HeaderInv
  <2>6. CopyInv'
    BY <1>2, <2>1, Zenon DEF LogInv, CopyInv
  <2>7. QED
    BY <2>2, <2>3, <2>4, <2>5, <2>6, Zenon DEF LogInv
<1>3. QED
  BY <1>1, <1>2, Zenon

\* The invariant holds throughout.
THEOREM LogInvariant == Spec => []LogInv
<1>1. QED
  BY LogInvInit, LogInvNext, PTL DEF Spec

\* begin_op()'s reservation is large enough for every block that the operations
\* in progress may still log, and at most one process is in commit(), with no
\* operation in progress: for every number of operations and every log size.
THEOREM LogSound == Spec => []LogConsistent
<1>1. Init => SpaceReserved
  <2> SUFFICES ASSUME Init PROVE SpaceReserved
    OBVIOUS
  <2>1. mayAdd = {} /\ Len(lh) = 0
    BY DEF Init, mayAdd, InOp
  <2>2. QED
    BY <2>1, FS_EmptySet, LogAssumption DEF SpaceReserved
<1>2. LogInv /\ SpaceReserved /\ [Next]_vars => SpaceReserved'
  <2>1. SpaceReserved /\ UNCHANGED vars => SpaceReserved'
    BY DEF SpaceReserved, mayAdd, InOp, vars, memory, logvars, opvars
  <2>2. QED
    BY <2>1, SpaceNext
<1>3. LogInv /\ SpaceReserved => LogConsistent
  BY DEF LogInv, ControlInv, LogConsistent
<1>4. QED
  BY <1>1, <1>2, <1>3, LogInvariant, PTL DEF Spec

---------------------------------------------------------------------------
(* The refinement.                                                         *)

\* What recovery makes of a disk with home blocks h, log blocks l and header d.
Recover(h, l, d) ==
  [b \in Blocks |->
     IF \E j \in 1..Len(d) : d[j] = b THEN l[CHOOSE j \in 1..Len(d) : d[j] = b] ELSE h[b]]

\* A header that write_head() can have written.
Header(d) ==
  /\ d \in Seq(Blocks) /\ Len(d) <= LOGBLOCKS
  /\ \A i, j \in 1..Len(d) : d[i] = d[j] => i = j

\* Block by block: a block of the header is in f as in the log, another as at home.
Holds(f, h, l, d) ==
  /\ f \in [Blocks -> Val]
  /\ \A j \in 1..Len(d) : f[d[j]] = l[j]
  /\ \A b \in Blocks : (\A j \in 1..Len(d) : d[j] # b) => f[b] = h[b]

\* Recovery takes the blocks of the header from the log, and leaves the others.
LEMMA RecoverFacts ==
  ASSUME NEW h \in [Blocks -> Val], NEW l \in [1..LOGBLOCKS -> Val], NEW d, Header(d)
  PROVE  Holds(Recover(h, l, d), h, l, d)
<1> USE DEF Header
<1>0. Len(d) \in Nat /\ LOGBLOCKS \in Nat /\ \A j \in 1..Len(d) : d[j] \in Blocks /\ j \in 1..LOGBLOCKS
  BY SeqFacts, LogAssumption
<1>1. ASSUME NEW j \in 1..Len(d) PROVE (CHOOSE i \in 1..Len(d) : d[i] = d[j]) = j
  <2>1. \A i \in 1..Len(d) : d[i] = d[j] <=> i = j
    BY <1>1, Zenon
  <2>2. (CHOOSE i \in 1..Len(d) : d[i] = d[j]) \in 1..Len(d)
        /\ d[CHOOSE i \in 1..Len(d) : d[i] = d[j]] = d[j]
    BY <1>1, Zenon
  <2>3. QED
    BY <2>1, <2>2, Zenon
<1>2. ASSUME NEW j \in 1..Len(d) PROVE Recover(h, l, d)[d[j]] = l[j]
  BY <1>0, <1>1, <1>2, Zenon DEF Recover
<1>3. ASSUME NEW b \in Blocks, \A j \in 1..Len(d) : d[j] # b PROVE Recover(h, l, d)[b] = h[b]
  BY <1>3, Zenon DEF Recover
<1>4. ASSUME NEW b \in Blocks PROVE Recover(h, l, d)[b] \in Val
  <2>1. CASE \E j \in 1..Len(d) : d[j] = b
    <3>1. PICK j \in 1..Len(d) : d[j] = b
      BY <2>1, Zenon
    <3>2. QED
      BY <1>0, <1>2, <3>1, Zenon
  <2>2. CASE ~ \E j \in 1..Len(d) : d[j] = b
    BY <1>3, <2>2, Zenon
  <2>3. QED
    BY <2>1, <2>2, Zenon
<1>5. Recover(h, l, d) = [b \in Blocks |-> Recover(h, l, d)[b]]
  BY Zenon DEF Recover
<1>6. Recover(h, l, d) \in [Blocks -> Val]
  BY <1>4, <1>5, Zenon
<1>7. QED
  BY <1>2, <1>3, <1>6, Zenon DEF Holds

\* That says what recovery makes of the disk.
LEMMA RecoverIs ==
  ASSUME NEW h \in [Blocks -> Val], NEW l \in [1..LOGBLOCKS -> Val], NEW d, Header(d),
         NEW f, Holds(f, h, l, d)
  PROVE  Recover(h, l, d) = f
<1>1. Holds(Recover(h, l, d), h, l, d)
  BY RecoverFacts, Zenon
<1> USE DEF Holds
<1>2. ASSUME NEW b \in Blocks PROVE Recover(h, l, d)[b] = f[b]
  <2>1. CASE \E j \in 1..Len(d) : d[j] = b
    BY <1>1, <2>1
  <2>2. CASE ~ \E j \in 1..Len(d) : d[j] = b
    BY <1>1, <2>2, Zenon
  <2>3. QED
    BY <2>1, <2>2, Zenon
<1>3. QED
  BY <1>1, <1>2

\* What running operations see, as AtomicDisk has it.
seen == IF mode \in {"up", "panic"} THEN cache ELSE Recovered

\* Every step of the log is a step of AtomicDisk or leaves it alone.
LEMMA RefineNext ==
  ASSUME LogInv, LogInv', Next
  PROVE  \/ Atomic!ANext
         \/ Recovered' = Recovered /\ seen' = seen /\ InOp' = InOp
<1>0. TypeOK /\ ControlInv /\ HeaderInv /\ CopyInv /\ TypeOK' /\ HeaderInv' /\ CopyInv'
  BY Zenon DEF LogInv
<1>t. /\ pc \in [Ops -> PCs] /\ tail \in Nat /\ Len(lh) \in Nat /\ Len(dhead) \in Nat
      /\ \A j \in 1..Len(lh) : lh[j] \in Blocks
      /\ home \in [Blocks -> Val] /\ cache \in [Blocks -> Val] /\ logblock \in [1..LOGBLOCKS -> Val]
  BY <1>0, Types DEF HeaderInv
<1>h. Header(dhead)
  BY <1>0, Zenon DEF TypeOK, HeaderInv, Header
<1>u. /\ home' \in [Blocks -> Val] /\ cache' \in [Blocks -> Val] /\ logblock' \in [1..LOGBLOCKS -> Val]
      /\ Header(dhead')
  BY <1>0, Zenon DEF TypeOK, HeaderInv, Header
<1>r. Recovered = Recover(home, logblock, dhead) /\ Recovered' = Recover(home', logblock', dhead')
  BY Zenon DEF Recovered, Recover
<1>f. /\ Recovered \in [Blocks -> Val]
      /\ \A j \in 1..Len(dhead) : Recovered[dhead[j]] = logblock[j]
      /\ \A b \in Blocks : (\A j \in 1..Len(dhead) : dhead[j] # b) => Recovered[b] = home[b]
  <2>1. Holds(Recovered, home, logblock, dhead)
    BY <1>h, <1>r, <1>t, RecoverFacts, Zenon
  <2>2. QED
    BY <2>1, Zenon DEF Holds
<1>i. ASSUME NEW f \in [Blocks -> Val],
             \A j \in 1..Len(dhead') : f[dhead'[j]] = logblock'[j],
             \A b \in Blocks : (\A j \in 1..Len(dhead') : dhead'[j] # b) => f[b] = home'[b]
      PROVE  Recovered' = f
  <2>1. Holds(f, home', logblock', dhead')
    BY <1>i, Zenon DEF Holds
  <2>2. QED
    BY <1>r, <1>u, <2>1, RecoverIs, Zenon
<1>c. ASSUME \A j \in 1..Len(dhead) : home[dhead[j]] = logblock[j]
      PROVE  Recovered = home
  <2>1. Holds(home, home, logblock, dhead)
    BY <1>c, <1>t DEF Holds
  <2>2. QED
    BY <1>h, <1>r, <1>t, <2>1, RecoverIs, Zenon
<1>d. ASSUME UNCHANGED disk PROVE Recovered' = Recovered
  BY <1>d, <1>r DEF disk
<1> USE DEF logvars, memory, opvars, goto
<1>1. ASSUME NEW p \in Ops, StartCall(p) PROVE Recovered' = Recovered /\ seen' = seen /\ InOp' = InOp
  <2>1. UNCHANGED <<disk, cache, mode>> /\ pc[p] = "idle" /\ pc' = [pc EXCEPT ![p] = "begin"]
    BY <1>1, Zenon DEF StartCall
  <2>2. InOp' = InOp
    BY <1>t, <2>1, Zenon DEF InOp
  <2>3. QED
    BY <1>d, <2>1, <2>2, Zenon DEF seen
<1>2. ASSUME NEW p \in Ops, begin_op(p)
      PROVE  Atomic!Begin(p) \/ (Recovered' = Recovered /\ seen' = seen /\ InOp' = InOp)
  <2>1. /\ UNCHANGED <<disk, cache, mode>> /\ pc[p] = "begin"
        /\ pc' = [pc EXCEPT ![p] = "op"] \/ pc' = [pc EXCEPT ![p] = "sleep"]
    BY <1>2, Zenon DEF begin_op
  <2>2. Recovered' = Recovered /\ seen' = seen
    BY <1>d, <2>1, Zenon DEF seen
  <2>3. p \notin InOp /\ (InOp' = InOp \cup {p} \/ InOp' = InOp)
    BY <1>t, <2>1, Zenon DEF InOp
  <2>4. QED
    BY <2>2, <2>3, Zenon DEF Atomic!Begin, seen
<1>3. ASSUME NEW p \in Ops, log_write(p) PROVE Atomic!Write(p)
  <2>1. /\ UNCHANGED <<disk, pc>> /\ pc[p] = "op" /\ mode = "up" /\ mode' \in {"up", "panic"}
        /\ \E b \in Blocks, v \in Val : cache' = [cache EXCEPT ![b] = v]
    BY <1>3, Zenon DEF log_write
  <2>2. Recovered' = Recovered /\ InOp' = InOp /\ p \in InOp
    BY <1>d, <2>1 DEF InOp
  <2>3. QED
    BY <2>1, <2>2, Zenon DEF Atomic!Write
<1>4. ASSUME NEW p \in Ops, end_op(p) PROVE Atomic!End(p)
  <2>1. UNCHANGED <<disk, cache>> /\ pc[p] = "op" /\ mode = "up" /\ mode' \in {"up", "panic"}
    BY <1>4, Zenon DEF end_op
  <2>2. \A q \in Ops : pc'[q] = "op" <=> q # p /\ pc[q] = "op"
    BY <1>4, <1>t, Zenon DEF end_op, wakeupAnd
  <2>3. InOp' = InOp \ {p} /\ p \in InOp
    BY <2>1, <2>2, Zenon DEF InOp
  <2>4. QED
    BY <1>d, <2>1, <2>3 DEF Atomic!End
<1>5. ASSUME NEW p \in Ops, commit(p)
      PROVE  Atomic!Commit \/ (Recovered' = Recovered /\ seen' = seen /\ InOp' = InOp)
  <2>0. mode = "up" /\ mode' = "up" /\ pc[p] \in CommitPCs
    BY <1>5, Zenon DEF commit, write_log, write_head, install_trans, clear, end_commit, CommitPCs
  <2>a. \A q \in Ops : pc[q] # "op" /\ (pc[q] \in CommitPCs => q = p)
    BY <1>0, <2>0, Alone, Zenon
  <2>o. InOp = {} /\ InOp' = {}
    <3>1. \A q \in Ops : pc'[q] # "op"
      BY <1>5, <1>t, <2>a, Zenon DEF commit, write_log, write_head, install_trans, clear, end_commit, wakeupAnd
    <3>2. QED
      BY <2>a, <3>1, Zenon DEF InOp
  <2>v. seen = cache /\ seen' = cache'
    BY <2>0 DEF seen
  <2>1. CASE write_log(p)
    <3>1. pc[p] = "write_log" /\ UNCHANGED <<home, dhead, cache>>
      BY <2>1, ZenonT(30) DEF write_log
    <3>2. dhead = <<>>
      BY <1>0, <2>0, <2>a, <3>1 DEF HeaderInv, CommitPCs
    <3>3. Recovered' = Recovered
      <4>1. 1..Len(dhead') = {}
        BY <3>1, <3>2
      <4>2. \A b \in Blocks : Recovered[b] = home'[b]
        BY <1>f, <3>1, <4>1, Zenon
      <4>3. QED
        BY <1>f, <1>i, <4>1, <4>2, Zenon
    <3>4. QED
      BY <2>o, <2>v, <3>1, <3>3, Zenon
  <2>2. CASE write_head(p)
    <3>1. pc[p] = "write_head" /\ dhead' = lh /\ UNCHANGED <<home, logblock, cache>>
      BY <2>2, Zenon DEF write_head
    <3>2. \A j \in 1..Len(lh) : logblock[j] = cache[lh[j]]
      BY <1>0, <3>1, ZenonT(30) DEF CopyInv
    <3>3. \A b \in Blocks : (\A j \in 1..Len(lh) : lh[j] # b) => cache[b] = home[b]
      BY <1>0, <2>0, SMTT(30) DEF CopyInv, HeaderInv
    <3>4. Recovered' = cache
      BY <1>i, <1>t, <3>1, <3>2, <3>3, SMTT(30)
    <3>5. QED
      BY <2>0, <2>o, <3>1, <3>4, Zenon DEF Atomic!Commit
  <2>3. CASE install_trans(p)
    <3>1. pc[p] = "install" /\ install_block
      BY <2>3 DEF install_trans
    <3>2. dhead = lh
      BY <1>0, <2>0, <3>1, Zenon DEF HeaderInv
    <3>3. tail \in 1..Len(lh) /\ lh[tail] \in Blocks
      BY <1>0, <3>1, TailInside, Zenon
    <3>4. /\ \A j \in 1..Len(lh) : logblock[j] = cache[lh[j]]
          /\ \A j \in 1..Len(lh) : j < tail => home[lh[j]] = logblock[j]
      BY <1>0, <3>1, Zenon DEF CopyInv
    <3>5. /\ UNCHANGED <<lh, dhead, logblock>>
          /\ cache'[lh[tail]] = logblock[tail]
          /\ \A b \in Blocks : b # lh[tail] => home'[b] = home[b] /\ cache'[b] = cache[b]
      BY <1>0, <3>1, <3>3, <3>4, InstallStep, Zenon
    <3>6. cache' = cache
      <4>1. \A b \in Blocks : cache'[b] = cache[b]
        BY <3>3, <3>4, <3>5, Zenon
      <4>2. QED
        BY <1>t, <1>u, <4>1
    <3>7. Recovered' = Recovered
      <4>1. \A b \in Blocks : (\A j \in 1..Len(dhead') : dhead'[j] # b) => Recovered[b] = home'[b]
        BY <1>f, <3>2, <3>3, <3>5, Zenon
      <4>2. QED
        BY <1>f, <1>i, <3>5, <4>1, Zenon
    <3>8. QED
      BY <2>o, <2>v, <3>6, <3>7, SMTT(30)
  <2>4. CASE clear(p)
    <3>1. pc[p] = "clear" /\ dhead' = <<>> /\ UNCHANGED <<home, logblock, cache>>
      BY <2>4, Zenon DEF clear
    <3>2. dhead = lh
      BY <1>0, <2>0, <3>1, Zenon DEF HeaderInv
    <3>3. \A j \in 1..Len(dhead) : home[dhead[j]] = logblock[j]
      BY <1>0, <3>1, <3>2, Zenon DEF CopyInv
    <3>4. Recovered = home
      BY <1>c, <3>3, Zenon
    <3>5. 1..Len(dhead') = {}
      BY <3>1
    <3>6. Recovered' = home
      BY <1>i, <1>t, <3>1, <3>5, Zenon
    <3>7. QED
      BY <2>o, <2>v, <3>1, <3>4, <3>6, Zenon
  <2>5. CASE end_commit(p)
    BY <1>d, <2>5, <2>o, <2>v, Zenon DEF end_commit
  <2>6. QED
    BY <1>5, <2>1, <2>2, <2>3, <2>4, <2>5, Zenon DEF commit
<1>6. ASSUME NEW b \in Blocks, Evict(b) PROVE Recovered' = Recovered /\ seen' = seen /\ InOp' = InOp
  <2>1. /\ mode = "up" /\ b \notin pinned /\ cache' = [cache EXCEPT ![b] = home[b]]
        /\ UNCHANGED <<disk, mode, pc>>
    BY <1>6, ZenonT(30) DEF Evict
  <2>2. cache' = cache
    <3>1. cache[b] = home[b]
      BY <1>0, <1>t, <2>1, Zenon DEF CopyInv
    <3>2. QED
      BY <1>t, <2>1, <3>1, Zenon
  <2>3. QED
    BY <1>d, <2>1, <2>2, Zenon DEF seen, InOp
<1>7. ASSUME Crash PROVE Atomic!CrashAll
  <2>1. UNCHANGED disk /\ mode' = "read_head" /\ pc' = [q \in Ops |-> "idle"]
    BY <1>7, Zenon DEF Crash
  <2>2. InOp' = {} /\ Recovered' = Recovered
    BY <1>d, <2>1, Zenon DEF InOp
  <2>3. QED
    BY <2>1, <2>2, Zenon DEF Atomic!CrashAll
<1>8. ASSUME recover_from_log PROVE Recovered' = Recovered /\ seen' = seen /\ InOp' = InOp
  <2>0. mode \notin {"up", "panic"} /\ pc' = pc
    BY <1>8, Zenon DEF recover_from_log, read_head, recover_install, recover_clear
  <2>o. InOp' = InOp /\ seen = Recovered /\ cache = home
    BY <1>0, <2>0, Zenon DEF InOp, seen, CopyInv
  <2>1. CASE read_head
    <3>1. UNCHANGED disk /\ mode' \notin {"up", "panic"}
      BY <2>1, Zenon DEF read_head
    <3>2. QED
      BY <1>d, <2>o, <3>1, Zenon DEF seen
  <2>2. CASE recover_install
    <3>1. mode = "recover_install" /\ install_block /\ mode' \notin {"up", "panic"}
      BY <2>2, Zenon DEF recover_install
    <3>2. dhead = lh
      BY <1>0, <3>1, Zenon DEF HeaderInv
    <3>3. tail \in 1..Len(lh) /\ lh[tail] \in Blocks
      BY <1>0, <3>1, TailInside, Zenon
    <3>4. \A j \in 1..Len(lh) : j < tail => home[lh[j]] = logblock[j]
      BY <1>0, <3>1, Zenon DEF CopyInv
    <3>5. /\ UNCHANGED <<lh, dhead, logblock>>
          /\ \A b \in Blocks : b # lh[tail] => home'[b] = home[b]
      BY <1>0, <3>1, <3>3, <3>4, InstallStep, Zenon
    <3>6. \A b \in Blocks : (\A j \in 1..Len(dhead') : dhead'[j] # b) => Recovered[b] = home'[b]
      BY <1>f, <3>2, <3>3, <3>5, Zenon
    <3>7. Recovered' = Recovered
      BY <1>f, <1>i, <3>5, <3>6, Zenon
    <3>8. QED
      BY <2>o, <3>1, <3>7, Zenon DEF seen
  <2>3. CASE recover_clear
    <3>1. mode = "recover_clear" /\ dhead' = <<>> /\ UNCHANGED <<home, logblock, cache>> /\ mode' = "up"
      BY <2>3, ZenonT(30) DEF recover_clear
    <3>2. \A j \in 1..Len(dhead) : home[dhead[j]] = logblock[j]
      <4>1. dhead = lh
        BY <1>0, <3>1, Zenon DEF HeaderInv
      <4>2. \A j \in 1..Len(lh) : home[lh[j]] = logblock[j]
        BY <1>0, <3>1, Zenon DEF CopyInv
      <4>3. QED
        BY <4>1, <4>2, Zenon
    <3>3. Recovered = home
      BY <1>c, <3>2
    <3>4. 1..Len(dhead') = {}
      BY <3>1
    <3>5. Recovered' = home
      BY <1>i, <1>t, <3>1, <3>4, Zenon
    <3>6. QED
      BY <2>o, <3>1, <3>3, <3>5, Zenon DEF seen
  <2>4. QED
    BY <1>8, <2>1, <2>2, <2>3, Zenon DEF recover_from_log
<1>9. QED
  BY <1>1, <1>2, <1>3, <1>4, <1>5, <1>6, <1>7, <1>8, ZenonT(30) DEF Next, Atomic!ANext

\* The log implements AtomicDisk: whatever the crashes, also inside commit() and
\* inside recovery, the disk a reboot finds changes only at write_head(), by all
\* that finished operations wrote, while none is in progress; and what running
\* operations see is never lost before.
THEOREM LogRefines == Spec => ImplementsAtomicDisk
<1>1. Init => Atomic!AInit
  <2> SUFFICES ASSUME Init PROVE Atomic!AInit
    OBVIOUS
  <2>1. 1..Len(dhead) = {} /\ InOp = {} /\ mode = "up" /\ cache = home /\ home \in [Blocks -> Val]
    BY DEF Init, InOp
  <2>2. Recovered = home
    BY <2>1 DEF Recovered
  <2>3. QED
    BY <2>1, <2>2, Zenon DEF Atomic!AInit
<1>2. LogInv /\ LogInv' /\ [Next]_vars => [Atomic!ANext]_(Atomic!avars)
  <2>1. LogInv /\ LogInv' /\ Next => [Atomic!ANext]_(Atomic!avars)
    BY RefineNext, ZenonT(30) DEF Atomic!avars, seen
  <2>2. UNCHANGED vars => UNCHANGED Atomic!avars
    BY Zenon DEF vars, disk, memory, opvars, Atomic!avars, Recovered, InOp
  <2>3. QED
    BY <2>1, <2>2, Zenon
<1>3. QED
  BY <1>1, <1>2, LogInvariant, PTL DEF Spec, ImplementsAtomicDisk, Atomic!ASpec
============================================================================
