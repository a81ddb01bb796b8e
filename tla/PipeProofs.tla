---------------------------- MODULE PipeProofs ----------------------------
(***************************************************************************)
(* Proofs about Pipe: types and the absence of a use after free for any    *)
(* number of processes at each end; mutual exclusion, finality of EOF and  *)
(* the byte stream when each end belongs to at most one process, which is  *)
(* all that Peterson's algorithm with the two identities of pipe.c can     *)
(* serve.                                                                  *)
(***************************************************************************)
EXTENDS Pipe, SequenceTheorems, TLAPS

\* A call past its loop test has a byte left to move.
TInv ==
  /\ TypeOK
  /\ \A p \in Procs : pc[p] \notin {"user", "loop"} => left[p] > 0

\* A remainder is smaller than its divisor.
LEMMA ModRange == \A a \in Int, m \in Nat \ {0} : a % m \in 0..(m - 1)
  OBVIOUS

\* A call past its loop test can count one byte less.
LEMMA OneLess ==
  ASSUME TInv, NEW p \in Procs, pc[p] \notin {"user", "loop"}
  PROVE  left[p] - 1 \in 0..MaxReq
<1>1. left[p] \in 0..MaxReq /\ left[p] > 0
  BY DEF TInv, TypeOK
<1>2. QED
  BY <1>1, PipeAssumption

\* pipealloc() establishes the types.
LEMMA TInvInit == Init => TInv
<1> SUFFICES ASSUME Init PROVE TInv
  OBVIOUS
<1>1. 0 \in 0..(UINT - 1) /\ 0 \in 0..MaxReq
  BY PipeAssumption
<1>2. Junk \in Byte
  BY PipeAssumption DEF Junk
<1>3. TypeOK
  BY <1>1, <1>2 DEF Init, TypeOK, PCs, LoopPCs
<1>4. QED
  BY <1>3 DEF Init, TInv

\* Every action of Next keeps the variables in their types.
LEMMA TInvNext == TInv /\ [Next]_vars => TInv'
<1> SUFFICES ASSUME TInv, [Next]_vars PROVE TInv'
  OBVIOUS
<1> USE DEF TInv, TypeOK, PCs, LoopPCs, EnterPCs, WriterCS, ReaderCS, ExitPCs, goto,
            shared, locals, outer, history
<1>0. CASE UNCHANGED vars
  BY <1>0 DEF vars
<1>1. ASSUME NEW p \in Procs, Call(p) PROVE TInv'
  BY <1>1, PipeAssumption DEF Call
<1>2. ASSUME NEW p \in Procs, Kill(p) PROVE TInv'
  BY <1>2 DEF Kill
<1>3. ASSUME NEW p \in Procs, Close(p) PROVE TInv'
  BY <1>3 DEF Close, pipeclose
<1>4. ASSUME NEW p \in Procs, peterson(p) PROVE TInv'
  <2>1. CASE enter_want(p)
    BY <2>1 DEF enter_want, me
  <2>2. CASE enter_turn(p)
    BY <2>2 DEF enter_turn, other, me
  <2>3. CASE enter_spin_want(p)
    BY <2>3 DEF enter_spin_want, entered
  <2>4. CASE enter_spin_turn(p)
    BY <2>4, Zenon DEF enter_spin_turn, entered
  <2>5. CASE peterson_exit(p)
    <3>1. pc' \in [Procs -> PCs]
      BY <2>5 DEF peterson_exit, afterExit
    <3>2. left' \in [Procs -> 0..MaxReq]
      <4>1. left[p] - 1 \in 0..MaxReq
        BY <2>5, OneLess DEF peterson_exit
      <4>2. QED
        BY <2>5, <4>1, Zenon DEF peterson_exit
    <3>3. want' \in [0..1 -> 0..1] /\ idx' \in [Procs -> 0..(UINT - 1)]
      BY <2>5, PipeAssumption DEF peterson_exit, me
    <3>4. \A q \in Procs : pc'[q] \notin {"user", "loop"} => left'[q] > 0
      BY <2>5, Zenon DEF peterson_exit, afterExit
    <3>5. QED
      BY <2>5, <3>1, <3>2, <3>3, <3>4 DEF peterson_exit
  <2>6. QED
    BY <1>4, <2>1, <2>2, <2>3, <2>4, <2>5, Zenon DEF peterson
<1>5. ASSUME NEW p \in Procs, pipewrite(p) PROVE TInv'
  <2>1. CASE write_loop(p)
    BY <2>1 DEF write_loop
  <2>2. CASE write_copyin(p)
    <3>1. pc' \in [Procs -> PCs] /\ ch' \in [Procs -> Byte]
      <4>1. ASSUME NEW b \in Byte, ch' = [ch EXCEPT ![p] = b] PROVE ch' \in [Procs -> Byte]
        BY <4>1
      <4>2. QED
        BY <2>2, <4>1, Zenon DEF write_copyin
    <3>2. \A q \in Procs : pc'[q] \notin {"user", "loop"} => left'[q] > 0
      BY <2>2, Zenon DEF write_copyin
    <3>3. QED
      BY <2>2, <3>1, <3>2 DEF write_copyin
  <2>3. CASE write_open(p)
    BY <2>3 DEF write_open
  <2>4. CASE write_full(p)
    <3>1. idx' \in [Procs -> 0..(UINT - 1)] /\ stores' \in [Procs -> SUBSET {"data", "nwrite"}]
      <4>1. CASE full
        BY <2>4, <4>1 DEF write_full
      <4>2. CASE ~full
        <5>1. idx' = [idx EXCEPT ![p] = nwrite]
          BY <2>4, <4>2 DEF write_full
        <5>2. stores' = [stores EXCEPT ![p] = {"data", "nwrite"}]
          BY <2>4, <4>2 DEF write_full
        <5>3. QED
          BY <5>1, <5>2
      <4>3. QED
        BY <4>1, <4>2
    <3>2. QED
      BY <2>4, <3>1, Zenon DEF write_full
  <2>5. CASE write_store(p)
    <3>1. PICK s \in stores[p] :
            /\ stores' = [stores EXCEPT ![p] = @ \ {s}]
            /\ data' = IF s = "data" THEN [data EXCEPT ![idx[p] % PIPESIZE] = ch[p]] ELSE data
            /\ nwrite' = IF s = "nwrite" THEN (idx[p] + 1) % UINT ELSE nwrite
      BY <2>5, Zenon DEF write_store
    <3>2. nwrite' \in 0..(UINT - 1)
      <4>1. idx[p] + 1 \in Int /\ UINT \in Nat \ {0}
        BY PipeAssumption
      <4>2. (idx[p] + 1) % UINT \in 0..(UINT - 1)
        BY <4>1, ModRange, Zenon
      <4>3. QED
        BY <3>1, <4>2
    <3>3. data' \in [0..(PIPESIZE - 1) -> Byte]
      BY <3>1, Zenon
    <3>4. stores' \in [Procs -> SUBSET {"data", "nwrite"}]
      BY <3>1
    <3>5. pc' \in [Procs -> PCs]
      BY <2>5 DEF write_store
    <3>6. \A q \in Procs : pc'[q] \notin {"user", "loop"} => left'[q] > 0
      BY <2>5, Zenon DEF write_store
    <3>7. QED
      BY <2>5, <3>2, <3>3, <3>4, <3>5, <3>6 DEF write_store
  <2>6. QED
    BY <1>5, <2>1, <2>2, <2>3, <2>4, <2>5, Zenon DEF pipewrite
<1>6. ASSUME NEW p \in Procs, p \in Readers, piperead(p) PROVE TInv'
  <2>1. CASE read_loop(p)
    BY <2>1 DEF read_loop
  <2>2. CASE read_empty(p)
    BY <2>2 DEF read_empty
  <2>3. CASE read_eof(p)
    BY <1>6, <2>3 DEF read_eof
  <2>4. CASE read_load(p)
    BY <2>4, PipeAssumption DEF read_load
  <2>5. CASE read_inc(p)
    BY <2>5, PipeAssumption DEF read_inc
  <2>6. CASE read_copyout(p)
    <3>1. left[p] - 1 \in 0..MaxReq
      BY <2>6, OneLess, Zenon DEF read_copyout
    <3>2. left' \in [Procs -> 0..MaxReq]
      BY <2>6, <3>1, ZenonT(30) DEF read_copyout
    <3>3. QED
      BY <2>6, <3>2, Zenon DEF read_copyout
  <2>7. QED
    BY <1>6, <2>1, <2>2, <2>3, <2>4, <2>5, <2>6, Zenon DEF piperead
<1>7. ASSUME NEW p \in Procs, yield(p) PROVE TInv'
  BY <1>7 DEF yield
<1>8. QED
  BY <1>0, <1>1, <1>2, <1>3, <1>4, <1>5, <1>6, <1>7, Zenon DEF Next, InCall

\* The pipe's variables, and the locals of every call, keep their C types.
THEOREM TypeCorrect == Spec => []TypeOK
<1>1. Init => TInv
  BY TInvInit
<1>2. TInv /\ [Next]_vars => TInv'
  BY TInvNext
<1>3. TInv => TypeOK
  BY DEF TInv
<1>4. QED
  BY <1>1, <1>2, <1>3, PTL DEF Spec

---------------------------------------------------------------------------
(* Mutual exclusion.                                                       *)

\* At most one process at each end of the pipe.
OneEach ==
  /\ \A p, q \in Writers : p = q
  /\ \A p, q \in Readers : p = q

\* p has set its want flag.
Competes(p) == InCS(p) \/ pc[p] \in {"turn", "spin_want", "spin_turn"}

\* p has also given the turn away.
Waits(p) == pc[p] \in {"spin_want", "spin_turn"}

\* The inductive invariant of Peterson's algorithm: want tells who competes, and
\* if one side is in while the other has given the turn away, then that gift
\* was the last assignment to turn.
PInv ==
  /\ \A p \in Procs : want[me(p)] = 1 <=> Competes(p)
  /\ \A p, q \in Procs :
       p # q /\ InCS(p) /\ (InCS(q) \/ Waits(q)) => turn = me(p)

\* Two different processes have different Peterson identities.
LEMMA Identities ==
  ASSUME OneEach, NEW p \in Procs, NEW q \in Procs, p # q
  PROVE  me(q) = other(p) /\ me(p) = other(q) /\ me(p) # me(q) /\ me(p) \in 0..1
BY PipeAssumption DEF OneEach, Procs, me, other

\* The flags agree with the places of the processes initially.
LEMMA PInvInit == Init => PInv
BY DEF Init, PInv, Competes, InCS, Waits, WriterCS, ReaderCS, ExitPCs, Procs, me

\* Steps of a call between want = 1 and want = 0 that leave want and turn alone.
LEMMA PInvInside ==
  ASSUME TInv, PInv, NEW p \in Procs, NEW l,
         UNCHANGED <<want, turn>>, goto(p, l),
         InCS(p), l \in WriterCS \cup ReaderCS \cup ExitPCs
  PROVE  PInv'
<1>1. pc' = [pc EXCEPT ![p] = l] /\ pc \in [Procs -> PCs]
  BY DEF goto, TInv, TypeOK
<1>2. \A q \in Procs : (InCS(q)' <=> InCS(q)) /\ (Waits(q)' <=> Waits(q)) /\ (Competes(q)' <=> Competes(q))
  BY <1>1 DEF InCS, Waits, Competes, WriterCS, ReaderCS, ExitPCs
<1>3. QED
  BY <1>2 DEF PInv, me

\* Steps outside of it.
LEMMA PInvOutside ==
  ASSUME TInv, PInv, NEW p \in Procs, NEW l,
         UNCHANGED <<want, turn>>, goto(p, l),
         ~ Competes(p), l \in LoopPCs \cup {"want"}
  PROVE  PInv'
<1>1. pc' = [pc EXCEPT ![p] = l] /\ pc \in [Procs -> PCs]
  BY DEF goto, TInv, TypeOK
<1>2. \A q \in Procs : (InCS(q)' <=> InCS(q)) /\ (Waits(q)' <=> Waits(q)) /\ (Competes(q)' <=> Competes(q))
  BY <1>1 DEF InCS, Waits, Competes, WriterCS, ReaderCS, ExitPCs, LoopPCs
<1>3. QED
  BY <1>2 DEF PInv, me

\* Every step keeps the flags and the turn in agreement with the places.
LEMMA PInvNext ==
  ASSUME OneEach, TInv, PInv, [Next]_vars
  PROVE  PInv'
<1> USE DEF InCS, Waits, Competes, LoopPCs, EnterPCs, WriterCS, ReaderCS, ExitPCs
<1>0. ASSUME UNCHANGED <<want, turn, pc>> PROVE PInv'
  BY <1>0 DEF PInv, me
<1>1. ASSUME NEW p \in Procs, Call(p) PROVE PInv'
  BY <1>1, PInvOutside, Zenon DEF Call, shared
<1>2. ASSUME NEW p \in Procs, Kill(p) \/ Close(p) PROVE PInv'
  BY <1>0, <1>2 DEF Kill, Close, shared, locals
<1>3. ASSUME NEW p \in Procs, peterson(p) PROVE PInv'
  <2>0. pc \in [Procs -> PCs] /\ want \in [0..1 -> 0..1] /\ me(p) \in 0..1
    BY DEF TInv, TypeOK, me
  <2>1. CASE enter_want(p)
    <3>1. pc' = [pc EXCEPT ![p] = "turn"] /\ want' = [want EXCEPT ![me(p)] = 1] /\ turn' = turn
      BY <2>1 DEF enter_want, goto
    <3>2. \A q \in Procs : q # p => want'[me(q)] = want[me(q)] /\ pc'[q] = pc[q]
      BY <2>0, <3>1, Identities
    <3>3. pc'[p] = "turn" /\ want'[me(p)] = 1
      BY <2>0, <3>1, Zenon
    <3>4. QED
      BY <3>1, <3>2, <3>3 DEF PInv, me
  <2>2. CASE enter_turn(p)
    <3>1. pc' = [pc EXCEPT ![p] = "spin_want"] /\ want' = want /\ turn' = other(p) /\ pc[p] = "turn"
      BY <2>2 DEF enter_turn, goto
    <3>2. \A q \in Procs : q # p => pc'[q] = pc[q] /\ me(q) = other(p)
      BY <2>0, <3>1, Identities
    <3>3. pc'[p] = "spin_want"
      BY <2>0, <3>1
    <3>4. (\A q \in Procs : want[me(q)] = 1 <=> Competes(q))'
      BY <3>1, <3>2, <3>3 DEF PInv, me
    <3>5. (\A q1, q2 \in Procs :
             q1 # q2 /\ InCS(q1) /\ (InCS(q2) \/ Waits(q2)) => turn = me(q1))'
      BY <3>1, <3>2, <3>3 DEF me
    <3>6. QED
      BY <3>4, <3>5 DEF PInv
  <2>3. CASE enter_spin_want(p)
    <3>1. pc[p] = "spin_want" /\ want' = want /\ turn' = turn
      BY <2>3 DEF enter_spin_want, shared
    <3>2. pc' = [pc EXCEPT ![p] = IF want[other(p)] = 1 THEN "spin_turn" ELSE entered(p)]
      BY <2>3 DEF enter_spin_want, goto
    <3>3. CASE want[other(p)] = 1
      BY <2>0, <3>1, <3>2, <3>3, ZenonT(30) DEF PInv, me
    <3>4. CASE want[other(p)] # 1
      <4>1. \A q \in Procs : q # p => ~ Competes(q)
        BY <3>4, Identities DEF PInv
      <4>2. InCS(p)' /\ \A q \in Procs : q # p => pc'[q] = pc[q]
        BY <2>0, <3>2, <3>4 DEF entered
      <4>3. QED
        BY <3>1, <4>1, <4>2 DEF PInv, me
    <3>5. QED
      BY <3>3, <3>4
  <2>4. CASE enter_spin_turn(p)
    <3>1. pc[p] = "spin_turn" /\ want' = want /\ turn' = turn /\ turn \in 0..1
      BY <2>4 DEF enter_spin_turn, shared, TInv, TypeOK
    <3>2. pc' = [pc EXCEPT ![p] = IF turn = other(p) THEN "spin_want" ELSE entered(p)]
      BY <2>4 DEF enter_spin_turn, goto
    <3>3. CASE turn = other(p)
      BY <2>0, <3>1, <3>2, <3>3, Zenon DEF PInv, me
    <3>4. CASE turn # other(p)
      <4>1. turn = me(p)
        BY <3>1, <3>4 DEF me, other
      <4>2. InCS(p)' /\ \A q \in Procs : q # p => pc'[q] = pc[q]
        BY <2>0, <3>2, <3>4 DEF entered
      <4>3. \A q \in Procs : q # p => ~ InCS(q)
        BY <3>1, <4>1, Identities, Zenon DEF PInv
      <4>4. QED
        BY <3>1, <4>1, <4>2, <4>3 DEF PInv, me
    <3>5. QED
      BY <3>3, <3>4
  <2>5. CASE peterson_exit(p)
    <3>1. want' = [want EXCEPT ![me(p)] = 0] /\ turn' = turn
      BY <2>5 DEF peterson_exit
    <3>2. pc' = [pc EXCEPT ![p] = afterExit(p)] /\ afterExit(p) \in LoopPCs
      BY <2>5 DEF peterson_exit, goto, afterExit
    <3>3. \A q \in Procs : q # p => want'[me(q)] = want[me(q)] /\ pc'[q] = pc[q]
      BY <2>0, <3>1, <3>2, Identities
    <3>4. ~ Competes(p)' /\ want'[me(p)] = 0
      BY <2>0, <3>1, <3>2
    <3>5. QED
      BY <3>1, <3>3, <3>4 DEF PInv, me
  <2>6. QED
    BY <1>3, <2>1, <2>2, <2>3, <2>4, <2>5, Zenon DEF peterson
<1>4. ASSUME NEW p \in Procs, pipewrite(p) PROVE PInv'
  <2>1. CASE write_loop(p) \/ write_copyin(p)
    BY <2>1, PInvOutside, Zenon DEF write_loop, write_copyin, shared
  <2>2. CASE write_open(p) \/ write_full(p) \/ write_store(p)
    BY <2>2, PInvInside DEF write_open, write_full, write_store, shared
  <2>3. QED
    BY <1>4, <2>1, <2>2, Zenon DEF pipewrite
<1>5. ASSUME NEW p \in Procs, piperead(p) PROVE PInv'
  <2>1. CASE read_loop(p) \/ read_copyout(p)
    BY <2>1, PInvOutside, Zenon DEF read_loop, read_copyout, shared
  <2>2. CASE read_empty(p) \/ read_eof(p) \/ read_load(p) \/ read_inc(p)
    BY <2>2, PInvInside DEF read_empty, read_eof, read_load, read_inc, shared
  <2>3. QED
    BY <1>5, <2>1, <2>2 DEF piperead
<1>6. ASSUME NEW p \in Procs, yield(p) PROVE PInv'
  BY <1>6, PInvOutside DEF yield, shared
<1>7. CASE UNCHANGED vars
  BY <1>0, <1>7 DEF vars, shared, locals
<1>8. QED
  BY <1>1, <1>2, <1>3, <1>4, <1>5, <1>6, <1>7 DEF Next, InCall

\* The turn cannot be that of both.
LEMMA PInvExcludes == OneEach /\ PInv => MutualExclusion
BY Identities DEF PInv, MutualExclusion

\* With one process at each end, Peterson's algorithm as coded in
\* peterson_enter() and peterson_exit() keeps them out of each other's way, for
\* rings, counters and requests of every size.
THEOREM Exclusion ==
  ASSUME OneEach
  PROVE  Spec => []MutualExclusion
<1>1. Init => TInv /\ PInv
  BY TInvInit, PInvInit
<1>2. (TInv /\ PInv) /\ [Next]_vars => (TInv /\ PInv)'
  BY TInvNext, PInvNext
<1>3. TInv /\ PInv => MutualExclusion
  BY PInvExcludes
<1>4. QED
  BY <1>1, <1>2, <1>3, PTL DEF Spec

---------------------------------------------------------------------------
(* Closing: end of file and freeing the pipe.                              *)

\* A closed end has no holder left, and a process in a call is a holder.
FInv ==
  /\ readopen = 0 => ofile \cap Readers = {}
  /\ writeopen = 0 => ofile \cap Writers = {}
  /\ freed = 1 => readopen = 0 /\ writeopen = 0
  /\ \A p \in Procs : pc[p] # "user" => p \in ofile

\* Both ends are held initially.
LEMMA FInvInit == Init => FInv
BY DEF Init, FInv

\* Every step keeps an end open while a process holds it.
LEMMA FInvNext ==
  ASSUME TInv, FInv, [Next]_vars
  PROVE  FInv'
<1> USE DEF FInv, goto, shared, outer
<1>0. pc \in [Procs -> PCs]
  BY DEF TInv, TypeOK
<1>1. ASSUME NEW p \in Procs, Call(p) PROVE FInv'
  BY <1>0, <1>1 DEF Call
<1>2. ASSUME NEW p \in Procs, Kill(p) PROVE FInv'
  BY <1>2 DEF Kill, locals
<1>3. ASSUME NEW p \in Procs, Close(p) PROVE FInv'
  BY <1>3, PipeAssumption DEF Close, pipeclose, locals, Procs
<1>4. ASSUME NEW p \in Procs, UNCHANGED <<readopen, writeopen, freed, ofile>>,
             pc[p] # "user", \A q \in Procs : q # p => pc'[q] = pc[q]
      PROVE  FInv'
  BY <1>4, Zenon
<1>5. ASSUME NEW p \in Procs, peterson(p) PROVE FInv'
  BY <1>0, <1>4, <1>5, Zenon DEF peterson, enter_want, enter_turn, enter_spin_want, enter_spin_turn,
                          peterson_exit, ExitPCs
<1>6. ASSUME NEW p \in Procs, pipewrite(p) PROVE FInv'
  BY <1>0, <1>4, <1>6, Zenon DEF pipewrite, write_loop, write_copyin, write_open, write_full, write_store
<1>7. ASSUME NEW p \in Procs, piperead(p) PROVE FInv'
  BY <1>0, <1>4, <1>7, Zenon DEF piperead, read_loop, read_empty, read_eof, read_load, read_inc,
                          read_copyout
<1>8. ASSUME NEW p \in Procs, yield(p) PROVE FInv'
  BY <1>0, <1>4, <1>8 DEF yield
<1>9. CASE UNCHANGED vars
  BY <1>9 DEF vars, locals
<1>10. QED
  BY <1>1, <1>2, <1>3, <1>5, <1>6, <1>7, <1>8, <1>9, Zenon DEF Next, InCall

\* pipeclose() never frees a pipe that a pipewrite() or piperead() is using,
\* however many processes share the ends.
THEOREM FreeIsSafe == Spec => []NoUseAfterFree
<1>1. Init => TInv /\ FInv
  BY TInvInit, FInvInit
<1>2. (TInv /\ FInv) /\ [Next]_vars => (TInv /\ FInv)'
  BY TInvNext, FInvNext
<1>3. FInv => NoUseAfterFree
  BY DEF FInv, NoUseAfterFree, Procs
<1>4. QED
  BY <1>1, <1>2, <1>3, PTL DEF Spec

\* What a reader has found out about the ring stays true until it acts on it.
EInv ==
  /\ \A r \in Readers : pc[r] = "r_eof" => nread = nwrite
  /\ \A r \in Readers : pc[r] \in {"r_load", "r_inc"} => nread # nwrite
  /\ EofIsFinal

\* Nobody has looked at the ring yet.
LEMMA EInvInit == Init => EInv
BY Zenon DEF Init, EInv, EofIsFinal, Procs

\* What a reader has found out about the ring stays true.
LEMMA EInvNext ==
  ASSUME OneEach, TInv, PInv, FInv, EInv, [Next]_vars
  PROVE  EInv'
<1> USE DEF EInv, EofIsFinal, goto, shared, outer, history
<1>0. pc \in [Procs -> PCs] /\ Readers \subseteq Procs /\ MutualExclusion
  BY PInvExcludes DEF TInv, TypeOK, Procs
<1>1. ASSUME UNCHANGED <<nread, nwrite, writeopen, eof>>, NEW p \in Procs,
             \A q \in Procs : q # p => pc'[q] = pc[q],
             pc'[p] \notin {"r_eof", "r_load", "r_inc"}
      PROVE  EInv'
  BY <1>0, <1>1, Zenon
<1>2. ASSUME NEW p \in Procs, Call(p) PROVE EInv'
  BY <1>0, <1>1, <1>2 DEF Call
<1>3. ASSUME NEW p \in Procs, Kill(p) PROVE EInv'
  BY <1>3 DEF Kill, locals
<1>4. ASSUME NEW p \in Procs, Close(p) PROVE EInv'
  BY <1>4 DEF Close, pipeclose, locals
<1>5. ASSUME NEW p \in Procs, peterson(p) PROVE EInv'
  BY <1>0, <1>1, <1>5, Zenon DEF peterson, enter_want, enter_turn, enter_spin_want, enter_spin_turn,
                          peterson_exit, afterExit, entered, ExitPCs
<1>6. ASSUME NEW p \in Procs, p \in Writers, pipewrite(p) PROVE EInv'
  <2>1. CASE write_store(p)
    <3>1. p \in ofile /\ writeopen = 1 /\ InCS(p)
      BY <1>6, <2>1 DEF FInv, write_store, TInv, TypeOK, InCS, WriterCS
    <3>2. eof' = {} /\ writeopen' = writeopen
      BY <2>1, <3>1 DEF write_store
    <3>3. \A r \in Readers : ~ InCS(r) /\ pc'[r] = pc[r]
      BY <1>0, <1>6, <2>1, <3>1, PipeAssumption, Zenon DEF MutualExclusion, write_store
    <3>4. QED
      BY <3>2, <3>3, Zenon DEF InCS, ReaderCS
  <2>2. CASE write_loop(p) \/ write_copyin(p) \/ write_open(p) \/ write_full(p)
    BY <1>0, <1>1, <2>2, Zenon DEF write_loop, write_copyin, write_open, write_full
  <2>3. QED
    BY <1>6, <2>1, <2>2, Zenon DEF pipewrite
<1>7. ASSUME NEW p \in Procs, p \in Readers, piperead(p) PROVE EInv'
  <2>1. CASE read_empty(p)
    BY <1>0, <2>1 DEF read_empty
  <2>2. CASE read_eof(p)
    BY <1>0, <1>7, <2>2 DEF read_eof
  <2>3. CASE read_load(p)
    BY <1>0, <1>7, <2>3 DEF read_load
  <2>4. CASE read_inc(p)
    <3>1. eof = {} /\ eof' = eof /\ writeopen' = writeopen
      BY <1>7, <2>4, Zenon DEF read_inc
    <3>2. \A r \in Readers : pc'[r] = "exit_next"
      BY <1>0, <1>7, <2>4, Zenon DEF read_inc, OneEach
    <3>3. QED
      BY <3>1, <3>2, Zenon
  <2>5. CASE read_loop(p) \/ read_copyout(p)
    BY <1>0, <1>1, <2>5, Zenon DEF read_loop, read_copyout
  <2>6. QED
    BY <1>7, <2>1, <2>2, <2>3, <2>4, <2>5, Zenon DEF piperead
<1>8. ASSUME NEW p \in Procs, yield(p) PROVE EInv'
  BY <1>0, <1>1, <1>8, Zenon DEF yield
<1>9. CASE UNCHANGED vars
  BY <1>9 DEF vars, locals
<1>10. QED
  BY <1>2, <1>3, <1>4, <1>5, <1>6, <1>7, <1>8, <1>9, Zenon DEF Next, InCall

\* piperead() reports end of file only when every byte ever written has been
\* read and none can follow.
THEOREM EofFinality ==
  ASSUME OneEach
  PROVE  Spec => []EofIsFinal
<1>1. Init => TInv /\ PInv /\ FInv /\ EInv
  BY TInvInit, PInvInit, FInvInit, EInvInit
<1>2. (TInv /\ PInv /\ FInv /\ EInv) /\ [Next]_vars => (TInv /\ PInv /\ FInv /\ EInv)'
  BY TInvNext, PInvNext, FInvNext, EInvNext
<1>3. EInv => EofIsFinal
  BY DEF EInv
<1>4. QED
  BY <1>1, <1>2, <1>3, PTL DEF Spec

---------------------------------------------------------------------------
(* The ring as a stream of bytes.                                          *)

\* What a writer and a reader know of the ring between their steps: where the
\* byte goes and that there is room for it, which of the two stores is done, and
\* which byte was loaded.
RInv ==
  /\ Count <= PIPESIZE
  /\ \A w \in Writers : pc[w] = "w_store" <=> stores[w] # {}
  /\ \A w \in Writers : "nwrite" \in stores[w] => idx[w] = nwrite /\ Count < PIPESIZE
  /\ \A w \in Writers : stores[w] = {"data"} => nwrite = (idx[w] + 1) % UINT /\ nread # nwrite
  /\ \A w \in Writers : stores[w] = {"nwrite"} => data[idx[w] % PIPESIZE] = ch[w]
  /\ \A r \in Readers : pc[r] = "r_inc" => idx[r] = nread /\ ch[r] = data[nread % PIPESIZE]

\* A number is its own remainder, one turn below or one turn above it is not.
LEMMA ModSmall == \A a \in Int, m \in Nat \ {0} : 0 <= a /\ a < m => a % m = a
  OBVIOUS

\* A negative difference of two values of a counter.
LEMMA ModNegative == \A a \in Int, m \in Nat \ {0} : a < 0 /\ 0 <= a + m => a % m = a + m
  OBVIOUS

\* A sum beyond the wrap.
LEMMA ModBig == \A a \in Int, m \in Nat \ {0} : a >= m /\ a < m + m => a % m = a - m
  OBVIOUS

\* Quotient and remainder.
LEMMA DivMod ==
  ASSUME NEW m \in Int, m > 0, NEW a \in Int
  PROVE  a = m * (a \div m) + (a % m)
  BY Z3

\* The quotient is an integer.
LEMMA DivType == \A a \in Int, m \in Nat \ {0} : (a \div m) \in Int
  OBVIOUS

\* The only multiple of m nearer to 0 than m is 0.
LEMMA MultipleZero ==
  ASSUME NEW m \in Nat \ {0}, NEW z \in Int, 0 - m < m * z, m * z < m
  PROVE  m * z = 0
<1>1. z >= 1 => m * z >= m
  OBVIOUS
<1>2. z <= 0 - 1 => m * z <= 0 - m
  OBVIOUS
<1>3. z = 0
  BY <1>1, <1>2
<1>4. QED
  BY <1>3

\* Numbers that differ by a multiple of m have the same remainder, and others
\* nearer to each other than m have not.
LEMMA Remainders ==
  ASSUME NEW m \in Nat \ {0}, NEW a \in Int, NEW b \in Int, NEW z \in Int
  PROVE  /\ a - b = m * z => a % m = b % m
         /\ a % m = b % m /\ a < b + m /\ b < a + m => a = b
<1> DEFINE x == a \div m
           y == b \div m
           r == a % m
           s == b % m
<1>1. x \in Int /\ y \in Int /\ a = m * x + r /\ b = m * y + s
  <2>1. m \in Int /\ m > 0
    OBVIOUS
  <2>2. a = m * x + r /\ b = m * y + s
    BY <2>1, DivMod
  <2>3. x \in Int /\ y \in Int
    BY DivType
  <2>4. QED
    BY <2>2, <2>3
<1>2. r \in 0..(m - 1) /\ s \in 0..(m - 1)
  BY ModRange
<1> HIDE DEF x, y, r, s
<1>3. ASSUME a - b = m * z PROVE r = s
  <2>1. m * x \in Int /\ m * y \in Int /\ m * z \in Int
    BY <1>1
  <2>2. r - s = m * z - m * x + m * y
    BY <1>1, <1>2, <1>3, <2>1
  <2>3. m * z - m * x + m * y = m * (z - x + y)
    BY <1>1
  <2>4. z - x + y \in Int /\ 0 - m < m * (z - x + y) /\ m * (z - x + y) < m
    BY <1>1, <1>2, <2>2, <2>3
  <2>5. m * (z - x + y) = 0
    BY <2>4, MultipleZero
  <2>6. QED
    BY <1>2, <2>2, <2>3, <2>5
<1>4. ASSUME r = s, a < b + m, b < a + m PROVE a = b
  <2>1. m * x \in Int /\ m * y \in Int
    BY <1>1
  <2>2. a - b = m * x - m * y
    BY <1>1, <1>2, <1>4, <2>1
  <2>3. m * x - m * y = m * (x - y)
    BY <1>1
  <2>4. x - y \in Int /\ 0 - m < m * (x - y) /\ m * (x - y) < m
    BY <1>1, <1>4, <2>2, <2>3
  <2>5. m * (x - y) = 0
    BY <2>4, MultipleZero
  <2>6. QED
    BY <2>2, <2>3, <2>5
<1>5. QED
  BY <1>3, <1>4 DEF r, s

Counter == 0..(UINT - 1)

\* The slot of a count is not changed by the wrap of the counter.
LEMMA SlotWrap == \A a \in Int : (a - UINT) % PIPESIZE = a % PIPESIZE
<1> TAKE a \in Int
<1> DEFINE z == UINT \div PIPESIZE
<1>1. z \in Int /\ UINT = PIPESIZE * z
  <2>1. UINT = PIPESIZE * z + (UINT % PIPESIZE)
    BY PipeAssumption, DivMod
  <2>2. z \in Int /\ UINT % PIPESIZE = 0
    BY PipeAssumption, DivType
  <2> HIDE DEF z
  <2>3. QED
    BY <2>1, <2>2, PipeAssumption
<1> HIDE DEF z
<1> DEFINE b == a - UINT
<1>2. b \in Int /\ a - b = UINT
  BY PipeAssumption
<1> HIDE DEF b
<1>3. PIPESIZE \in Nat \ {0} /\ a - b = PIPESIZE * z
  BY <1>1, <1>2, PipeAssumption
<1>4. a % PIPESIZE = b % PIPESIZE
  BY <1>1, <1>2, <1>3, Remainders, Zenon
<1>5. QED
  BY <1>4 DEF b

\* Slots less than a whole turn apart differ.
LEMMA SlotsDiffer ==
  ASSUME NEW a \in Int, NEW b \in Int, a # b, a < b + PIPESIZE, b < a + PIPESIZE
  PROVE  a % PIPESIZE # b % PIPESIZE
<1>1. 0 \in Int
  OBVIOUS
<1>2. QED
  BY <1>1, Remainders, PipeAssumption, Zenon

\* The slot behind the last of n < PIPESIZE bytes is none of theirs.
LEMMA SlotsInUse ==
  ASSUME NEW rd \in Counter, NEW n \in Nat, n < PIPESIZE, NEW k \in 1..n
  PROVE  /\ (rd + (k - 1)) % PIPESIZE # (rd + n) % PIPESIZE
         /\ (rd + (k - 1)) % PIPESIZE \in 0..(PIPESIZE - 1)
<1> DEFINE a == rd + (k - 1)
           b == rd + n
<1>1. a \in Int /\ b \in Int /\ a # b /\ a < b + PIPESIZE /\ b < a + PIPESIZE
  BY PipeAssumption DEF Counter
<1> HIDE DEF a, b
<1>2. a % PIPESIZE # b % PIPESIZE /\ a % PIPESIZE \in 0..(PIPESIZE - 1)
  BY <1>1, SlotsDiffer, ModRange, PipeAssumption, Zenon
<1>3. QED
  BY <1>2 DEF a, b

\* The bytes between the counters rd and wr.
cnt(rd, wr) == (wr - rd) % UINT

\* The next value of a counter.
succ(i) == (i + 1) % UINT

\* How the number of bytes and their slots follow the counters across the wrap.
LEMMA Counters ==
  ASSUME NEW rd \in Counter, NEW wr \in Counter
  PROVE  /\ cnt(rd, wr) \in Counter
         /\ succ(rd) \in Counter /\ succ(wr) \in Counter
         /\ (rd + cnt(rd, wr)) % PIPESIZE = wr % PIPESIZE
         /\ cnt(rd, wr) = 0 <=> rd = wr
         /\ rd # wr => cnt(succ(rd), wr) = cnt(rd, wr) - 1
         /\ cnt(rd, wr) < PIPESIZE \/ rd # succ(wr) => cnt(rd, succ(wr)) = cnt(rd, wr) + 1
         /\ \A k \in Int : (succ(rd) + k) % PIPESIZE = (rd + (k + 1)) % PIPESIZE
         /\ wr # (rd + PIPESIZE) % UINT /\ cnt(rd, wr) <= PIPESIZE => cnt(rd, wr) < PIPESIZE
<1>0. UINT \in Nat \ {0} /\ PIPESIZE \in Nat \ {0} /\ PIPESIZE < UINT
  BY PipeAssumption
<1>1. ASSUME NEW i \in Counter, NEW j \in Counter
      PROVE  cnt(i, j) = IF j >= i THEN j - i ELSE j - i + UINT
  BY <1>0, ModSmall, ModNegative DEF cnt, Counter
<1>2. ASSUME NEW i \in Counter
      PROVE  succ(i) = (IF i + 1 = UINT THEN 0 ELSE i + 1) /\ succ(i) \in Counter
  <2>1. CASE i + 1 = UINT
    <3>1. UINT % UINT = UINT - UINT
      BY <1>0, ModBig
    <3>2. QED
      BY <1>0, <2>1, <3>1 DEF succ, Counter
  <2>2. CASE i + 1 # UINT
    BY <1>0, <2>2, ModSmall DEF succ, Counter
  <2>3. QED
    BY <2>1, <2>2
<1>3. cnt(rd, wr) = IF wr >= rd THEN wr - rd ELSE wr - rd + UINT
  BY <1>1
<1>4. cnt(rd, wr) \in Counter /\ (cnt(rd, wr) = 0 <=> rd = wr)
  BY <1>0, <1>3 DEF Counter
<1>5. (rd + cnt(rd, wr)) % PIPESIZE = wr % PIPESIZE
  <2>1. CASE wr >= rd
    <3>1. rd + cnt(rd, wr) = wr
      BY <1>0, <1>3, <2>1 DEF Counter
    <3>2. QED
      BY <3>1
  <2>2. CASE ~ (wr >= rd)
    <3>1. rd + cnt(rd, wr) \in Int /\ (rd + cnt(rd, wr)) - UINT = wr
      BY <1>0, <1>3, <2>2 DEF Counter
    <3>2. QED
      BY <3>1, SlotWrap
  <2>3. QED
    BY <2>1, <2>2
<1>6. ASSUME rd # wr PROVE cnt(succ(rd), wr) = cnt(rd, wr) - 1
  <2>1. cnt(succ(rd), wr) = IF wr >= succ(rd) THEN wr - succ(rd) ELSE wr - succ(rd) + UINT
    BY <1>1, <1>2, Zenon
  <2>2. QED
    BY <1>0, <1>2, <1>3, <1>6, <2>1 DEF Counter
<1>7. ASSUME cnt(rd, wr) < PIPESIZE \/ rd # succ(wr) PROVE cnt(rd, succ(wr)) = cnt(rd, wr) + 1
  <2>1. cnt(rd, succ(wr)) = IF succ(wr) >= rd THEN succ(wr) - rd ELSE succ(wr) - rd + UINT
    BY <1>1, <1>2, Zenon
  <2>2. QED
    BY <1>0, <1>2, <1>3, <1>7, <2>1 DEF Counter
<1>8. ASSUME NEW k \in Int PROVE (succ(rd) + k) % PIPESIZE = (rd + (k + 1)) % PIPESIZE
  <2>1. CASE rd + 1 = UINT
    <3>1. rd + (k + 1) \in Int /\ succ(rd) + k = (rd + (k + 1)) - UINT
      BY <1>0, <1>2, <2>1 DEF Counter
    <3>2. QED
      BY <3>1, SlotWrap
  <2>2. CASE rd + 1 # UINT
    <3>1. succ(rd) + k = rd + (k + 1)
      BY <1>0, <1>2, <2>2 DEF Counter
    <3>2. QED
      BY <3>1
  <2>3. QED
    BY <2>1, <2>2
<1>9. ASSUME wr # (rd + PIPESIZE) % UINT, cnt(rd, wr) <= PIPESIZE PROVE cnt(rd, wr) < PIPESIZE
  <2> DEFINE t == rd + PIPESIZE
  <2>1. t \in Int /\ 0 <= t /\ t < UINT + UINT /\ t = rd + PIPESIZE
    BY <1>0 DEF Counter
  <2>2. wr # t % UINT
    BY <1>9
  <2> HIDE DEF t
  <2>3. t % UINT = IF t < UINT THEN t ELSE t - UINT
    BY <1>0, <2>1, ModSmall, ModBig
  <2>4. QED
    BY <1>0, <1>3, <1>9, <2>1, <2>2, <2>3 DEF Counter
<1>10. QED
  BY <1>2, <1>4, <1>5, <1>6, <1>7, <1>8, <1>9

\* Nobody has stored or loaded a byte yet.
LEMMA RInvInit == Init => RInv
<1> SUFFICES ASSUME Init PROVE RInv
  OBVIOUS
<1>1. Count = 0
  BY PipeAssumption, ModSmall DEF Init, Count
<1>2. QED
  BY <1>1, PipeAssumption DEF Init, RInv, Procs

\* What a writer and a reader know of the ring stays true: the one is out of the
\* way of the other, and the counters wrap together with the slots.
LEMMA RInvNext ==
  ASSUME OneEach, TInv, PInv, FInv, EInv, RInv, [Next]_vars
  PROVE  RInv'
<1> USE DEF goto, shared, locals, outer, history
<1>0. /\ pc \in [Procs -> PCs] /\ stores \in [Procs -> SUBSET {"data", "nwrite"}]
      /\ idx \in [Procs -> Counter] /\ ch \in [Procs -> Byte] /\ data \in [0..(PIPESIZE - 1) -> Byte]
      /\ nread \in Counter /\ nwrite \in Counter
      /\ Readers \subseteq Procs /\ Writers \subseteq Procs /\ Writers \cap Readers = {}
      /\ MutualExclusion
      /\ Count = cnt(nread, nwrite)
      /\ \A i \in Counter : i % PIPESIZE \in 0..(PIPESIZE - 1)
  BY PInvExcludes, PipeAssumption, ModRange DEF TInv, TypeOK, Procs, Counter, Count, cnt
<1>1. ASSUME UNCHANGED <<nread, nwrite, data, stores, pc, ch, idx>> PROVE RInv'
  BY <1>1, Zenon DEF RInv, Count
<1>2. ASSUME NEW p \in Procs, UNCHANGED <<nread, nwrite, data, stores>>,
             \A q \in Procs : q # p => pc'[q] = pc[q] /\ ch'[q] = ch[q] /\ idx'[q] = idx[q],
             pc[p] # "w_store", pc'[p] \notin {"w_store", "r_inc"}
      PROVE  RInv'
  <2>1. Count' = Count
    BY <1>2 DEF Count
  <2>2. p \in Writers => stores[p] = {}
    BY <1>2, Zenon DEF RInv
  <2>3. QED
    BY <1>0, <1>2, <2>1, <2>2, ZenonT(30) DEF RInv
<1>3. ASSUME NEW p \in Procs, Call(p) PROVE RInv'
  BY <1>0, <1>2, <1>3 DEF Call
<1>4. ASSUME NEW p \in Procs, Kill(p) \/ Close(p) PROVE RInv'
  BY <1>1, <1>4, Zenon DEF Kill, Close
<1>5. ASSUME NEW p \in Procs, peterson(p) PROVE RInv'
  BY <1>0, <1>2, <1>5 DEF peterson, enter_want, enter_turn, enter_spin_want, enter_spin_turn,
                          peterson_exit, afterExit, entered, ExitPCs
<1>6. ASSUME NEW p \in Procs, p \in Writers, pipewrite(p) PROVE RInv'
  <2>1. CASE write_loop(p) \/ write_copyin(p) \/ write_open(p)
    BY <1>0, <1>2, <2>1 DEF write_loop, write_copyin, write_open
  <2>2. CASE write_full(p)
    <3>1. CASE full
      BY <1>0, <1>2, <2>2, <3>1, Zenon DEF write_full
    <3>2. CASE ~ full
      <4>1. /\ pc' = [pc EXCEPT ![p] = "w_store"] /\ idx' = [idx EXCEPT ![p] = nwrite]
            /\ stores' = [stores EXCEPT ![p] = {"data", "nwrite"}]
            /\ UNCHANGED <<nread, nwrite, data, ch>>
        BY <2>2, <3>2 DEF write_full
      <4>2. Count' = Count /\ Count < PIPESIZE /\ Count <= PIPESIZE
        BY <1>0, <3>2, <4>1, Counters DEF RInv, full, Count
      <4>3. \A w \in Writers : w = p
        BY <1>6 DEF OneEach
      <4>4. /\ pc'[p] = "w_store" /\ idx'[p] = nwrite
            /\ stores'[p] # {} /\ stores'[p] # {"data"} /\ stores'[p] # {"nwrite"}
        <5>1. pc'[p] = "w_store" /\ idx'[p] = nwrite /\ stores'[p] = {"data", "nwrite"}
          BY <1>0, <4>1
        <5>2. {"data", "nwrite"} # {} /\ {"data", "nwrite"} # {"data"} /\ {"data", "nwrite"} # {"nwrite"}
          OBVIOUS
        <5>3. QED
          BY <5>1, <5>2, Zenon
      <4>5. \A r \in Readers : pc'[r] = pc[r] /\ idx'[r] = idx[r]
        BY <1>0, <1>6, <4>1, Zenon
      <4>6. QED
        BY <4>1, <4>2, <4>3, <4>4, <4>5, ZenonT(30) DEF RInv
    <3>3. QED
      BY <3>1, <3>2, Zenon
  <2>3. CASE write_store(p)
    <3>1. PICK s \in stores[p] :
            /\ stores' = [stores EXCEPT ![p] = @ \ {s}]
            /\ data' = IF s = "data" THEN [data EXCEPT ![idx[p] % PIPESIZE] = ch[p]] ELSE data
            /\ nwrite' = IF s = "nwrite" THEN (idx[p] + 1) % UINT ELSE nwrite
      BY <2>3, Zenon DEF write_store
    <3>2. /\ pc[p] = "w_store" /\ pc' = [pc EXCEPT ![p] = IF stores'[p] = {} THEN "exit_next" ELSE "w_store"]
          /\ UNCHANGED <<nread, ch, idx>>
      BY <2>3, Zenon DEF write_store
    <3>3. \A w \in Writers : w = p
      BY <1>6, Zenon DEF OneEach
    <3>4. \A r \in Readers : pc'[r] # "r_inc"
      <4>1. \A r \in Readers : ~ InCS(r) /\ r # p
        BY <1>0, <1>6, <3>2, Zenon DEF MutualExclusion, InCS, WriterCS
      <4>2. QED
        BY <1>0, <3>2, <4>1, Zenon DEF InCS, ReaderCS
    <3>5. stores'[p] = stores[p] \ {s} /\ s \in {"data", "nwrite"} /\ stores[p] \subseteq {"data", "nwrite"}
      BY <1>0, <3>1, Zenon
    <3>6. pc'[p] = "w_store" <=> stores'[p] # {}
      BY <1>0, <3>2, Zenon
    <3>7. CASE s = "data"
      <4>1. nwrite' = nwrite /\ data' = [data EXCEPT ![idx[p] % PIPESIZE] = ch[p]] /\ Count' = Count
        BY <3>1, <3>2, <3>7, Zenon DEF Count
      <4>2. data'[idx[p] % PIPESIZE] = ch[p]
        BY <1>0, <4>1, Zenon
      <4>3. "nwrite" \in stores'[p] => "nwrite" \in stores[p]
        BY <3>5
      <4>4. stores'[p] # {"data"}
        BY <3>5, <3>7, Zenon
      <4>5. QED
        BY <3>2, <3>3, <3>4, <3>6, <4>1, <4>2, <4>3, <4>4, Zenon DEF RInv
    <3>8. CASE s = "nwrite"
      <4>1. idx[p] = nwrite /\ Count < PIPESIZE
        BY <1>6, <3>5, <3>8, Zenon DEF RInv
      <4>2. nwrite' = succ(nwrite) /\ data' = data
        BY <3>1, <3>8, <4>1, Zenon DEF succ
      <4>3. Count' = cnt(nread, succ(nwrite))
        BY <3>2, <4>2, Zenon DEF Count, cnt
      <4>4. cnt(nread, succ(nwrite)) = Count + 1 /\ Count \in Counter /\ succ(nwrite) \in Counter
        BY <1>0, <4>1, Counters, ZenonT(30)
      <4>5. Count' <= PIPESIZE /\ Count' # 0
        BY <4>1, <4>3, <4>4, PipeAssumption, SMTT(30) DEF Counter
      <4>6. nread # nwrite'
        <5>1. cnt(nread, succ(nwrite)) # 0
          BY <4>3, <4>5
        <5>2. nread # succ(nwrite)
          BY <1>0, <4>4, <5>1, Counters
        <5>3. QED
          BY <4>2, <5>2
      <4>7. "nwrite" \notin stores'[p] /\ stores'[p] # {"nwrite"}
        BY <3>5, <3>8
      <4>8. nwrite' = (idx'[p] + 1) % UINT
        BY <3>1, <3>2, <3>8
      <4>9. QED
        BY <3>2, <3>3, <3>4, <3>6, <4>5, <4>6, <4>7, <4>8, Zenon DEF RInv
    <3>9. QED
      BY <3>5, <3>7, <3>8, Zenon
  <2>4. QED
    BY <1>6, <2>1, <2>2, <2>3, ZenonT(30) DEF pipewrite
<1>7. ASSUME NEW p \in Procs, p \in Readers, piperead(p) PROVE RInv'
  <2>1. CASE read_loop(p) \/ read_empty(p) \/ read_eof(p) \/ read_copyout(p)
    BY <1>0, <1>2, <2>1, ZenonT(30) DEF read_loop, read_empty, read_eof, read_copyout
  <2>2. CASE read_load(p)
    <3>1. /\ pc' = [pc EXCEPT ![p] = "r_inc"] /\ ch' = [ch EXCEPT ![p] = data[nread % PIPESIZE]]
          /\ idx' = [idx EXCEPT ![p] = nread] /\ UNCHANGED <<nread, nwrite, data, stores>>
      BY <2>2 DEF read_load
    <3>2. Count' = Count
      BY <3>1 DEF Count
    <3>3. \A r \in Readers : r = p
      BY <1>7 DEF OneEach
    <3>4. ch'[p] = data[nread % PIPESIZE] /\ idx'[p] = nread
      BY <1>0, <3>1
    <3>5. \A w \in Writers : pc'[w] = pc[w] /\ ch'[w] = ch[w] /\ idx'[w] = idx[w]
      BY <1>0, <1>7, <3>1, Zenon
    <3>6. QED
      BY <3>1, <3>2, <3>3, <3>4, <3>5, ZenonT(30) DEF RInv
  <2>3. CASE read_inc(p)
    <3>1. /\ pc[p] = "r_inc" /\ pc' = [pc EXCEPT ![p] = "exit_next"] /\ nread' = (idx[p] + 1) % UINT
          /\ UNCHANGED <<nwrite, data, ch, idx, stores>>
      BY <2>3, Zenon DEF read_inc
    <3>2. nread' = succ(nread) /\ nread # nwrite
      BY <1>7, <3>1, Zenon DEF RInv, EInv, succ
    <3>3. Count' = cnt(succ(nread), nwrite)
      BY <3>1, <3>2, Zenon DEF Count, cnt
    <3>4. Count' = Count - 1 /\ Count \in Counter
      BY <1>0, <3>2, <3>3, Counters, Zenon
    <3>5. Count' <= PIPESIZE
      BY <3>4, PipeAssumption DEF RInv, Counter
    <3>6. \A w \in Writers : ~ InCS(w) /\ w # p
      BY <1>0, <1>7, <3>1, Zenon DEF MutualExclusion, InCS, ReaderCS
    <3>7. \A w \in Writers : pc[w] # "w_store" /\ pc'[w] # "w_store" /\ stores[w] = {}
      BY <1>0, <3>1, <3>6, Zenon DEF RInv, InCS, WriterCS
    <3>8. \A r \in Readers : pc'[r] # "r_inc"
      BY <1>0, <1>7, <3>1, Zenon DEF OneEach
    <3>9. QED
      BY <3>1, <3>5, <3>7, <3>8, Zenon DEF RInv
  <2>4. QED
    BY <1>7, <2>1, <2>2, <2>3, Zenon DEF piperead
<1>8. ASSUME NEW p \in Procs, yield(p) PROVE RInv'
  BY <1>0, <1>2, <1>8, Zenon DEF yield
<1>9. CASE UNCHANGED vars
  BY <1>1, <1>9, Zenon DEF vars
<1>10. QED
  BY <1>3, <1>4, <1>5, <1>6, <1>7, <1>8, <1>9, Zenon DEF Next, InCall

\* The n bytes of the ring d from the counter rd.
bytes(rd, n, d) == [k \in 1..n |-> d[(rd + k - 1) % PIPESIZE]]

Data == [0..(PIPESIZE - 1) -> Byte]

\* They are a sequence of n bytes.
LEMMA BytesType ==
  ASSUME NEW rd \in Counter, NEW n \in Nat, NEW d \in Data
  PROVE  /\ bytes(rd, n, d) \in Seq(Byte) /\ Len(bytes(rd, n, d)) = n
         /\ \A k \in 1..n : bytes(rd, n, d)[k] = d[(rd + (k - 1)) % PIPESIZE]
<1>1. \A k \in 1..n : (rd + (k - 1)) % PIPESIZE \in 0..(PIPESIZE - 1)
  BY ModRange, PipeAssumption DEF Counter
<1>2. bytes(rd, n, d) \in [1..n -> Byte]
  BY <1>1, Zenon DEF bytes, Data
<1>3. QED
  BY <1>2 DEF bytes

\* One byte more.
LEMMA BytesAppend ==
  ASSUME NEW rd \in Counter, NEW n \in Nat, NEW d \in Data, NEW f \in Data,
         \A k \in 1..n : f[(rd + (k - 1)) % PIPESIZE] = d[(rd + (k - 1)) % PIPESIZE]
  PROVE  /\ bytes(rd, n + 1, f) = Append(bytes(rd, n, d), f[(rd + n) % PIPESIZE])
         /\ f[(rd + n) % PIPESIZE] \in Byte
<1> DEFINE s == bytes(rd, n, d)
           t == bytes(rd, n + 1, f)
           b == f[(rd + n) % PIPESIZE]
<1>1. /\ s \in Seq(Byte) /\ Len(s) = n /\ \A k \in 1..n : s[k] = d[(rd + (k - 1)) % PIPESIZE]
      /\ t \in Seq(Byte) /\ Len(t) = n + 1 /\ \A k \in 1..(n + 1) : t[k] = f[(rd + (k - 1)) % PIPESIZE]
  BY BytesType
<1>2. t[n + 1] = b /\ b \in Byte
  <2>1. n + 1 \in 1..(n + 1) /\ (n + 1) - 1 = n
    OBVIOUS
  <2>2. t[n + 1] = f[(rd + ((n + 1) - 1)) % PIPESIZE]
    BY <1>1, <2>1, Zenon
  <2>3. t[n + 1] = b
    BY <2>1, <2>2, Zenon
  <2>4. t[n + 1] \in Byte
    BY <1>1, <2>1
  <2>5. QED
    BY <2>3, <2>4
<1>3. \A k \in 1..n : t[k] = s[k]
  BY <1>1
<1> HIDE DEF s, t, b
<1>4. Append(s, b) \in Seq(Byte) /\ Len(Append(s, b)) = n + 1
  BY <1>1, <1>2, AppendProperties
<1>5. \A k \in 1..(n + 1) : Append(s, b)[k] = t[k]
  BY <1>1, <1>2, <1>3, AppendProperties
<1>6. t = Append(s, b)
  BY <1>1, <1>4, <1>5
<1>7. QED
  BY <1>2, <1>6, Zenon DEF s, t, b

\* The oldest byte less.
LEMMA BytesTail ==
  ASSUME NEW rd \in Counter, NEW n \in Nat \ {0}, NEW d \in Data
  PROVE  /\ bytes(rd, n, d) # <<>> /\ Head(bytes(rd, n, d)) = d[rd % PIPESIZE]
         /\ bytes(succ(rd), n - 1, d) = Tail(bytes(rd, n, d))
<1> DEFINE s == bytes(rd, n, d)
           t == bytes(succ(rd), n - 1, d)
<1>0. succ(rd) \in Counter /\ n - 1 \in Nat /\ \A k \in Int : (succ(rd) + k) % PIPESIZE = (rd + (k + 1)) % PIPESIZE
  BY Counters
<1>1. /\ s \in Seq(Byte) /\ Len(s) = n /\ \A k \in 1..n : s[k] = d[(rd + (k - 1)) % PIPESIZE]
      /\ t \in Seq(Byte) /\ Len(t) = n - 1 /\ \A k \in 1..(n - 1) : t[k] = d[(succ(rd) + (k - 1)) % PIPESIZE]
  BY <1>0, BytesType, Zenon
<1>2. s # <<>> /\ Head(s) = d[rd % PIPESIZE]
  <2>1. 1 \in 1..n /\ rd + (1 - 1) = rd
    BY DEF Counter
  <2>2. s[1] = d[rd % PIPESIZE]
    BY <1>1, <2>1, Zenon
  <2> HIDE DEF s
  <2>3. s # <<>>
    BY <1>1, Zenon
  <2>4. QED
    BY <1>1, <2>2, <2>3, HeadTailProperties
<1>3. ASSUME NEW k \in 1..(n - 1) PROVE t[k] = s[k + 1]
  <2>1. k + 1 \in 1..n /\ k - 1 \in Int /\ (k - 1) + 1 = (k + 1) - 1
    OBVIOUS
  <2>2. (succ(rd) + (k - 1)) % PIPESIZE = (rd + ((k + 1) - 1)) % PIPESIZE
    BY <1>0, <2>1
  <2>3. QED
    BY <1>1, <2>1, <2>2, Zenon
<1> HIDE DEF s, t
<1>4. Tail(s) \in Seq(Byte) /\ Len(Tail(s)) = n - 1 /\ \A k \in 1..(n - 1) : Tail(s)[k] = s[k + 1]
  BY <1>1, <1>2, HeadTailProperties, Zenon
<1>5. t = Tail(s)
  BY <1>1, <1>3, <1>4, SMTT(30)
<1>6. QED
  BY <1>2, <1>5, Zenon DEF s, t

\* The slot of nwrite, counted from nread.
LEMMA CounterSlot == \A rd, wr \in Counter : (rd + cnt(rd, wr)) % PIPESIZE = wr % PIPESIZE
  BY Counters, ZenonT(30)

\* Every step of the pipe is a step of the stream or leaves it alone.  A byte is
\* put when the second of its two stores is done, whichever that is.
LEMMA StreamStep ==
  ASSUME OneEach, TInv, PInv, FInv, EInv, RInv, [Next]_vars
  PROVE  [Stream!StreamNext]_(Stream!svars)
<1> USE DEF goto, shared, locals, outer, history
<1>0. /\ pc \in [Procs -> PCs] /\ stores \in [Procs -> SUBSET {"data", "nwrite"}]
      /\ idx \in [Procs -> Counter] /\ ch \in [Procs -> Byte] /\ data \in Data
      /\ nread \in Counter /\ nwrite \in Counter /\ readopen \in 0..1 /\ writeopen \in 0..1
      /\ Readers \subseteq Procs /\ Writers \subseteq Procs /\ Writers \cap Readers = {}
      /\ MutualExclusion
      /\ \A i \in Counter : i % PIPESIZE \in 0..(PIPESIZE - 1)
  BY PInvExcludes, PipeAssumption, ModRange DEF TInv, TypeOK, Procs, Counter, Data
<1>1. /\ Count = cnt(nread, nwrite) /\ Count \in Counter /\ Count \in Nat /\ Count <= PIPESIZE
      /\ Queue = bytes(nread, Count - HalfWritten, data)
      /\ Queue' = bytes(nread', Count' - HalfWritten', data')
  <2>1. Count = cnt(nread, nwrite) /\ Count \in Counter
    BY <1>0, Counters DEF Count, cnt
  <2>2. Count \in Nat
    BY <2>1, PipeAssumption DEF Counter
  <2>3. Queue = bytes(nread, Count - HalfWritten, data) /\ Queue' = bytes(nread', Count' - HalfWritten', data')
    BY DEF Queue, bytes
  <2>4. QED
    BY <2>1, <2>2, <2>3, Zenon DEF RInv
<1>2. ASSUME UNCHANGED <<nread, nwrite, data, stores>> PROVE Queue' = Queue
  BY <1>2 DEF Queue, Count, HalfWritten
<1>3. ASSUME UNCHANGED <<nread, nwrite, data, stores, delivered, readopen, writeopen>>
      PROVE  UNCHANGED Stream!svars
  BY <1>2, <1>3 DEF Stream!svars
<1>4. ASSUME NEW p \in Procs, Close(p) PROVE [Stream!StreamNext]_(Stream!svars)
  <2>1. /\ p \in ofile /\ ofile' = ofile \ {p} /\ UNCHANGED <<nread, nwrite, data, stores, delivered>>
    BY <1>4 DEF Close
  <2>2. Queue' = Queue
    BY <1>2, <2>1
  <2>3. CASE UNCHANGED <<readopen, writeopen>>
    BY <2>1, <2>2, <2>3 DEF Stream!svars
  <2>4. CASE p \in Writers /\ ~ UNCHANGED <<readopen, writeopen>>
    <3>1. readopen' = readopen /\ writeopen' = 0
      BY <1>4, <2>4, Zenon DEF Close, pipeclose
    <3>2. writeopen = 1
      BY <1>0, <2>1, <2>4 DEF FInv
    <3>3. Stream!CloseWrite
      BY <2>1, <2>2, <3>1, <3>2 DEF Stream!CloseWrite
    <3>4. QED
      BY <3>3 DEF Stream!StreamNext
  <2>5. CASE p \notin Writers /\ ~ UNCHANGED <<readopen, writeopen>>
    <3>1. writeopen' = writeopen /\ readopen' = 0
      BY <1>4, <2>5, Zenon DEF Close, pipeclose
    <3>2. readopen = 1
      BY <1>0, <2>1, <2>5 DEF FInv, Procs
    <3>3. Stream!CloseRead
      BY <2>1, <2>2, <3>1, <3>2 DEF Stream!CloseRead
    <3>4. QED
      BY <3>3, Zenon DEF Stream!StreamNext
  <2>6. QED
    BY <2>3, <2>4, <2>5, Zenon
<1>5. ASSUME NEW p \in Procs, p \in Writers, write_full(p) PROVE UNCHANGED Stream!svars
  <2>1. CASE full
    BY <1>3, <1>5, <2>1 DEF write_full
  <2>2. CASE ~ full
    <3>1. /\ stores' = [stores EXCEPT ![p] = {"data", "nwrite"}]
          /\ UNCHANGED <<nread, nwrite, data, delivered, readopen, writeopen>>
      BY <1>5, <2>2, Zenon DEF write_full
    <3>2. \A w \in Writers : w = p
      BY <1>5 DEF OneEach
    <3>3. pc[p] # "w_store" /\ stores[p] = {}
      BY <1>5, Zenon DEF write_full, RInv
    <3>4. stores'[p] # {"data"} /\ stores[p] # {"data"}
      <4>1. {"data", "nwrite"} # {"data"} /\ {} # {"data"}
        OBVIOUS
      <4>2. QED
        BY <1>0, <3>1, <3>3, <4>1, Zenon
    <3>5. HalfWritten = 0 /\ HalfWritten' = 0
      BY <3>2, <3>4, Zenon DEF HalfWritten
    <3>6. Queue' = Queue
      BY <3>1, <3>5, Zenon DEF Queue, Count
    <3>7. QED
      BY <3>1, <3>6, Zenon DEF Stream!svars
  <2>3. QED
    BY <2>1, <2>2, Zenon
<1>6. ASSUME NEW p \in Procs, p \in Writers, write_store(p) PROVE [Stream!StreamNext]_(Stream!svars)
  <2>1. PICK s \in stores[p] :
          /\ stores' = [stores EXCEPT ![p] = @ \ {s}]
          /\ data' = IF s = "data" THEN [data EXCEPT ![idx[p] % PIPESIZE] = ch[p]] ELSE data
          /\ nwrite' = IF s = "nwrite" THEN (idx[p] + 1) % UINT ELSE nwrite
    BY <1>6, Zenon DEF write_store
  <2>2. pc[p] = "w_store" /\ UNCHANGED <<nread, readopen, writeopen, delivered, ch, idx>>
    BY <1>6, Zenon DEF write_store
  <2>3. writeopen = 1
    BY <1>0, <1>6, <2>2 DEF FInv
  <2>4. \A w \in Writers : w = p
    BY <1>6, Zenon DEF OneEach
  <2>5. stores'[p] = stores[p] \ {s} /\ stores[p] \subseteq {"data", "nwrite"} /\ s \in {"data", "nwrite"}
    BY <1>0, <2>1, Zenon
  <2>6. /\ HalfWritten = IF stores[p] = {"data"} THEN 1 ELSE 0
        /\ HalfWritten' = IF stores'[p] = {"data"} THEN 1 ELSE 0
    BY <1>6, <2>4, Zenon DEF HalfWritten
  <2>7. data' \in Data
    BY <1>0, <2>1, Zenon DEF Data
  <2>p. ASSUME NEW n \in Nat, n < PIPESIZE, NEW b \in Byte, Queue = bytes(nread, n, data), Queue' = Append(Queue, b)
        PROVE  [Stream!StreamNext]_(Stream!svars)
    <3>1. Len(Queue) < PIPESIZE
      BY <1>0, <2>p, BytesType, Zenon
    <3>2. Stream!Put
      BY <2>2, <2>3, <2>p, <3>1, Zenon DEF Stream!Put
    <3>3. QED
      BY <3>2, Zenon DEF Stream!StreamNext
  <2>8. CASE "nwrite" \in stores[p]
    <3>1. idx[p] = nwrite /\ Count < PIPESIZE
      BY <1>6, <2>8, Zenon DEF RInv
    <3>2. stores[p] # {"data"} /\ HalfWritten = 0 /\ Queue = bytes(nread, Count, data)
      BY <1>1, <2>6, <2>8
    <3>3. CASE s = "data"
      <4>1. nwrite' = nwrite /\ data' = [data EXCEPT ![nwrite % PIPESIZE] = ch[p]]
        BY <2>1, <3>1, <3>3, Zenon
      <4>2. Count' = Count /\ HalfWritten' = 0
        BY <2>2, <2>5, <2>6, <3>3, <4>1, Zenon DEF Count
      <4>3. ASSUME NEW k \in 1..Count
            PROVE  data'[(nread + (k - 1)) % PIPESIZE] = data[(nread + (k - 1)) % PIPESIZE]
        <5>1. /\ (nread + (k - 1)) % PIPESIZE # (nread + Count) % PIPESIZE
              /\ (nread + (k - 1)) % PIPESIZE \in 0..(PIPESIZE - 1)
          BY <1>0, <1>1, <3>1, SlotsInUse, ZenonT(30)
        <5>2. (nread + Count) % PIPESIZE = nwrite % PIPESIZE
          BY <1>0, <1>1, CounterSlot, Zenon
        <5>3. QED
          BY <1>0, <4>1, <5>1, <5>2, Zenon DEF Data
      <4>4. Queue' = bytes(nread, Count, data')
        BY <1>1, <2>2, <4>2
      <4>5. Queue' = Queue
        BY <3>2, <4>3, <4>4, Zenon DEF bytes
      <4>6. QED
        BY <2>2, <4>5, Zenon DEF Stream!svars
    <3>4. CASE s = "nwrite"
      <4>1. nwrite' = succ(nwrite) /\ data' = data
        BY <2>1, <3>1, <3>4, Zenon DEF succ
      <4>2. Count' = Count + 1
        <5>1. Count' = cnt(nread, succ(nwrite))
          BY <2>2, <4>1, Zenon DEF Count, cnt
        <5>2. QED
          BY <1>0, <1>1, <3>1, <5>1, Counters
      <4>3. CASE "data" \in stores[p]
        <5>1. stores'[p] = {"data"}
          BY <2>5, <3>4, <4>3, Zenon
        <5>2. Count' - HalfWritten' = Count
          BY <1>1, <2>6, <4>2, <5>1
        <5>3. Queue' = Queue
          BY <1>1, <2>2, <3>2, <4>1, <5>2, Zenon
        <5>4. QED
          BY <2>2, <5>3 DEF Stream!svars
      <4>4. CASE "data" \notin stores[p]
        <5>1. stores'[p] # {"data"}
          BY <2>5, <4>4, ZenonT(30)
        <5>2. Count' - HalfWritten' = Count + 1
          BY <1>1, <2>6, <4>2, <5>1, SMTT(30)
        <5>3. Queue' = bytes(nread, Count + 1, data)
          BY <1>1, <2>2, <4>1, <5>2, Zenon
        <5>4. /\ bytes(nread, Count + 1, data) = Append(bytes(nread, Count, data), data[(nread + Count) % PIPESIZE])
              /\ data[(nread + Count) % PIPESIZE] \in Byte
          BY <1>0, <1>1, BytesAppend, ZenonT(30)
        <5>5. QED
          BY <1>1, <2>p, <3>1, <3>2, <5>3, <5>4, Zenon
      <4>5. QED
        BY <4>3, <4>4, Zenon
    <3>5. QED
      BY <2>5, <3>3, <3>4, Zenon
  <2>9. CASE "nwrite" \notin stores[p]
    <3>1. s = "data" /\ stores[p] = {"data"} /\ stores'[p] = {} /\ stores'[p] # {"data"}
      BY <2>5, <2>9, Zenon
    <3>2. nwrite = succ(idx[p]) /\ nread # nwrite
      BY <1>6, <3>1, Zenon DEF RInv, succ
    <3>3. nwrite' = nwrite /\ data' = [data EXCEPT ![idx[p] % PIPESIZE] = ch[p]]
      BY <2>1, <3>1, Zenon
    <3>4. Count' = Count /\ HalfWritten = 1 /\ HalfWritten' = 0
      BY <2>2, <2>6, <3>1, <3>3, Zenon DEF Count
    <3> DEFINE n == Count - 1
    <3>5. n \in Nat /\ n < PIPESIZE /\ Count = n + 1
      <4>1. Count # 0
        BY <1>0, <1>1, <3>2, Counters, Zenon
      <4>2. QED
        BY <1>1, <4>1, PipeAssumption
    <3> HIDE DEF n
    <3>6. (nread + n) % PIPESIZE = idx[p] % PIPESIZE
      <4>1. cnt(nread, idx[p]) \in Int /\ Count = cnt(nread, idx[p]) + 1
        BY <1>0, <1>1, <1>6, <3>2, Counters, SMTT(30) DEF Counter
      <4>2. n = cnt(nread, idx[p])
        BY <3>5, <4>1, SMTT(30)
      <4>3. (nread + cnt(nread, idx[p])) % PIPESIZE = idx[p] % PIPESIZE
        BY <1>0, <1>6, CounterSlot, Zenon
      <4>4. QED
        BY <4>2, <4>3, ZenonT(30)
    <3>7. /\ Queue = bytes(nread, n, data)
          /\ Queue' = bytes(nread, n + 1, data')
      <4>1. Count - HalfWritten = n /\ Count' - HalfWritten' = n + 1
        BY <3>4, <3>5
      <4>2. QED
        BY <1>1, <2>2, <4>1, Zenon
    <3>8. ASSUME NEW k \in 1..n
          PROVE  data'[(nread + (k - 1)) % PIPESIZE] = data[(nread + (k - 1)) % PIPESIZE]
      <4>1. /\ (nread + (k - 1)) % PIPESIZE # (nread + n) % PIPESIZE
            /\ (nread + (k - 1)) % PIPESIZE \in 0..(PIPESIZE - 1)
        BY <1>0, <3>5, SlotsInUse
      <4>2. QED
        BY <1>0, <3>3, <3>6, <4>1 DEF Data
    <3>9. /\ bytes(nread, n + 1, data') = Append(bytes(nread, n, data), data'[(nread + n) % PIPESIZE])
          /\ data'[(nread + n) % PIPESIZE] \in Byte
      BY <1>0, <2>7, <3>5, <3>8, BytesAppend, Zenon
    <3>10. QED
      BY <2>p, <3>5, <3>7, <3>9
  <2>10. QED
    BY <2>8, <2>9, Zenon
<1>7. ASSUME NEW p \in Procs, p \in Readers, read_inc(p) PROVE [Stream!StreamNext]_(Stream!svars)
  <2>1. /\ pc[p] = "r_inc" /\ nread' = (idx[p] + 1) % UINT /\ delivered' = ch[p]
        /\ UNCHANGED <<data, nwrite, readopen, writeopen, stores>>
    BY <1>7, Zenon DEF read_inc
  <2>2. readopen = 1
    BY <1>0, <1>7, <2>1 DEF FInv
  <2>3. nread' = succ(nread) /\ delivered' = data[nread % PIPESIZE]
    BY <1>7, <2>1, Zenon DEF RInv, succ
  <2>4. nread # nwrite
    BY <1>7, <2>1, Zenon DEF EInv
  <2>5. HalfWritten = 0 /\ HalfWritten' = 0
    <3>1. ASSUME NEW w \in Writers, stores[w] = {"data"} PROVE FALSE
      <4>1. {"data"} # {}
        OBVIOUS
      <4>2. pc[w] = "w_store"
        BY <3>1, <4>1, Zenon DEF RInv
      <4>3. InCS(w) /\ InCS(p) /\ w # p
        BY <1>0, <1>7, <2>1, <4>2, Zenon DEF InCS, WriterCS, ReaderCS
      <4>4. QED
        BY <1>0, <4>3 DEF MutualExclusion
    <3>2. QED
      BY <2>1, <3>1, Zenon DEF HalfWritten
  <2>6. Count \in Nat \ {0} /\ Count' = Count - 1
    <3>1. Count' = cnt(succ(nread), nwrite)
      BY <2>1, <2>3, Zenon DEF Count, cnt
    <3>2. QED
      BY <1>0, <1>1, <2>4, <3>1, Counters, ZenonT(30)
  <2>7. Queue = bytes(nread, Count, data) /\ Queue' = bytes(succ(nread), Count - 1, data)
    BY <1>1, <2>1, <2>3, <2>5, <2>6, SMTT(30)
  <2>8. Queue # <<>> /\ Head(Queue) = data[nread % PIPESIZE] /\ Queue' = Tail(Queue)
    BY <1>0, <2>6, <2>7, BytesTail, Zenon
  <2>9. Stream!Get
    BY <2>1, <2>2, <2>3, <2>8, Zenon DEF Stream!Get
  <2>10. QED
    BY <2>9 DEF Stream!StreamNext
<1>8. ASSUME NEW p \in Procs,
             \/ Call(p) \/ Kill(p) \/ peterson(p) \/ yield(p)
             \/ write_loop(p) \/ write_copyin(p) \/ write_open(p)
             \/ read_loop(p) \/ read_empty(p) \/ read_eof(p) \/ read_load(p) \/ read_copyout(p)
      PROVE  UNCHANGED Stream!svars
  <2>1. UNCHANGED <<nread, nwrite, data, stores, delivered, readopen, writeopen>>
    BY <1>8, Zenon DEF Call, Kill, peterson, enter_want, enter_turn, enter_spin_want, enter_spin_turn, peterson_exit,
       yield, write_loop, write_copyin, write_open, read_loop, read_empty, read_eof, read_load, read_copyout
  <2>2. QED
    BY <1>3, <2>1, Zenon
<1>9. CASE UNCHANGED vars
  BY <1>3, <1>9, Zenon DEF vars
<1>10. QED
  BY <1>4, <1>5, <1>6, <1>7, <1>8, <1>9 DEF Next, InCall, pipewrite, piperead

\* pipealloc() makes an empty stream with both ends open.
LEMMA StreamStart == Init => Stream!StreamInit
<1> SUFFICES ASSUME Init PROVE Stream!StreamInit
  OBVIOUS
<1>1. Junk \in Byte
  BY PipeAssumption DEF Junk
<1>2. Count = 0
  BY PipeAssumption, ModSmall DEF Init, Count
<1>3. HalfWritten = 0
  <2>1. {} # {"data"}
    OBVIOUS
  <2>2. QED
    BY <2>1 DEF Init, HalfWritten, Procs
<1>4. Queue = <<>>
  <2>1. 1..(Count - HalfWritten) = {}
    BY <1>2, <1>3
  <2>2. QED
    BY <2>1 DEF Queue
<1>5. QED
  BY <1>1, <1>4, Zenon DEF Init, Stream!StreamInit

\* The ring that pipewrite() fills and piperead() empties under Peterson's
\* algorithm is a bounded FIFO byte stream, for every size of the ring that
\* divides the range of its counters, every set of bytes and any length of the
\* requests: no byte is lost, duplicated, reordered or overwritten, whichever
\* order the two stores of data[nwrite++ % PIPESIZE] = ch are made in.
THEOREM PipeIsStream ==
  ASSUME OneEach PROVE Spec => ImplementsStream
<1> DEFINE I == TInv /\ PInv /\ FInv /\ EInv /\ RInv
<1>1. Init => I
  BY TInvInit, PInvInit, FInvInit, EInvInit, RInvInit, Zenon
<1>2. I /\ [Next]_vars => I'
  BY OneEach, TInvNext, PInvNext, FInvNext, EInvNext, RInvNext, Zenon
<1>3. I /\ [Next]_vars => [Stream!StreamNext]_(Stream!svars)
  BY OneEach, StreamStep
<1> HIDE DEF I
<1>4. Spec => [][Stream!StreamNext]_(Stream!svars)
  BY <1>1, <1>2, <1>3, PTL DEF Spec
<1>5. QED
  BY <1>4, StreamStart, PTL DEF Spec, ImplementsStream, Stream!StreamSpec
===========================================================================
