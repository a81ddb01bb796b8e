------------------------------- MODULE Pipe -------------------------------
(***************************************************************************)
(* The pipe of kernel/pipe.c: a ring buffer whose readers and writers      *)
(* exclude each other with Peterson's algorithm, and which is closed and   *)
(* freed under a spinlock.                                                 *)
(*                                                                         *)
(* A step is one access to memory that another process can change, so the  *)
(* processes interleave between any two such accesses, as they do when     *)
(* each has a CPU or when the timer preempts them in the kernel.  Accesses *)
(* take effect in program order: store buffers are not modelled.           *)
(***************************************************************************)
EXTENDS Integers, Sequences, FiniteSets

CONSTANTS Writers,    \* processes that hold the write end
          Readers,    \* processes that hold the read end
          PIPESIZE,   \* size of the ring
          UINT,       \* number of values of a C uint
          Byte,       \* the values of a byte
          MaxReq      \* bound: longest request passed to read() and write()

ASSUME PipeAssumption ==
  /\ Writers \cap Readers = {}
  /\ PIPESIZE \in Nat \ {0}
  /\ UINT \in Nat
  /\ PIPESIZE < UINT
  /\ UINT % PIPESIZE = 0
  /\ MaxReq \in Nat
  /\ Byte # {}

VARIABLES
  \* struct pipe
  want, turn, data, nread, nwrite, readopen, writeopen,
  freed,      \* 1 when pi has been handed back to kfree()
  \* locals of each process's call
  pc, ch, idx,
  left,       \* n - i: bytes still to move
  stores,     \* stores of data[nwrite++ % PIPESIZE] = ch still to be done
  \* the process table and the file table, as far as the pipe sees them
  killed, ofile,
  \* history: the byte last taken out of the ring, the readers told EOF
  delivered, eof

shared == <<want, turn, data, nread, nwrite, readopen, writeopen, freed>>
locals == <<pc, left, ch, idx, stores>>
outer  == <<killed, ofile>>
history == <<delivered, eof>>
vars == <<shared, locals, outer, history>>

Procs == Writers \cup Readers

me(p) == IF p \in Writers THEN 0 ELSE 1
other(p) == 1 - me(p)

EnterPCs == {"want", "turn", "spin_want", "spin_turn"}
WriterCS == {"w_open", "w_full", "w_store"}
ReaderCS == {"r_empty", "r_eof", "r_load", "r_inc"}
ExitPCs == {"exit_fail", "exit_eof", "exit_wait", "exit_next"}
LoopPCs == {"user", "loop", "w_copyin", "r_copyout", "yield"}
PCs == LoopPCs \cup EnterPCs \cup WriterCS \cup ReaderCS \cup ExitPCs

\* The critical section: between peterson_enter() and the store that
\* peterson_exit() makes.
InCS(p) == pc[p] \in WriterCS \cup ReaderCS \cup ExitPCs

goto(p, l) == pc' = [pc EXCEPT ![p] = l]

\* pipealloc() has just returned.  kalloc() has filled the page with junk.
Junk == CHOOSE b \in Byte : TRUE

Init ==
  /\ want = [m \in 0..1 |-> 0]
  /\ turn = 0
  /\ data = [k \in 0..(PIPESIZE - 1) |-> Junk]
  /\ nread = 0
  /\ nwrite = 0
  /\ readopen = 1
  /\ writeopen = 1
  /\ freed = 0
  /\ pc = [p \in Procs |-> "user"]
  /\ left = [p \in Procs |-> 0]
  /\ ch = [p \in Procs |-> Junk]
  /\ idx = [p \in Procs |-> 0]
  /\ stores = [p \in Procs |-> {}]
  /\ killed = {}
  /\ ofile = Procs
  /\ delivered = Junk
  /\ eof = {}

---------------------------------------------------------------------------
(* System calls of the processes, and the rest of the kernel.              *)

\* A process that has its end open calls read() or write() for some length.
Call(p) ==
  /\ pc[p] = "user"
  /\ p \in ofile \ killed
  /\ \E n \in 0..MaxReq : left' = [left EXCEPT ![p] = n]
  /\ goto(p, "loop")
  /\ UNCHANGED <<shared, ch, idx, stores, outer, history>>

\* kkill(): the victim notices at its next killed() test or on its way back to
\* user space.
Kill(p) ==
  /\ p \notin killed
  /\ killed' = killed \cup {p}
  /\ UNCHANGED <<shared, locals, ofile, history>>

\* Mutant: frees the pipe as soon as one end is closed.
pipeclose_eager(writable) ==
  /\ readopen' = IF writable THEN readopen ELSE 0
  /\ writeopen' = IF writable THEN 0 ELSE writeopen
  /\ freed' = IF readopen' = 0 \/ writeopen' = 0 THEN 1 ELSE 0

\* pipeclose(), under pi->lock, called by fileclose() for the last reference to
\* an end.  Its wakeup() finds nobody asleep.
pipeclose(writable) ==
  /\ readopen' = IF writable THEN readopen ELSE 0
  /\ writeopen' = IF writable THEN 0 ELSE writeopen
  /\ freed' = IF readopen' = 0 /\ writeopen' = 0 THEN 1 ELSE 0

\* close(), or the closing of all files by kexit().  Every process holding the
\* end has one reference to its struct file.
Close(p) ==
  LET end == IF p \in Writers THEN Writers ELSE Readers IN
  /\ pc[p] = "user"
  /\ p \in ofile
  /\ ofile' = ofile \ {p}
  /\ IF ofile' \cap end = {}
     THEN pipeclose(p \in Writers)
     ELSE UNCHANGED <<readopen, writeopen, freed>>
  /\ UNCHANGED <<want, turn, data, nread, nwrite, locals, killed, history>>

---------------------------------------------------------------------------
(* peterson_enter() and peterson_exit().                                   *)

enter_want(p) ==
  /\ pc[p] = "want"
  /\ want' = [want EXCEPT ![me(p)] = 1]
  /\ goto(p, "turn")
  /\ UNCHANGED <<turn, data, nread, nwrite, readopen, writeopen, freed,
                 left, ch, idx, stores, outer, history>>

\* Mutant: the process takes the turn instead of giving it away.
enter_turn_self(p) ==
  /\ pc[p] = "turn"
  /\ turn' = me(p)
  /\ goto(p, "spin_want")
  /\ UNCHANGED <<want, data, nread, nwrite, readopen, writeopen, freed,
                 left, ch, idx, stores, outer, history>>

enter_turn(p) ==
  /\ pc[p] = "turn"
  /\ turn' = other(p)
  /\ goto(p, "spin_want")
  /\ UNCHANGED <<want, data, nread, nwrite, readopen, writeopen, freed,
                 left, ch, idx, stores, outer, history>>

\* The first instruction after the loop of peterson_enter().
entered(p) == IF p \in Writers THEN "w_open" ELSE "r_empty"

\* The two volatile reads of the while condition; when both hold, yield() and
\* test again.
enter_spin_want(p) ==
  /\ pc[p] = "spin_want"
  /\ goto(p, IF want[other(p)] = 1 THEN "spin_turn" ELSE entered(p))
  /\ UNCHANGED <<shared, left, ch, idx, stores, outer, history>>

enter_spin_turn(p) ==
  /\ pc[p] = "spin_turn"
  /\ goto(p, IF turn = other(p) THEN "spin_want" ELSE entered(p))
  /\ UNCHANGED <<shared, left, ch, idx, stores, outer, history>>

\* Where the call goes on after peterson_exit(): it returns -1, returns what it
\* read so far, yields and retries, or has moved one byte.
afterExit(p) ==
  CASE pc[p] \in {"exit_fail", "exit_eof"} -> "user"
    [] pc[p] = "exit_wait" -> "yield"
    [] pc[p] = "exit_next" -> IF p \in Writers THEN "loop" ELSE "r_copyout"

peterson_exit(p) ==
  /\ pc[p] \in ExitPCs
  /\ want' = [want EXCEPT ![me(p)] = 0]
  /\ goto(p, afterExit(p))
  /\ left' = IF pc[p] = "exit_next" /\ p \in Writers THEN [left EXCEPT ![p] = @ - 1] ELSE left
  /\ idx' = [idx EXCEPT ![p] = 0]      \* dead
  /\ UNCHANGED <<turn, data, nread, nwrite, readopen, writeopen, freed,
                 ch, stores, outer, history>>

\* yield() after finding the ring full or empty.
yield(p) ==
  /\ pc[p] = "yield"
  /\ goto(p, "loop")
  /\ UNCHANGED <<shared, left, ch, idx, stores, outer, history>>

---------------------------------------------------------------------------
(* pipewrite().                                                            *)

\* Loop condition, then the test outside the critical section.
write_loop(p) ==
  /\ pc[p] = "loop"
  /\ goto(p, IF left[p] > 0 /\ readopen = 1 /\ p \notin killed
             THEN "w_copyin" ELSE "user")
  /\ UNCHANGED <<shared, left, ch, idx, stores, outer, history>>

\* copyin() of the next byte of the caller's buffer; on a bad address the call
\* returns what it has written so far.
write_copyin(p) ==
  /\ pc[p] = "w_copyin"
  /\ \/ /\ \E b \in Byte : ch' = [ch EXCEPT ![p] = b]
        /\ goto(p, "want")
     \/ /\ goto(p, "user")
        /\ UNCHANGED ch
  /\ UNCHANGED <<shared, left, idx, stores, outer, history>>

write_open(p) ==
  /\ pc[p] = "w_open"
  /\ goto(p, IF readopen = 0 THEN "exit_fail" ELSE "w_full")
  /\ UNCHANGED <<shared, left, ch, idx, stores, outer, history>>

\* Mutant: one byte too many.
full_late == nwrite = (nread + PIPESIZE + 1) % UINT

full == nwrite = (nread + PIPESIZE) % UINT

\* The test for a full ring; otherwise nwrite is loaded and two stores follow.
write_full(p) ==
  /\ pc[p] = "w_full"
  /\ IF full
     THEN /\ goto(p, "exit_wait")
          /\ UNCHANGED <<idx, stores>>
     ELSE /\ goto(p, "w_store")
          /\ idx' = [idx EXCEPT ![p] = nwrite]
          /\ stores' = [stores EXCEPT ![p] = {"data", "nwrite"}]
  /\ UNCHANGED <<shared, left, ch, outer, history>>

\* data[nwrite++ % PIPESIZE] = ch: C leaves the order of its two stores open.
write_store(p) ==
  /\ pc[p] = "w_store"
  /\ \E s \in stores[p] :
       /\ stores' = [stores EXCEPT ![p] = @ \ {s}]
       /\ data' = IF s = "data" THEN [data EXCEPT ![idx[p] % PIPESIZE] = ch[p]] ELSE data
       /\ nwrite' = IF s = "nwrite" THEN (idx[p] + 1) % UINT ELSE nwrite
  /\ goto(p, IF stores'[p] = {} THEN "exit_next" ELSE "w_store")
  /\ UNCHANGED <<want, turn, nread, readopen, writeopen, freed, left, ch, idx, outer, history>>

---------------------------------------------------------------------------
(* piperead().                                                             *)

\* Mutant: a waiting reader does not look at its killed flag.
read_loop_unkillable(p) ==
  /\ pc[p] = "loop"
  /\ goto(p, IF left[p] > 0 THEN "want" ELSE "user")
  /\ UNCHANGED <<shared, left, ch, idx, stores, outer, history>>

read_loop(p) ==
  /\ pc[p] = "loop"
  /\ goto(p, IF left[p] > 0 /\ p \notin killed THEN "want" ELSE "user")
  /\ UNCHANGED <<shared, left, ch, idx, stores, outer, history>>

\* Mutant: the closed write end is noticed before the bytes left in the ring.
read_empty_hasty(p) ==
  /\ pc[p] = "r_empty"
  /\ goto(p, IF nread = nwrite \/ writeopen = 0 THEN "r_eof" ELSE "r_load")
  /\ UNCHANGED <<shared, left, ch, idx, stores, outer, history>>

read_empty(p) ==
  /\ pc[p] = "r_empty"
  /\ goto(p, IF nread = nwrite THEN "r_eof" ELSE "r_load")
  /\ UNCHANGED <<shared, left, ch, idx, stores, outer, history>>

\* Empty: end of file if the write end is closed, otherwise wait for a byte.
read_eof(p) ==
  /\ pc[p] = "r_eof"
  /\ goto(p, IF writeopen = 0 THEN "exit_eof" ELSE "exit_wait")
  /\ eof' = IF writeopen = 0 THEN eof \cup {p} ELSE eof
  /\ UNCHANGED <<shared, left, ch, idx, stores, outer, delivered>>

read_load(p) ==
  /\ pc[p] = "r_load"
  /\ ch' = [ch EXCEPT ![p] = data[nread % PIPESIZE]]
  /\ idx' = [idx EXCEPT ![p] = nread]
  /\ goto(p, "r_inc")
  /\ UNCHANGED <<shared, left, stores, outer, history>>

read_inc(p) ==
  /\ pc[p] = "r_inc"
  /\ nread' = (idx[p] + 1) % UINT
  /\ delivered' = ch[p]
  /\ goto(p, "exit_next")
  /\ UNCHANGED <<want, turn, data, nwrite, readopen, writeopen, freed,
                 left, ch, idx, stores, outer, eof>>

\* copyout() to the caller's buffer, outside the critical section.
read_copyout(p) ==
  /\ pc[p] = "r_copyout"
  /\ \/ /\ left' = [left EXCEPT ![p] = @ - 1]
        /\ goto(p, "loop")
     \/ /\ goto(p, "user")
        /\ UNCHANGED left
  /\ UNCHANGED <<shared, ch, idx, stores, outer, history>>

---------------------------------------------------------------------------
pipewrite(p) ==
  \/ write_loop(p) \/ write_copyin(p) \/ write_open(p) \/ write_full(p) \/ write_store(p)

piperead(p) ==
  \/ read_loop(p) \/ read_empty(p) \/ read_eof(p) \/ read_load(p) \/ read_inc(p)
  \/ read_copyout(p)

peterson(p) ==
  \/ enter_want(p) \/ enter_turn(p) \/ enter_spin_want(p) \/ enter_spin_turn(p)
  \/ peterson_exit(p)

\* A step of the call that p is in.
InCall(p) ==
  \/ p \in Writers /\ pipewrite(p)
  \/ p \in Readers /\ piperead(p)
  \/ peterson(p)
  \/ yield(p)

Next == \E p \in Procs : Call(p) \/ Kill(p) \/ Close(p) \/ InCall(p)

Spec == Init /\ [][Next]_vars

\* Every process in a call keeps running (each has a CPU of its own, or is
\* scheduled again and again), and a killed process gets to close its files.
Fairness ==
  \A p \in Procs : WF_vars(InCall(p)) /\ WF_vars(p \in killed /\ Close(p))

FairSpec == Spec /\ Fairness

---------------------------------------------------------------------------
(* Properties.                                                             *)

\* Every variable holds a value of its C type.
TypeOK ==
  /\ want \in [0..1 -> 0..1]
  /\ turn \in 0..1
  /\ data \in [0..(PIPESIZE - 1) -> Byte]
  /\ nread \in 0..(UINT - 1)
  /\ nwrite \in 0..(UINT - 1)
  /\ readopen \in 0..1
  /\ writeopen \in 0..1
  /\ freed \in 0..1
  /\ pc \in [Procs -> PCs]
  /\ left \in [Procs -> 0..MaxReq]
  /\ ch \in [Procs -> Byte]
  /\ idx \in [Procs -> 0..(UINT - 1)]
  /\ stores \in [Procs -> SUBSET {"data", "nwrite"}]
  /\ killed \subseteq Procs
  /\ ofile \subseteq Procs
  /\ delivered \in Byte
  /\ eof \subseteq Readers

\* No two processes are between peterson_enter() and peterson_exit() at once
\* (pipe.c:27, "Peterson provides mutual exclusion").
MutualExclusion ==
  \A p, q \in Procs : InCS(p) /\ InCS(q) => p = q

\* The bytes in flight.  A byte whose slot is counted by nwrite but not yet
\* stored is not among them.
Count == (nwrite - nread) % UINT
HalfWritten == IF \E w \in Writers : stores[w] = {"data"} THEN 1 ELSE 0
Queue == [k \in 1..(Count - HalfWritten) |-> data[(nread + k - 1) % PIPESIZE]]

\* Seen from outside, the ring is a bounded FIFO byte stream: pipewrite() and
\* piperead() lose, duplicate, reorder and overwrite nothing, also when the
\* counters wrap around.
Stream == INSTANCE ByteStream WITH queue <- Queue, Capacity <- PIPESIZE
ImplementsStream == Stream!StreamSpec

\* End of file is final: once piperead() has told a reader EOF, the write end is
\* closed and no byte is or will ever be left in the ring.
EofIsFinal == eof # {} => writeopen = 0 /\ nread = nwrite

\* kfree(pi) happens only when no process is inside pipewrite() or piperead(),
\* although those no longer take pi->lock.
NoUseAfterFree == freed = 1 => \A p \in Procs : pc[p] = "user"

\* A process that asks for the critical section gets it.
EnterEventually ==
  \A p \in Procs : pc[p] = "spin_want" ~> InCS(p)

\* A waiting call ends when waiting has become pointless: the process is
\* killed, the other end is closed.
HopelessReturns ==
  /\ \A p \in Procs : p \in killed /\ pc[p] # "user" ~> pc[p] = "user"
  /\ \A w \in Writers : readopen = 0 /\ pc[w] # "user" ~> pc[w] = "user"
  /\ \A r \in Readers : writeopen = 0 /\ pc[r] # "user" ~> pc[r] = "user"

\* A reader in a call gets a byte if there is one, and a writer in a call gets
\* room if there is some: neither can stay in its yield() loop forever.
WaitEnds ==
  /\ \A r \in Readers : pc[r] = "yield" /\ nread # nwrite ~> pc[r] \in {"r_load", "user"}
  /\ \A w \in Writers : pc[w] = "yield" /\ ~full ~> pc[w] \in {"w_store", "user"}

\* No call waits without end for the lock, for room or a byte that is there, or
\* for what can no longer come.
CallsEnd == EnterEventually /\ HopelessReturns /\ WaitEnds
===========================================================================
