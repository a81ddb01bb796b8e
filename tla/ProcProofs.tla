----------------------------- MODULE ProcProofs -----------------------------
(***************************************************************************)
(* Proofs about ProcTable, for any number of slots and any sequence of     *)
(* fork(), exit(), wait(), kill() and pause(): the process table makes     *)
(* sense to those who walk it, and no parent sleeps beside a zombie child. *)
(***************************************************************************)
EXTENDS ProcTable, FiniteSetTheorems, TLAPS

ForkPCs == {"fork_parent", "fork_run"}
LockPCs == {"wait_scan", "wait_killed", "wait_sleep", "exit_zombie"}

\* pids are handed out in order.
PidInv ==
  /\ PidsUnique
  /\ \A s \in Slot : pid[s] < nextpid

\* Whoever is in kfork() runs and has one slot of its own in the making, which
\* is its child from fork_parent on.
ForkInv ==
  /\ \A p \in Slot :
       /\ np[p] = None <=> pc[p] \notin ForkPCs
       /\ pc[p] \in ForkPCs => state[p] = "RUNNABLE" /\ state[np[p]] = "USED"
       /\ pc[p] = "fork_run" => parent[np[p]] = p
  /\ \A p, q \in Slot : np[p] = np[q] /\ np[p] # None => p = q
  /\ \A s \in Slot : state[s] = "USED" => pc[s] = "user" /\ \E p \in Slot : np[p] = s

\* Parents are alive, also those of slots in the making; a free slot has no
\* parent, a process that has run has one, and init, which never exits, has none.
\* One that is about to be a zombie has given its children away.
FamilyInv ==
  /\ live(init) /\ parent[init] = None /\ pc[init] \notin {"exit", "exit_zombie"}
  /\ \A s \in Slot :
       /\ state[s] = "UNUSED" => parent[s] = None
       /\ parent[s] # None => live(parent[s])
       /\ s # init /\ (live(s) \/ state[s] = "ZOMBIE") => parent[s] # None
       /\ state[s] = "RUNNABLE" /\ pc[s] = "exit_zombie" => \A t \in Slot : parent[t] # s

\* wait_lock is held through the scan of wait() up to the sleep, and from the
\* wakeup of exit() to the ZOMBIE: so nobody begins to sleep in wait() in between,
\* and a scan that found no zombie is still right when sleep() is reached.
WaitInv ==
  \A s \in Slot :
    /\ state[s] = "SLEEPING" => pc[s] = "pause" \/ (pc[s] = "wait" /\ chan[s] = s)
    /\ state[s] = "RUNNABLE" /\ pc[s] \in LockPCs => wait_lock = s
    /\ state[s] = "RUNNABLE" /\ pc[s] = "exit_zombie" =>
         ~ (state[parent[s]] = "SLEEPING" /\ pc[parent[s]] = "wait")
    /\ \/ state[s] = "RUNNABLE" /\ pc[s] \in {"wait_killed", "wait_sleep"}
       \/ state[s] = "SLEEPING" /\ pc[s] = "wait"
       => \A t \in Slot : parent[t] = s => state[t] # "ZOMBIE"

ProcInv == TypeOK /\ PidInv /\ ForkInv /\ FamilyInv /\ WaitInv

---------------------------------------------------------------------------
(* The initial state, and what every proof below starts from.              *)

\* init's slot is one of the table, and no slot is None.
LEMMA Slots == init \in Slot /\ None \notin Slot /\ IsFiniteSet(Slot)
<1>1. init \in Slot /\ None \notin Slot
  BY ProcAssumption DEF Slot, init, None
<1>2. QED
  BY <1>1, FS_Interval, ProcAssumption DEF Slot

\* The invariants hold when userinit() has made the first process.
LEMMA ProcInvInit == Init => ProcInv /\ MarksExplained
<1> SUFFICES ASSUME Init PROVE ProcInv /\ MarksExplained
  OBVIOUS
<1>1. TypeOK
  BY Slots, ProcAssumption DEF Init, TypeOK, States, PCs, WaitPCs, None
<1>2. PidInv /\ MarksExplained
  BY Slots DEF Init, PidInv, PidsUnique, MarksExplained
<1>3. ForkInv /\ FamilyInv /\ WaitInv
  BY Slots DEF Init, ForkInv, ForkPCs, FamilyInv, WaitInv, LockPCs, live
<1>4. QED
  BY <1>1, <1>2, <1>3 DEF ProcInv

---------------------------------------------------------------------------
(* The types.                                                              *)

\* The types are preserved by every step.
LEMMA TypeNext == ProcInv /\ Next => TypeOK'
<1> SUFFICES ASSUME ProcInv, Next PROVE TypeOK'
  OBVIOUS
<1>0. /\ state \in [Slot -> States] /\ pid \in [Slot -> 0..MaxPid]
      /\ parent \in [Slot -> Slot \cup {None}] /\ chan \in [Slot -> Slot \cup {None, ticks}]
      /\ killed \in [Slot -> {0, 1}] /\ nextpid \in 2..(MaxPid + 1)
      /\ wait_lock \in Slot \cup {None} /\ pc \in [Slot -> PCs]
      /\ np \in [Slot -> Slot \cup {None}] /\ victims \subseteq Nat
  BY DEF ProcInv, TypeOK
<1> USE <1>0, Slots DEF TypeOK, States, PCs, WaitPCs, at, goto, procvars, acquire, release
<1>1. CASE clockintr
  BY <1>1 DEF clockintr, wakeup
<1>2. ASSUME NEW p \in Slot, Syscall(p) PROVE TypeOK'
  <2>1. CASE fork_alloc(p)
    <3>1. nextpid' \in 2..(MaxPid + 1) /\ nextpid \in 0..MaxPid
      BY <2>1, ProcAssumption DEF fork_alloc
    <3>2. QED
      BY <2>1, <3>1 DEF fork_alloc
  <2>2. CASE pause(p) \/ exit(p) \/ call_wait(p)
    BY <2>2, Zenon DEF pause, exit, call_wait
  <2>3. CASE fault(p)
    <3>1. pid[p] \in Nat
      BY ProcAssumption
    <3>2. QED
      BY <2>3, <3>1, Zenon DEF fault
  <2>4. ASSUME NEW x \in KillPids, kkill(p, x) PROVE TypeOK'
    <3>1. x \in Nat
      BY ProcAssumption
    <3>2. victims' \subseteq Nat /\ UNCHANGED <<pid, parent, chan, nextpid, wait_lock, pc, np>>
      BY <2>4, <3>1 DEF kkill
    <3>3. \/ UNCHANGED <<killed, state>>
          \/ \E s \in Slot : /\ killed' = [killed EXCEPT ![s] = 1]
                             /\ state' = [state EXCEPT ![s] = IF @ = "SLEEPING" THEN "RUNNABLE" ELSE @]
      BY <2>4, Zenon DEF kkill
    <3>4. killed' \in [Slot -> {0, 1}] /\ state' \in [Slot -> States]
      BY <3>3
    <3>5. QED
      BY <3>2, <3>4
  <2>5. QED
    BY <1>2, <2>1, <2>2, <2>3, <2>4, Zenon DEF Syscall
<1>3. ASSUME NEW p \in Slot, InKernel(p) PROVE TypeOK'
  <2>1. CASE fork_parent(p) \/ fork_run(p)
    <3>1. np[p] \in Slot
      BY <2>1 DEF ProcInv, ForkInv, ForkPCs, fork_parent, fork_run
    <3>2. CASE fork_parent(p)
      BY <3>1, <3>2 DEF fork_parent
    <3>3. CASE fork_run(p)
      BY <3>1, <3>3 DEF fork_run
    <3>4. QED
      BY <2>1, <3>2, <3>3
  <2>2. CASE pause_test(p) \/ pause_sleep(p)
    BY <2>2, Zenon DEF pause_test, pause_sleep
  <2>3. CASE exit_zombie(p)
    BY <2>3 DEF exit_zombie
  <2>4. CASE exit_reparent(p)
    BY <2>4 DEF exit_reparent, wakeup
  <2>7. CASE wait_nokids(p) \/ wait_scanned(p) \/ wait_killed(p)
    BY <2>7, Zenon DEF wait_nokids, wait_scanned, wait_killed
  <2>8. CASE wait_acquire(p)
    BY <2>8 DEF wait_acquire
  <2>9. CASE wait_sleep(p)
    BY <2>9 DEF wait_sleep
  <2>5. CASE wait_found(p)
    <3>1. 0 \in 0..MaxPid
      BY ProcAssumption
    <3>2. QED
      BY <2>5, <3>1 DEF wait_found, freeproc
  <2>6. QED
    BY <1>3, <2>1, <2>2, <2>3, <2>4, <2>5, <2>7, <2>8, <2>9 DEF InKernel, kwait
<1>4. QED
  BY <1>1, <1>2, <1>3 DEF Next

---------------------------------------------------------------------------
(* What the actions have in common.                                        *)

\* Some sleepers are woken, and no state changes otherwise.
Wakes == \A s \in Slot : state'[s] = state[s] \/ (state[s] = "SLEEPING" /\ state'[s] = "RUNNABLE")

\* kkill() and the timer only wake sleepers and mark a victim.
LEMMA WakeStep ==
  ASSUME TypeOK, clockintr \/ \E p \in Slot, x \in KillPids : kkill(p, x)
  PROVE  Wakes /\ UNCHANGED <<pid, parent, chan, nextpid, wait_lock, pc, np>>
<1>0. state \in [Slot -> States]
  BY DEF TypeOK
<1>1. CASE clockintr
  BY <1>0, <1>1 DEF clockintr, wakeup, Wakes
<1>2. ASSUME NEW p \in Slot, NEW x \in KillPids, kkill(p, x)
      PROVE  Wakes /\ UNCHANGED <<pid, parent, chan, nextpid, wait_lock, pc, np>>
  <2>1. \/ state' = state
        \/ \E s \in Slot : state' = [state EXCEPT ![s] = IF @ = "SLEEPING" THEN "RUNNABLE" ELSE @]
    BY <1>2, Zenon DEF kkill
  <2>2. Wakes
    BY <1>0, <2>1 DEF Wakes
  <2>3. QED
    BY <1>2, <2>2 DEF kkill
<1>3. QED
  BY <1>1, <1>2

\* Between two system calls and where a process only goes on, nothing changes but
\* its own place, and wait_lock where it releases it.
Moves(p) ==
  pause(p) \/ exit(p) \/ call_wait(p) \/ pause_test(p) \/ wait_nokids(p) \/ wait_scanned(p) \/ wait_killed(p)

\* Such a step changes the place of its process only.
LEMMA MoveStep ==
  ASSUME NEW p \in Slot, Moves(p)
  PROVE  /\ UNCHANGED procvars /\ np' = np /\ state[p] = "RUNNABLE" /\ pc[p] \notin ForkPCs
         /\ \E l \in PCs \ (ForkPCs \cup {"exit_zombie"}) : pc' = [pc EXCEPT ![p] = l]
<1> USE DEF ForkPCs, PCs, WaitPCs, at, goto
<1>1. CASE pause(p) \/ exit(p) \/ call_wait(p) \/ pause_test(p)
  BY <1>1 DEF pause, exit, call_wait, pause_test
<1>2. CASE wait_nokids(p) \/ wait_scanned(p) \/ wait_killed(p)
  BY <1>2 DEF wait_nokids, wait_scanned, wait_killed
<1>3. QED
  BY <1>1, <1>2 DEF Moves

\* The steps one by one.
Others(p) ==
  \/ fork_alloc(p) \/ fork_parent(p) \/ fork_run(p) \/ pause_sleep(p) \/ fault(p) \/ exit_reparent(p)
  \/ exit_zombie(p) \/ wait_acquire(p) \/ wait_found(p) \/ wait_sleep(p)

\* Each step of the system is one of these.
LEMMA Steps ==
  ASSUME Next
  PROVE  \/ clockintr \/ \E p \in Slot, x \in KillPids : kkill(p, x)
         \/ \E p \in Slot : Moves(p)
         \/ \E p \in Slot : Others(p)
  BY DEF Next, Syscall, InKernel, kwait, Moves, Others

---------------------------------------------------------------------------
(* pids.                                                                   *)

\* Every step keeps the pids in use different and below nextpid.
LEMMA PidNext == ProcInv /\ Next => PidInv'
<1> SUFFICES ASSUME ProcInv, Next PROVE PidInv'
  OBVIOUS
<1>0. /\ state \in [Slot -> States] /\ pid \in [Slot -> 0..MaxPid] /\ nextpid \in 2..(MaxPid + 1)
      /\ TypeOK /\ PidInv
  BY DEF ProcInv, TypeOK
<1>s. ASSUME \A s \in Slot : state'[s] = "UNUSED" <=> state[s] = "UNUSED", UNCHANGED <<pid, nextpid>>
      PROVE  PidInv'
  BY <1>0, <1>s DEF PidInv, PidsUnique
<1>1. CASE clockintr \/ \E p \in Slot, x \in KillPids : kkill(p, x)
  BY <1>0, <1>1, <1>s, WakeStep DEF Wakes
<1>2. ASSUME NEW p \in Slot, Moves(p) PROVE PidInv'
  BY <1>2, <1>s, MoveStep DEF procvars
<1>3. ASSUME NEW p \in Slot, Others(p) PROVE PidInv'
  <2>1. CASE fork_alloc(p)
    <3>1. PICK s \in Slot :
            /\ state[s] = "UNUSED"
            /\ \/ state' = [state EXCEPT ![s] = "USED"] /\ pid' = [pid EXCEPT ![s] = nextpid]
               \/ UNCHANGED <<state, pid>>
      BY <2>1 DEF fork_alloc, first, free
    <3>2. nextpid' = nextpid + 1 /\ nextpid \in Nat /\ nextpid # 0
      BY <1>0, <2>1, ProcAssumption DEF fork_alloc
    <3>3. \A t \in Slot : pid[t] \in Nat /\ pid[t] < nextpid
      BY <1>0, ProcAssumption DEF PidInv
    <3>4. CASE UNCHANGED <<state, pid>>
      BY <1>0, <3>2, <3>3, <3>4 DEF PidInv, PidsUnique
    <3>5. CASE state' = [state EXCEPT ![s] = "USED"] /\ pid' = [pid EXCEPT ![s] = nextpid]
      <4>1. \A t \in Slot : pid'[t] < nextpid'
        BY <1>0, <3>2, <3>3, <3>5
      <4>2. PidsUnique'
        BY <1>0, <3>2, <3>3, <3>5 DEF PidInv, PidsUnique
      <4>3. QED
        BY <4>1, <4>2 DEF PidInv
    <3>6. QED
      BY <3>1, <3>4, <3>5
  <2>2. CASE wait_found(p)
    <3>1. nextpid' = nextpid /\ 0 < nextpid
      BY <1>0, <2>2, ProcAssumption DEF wait_found
    <3>2. CASE UNCHANGED <<state, pid>>
      BY <1>s, <3>1, <3>2
    <3>3. ASSUME NEW s \in Slot, state' = [state EXCEPT ![s] = "UNUSED"], pid' = [pid EXCEPT ![s] = 0]
          PROVE  PidInv'
      BY <1>0, <3>1, <3>3 DEF PidInv, PidsUnique
    <3>4. QED
      BY <2>2, <3>2, <3>3 DEF wait_found, freeproc
  <2>3. CASE fork_run(p)
    <3>1. np[p] \in Slot /\ state[np[p]] = "USED"
      BY <2>3 DEF ProcInv, TypeOK, ForkInv, ForkPCs, fork_run, at
    <3>2. QED
      BY <1>0, <1>s, <2>3, <3>1 DEF fork_run
  <2>4. CASE fork_parent(p) \/ fault(p) \/ wait_acquire(p)
    BY <1>s, <2>4 DEF fork_parent, fault, wait_acquire
  <2>5. CASE pause_sleep(p) \/ wait_sleep(p) \/ exit_zombie(p)
    BY <1>0, <1>s, <2>5 DEF pause_sleep, wait_sleep, exit_zombie, at
  <2>6. CASE exit_reparent(p)
    BY <1>0, <1>s, <2>6, Zenon DEF exit_reparent, wakeup
  <2>7. QED
    BY <1>3, <2>1, <2>2, <2>3, <2>4, <2>5, <2>6 DEF Others
<1>4. QED
  BY <1>1, <1>2, <1>3, Steps

---------------------------------------------------------------------------
(* kfork().                                                                *)

\* Every step leaves a child in the making to its maker.
LEMMA ForkNext == ProcInv /\ Next => ForkInv'
<1> SUFFICES ASSUME ProcInv, Next PROVE ForkInv'
  OBVIOUS
<1>0. /\ state \in [Slot -> States] /\ pc \in [Slot -> PCs] /\ np \in [Slot -> Slot \cup {None}]
      /\ parent \in [Slot -> Slot \cup {None}] /\ TypeOK /\ ForkInv
  BY DEF ProcInv, TypeOK
<1>f. \A q \in Slot : pc[q] \in ForkPCs => np[q] \in Slot /\ state[q] = "RUNNABLE" /\ state[np[q]] = "USED"
  BY <1>0 DEF ForkInv
<1>s. ASSUME \A q \in Slot : (state'[q] = "USED" <=> state[q] = "USED"),
             \A q \in Slot : state[q] = "USED" => pc'[q] = pc[q],
             \A q \in Slot : pc[q] \in ForkPCs \/ pc'[q] \in ForkPCs => pc'[q] = pc[q] /\ state'[q] = state[q],
             \A q \in Slot : pc[q] = "fork_run" => parent'[np[q]] = parent[np[q]],
             np' = np
      PROVE  ForkInv'
  <2>1. \A q \in Slot : pc'[q] \in ForkPCs <=> pc[q] \in ForkPCs
    BY <1>s, Zenon
  <2>2. \A q \in Slot : pc'[q] \in ForkPCs => pc'[q] = pc[q] /\ state'[q] = "RUNNABLE" /\ state'[np[q]] = "USED"
    BY <1>f, <1>s, Zenon
  <2>3. \A q \in Slot : pc'[q] = "fork_run" => parent'[np[q]] = q
    BY <1>0, <1>s, <2>2 DEF ForkInv, ForkPCs
  <2>4. QED
    BY <1>0, <1>s, <2>1, <2>2, <2>3 DEF ForkInv
<1>1. CASE clockintr \/ \E p \in Slot, x \in KillPids : kkill(p, x)
  BY <1>0, <1>1, <1>f, <1>s, WakeStep DEF Wakes
<1>2. ASSUME NEW p \in Slot, Moves(p) PROVE ForkInv'
  BY <1>0, <1>2, <1>s, MoveStep DEF procvars, ForkPCs
<1>3. ASSUME NEW p \in Slot, Others(p) PROVE ForkInv'
  <2>1. CASE fork_alloc(p)
    <3>1. PICK s \in Slot :
            /\ state[s] = "UNUSED"
            /\ \/ /\ state' = [state EXCEPT ![s] = "USED"]
                  /\ pc' = [pc EXCEPT ![p] = "fork_parent", ![s] = "user"]
                  /\ np' = [np EXCEPT ![p] = s]
               \/ UNCHANGED <<state, pc, np>>
      BY <2>1 DEF fork_alloc, first, free
    <3>2. parent' = parent /\ state[p] = "RUNNABLE" /\ pc[p] = "user" /\ p # s
      BY <2>1, <3>1 DEF fork_alloc, at
    <3>3. CASE UNCHANGED <<state, pc, np>>
      BY <1>s, <3>2, <3>3, Zenon
    <3>4. CASE /\ state' = [state EXCEPT ![s] = "USED"]
               /\ pc' = [pc EXCEPT ![p] = "fork_parent", ![s] = "user"]
               /\ np' = [np EXCEPT ![p] = s]
      <4>1. pc[s] \notin ForkPCs /\ \A q \in Slot : np[q] # s
        BY <1>0, <1>f, <3>1, Slots DEF ForkInv
      <4>2. np[s] = None /\ np[p] = None
        BY <1>0, <3>2, <4>1 DEF ForkInv, ForkPCs
      <4>3. /\ pc'[p] = "fork_parent" /\ pc'[s] = "user" /\ np'[p] = s /\ np'[s] = None
            /\ state'[s] = "USED" /\ state'[p] = "RUNNABLE"
        BY <1>0, <3>2, <3>4, <4>2
      <4>4. \A q \in Slot : q # p => np'[q] = np[q]
        BY <1>0, <3>4
      <4>5. \A q \in Slot : q # p /\ q # s => pc'[q] = pc[q] /\ state'[q] = state[q]
        BY <1>0, <3>4
      <4>6. \A q \in Slot : np'[q] = None <=> pc'[q] \notin ForkPCs
        BY <1>0, <4>3, <4>4, <4>5, Slots DEF ForkInv, ForkPCs
      <4>7. \A q \in Slot : pc'[q] \in ForkPCs => state'[q] = "RUNNABLE" /\ state'[np'[q]] = "USED"
        <5>1. \A q \in Slot : q # p /\ pc'[q] \in ForkPCs => q # s /\ pc[q] \in ForkPCs /\ np[q] # p /\ np[q] # s
          BY <1>f, <3>2, <4>1, <4>3, <4>5, Zenon DEF ForkPCs
        <5>2. QED
          BY <1>f, <4>3, <4>4, <4>5, <5>1
      <4>8. \A q \in Slot : pc'[q] = "fork_run" => parent'[np'[q]] = q
        BY <1>0, <3>2, <4>3, <4>4, <4>5 DEF ForkInv
      <4>9. \A q, r \in Slot : np'[q] = np'[r] /\ np'[q] # None => q = r
        BY <1>0, <4>1, <4>3, <4>4 DEF ForkInv
      <4>10. \A t \in Slot : state'[t] = "USED" => pc'[t] = "user" /\ \E q \in Slot : np'[q] = t
        <5>1. ASSUME NEW t \in Slot, state'[t] = "USED", t # s
              PROVE  pc'[t] = "user" /\ \E q \in Slot : np'[q] = t
          <6>1. state[t] = "USED" /\ pc'[t] = "user"
            BY <1>0, <3>2, <3>4, <5>1 DEF ForkInv
          <6>2. PICK q \in Slot : np[q] = t
            BY <1>0, <6>1 DEF ForkInv
          <6>3. q # p
            BY <4>2, <6>2, Slots, Zenon
          <6>4. QED
            BY <4>4, <6>1, <6>2, <6>3, Zenon
        <5>2. QED
          BY <4>3, <5>1
      <4>11. QED
        BY <4>6, <4>7, <4>8, <4>9, <4>10, Zenon DEF ForkInv
    <3>5. QED
      BY <3>1, <3>3, <3>4
  <2>2. CASE fork_parent(p)
    <3>0. PICK s \in Slot : np[p] = s
      BY <1>f, <2>2 DEF fork_parent, at, ForkPCs
    <3>1. /\ pc[p] = "fork_parent" /\ pc' = [pc EXCEPT ![p] = "fork_run"] /\ parent' = [parent EXCEPT ![s] = p]
          /\ UNCHANGED <<state, np>>
      BY <2>2, <3>0 DEF fork_parent, at, goto
    <3>2. \A q \in Slot : pc'[q] \in ForkPCs <=> pc[q] \in ForkPCs
      BY <1>0, <3>1 DEF ForkPCs
    <3>3. \A q \in Slot : pc'[q] = "fork_run" => parent'[np'[q]] = q
      <4>1. parent'[np'[p]] = p
        BY <1>0, <3>0, <3>1
      <4>2. \A q \in Slot : q # p /\ pc'[q] = "fork_run" => pc[q] = "fork_run" /\ np[q] \in Slot /\ np[q] # s
        BY <1>0, <1>f, <3>0, <3>1, Slots DEF ForkInv, ForkPCs
      <4>3. QED
        BY <1>0, <3>1, <4>1, <4>2 DEF ForkInv
    <3>4. \A t \in Slot : state'[t] = "USED" => pc'[t] = "user" /\ \E q \in Slot : np'[q] = t
      BY <1>0, <1>f, <3>1 DEF ForkInv, ForkPCs
    <3>5. QED
      BY <1>0, <3>1, <3>2, <3>3, <3>4 DEF ForkInv
  <2>3. CASE fork_run(p)
    <3>0. PICK s \in Slot : np[p] = s /\ state[s] = "USED" /\ s # p
      BY <1>f, <2>3 DEF fork_run, at, ForkPCs
    <3>1. /\ pc[p] = "fork_run" /\ pc' = [pc EXCEPT ![p] = "user"] /\ state' = [state EXCEPT ![s] = "RUNNABLE"]
          /\ np' = [np EXCEPT ![p] = None] /\ UNCHANGED parent
      BY <2>3, <3>0 DEF fork_run, at, goto
    <3>2. \A q \in Slot : q # p => np'[q] = np[q] /\ pc'[q] = pc[q] /\ np[q] # s
      BY <1>0, <3>0, <3>1, Slots DEF ForkInv
    <3>3. np'[p] = None /\ pc'[p] = "user"
      BY <1>0, <3>1
    <3>4. \A t \in Slot : t # s => state'[t] = state[t]
      BY <1>0, <3>1
    <3>5. \A q \in Slot : np'[q] = None <=> pc'[q] \notin ForkPCs
      BY <1>0, <3>2, <3>3 DEF ForkInv, ForkPCs
    <3>6. \A q \in Slot : pc'[q] \in ForkPCs => state'[q] = "RUNNABLE" /\ state'[np'[q]] = "USED"
      <4>1. \A q \in Slot : pc'[q] \in ForkPCs => q # p /\ pc[q] \in ForkPCs /\ q # s /\ np[q] # s
        BY <1>f, <3>0, <3>2, <3>3, Zenon DEF ForkPCs
      <4>2. QED
        BY <1>f, <3>2, <3>4, <4>1
    <3>7. \A q \in Slot : pc'[q] = "fork_run" => parent'[np'[q]] = q
      BY <1>0, <3>1, <3>2, <3>3 DEF ForkInv
    <3>8. \A q, r \in Slot : np'[q] = np'[r] /\ np'[q] # None => q = r
      BY <1>0, <3>2, <3>3 DEF ForkInv
    <3>9. \A t \in Slot : state'[t] = "USED" => pc'[t] = "user" /\ \E q \in Slot : np'[q] = t
      <4>1. ASSUME NEW t \in Slot, state'[t] = "USED" PROVE pc'[t] = "user" /\ \E q \in Slot : np'[q] = t
        <5>1. t # s /\ state[t] = "USED" /\ pc'[t] = "user"
          BY <1>0, <3>1, <4>1 DEF ForkInv
        <5>2. PICK q \in Slot : np[q] = t
          BY <1>0, <5>1, Zenon DEF ForkInv
        <5>3. QED
          BY <3>0, <3>2, <5>1, <5>2, Zenon
      <4>2. QED
        BY <4>1
    <3>10. QED
      BY <3>5, <3>6, <3>7, <3>8, <3>9 DEF ForkInv
  <2>4. CASE fault(p)
    BY <1>s, <2>4, Zenon DEF fault
  <2>5. CASE wait_acquire(p) \/ pause_sleep(p) \/ wait_sleep(p)
    BY <1>0, <1>s, <2>5, Zenon DEF wait_acquire, pause_sleep, wait_sleep, at, goto, ForkPCs
  <2>6. CASE exit_zombie(p)
    BY <1>0, <1>f, <1>s, <2>6, Zenon DEF exit_zombie, at, ForkPCs
  <2>7. CASE exit_reparent(p)
    <3>1. /\ pc[p] = "exit" /\ state[p] = "RUNNABLE" /\ pc' = [pc EXCEPT ![p] = "exit_zombie"] /\ np' = np
          /\ \A t \in Slot : parent[t] # p => parent'[t] = parent[t]
          /\ \A t \in Slot : state'[t] = state[t] \/ (state[t] = "SLEEPING" /\ state'[t] = "RUNNABLE")
      BY <2>7, Zenon DEF exit_reparent, wakeup, at, goto, children
    <3>2. \A q \in Slot : pc[q] = "fork_run" => np[q] \in Slot /\ parent[np[q]] # p
      BY <1>0, <1>f, <3>1 DEF ForkInv, ForkPCs
    <3>3. QED
      BY <1>0, <1>f, <1>s, <3>1, <3>2, Zenon DEF ForkPCs
  <2>8. CASE wait_found(p)
    <3>1. pc[p] = "wait_scan" /\ state[p] = "RUNNABLE" /\ pc' = [pc EXCEPT ![p] = "user"] /\ np' = np
      BY <2>8 DEF wait_found, at, goto
    <3>2. CASE UNCHANGED <<state, parent>>
      BY <1>0, <1>s, <3>1, <3>2, Zenon DEF ForkPCs
    <3>3. ASSUME NEW s \in Slot, state[s] = "ZOMBIE", state' = [state EXCEPT ![s] = "UNUSED"],
                 parent' = [parent EXCEPT ![s] = None]
          PROVE  ForkInv'
      BY <1>0, <1>f, <1>s, <3>1, <3>3, Zenon DEF ForkPCs
    <3>4. QED
      BY <2>8, <3>2, <3>3 DEF wait_found, freeproc, first, zombies
  <2>9. QED
    BY <1>3, <2>1, <2>2, <2>3, <2>4, <2>5, <2>6, <2>7, <2>8, Zenon DEF Others
<1>4. QED
  BY <1>1, <1>2, <1>3, Steps

---------------------------------------------------------------------------
(* Parents.                                                                *)

\* Every step keeps the parents alive.
LEMMA FamilyNext == ProcInv /\ Next => FamilyInv'
<1> SUFFICES ASSUME ProcInv, Next PROVE FamilyInv'
  OBVIOUS
<1>0. /\ state \in [Slot -> States] /\ pc \in [Slot -> PCs] /\ np \in [Slot -> Slot \cup {None}]
      /\ parent \in [Slot -> Slot \cup {None}] /\ TypeOK /\ FamilyInv
  BY DEF ProcInv, TypeOK
<1>f. \A q \in Slot : pc[q] \in ForkPCs =>
        np[q] \in Slot /\ state[q] = "RUNNABLE" /\ state[np[q]] = "USED"
  BY <1>0 DEF ProcInv, ForkInv
<1>i. init \in Slot /\ None \notin Slot
  BY Slots, Zenon
\* Steps that make nobody a zombie or a free slot and change no parent.
<1>s. ASSUME \A q \in Slot : live(q)' <=> live(q),
             \A q \in Slot : state'[q] = "ZOMBIE" <=> state[q] = "ZOMBIE",
             \A q \in Slot : state'[q] = "UNUSED" => state[q] = "UNUSED",
             \A q \in Slot : pc'[q] \in {"exit", "exit_zombie"} /\ pc'[q] # pc[q] => q # init /\ pc'[q] = "exit",
             \A q \in Slot : state'[q] = "RUNNABLE" /\ pc'[q] = "exit_zombie" => state[q] = "RUNNABLE",
             parent' = parent
      PROVE  FamilyInv'
  <2>1. live(init)' /\ parent'[init] = None /\ pc'[init] \notin {"exit", "exit_zombie"}
    BY <1>0, <1>i, <1>s, Zenon DEF FamilyInv
  <2>2. \A q \in Slot : parent'[q] # None => parent'[q] \in Slot /\ live(parent[q]) /\ live(parent[q])'
    BY <1>0, <1>s DEF FamilyInv, live
  <2>3. QED
    BY <1>0, <1>s, <2>1, <2>2 DEF FamilyInv
<1>1. CASE clockintr \/ \E p \in Slot, x \in KillPids : kkill(p, x)
  <2>1. Wakes /\ UNCHANGED <<parent, pc>>
    BY <1>0, <1>1, WakeStep
  <2>2. \A q \in Slot : state[q] = "SLEEPING" => pc[q] # "exit_zombie"
    BY DEF ProcInv, WaitInv
  <2>3. QED
    BY <1>s, <2>1, <2>2 DEF Wakes, live
<1>2. ASSUME NEW p \in Slot, Moves(p) PROVE FamilyInv'
  <2>1. UNCHANGED <<state, parent>> /\ \E l \in PCs \ {"exit_zombie"} : pc' = [pc EXCEPT ![p] = l]
    BY <1>2, MoveStep, Zenon DEF procvars
  <2>2. pc'[p] = "exit" => p # init
    BY <1>0, <1>2, Zenon DEF Moves, pause, exit, call_wait, pause_test, wait_nokids, wait_scanned, wait_killed, goto
  <2>3. QED
    BY <1>0, <1>s, <2>1, <2>2 DEF live
<1>3. ASSUME NEW p \in Slot, Others(p) PROVE FamilyInv'
  <2>1. CASE fork_alloc(p)
    <3>1. PICK s \in Slot :
            /\ state[s] = "UNUSED"
            /\ \/ /\ state' = [state EXCEPT ![s] = "USED"]
                  /\ pc' = [pc EXCEPT ![p] = "fork_parent", ![s] = "user"]
               \/ UNCHANGED <<state, pc>>
      BY <2>1 DEF fork_alloc, first, free
    <3>2. parent' = parent /\ state[p] = "RUNNABLE" /\ p # s
      BY <2>1, <3>1, Zenon DEF fork_alloc, at
    <3>3. QED
      BY <1>0, <1>s, <3>1, <3>2, Zenon DEF live
  <2>2. CASE fork_parent(p)
    <3>0. PICK s \in Slot : np[p] = s /\ state[s] = "USED"
      BY <1>f, <2>2 DEF fork_parent, at, ForkPCs
    <3>1. /\ pc[p] = "fork_parent" /\ state[p] = "RUNNABLE"
          /\ pc' = [pc EXCEPT ![p] = "fork_run"] /\ parent' = [parent EXCEPT ![s] = p]
          /\ UNCHANGED state
      BY <2>2, <3>0 DEF fork_parent, at, goto
    <3>2. s # init /\ p # None
      BY <1>0, <1>i, <3>0 DEF FamilyInv, live
    <3>3. live(init)' /\ parent'[init] = None /\ pc'[init] \notin {"exit", "exit_zombie"}
      BY <1>0, <1>i, <3>1, <3>2 DEF FamilyInv, live
    <3>4. \A q \in Slot : pc'[q] = "exit_zombie" => pc[q] = "exit_zombie" /\ q # p
      BY <1>0, <3>1, Zenon
    <3>5. ASSUME NEW q \in Slot
          PROVE  /\ state'[q] = "UNUSED" => parent'[q] = None
                 /\ parent'[q] # None => live(parent[q])' \/ parent'[q] = p
                 /\ q # init /\ (live(q)' \/ state'[q] = "ZOMBIE") => parent'[q] # None
      BY <1>0, <3>0, <3>1, <3>2 DEF FamilyInv, live
    <3>6. \A q \in Slot : parent'[q] # None => state'[parent'[q]] \in {"SLEEPING", "RUNNABLE"}
      BY <1>0, <3>0, <3>1, <3>2 DEF FamilyInv, live
    <3>7. \A q \in Slot : state'[q] = "RUNNABLE" /\ pc'[q] = "exit_zombie" => \A t \in Slot : parent'[t] # q
      BY <1>0, <3>1, <3>4 DEF FamilyInv
    <3>8. QED
      BY <3>3, <3>5, <3>6, <3>7, Zenon DEF FamilyInv, live
  <2>3. CASE fork_run(p)
    <3>0. PICK s \in Slot : np[p] = s /\ state[s] = "USED" /\ s # p /\ parent[s] = p
      BY <1>f, <2>3 DEF fork_run, at, ForkPCs, ProcInv, ForkInv
    <3>1. /\ pc[p] = "fork_run" /\ pc' = [pc EXCEPT ![p] = "user"] /\ state' = [state EXCEPT ![s] = "RUNNABLE"]
          /\ UNCHANGED parent
      BY <2>3, <3>0 DEF fork_run, at, goto
    <3>2. pc[s] # "exit_zombie" /\ p # None
      BY <1>i, <3>0 DEF ProcInv, ForkInv
    <3>3. s # init
      BY <1>0, <3>0 DEF FamilyInv, live
    <3>4. live(init)' /\ parent'[init] = None /\ pc'[init] \notin {"exit", "exit_zombie"}
      BY <1>0, <1>i, <3>1, <3>3 DEF FamilyInv, live
    <3>5. \A q \in Slot : q # s => state'[q] = state[q]
      BY <1>0, <3>1
    <3>6. state'[s] = "RUNNABLE" /\ pc'[s] = pc[s]
      BY <1>0, <3>0, <3>1
    <3>7. \A q \in Slot : parent'[q] # None => state'[parent'[q]] \in {"SLEEPING", "RUNNABLE"}
      BY <1>0, <3>1, <3>5, <3>6 DEF FamilyInv, live
    <3>8. \A q \in Slot : state'[q] = "RUNNABLE" /\ pc'[q] = "exit_zombie" => state[q] = "RUNNABLE" /\ pc[q] = "exit_zombie"
      BY <1>0, <3>1, <3>2, <3>5, <3>6, Zenon
    <3>9. QED
      BY <1>0, <3>0, <3>1, <3>2, <3>4, <3>5, <3>6, <3>7, <3>8 DEF FamilyInv, live
  <2>4. CASE fault(p)
    BY <1>s, <2>4, Zenon DEF fault, live
  <2>5. CASE wait_acquire(p) \/ pause_sleep(p) \/ wait_sleep(p)
    BY <1>0, <1>s, <2>5, Zenon DEF wait_acquire, pause_sleep, wait_sleep, at, goto, live
  <2>6. CASE exit_zombie(p)
    <3>1. /\ pc[p] = "exit_zombie" /\ state[p] = "RUNNABLE" /\ state' = [state EXCEPT ![p] = "ZOMBIE"]
          /\ UNCHANGED <<parent, pc>>
      BY <2>6 DEF exit_zombie, at
    <3>2. p # init /\ \A t \in Slot : parent[t] # p
      BY <1>0, <3>1 DEF FamilyInv
    <3>3. \A q \in Slot : q # p => state'[q] = state[q]
      BY <1>0, <3>1
    <3>4. state'[p] = "ZOMBIE"
      BY <1>0, <3>1
    <3>5. parent[p] # None
      BY <1>0, <3>1, <3>2 DEF FamilyInv, live
    <3>6. live(init)'
      BY <1>0, <1>i, <3>2, <3>3 DEF FamilyInv, live
    <3>7. \A q \in Slot : parent'[q] # None => state'[parent'[q]] \in {"SLEEPING", "RUNNABLE"}
      BY <1>0, <3>1, <3>2, <3>3 DEF FamilyInv, live
    <3>8. QED
      BY <1>0, <3>1, <3>3, <3>4, <3>5, <3>6, <3>7 DEF FamilyInv, live
  <2>7. CASE exit_reparent(p)
    <3>1. /\ pc[p] = "exit" /\ state[p] = "RUNNABLE" /\ pc' = [pc EXCEPT ![p] = "exit_zombie"]
          /\ parent' = [t \in Slot |-> IF parent[t] = p THEN init ELSE parent[t]]
          /\ \A t \in Slot : state'[t] = state[t] \/ (state[t] = "SLEEPING" /\ state'[t] = "RUNNABLE")
      BY <2>7, Zenon DEF exit_reparent, wakeup, at, goto, children
    <3>2. p # init
      BY <1>0, <3>1 DEF FamilyInv
    <3>3. init # None
      BY <1>i, Zenon
    <3>4. live(init)' /\ parent'[init] = None /\ pc'[init] \notin {"exit", "exit_zombie"}
      BY <1>0, <1>i, <3>1, <3>2, Zenon DEF FamilyInv, live
    <3>5. \A q \in Slot : parent'[q] # None => state'[parent'[q]] \in {"SLEEPING", "RUNNABLE"}
      BY <1>0, <1>i, <3>1, <3>4 DEF FamilyInv, live
    <3>6. \A t \in Slot : parent'[t] # p
      BY <1>0, <3>1, <3>2, Zenon
    <3>7. \A q \in Slot : q # p /\ state'[q] = "RUNNABLE" /\ pc'[q] = "exit_zombie" =>
            q # init /\ state[q] = "RUNNABLE" /\ pc[q] = "exit_zombie"
      BY <1>0, <3>1, <3>4 DEF FamilyInv, ProcInv, WaitInv
    <3>8. \A q \in Slot : state'[q] = "RUNNABLE" /\ pc'[q] = "exit_zombie" => \A t \in Slot : parent'[t] # q
      BY <1>0, <3>1, <3>6, <3>7 DEF FamilyInv
    <3>9. \A q \in Slot :
            /\ state'[q] = "UNUSED" => parent'[q] = None
            /\ q # init /\ (live(q)' \/ state'[q] = "ZOMBIE") => parent'[q] # None
      BY <1>0, <1>i, <3>1, <3>3 DEF FamilyInv, live
    <3>10. QED
      BY <3>4, <3>5, <3>8, <3>9, Zenon DEF FamilyInv, live
  <2>8. CASE wait_found(p)
    <3>1. pc[p] = "wait_scan" /\ pc' = [pc EXCEPT ![p] = "user"]
      BY <2>8, Zenon DEF wait_found, at, goto
    <3>2. CASE UNCHANGED <<state, parent>>
      BY <1>0, <1>s, <3>1, <3>2, Zenon DEF live
    <3>3. ASSUME NEW s \in Slot, state[s] = "ZOMBIE", state' = [state EXCEPT ![s] = "UNUSED"],
                 parent' = [parent EXCEPT ![s] = None]
          PROVE  FamilyInv'
      <4>1. s # init /\ \A t \in Slot : parent[t] # s
        BY <1>0, <1>i, <3>3 DEF FamilyInv, live
      <4>2. /\ state'[s] = "UNUSED" /\ parent'[s] = None
            /\ \A q \in Slot : q # s => state'[q] = state[q] /\ parent'[q] = parent[q]
        BY <1>0, <3>3, Zenon
      <4>3. live(init)' /\ parent'[init] = None /\ pc'[init] \notin {"exit", "exit_zombie"}
        BY <1>0, <1>i, <3>1, <4>1, <4>2 DEF FamilyInv, live
      <4>4. \A q \in Slot : pc'[q] = "exit_zombie" => pc[q] = "exit_zombie"
        BY <1>0, <3>1, Zenon
      <4>5. \A q \in Slot : parent'[q] # None => state'[parent'[q]] \in {"SLEEPING", "RUNNABLE"}
        BY <1>0, <4>1, <4>2 DEF FamilyInv, live
      <4>6. \A q \in Slot : state'[q] = "RUNNABLE" /\ pc'[q] = "exit_zombie" => \A t \in Slot : parent'[t] # q
        BY <1>0, <1>i, <4>2, <4>4 DEF FamilyInv
      <4>7. QED
        BY <1>0, <4>2, <4>3, <4>5, <4>6 DEF FamilyInv, live
    <3>4. QED
      BY <2>8, <3>2, <3>3 DEF wait_found, freeproc, first, zombies
  <2>9. QED
    BY <1>3, <2>1, <2>2, <2>3, <2>4, <2>5, <2>6, <2>7, <2>8 DEF Others
<1>4. QED
  BY <1>1, <1>2, <1>3, Steps

---------------------------------------------------------------------------
(* wait() and exit().                                                      *)

\* A process about to be a zombie has a parent in the table.
LEMMA ParentOfExiting ==
  ASSUME ProcInv, NEW q \in Slot, state[q] = "RUNNABLE", pc[q] \in {"exit", "exit_zombie"}
  PROVE  parent[q] \in Slot
  BY DEF ProcInv, TypeOK, FamilyInv, live

\* Every step keeps what kwait() has found out about the children true.
LEMMA WaitNext == ProcInv /\ Next => WaitInv'
<1> SUFFICES ASSUME ProcInv, Next PROVE WaitInv'
  OBVIOUS
<1>0. /\ state \in [Slot -> States] /\ pc \in [Slot -> PCs] /\ np \in [Slot -> Slot \cup {None}]
      /\ parent \in [Slot -> Slot \cup {None}] /\ chan \in [Slot -> Slot \cup {None, ticks}]
      /\ TypeOK /\ WaitInv
  BY DEF ProcInv, TypeOK
<1>f. \A q \in Slot : pc[q] \in ForkPCs =>
        np[q] \in Slot /\ state[q] = "RUNNABLE" /\ state[np[q]] = "USED" /\ pc[np[q]] = "user"
  BY <1>0 DEF ProcInv, ForkInv
<1>e. \A q \in Slot : state[q] = "RUNNABLE" /\ pc[q] \in {"exit", "exit_zombie"} => parent[q] \in Slot
  BY ParentOfExiting, Zenon
\* Steps that let nobody sleep in wait(), get wait_lock, or become a zombie.
<1>s. ASSUME \A q \in Slot : state'[q] = "SLEEPING" =>
               (state[q] = "SLEEPING" /\ pc'[q] = pc[q] /\ chan'[q] = chan[q]) \/ pc'[q] = "pause",
             \A q \in Slot : state'[q] = "RUNNABLE" /\ pc'[q] \in LockPCs =>
               state[q] = "RUNNABLE" /\ pc'[q] = pc[q] /\ wait_lock' = wait_lock,
             \A q \in Slot : state'[q] = "ZOMBIE" => state[q] = "ZOMBIE" /\ parent'[q] = parent[q],
             \A q \in Slot : pc[q] = "exit_zombie" /\ state[q] = "RUNNABLE" => parent'[q] = parent[q]
      PROVE  WaitInv'
  <2>1. ASSUME NEW q \in Slot
        PROVE  /\ state'[q] = "SLEEPING" => pc'[q] = "pause" \/ (pc'[q] = "wait" /\ chan'[q] = q)
               /\ state'[q] = "RUNNABLE" /\ pc'[q] \in LockPCs => wait_lock' = q
    BY <1>0, <1>s, ZenonT(30) DEF WaitInv
  <2>2. ASSUME NEW q \in Slot, state'[q] = "RUNNABLE", pc'[q] = "exit_zombie"
        PROVE  ~ (state'[parent'[q]] = "SLEEPING" /\ pc'[parent'[q]] = "wait")
    <3>1. state[q] = "RUNNABLE" /\ pc[q] = "exit_zombie" /\ parent'[q] = parent[q]
      BY <1>s, <2>2 DEF LockPCs
    <3>2. parent[q] \in Slot /\ ~ (state[parent[q]] = "SLEEPING" /\ pc[parent[q]] = "wait")
      BY <1>0, <1>e, <3>1, Zenon DEF WaitInv
    <3>3. QED
      BY <1>s, <3>1, <3>2, ZenonT(30)
  <2>3. ASSUME NEW q \in Slot, NEW t \in Slot, parent'[t] = q,
               \/ state'[q] = "RUNNABLE" /\ pc'[q] \in {"wait_killed", "wait_sleep"}
               \/ state'[q] = "SLEEPING" /\ pc'[q] = "wait"
        PROVE  state'[t] # "ZOMBIE"
    BY <1>0, <1>s, <2>3, ZenonT(30) DEF WaitInv, LockPCs
  <2>4. QED
    BY <2>1, <2>2, <2>3, ZenonT(30) DEF WaitInv
<1>l. \A q \in Slot : state[q] = "RUNNABLE" /\ pc[q] \in LockPCs => wait_lock = q
  BY <1>0, Zenon DEF WaitInv
<1>1. CASE clockintr \/ \E p \in Slot, x \in KillPids : kkill(p, x)
  <2>1. Wakes /\ UNCHANGED <<parent, pc, chan, wait_lock>>
    BY <1>0, <1>1, WakeStep, Zenon
  <2>2. \A q \in Slot : state[q] = "SLEEPING" => pc[q] \notin LockPCs
    BY <1>0 DEF WaitInv, LockPCs
  <2>3. QED
    BY <1>s, <2>1, <2>2 DEF Wakes
<1>2. ASSUME NEW p \in Slot, Moves(p) PROVE WaitInv'
  <2>0. state[p] = "RUNNABLE" /\ UNCHANGED <<state, parent, chan>>
    BY <1>2, MoveStep DEF procvars
  <2>1. CASE pause(p) \/ exit(p) \/ call_wait(p) \/ pause_test(p)
    <3>1. UNCHANGED wait_lock /\ \E l \in {"pause", "exit", "wait", "user", "pause_sleep"} : pc' = [pc EXCEPT ![p] = l]
      BY <2>1, Zenon DEF pause, exit, call_wait, pause_test, goto
    <3>2. QED
      BY <1>0, <1>s, <2>0, <3>1, Zenon DEF LockPCs
  <2>2. CASE wait_nokids(p) \/ (wait_killed(p) /\ killed[p] = 1)
    <3>1. pc[p] \in LockPCs /\ pc' = [pc EXCEPT ![p] = "user"]
      BY <2>2 DEF wait_nokids, wait_killed, at, goto, LockPCs
    <3>2. \A q \in Slot : q # p => ~ (state[q] = "RUNNABLE" /\ pc[q] \in LockPCs)
      BY <1>l, <2>0, <3>1, Zenon
    <3>3. QED
      BY <1>0, <1>s, <2>0, <3>1, <3>2, ZenonT(30) DEF LockPCs
  <2>3. CASE wait_scanned(p) \/ (wait_killed(p) /\ killed[p] # 1)
    <3>1. /\ pc[p] \in {"wait_scan", "wait_killed"} /\ UNCHANGED wait_lock
          /\ \E l \in {"wait_killed", "wait_sleep"} : pc' = [pc EXCEPT ![p] = l]
      BY <2>3, Zenon DEF wait_scanned, wait_killed, at, goto
    <3>2. \A t \in Slot : parent[t] = p => state[t] # "ZOMBIE"
      BY <1>0, <2>0, <2>3 DEF wait_scanned, wait_killed, at, WaitInv, zombies, children
    <3>3. \A q \in Slot : q # p => pc'[q] = pc[q]
      BY <3>1
    <3>4. wait_lock = p /\ pc'[p] \in {"wait_killed", "wait_sleep"}
      BY <1>0, <1>l, <2>0, <3>1, Zenon DEF LockPCs
    <3>5. \A q \in Slot : state[q] = "RUNNABLE" /\ pc'[q] = "exit_zombie" =>
            pc[q] = "exit_zombie" /\ parent[q] \in Slot /\ (parent[q] = p => state[parent[q]] = "RUNNABLE")
      BY <1>e, <2>0, <3>3, <3>4
    <3>6. QED
      BY <1>0, <2>0, <3>1, <3>2, <3>3, <3>4, <3>5, SMTT(30) DEF WaitInv, LockPCs
  <2>4. QED
    BY <1>2, <2>1, <2>2, <2>3 DEF Moves
<1>3. ASSUME NEW p \in Slot, Others(p) PROVE WaitInv'
  <2>1. CASE fork_alloc(p)
    <3>1. PICK s \in Slot :
            /\ state[s] = "UNUSED"
            /\ \/ /\ state' = [state EXCEPT ![s] = "USED"]
                  /\ pc' = [pc EXCEPT ![p] = "fork_parent", ![s] = "user"]
               \/ UNCHANGED <<state, pc>>
      BY <2>1 DEF fork_alloc, first, free
    <3>2. UNCHANGED <<parent, chan, wait_lock>> /\ state[p] = "RUNNABLE" /\ p # s
      BY <2>1, <3>1 DEF fork_alloc, at
    <3>3. QED
      BY <1>0, <1>s, <3>1, <3>2 DEF LockPCs
  <2>2. CASE fork_parent(p)
    <3>0. PICK s \in Slot : np[p] = s /\ state[s] = "USED"
      BY <1>f, <2>2 DEF fork_parent, at, ForkPCs
    <3>1. /\ state[p] = "RUNNABLE" /\ pc' = [pc EXCEPT ![p] = "fork_run"] /\ parent' = [parent EXCEPT ![s] = p]
          /\ UNCHANGED <<state, chan, wait_lock>>
      BY <2>2, <3>0, Zenon DEF fork_parent, at, goto
    <3>2. QED
      BY <1>0, <1>s, <3>0, <3>1, ZenonT(30) DEF LockPCs
  <2>3. CASE fork_run(p)
    <3>0. PICK s \in Slot : np[p] = s /\ state[s] = "USED" /\ pc[s] = "user" /\ s # p
      BY <1>f, <2>3 DEF fork_run, at, ForkPCs
    <3>1. /\ state[p] = "RUNNABLE" /\ pc' = [pc EXCEPT ![p] = "user"] /\ state' = [state EXCEPT ![s] = "RUNNABLE"]
          /\ UNCHANGED <<parent, chan, wait_lock>>
      BY <2>3, <3>0, Zenon DEF fork_run, at, goto
    <3>2. QED
      BY <1>0, <1>s, <3>0, <3>1 DEF LockPCs
  <2>4. CASE fault(p)
    BY <1>s, <2>4 DEF fault
  <2>5. CASE pause_sleep(p)
    <3>1. /\ state[p] = "RUNNABLE" /\ pc' = [pc EXCEPT ![p] = "pause"] /\ state' = [state EXCEPT ![p] = "SLEEPING"]
          /\ chan' = [chan EXCEPT ![p] = ticks] /\ UNCHANGED <<parent, wait_lock>>
      BY <2>5, Zenon DEF pause_sleep, at, goto
    <3>2. QED
      BY <1>0, <1>s, <3>1 DEF LockPCs
  <2>6. CASE wait_acquire(p)
    <3>1. /\ state[p] = "RUNNABLE" /\ wait_lock = None /\ wait_lock' = p
          /\ pc' = [pc EXCEPT ![p] = "wait_scan"] /\ chan' = [chan EXCEPT ![p] = None]
          /\ UNCHANGED <<state, parent>>
      BY <2>6 DEF wait_acquire, at, goto, acquire
    <3>2. \A q \in Slot : ~ (state[q] = "RUNNABLE" /\ pc[q] \in LockPCs)
      BY <1>l, <3>1, Slots, Zenon
    <3>3. \A q \in Slot : q # p => pc'[q] = pc[q] /\ chan'[q] = chan[q]
      BY <1>0, <3>1
    <3>4. pc'[p] = "wait_scan"
      BY <1>0, <3>1, Zenon
    <3>5. QED
      BY <1>0, <3>1, <3>2, <3>3, <3>4 DEF WaitInv, LockPCs
  <2>7. CASE wait_sleep(p)
    <3>1. /\ state[p] = "RUNNABLE" /\ pc[p] = "wait_sleep" /\ wait_lock' = None
          /\ pc' = [pc EXCEPT ![p] = "wait"] /\ chan' = [chan EXCEPT ![p] = p]
          /\ state' = [state EXCEPT ![p] = "SLEEPING"] /\ UNCHANGED parent
      BY <2>7 DEF wait_sleep, at, goto, release
    <3>2. \A q \in Slot : q # p => ~ (state[q] = "RUNNABLE" /\ pc[q] \in LockPCs)
      BY <1>l, <3>1 DEF LockPCs
    <3>3. \A q \in Slot : q # p => pc'[q] = pc[q] /\ chan'[q] = chan[q] /\ state'[q] = state[q]
      BY <1>0, <3>1, Zenon
    <3>4. pc'[p] = "wait" /\ state'[p] = "SLEEPING" /\ chan'[p] = p
      BY <1>0, <3>1, Zenon
    <3>5. \A t \in Slot : parent[t] = p => state[t] # "ZOMBIE"
      BY <1>0, <3>1, Zenon DEF WaitInv
    <3>6. QED
      BY <1>0, <3>1, <3>2, <3>3, <3>4, <3>5 DEF WaitInv, LockPCs
  <2>8. CASE exit_reparent(p)
    <3>1. /\ state[p] = "RUNNABLE" /\ pc[p] = "exit" /\ wait_lock = None /\ wait_lock' = p
          /\ pc' = [pc EXCEPT ![p] = "exit_zombie"] /\ UNCHANGED chan
          /\ parent' = [t \in Slot |-> IF parent[t] = p THEN init ELSE parent[t]]
          /\ state' = wakeup({parent[p]} \cup (IF children(p) = {} THEN {} ELSE {init}))
      BY <2>8, Zenon DEF exit_reparent, at, goto, acquire, children
    <3>2. /\ \A q \in Slot : state'[q] = state[q] \/ (state[q] = "SLEEPING" /\ state'[q] = "RUNNABLE")
          /\ state[parent[p]] = "SLEEPING" /\ chan[parent[p]] = parent[p] => state'[parent[p]] = "RUNNABLE"
          /\ (\E t \in Slot : parent[t] = p) /\ state[init] = "SLEEPING" /\ chan[init] = init
               => state'[init] = "RUNNABLE"
      <4>1. parent[p] \in Slot /\ init \in Slot
        BY <1>e, <3>1, Slots, Zenon
      <4>2. QED
        BY <3>1, <4>1, Zenon DEF wakeup, children
    <3>3. \A q \in Slot : ~ (state[q] = "RUNNABLE" /\ pc[q] \in LockPCs)
      BY <1>l, <3>1, Slots, Zenon
    <3>4. \A q \in Slot : q # p => pc'[q] = pc[q]
      BY <1>0, <3>1, Zenon
    <3>5. pc'[p] = "exit_zombie" /\ state'[p] = "RUNNABLE"
      BY <1>0, <3>1, <3>2, Zenon
    <3>6. \A q \in Slot : state'[q] = "SLEEPING" => state[q] = "SLEEPING" /\ q # p
      BY <3>2, <3>5, Zenon
    <3>7. \A q \in Slot : q # p /\ state'[q] = "RUNNABLE" => pc'[q] \notin LockPCs
      BY <1>0, <3>2, <3>3, <3>4, ZenonT(30) DEF WaitInv, LockPCs
    <3>8. parent'[p] \in Slot /\ ~ (state'[parent'[p]] = "SLEEPING" /\ pc'[parent'[p]] = "wait")
      <4>1. parent[p] \in Slot /\ init \in Slot
        BY <1>e, <3>1, Slots, SMTT(30)
      <4>2. ~ (state'[parent[p]] = "SLEEPING" /\ pc'[parent[p]] = "wait")
        BY <1>0, <3>2, <3>4, <3>6, <4>1, SMTT(30) DEF WaitInv
      <4>3. parent[p] = p => ~ (state'[init] = "SLEEPING" /\ pc'[init] = "wait")
        BY <1>0, <3>2, <3>4, <3>6, <4>1, SMTT(30) DEF WaitInv
      <4>4. QED
        BY <1>0, <3>1, <4>1, <4>2, <4>3
    <3>9. ASSUME NEW q \in Slot, NEW t \in Slot, parent'[t] = q, state'[q] = "SLEEPING", pc'[q] = "wait"
          PROVE  state'[t] # "ZOMBIE"
      <4>1. state[q] = "SLEEPING" /\ pc[q] = "wait" /\ chan[q] = q
        BY <1>0, <3>4, <3>6, <3>9, Zenon DEF WaitInv
      <4>2. parent[t] # p
        <5>1. parent[t] = p => q = init
          BY <1>0, <3>1, <3>9, Zenon
        <5>2. QED
          BY <3>2, <3>9, <4>1, <5>1, Zenon
      <4>3. parent[t] = q
        BY <1>0, <3>1, <3>9, <4>2, Zenon
      <4>4. QED
        BY <1>0, <3>2, <4>1, <4>3 DEF WaitInv
    <3>10. \A q \in Slot : state'[q] = "SLEEPING" => pc'[q] = "pause" \/ (pc'[q] = "wait" /\ chan'[q] = q)
      BY <1>0, <3>1, <3>4, <3>6, ZenonT(30) DEF WaitInv
    <3>11. \A q \in Slot : state'[q] = "RUNNABLE" /\ pc'[q] \in LockPCs => q = p
      BY <3>7, Zenon
    <3>12. ASSUME NEW q \in Slot, NEW t \in Slot, parent'[t] = q,
                  \/ state'[q] = "RUNNABLE" /\ pc'[q] \in {"wait_killed", "wait_sleep"}
                  \/ state'[q] = "SLEEPING" /\ pc'[q] = "wait"
           PROVE  state'[t] # "ZOMBIE"
      BY <3>5, <3>9, <3>11, <3>12, Zenon DEF LockPCs
    <3>13. QED
      BY <3>1, <3>8, <3>10, <3>11, <3>12 DEF WaitInv, LockPCs
  <2>9. CASE exit_zombie(p)
    <3>1. /\ pc[p] = "exit_zombie" /\ state[p] = "RUNNABLE" /\ state' = [state EXCEPT ![p] = "ZOMBIE"]
          /\ UNCHANGED <<parent, pc, chan>>
      BY <2>9, Zenon DEF exit_zombie, at
    <3>2. \A q \in Slot : q # p => ~ (state[q] = "RUNNABLE" /\ pc[q] \in LockPCs)
      BY <1>l, <3>1 DEF LockPCs
    <3>3. state'[p] = "ZOMBIE" /\ \A q \in Slot : q # p => state'[q] = state[q]
      BY <1>0, <3>1, Zenon
    <3>4. ~ (state[parent[p]] = "SLEEPING" /\ pc[parent[p]] = "wait")
      BY <1>0, <3>1, Zenon DEF WaitInv
    <3>5. QED
      BY <1>0, <3>1, <3>2, <3>3, <3>4 DEF WaitInv, LockPCs
  <2>10. CASE wait_found(p)
    <3>1. state[p] = "RUNNABLE" /\ pc[p] = "wait_scan" /\ pc' = [pc EXCEPT ![p] = "user"]
      BY <2>10 DEF wait_found, at, goto
    <3>2. \A q \in Slot : q # p => ~ (state[q] = "RUNNABLE" /\ pc[q] \in LockPCs)
      BY <1>l, <3>1, Zenon DEF LockPCs
    <3>3. CASE UNCHANGED <<state, parent, chan>>
      BY <1>0, <1>s, <3>1, <3>2, <3>3, Zenon DEF LockPCs
    <3>4. ASSUME NEW s \in Slot, state[s] = "ZOMBIE", state' = [state EXCEPT ![s] = "UNUSED"],
                 parent' = [parent EXCEPT ![s] = None], chan' = [chan EXCEPT ![s] = None]
          PROVE  WaitInv'
      <4>1. /\ state'[s] = "UNUSED"
            /\ \A q \in Slot : q # s => state'[q] = state[q] /\ parent'[q] = parent[q] /\ chan'[q] = chan[q]
        BY <1>0, <3>4, Zenon
      <4>2. pc'[p] = "user" /\ \A q \in Slot : q # p => pc'[q] = pc[q]
        BY <1>0, <3>1
      <4>3. QED
        BY <1>s, <3>1, <3>2, <3>4, <4>1, <4>2 DEF LockPCs
    <3>5. QED
      BY <2>10, <3>3, <3>4, Zenon DEF wait_found, freeproc, first, zombies
  <2>11. QED
    BY <1>3, <2>1, <2>2, <2>3, <2>4, <2>5, <2>6, <2>7, <2>8, <2>9, <2>10, Zenon DEF Others
<1>4. QED
  BY <1>1, <1>2, <1>3, Steps

---------------------------------------------------------------------------
(* The theorems.                                                           *)

\* The invariant is inductive.
LEMMA ProcInvNext == ProcInv /\ [Next]_vars => ProcInv'
<1> SUFFICES ASSUME ProcInv, [Next]_vars PROVE ProcInv'
  OBVIOUS
<1>1. CASE Next
  BY <1>1, TypeNext, PidNext, ForkNext, FamilyNext, WaitNext, Zenon DEF ProcInv
<1>2. CASE UNCHANGED vars
  <2>1. TypeOK'
    BY <1>2, Zenon DEF ProcInv, TypeOK, vars, procvars
  <2>2. PidInv' /\ ForkInv'
    BY <1>2, ZenonT(30) DEF ProcInv, PidInv, PidsUnique, ForkInv, vars, procvars
  <2>3. FamilyInv' /\ WaitInv'
    BY <1>2, SMTT(30) DEF ProcInv, FamilyInv, WaitInv, live, vars, procvars
  <2>4. QED
    BY <2>1, <2>2, <2>3, Zenon DEF ProcInv
<1>3. QED
  BY <1>1, <1>2

\* Whoever sleeps in wait() has no zombie child: the wakeup of kexit() is not
\* lost, for any number of processes that fork, exit, wait and kill each other.
THEOREM ExitNotMissed == Spec => []NoMissedExit
<1>1. ProcInv => NoMissedExit
  BY DEF ProcInv, WaitInv, NoMissedExit, zombies, children
<1>2. QED
  BY ProcInvInit, ProcInvNext, <1>1, PTL DEF Spec

\* A mark stays with its slot, and a process made in a marked free slot owes it to
\* kill(0).
LEMMA KillNext == ProcInv /\ MarksExplained /\ [Next]_vars => MarksExplained'
<1> SUFFICES ASSUME ProcInv, MarksExplained, [Next]_vars PROVE MarksExplained'
  OBVIOUS
<1>0. /\ state \in [Slot -> States] /\ pid \in [Slot -> 0..MaxPid] /\ killed \in [Slot -> {0, 1}]
      /\ TypeOK /\ \A s \in Slot : pid[s] = 0 <=> state[s] = "UNUSED"
  BY DEF ProcInv, TypeOK, PidInv, PidsUnique
<1>s. ASSUME UNCHANGED <<pid, killed>>, victims \subseteq victims'
      PROVE  MarksExplained'
  BY <1>s DEF MarksExplained
<1>1. CASE UNCHANGED vars
  BY <1>1, <1>s, Zenon DEF vars, procvars
<1>2. CASE clockintr
  BY <1>0, <1>2, <1>s, Zenon DEF clockintr, wakeup
<1>3. ASSUME NEW p \in Slot, NEW x \in KillPids, kkill(p, x) PROVE MarksExplained'
  <2>1. pid' = pid /\ victims' = victims \cup {x}
    BY <1>3 DEF kkill
  <2>2. CASE UNCHANGED <<killed, state>>
    BY <1>s, <2>1, <2>2, Zenon
  <2>3. ASSUME NEW s \in Slot, pid[s] = x, killed' = [killed EXCEPT ![s] = 1],
               state' = [state EXCEPT ![s] = IF @ = "SLEEPING" THEN "RUNNABLE" ELSE @]
        PROVE  MarksExplained'
    <3>1. \A t \in Slot : t # s => killed'[t] = killed[t]
      BY <1>0, <2>3, Zenon
    <3>2. QED
      BY <2>1, <2>3, <3>1, Zenon DEF MarksExplained
  <2>4. QED
    BY <1>3, <2>2, <2>3, Zenon DEF kkill, first
<1>4. ASSUME NEW p \in Slot, Moves(p) PROVE MarksExplained'
  <2>1. UNCHANGED procvars /\ victims' = victims
    BY <1>4, MoveStep, Zenon DEF Moves, pause, exit, call_wait, pause_test, wait_nokids, wait_scanned, wait_killed
  <2>2. QED
    BY <1>s, <2>1, Zenon DEF procvars
<1>5. ASSUME NEW p \in Slot, Others(p) PROVE MarksExplained'
  <2>1. CASE fork_alloc(p)
    <3>1. PICK s \in Slot :
            /\ state[s] = "UNUSED"
            /\ \/ /\ state' = [state EXCEPT ![s] = "USED"] /\ pid' = [pid EXCEPT ![s] = nextpid] /\ killed' = killed
               \/ UNCHANGED <<state, pid>> /\ killed' = [killed EXCEPT ![s] = 0]
      BY <2>1, Zenon DEF fork_alloc, first, free
    <3>2. victims' = victims
      BY <2>1, Zenon DEF fork_alloc
    <3>3. pid[s] = 0
      BY <1>0, <3>1, Zenon
    <3>4. \A t \in Slot : killed'[t] = 1 => killed[t] = 1 /\ (t # s => pid'[t] = pid[t])
      BY <1>0, <3>1, Zenon
    <3>5. QED
      BY <3>2, <3>3, <3>4, Zenon DEF MarksExplained
  <2>2. CASE wait_found(p)
    <3>1. victims' = victims
      BY <2>2 DEF wait_found
    <3>2. CASE UNCHANGED <<state, pid, killed>>
      BY <1>s, <3>1, <3>2, Zenon
    <3>3. ASSUME NEW s \in Slot, state' = [state EXCEPT ![s] = "UNUSED"], pid' = [pid EXCEPT ![s] = 0],
                 killed' = [killed EXCEPT ![s] = 0]
          PROVE  MarksExplained'
      <4>1. \A t \in Slot : killed'[t] = 1 => t # s /\ killed[t] = 1 /\ pid'[t] = pid[t]
        BY <1>0, <3>3
      <4>2. QED
        BY <3>1, <4>1, Zenon DEF MarksExplained
    <3>4. QED
      BY <2>2, <3>2, <3>3, Zenon DEF wait_found, freeproc
  <2>3. CASE fork_run(p)
    <3>1. np[p] \in Slot /\ state[np[p]] = "USED"
      BY <2>3 DEF ProcInv, TypeOK, ForkInv, ForkPCs, fork_run, at
    <3>2. QED
      BY <1>0, <1>s, <2>3, <3>1, Zenon DEF fork_run
  <2>4. CASE fault(p)
    <3>1. /\ state[p] = "RUNNABLE" /\ killed' = [killed EXCEPT ![p] = 1] /\ victims' = victims \cup {pid[p]}
          /\ UNCHANGED <<state, pid>>
      BY <2>4, Zenon DEF fault, at
    <3>2. QED
      BY <1>0, <3>1, Zenon DEF MarksExplained
  <2>5. CASE fork_parent(p) \/ wait_acquire(p)
    BY <1>s, <2>5, Zenon DEF fork_parent, wait_acquire
  <2>6. CASE pause_sleep(p) \/ wait_sleep(p) \/ exit_zombie(p)
    BY <1>0, <1>s, <2>6, Zenon DEF pause_sleep, wait_sleep, exit_zombie, at
  <2>7. CASE exit_reparent(p)
    BY <1>0, <1>s, <2>7 DEF exit_reparent, wakeup
  <2>8. QED
    BY <1>5, <2>1, <2>2, <2>3, <2>4, <2>5, <2>6, <2>7, Zenon DEF Others
<1>6. QED
  BY <1>1, <1>2, <1>3, <1>4, <1>5, Steps

\* The table makes sense to those who walk it with one p->lock at a time, for any
\* number of slots: pids name one process, every process that has run has a
\* parent which is alive, a slot in the making has one maker, and every mark of
\* kill() goes back to a call with that pid or to kill(0).
THEOREM TableSound == Spec => []TableConsistent
<1>1. ProcInv /\ MarksExplained => TableConsistent
  <2> SUFFICES ASSUME ProcInv, MarksExplained PROVE TableConsistent
    OBVIOUS
  <2>1. TypeOK /\ PidsUnique
    BY Zenon DEF ProcInv, PidInv
  <2>2. ParentAlive
    BY DEF ProcInv, FamilyInv, ParentAlive
  <2>3. OneMaker
    <3>1. ASSUME NEW s \in Slot, state[s] = "USED"
          PROVE  Cardinality({p \in Slot : live(p) /\ np[p] = s}) = 1
      <4>1. PICK p \in Slot : np[p] = s
        BY <3>1, Zenon DEF ProcInv, ForkInv
      <4>2. live(p) /\ \A q \in Slot : np[q] = s => q = p
        BY <4>1, Slots DEF ProcInv, ForkInv, live
      <4>3. {q \in Slot : live(q) /\ np[q] = s} = {p}
        BY <4>1, <4>2
      <4>4. QED
        BY <4>3, FS_Singleton, Zenon
    <3>2. QED
      BY <3>1 DEF OneMaker
  <2>4. QED
    BY <2>1, <2>2, <2>3 DEF TableConsistent
<1>2. QED
  BY ProcInvInit, ProcInvNext, KillNext, <1>1, PTL DEF Spec
=============================================================================
