----------------------------- MODULE ProcTable -----------------------------
(***************************************************************************)
(* The life of processes in kernel/proc.c: kfork(), kexit(), kwait(),      *)
(* kkill(), and the sleep() and wakeup() they use.                         *)
(*                                                                         *)
(* A step is a section under one p->lock, or the part of a section under   *)
(* wait_lock between two acquisitions of a p->lock whose order matters.    *)
(* wait_lock itself is a variable, because it is held across several       *)
(* steps.  Which CPU runs a process is the matter of Sched: here a process *)
(* that is RUNNABLE or RUNNING can take its next step.                     *)
(***************************************************************************)
EXTENDS Integers, FiniteSets

CONSTANTS NPROC,       \* slots of proc[]
          KillPids,    \* arguments passed to kill()
          MaxPid       \* bound: pids handed out

ASSUME ProcAssumption ==
  /\ NPROC \in Nat \ {0}
  /\ MaxPid \in Nat \ {0}
  /\ KillPids \subseteq Nat

Slot == 1..NPROC
None == 0
init == 1              \* initproc

VARIABLES
  state, pid, parent, chan, killed,     \* struct proc
  nextpid,
  wait_lock,   \* the process holding it, or None
  pc,          \* where each process is
  np,          \* the child kfork() is making
  victims      \* history: the pids kill() was called with

procvars == <<state, pid, parent, chan, killed, nextpid>>
vars == <<procvars, wait_lock, pc, np, victims>>

States == {"UNUSED", "USED", "SLEEPING", "RUNNABLE", "ZOMBIE"}
WaitPCs == {"wait", "wait_scan", "wait_killed", "wait_sleep"}
PCs == {"user", "fork_parent", "fork_run", "exit", "exit_zombie", "pause",
        "pause_sleep"} \cup WaitPCs

goto(p, l) == pc' = [pc EXCEPT ![p] = l]

\* p executes its step at label l.
at(p, l) == state[p] = "RUNNABLE" /\ pc[p] = l

\* acquire() and release() of wait_lock.
acquire(p) == wait_lock = None /\ wait_lock' = p
release == wait_lock' = None

\* userinit().
Init ==
  /\ state = [s \in Slot |-> IF s = init THEN "RUNNABLE" ELSE "UNUSED"]
  /\ pid = [s \in Slot |-> IF s = init THEN 1 ELSE 0]
  /\ parent = [s \in Slot |-> None]
  /\ chan = [s \in Slot |-> None]
  /\ killed = [s \in Slot |-> 0]
  /\ nextpid = 2
  /\ wait_lock = None
  /\ pc = [s \in Slot |-> "user"]
  /\ np = [s \in Slot |-> None]
  /\ victims = {}

---------------------------------------------------------------------------
(* kfork().                                                                *)

\* s is the first slot of the table that is in S.
first(s, S) == s \in S /\ \A t \in S : s <= t

free == {s \in Slot : state[s] = "UNUSED"}

\* allocproc() takes the first free slot and a pid; without a free slot, or when
\* allocating memory fails and freeproc() gives the slot back, fork() returns -1.
\* (init.c exits when its fork() fails, and the kernel panics: not modelled.)
fork_alloc(p) ==
  /\ at(p, "user") /\ killed[p] = 0
  /\ nextpid <= MaxPid
  /\ nextpid' = nextpid + 1
  /\ \E s \in Slot :
       /\ first(s, free)
       /\ \/ /\ state' = [state EXCEPT ![s] = "USED"]
             /\ pid' = [pid EXCEPT ![s] = nextpid]
             /\ pc' = [pc EXCEPT ![p] = "fork_parent", ![s] = "user"]
             /\ np' = [np EXCEPT ![p] = s]
             /\ UNCHANGED killed
          \/ /\ p # init
             /\ killed' = [killed EXCEPT ![s] = 0]
             /\ UNCHANGED <<state, pid, pc, np>>
  /\ UNCHANGED <<parent, chan, wait_lock, victims>>

\* Under wait_lock: np->parent = p.
fork_parent(p) ==
  /\ at(p, "fork_parent")
  /\ wait_lock = None
  /\ parent' = [parent EXCEPT ![np[p]] = p]
  /\ goto(p, "fork_run")
  /\ UNCHANGED <<state, pid, chan, killed, nextpid, wait_lock, np, victims>>

\* Under np->lock: np->state = RUNNABLE.
fork_run(p) ==
  /\ at(p, "fork_run")
  /\ state' = [state EXCEPT ![np[p]] = "RUNNABLE"]
  /\ np' = [np EXCEPT ![p] = None]
  /\ goto(p, "user")
  /\ UNCHANGED <<pid, parent, chan, killed, nextpid, wait_lock, victims>>

---------------------------------------------------------------------------
(* sleep(), wakeup(), kkill().                                             *)

\* The states after wakeup(c) for every c in chans.
wakeup(chans) ==
  [s \in Slot |-> IF state[s] = "SLEEPING" /\ chan[s] \in chans THEN "RUNNABLE" ELSE state[s]]

\* sys_pause(): until the time is over, return if killed, else sleep on &ticks
\* (the channel -1).  tickslock is held from the test of killed to the sleep, so
\* no tick comes between the two; a kill may.
ticks == -1

pause(p) ==
  /\ at(p, "user") /\ killed[p] = 0 /\ p # init
  /\ goto(p, "pause")
  /\ UNCHANGED <<procvars, wait_lock, np, victims>>

\* Mutant: the loop does not test killed().
pause_test_unkillable(p) ==
  /\ at(p, "pause")
  /\ goto(p, "user") \/ goto(p, "pause_sleep")
  /\ UNCHANGED <<procvars, wait_lock, np, victims>>

pause_test(p) ==
  /\ at(p, "pause")
  /\ \/ goto(p, "user")
     \/ killed[p] = 0 /\ goto(p, "pause_sleep")
  /\ UNCHANGED <<procvars, wait_lock, np, victims>>

pause_sleep(p) ==
  /\ at(p, "pause_sleep")
  /\ goto(p, "pause")
  /\ state' = [state EXCEPT ![p] = "SLEEPING"]
  /\ chan' = [chan EXCEPT ![p] = ticks]
  /\ UNCHANGED <<pid, parent, killed, nextpid, wait_lock, np, victims>>

\* clockintr(), which takes tickslock.
clockintr ==
  /\ \A s \in Slot : pc[s] # "pause_sleep"
  /\ \E s \in Slot : state[s] = "SLEEPING" /\ chan[s] = ticks
  /\ state' = wakeup({ticks})
  /\ UNCHANGED <<pid, parent, chan, killed, nextpid, wait_lock, pc, np, victims>>

\* kkill(): the first slot with that pid, whatever its state.
kkill(p, x) ==
  LET named == {s \in Slot : pid[s] = x} IN
  /\ at(p, "user") /\ killed[p] = 0 /\ p # init
  /\ victims' = victims \cup {x}
  /\ \/ \E s \in Slot :
          /\ first(s, named)
          /\ killed' = [killed EXCEPT ![s] = 1]
          /\ state' = [state EXCEPT ![s] = IF @ = "SLEEPING" THEN "RUNNABLE" ELSE @]
     \/ named = {} /\ UNCHANGED <<killed, state>>
  /\ UNCHANGED <<pid, parent, chan, nextpid, wait_lock, pc, np>>

\* usertrap() on an unexpected exception: setkilled().
fault(p) ==
  /\ at(p, "user") /\ killed[p] = 0 /\ p # init
  /\ killed' = [killed EXCEPT ![p] = 1]
  /\ victims' = victims \cup {pid[p]}
  /\ UNCHANGED <<state, pid, parent, chan, nextpid, wait_lock, pc, np>>

---------------------------------------------------------------------------
(* kexit().                                                                *)

\* exit(), or a trap that finds the process killed.  init never calls it and the
\* model does not kill it: kexit() would panic.  Files are closed here.
exit(p) ==
  /\ at(p, "user")
  /\ p # init
  /\ goto(p, "exit")
  /\ UNCHANGED <<procvars, wait_lock, np, victims>>

children(p) == {s \in Slot : parent[s] = p}

\* Mutant: the children are not given to init.
exit_reparent_dropped(p) ==
  /\ at(p, "exit")
  /\ acquire(p)
  /\ state' = wakeup({parent[p]})
  /\ goto(p, "exit_zombie")
  /\ UNCHANGED <<pid, parent, chan, killed, nextpid, np, victims>>

\* With wait_lock: reparent(), which also wakes init, and wakeup(p->parent).
exit_reparent(p) ==
  /\ at(p, "exit")
  /\ acquire(p)
  /\ parent' = [s \in Slot |-> IF s \in children(p) THEN init ELSE parent[s]]
  /\ state' = wakeup({parent[p]} \cup (IF children(p) = {} THEN {} ELSE {init}))
  /\ goto(p, "exit_zombie")
  /\ UNCHANGED <<pid, chan, killed, nextpid, np, victims>>

\* With p->lock too: ZOMBIE; then wait_lock is released.
exit_zombie(p) ==
  /\ at(p, "exit_zombie")
  /\ state' = [state EXCEPT ![p] = "ZOMBIE"]
  /\ release
  /\ UNCHANGED <<pid, parent, chan, killed, nextpid, pc, np, victims>>

---------------------------------------------------------------------------
(* kwait().                                                                *)

\* wait() is called (by init only while it has a child: its shell), or sleep()
\* returns: acquire(&wait_lock).
call_wait(p) ==
  /\ at(p, "user") /\ killed[p] = 0
  /\ p = init => children(p) # {}
  /\ goto(p, "wait")
  /\ UNCHANGED <<procvars, wait_lock, np, victims>>

wait_acquire(p) ==
  /\ at(p, "wait")
  /\ acquire(p)
  /\ chan' = [chan EXCEPT ![p] = None]
  /\ goto(p, "wait_scan")
  /\ UNCHANGED <<state, pid, parent, killed, nextpid, np, victims>>

freeproc(s) ==
  /\ pid' = [pid EXCEPT ![s] = 0]
  /\ parent' = [parent EXCEPT ![s] = None]
  /\ chan' = [chan EXCEPT ![s] = None]
  /\ killed' = [killed EXCEPT ![s] = 0]
  /\ state' = [state EXCEPT ![s] = "UNUSED"]

zombies(p) == {s \in children(p) : state[s] = "ZOMBIE"}

\* Mutant: wait() returns without freeproc().
wait_found_forgets(p) ==
  /\ at(p, "wait_scan")
  /\ zombies(p) # {}
  /\ release
  /\ goto(p, "user")
  /\ UNCHANGED <<procvars, np, victims>>

\* The first zombie child of the table is freed and wait() returns; it also
\* returns, leaving the zombie, when copyout() of the status fails.
wait_found(p) ==
  /\ at(p, "wait_scan")
  /\ zombies(p) # {}
  /\ \/ \E s \in Slot : first(s, zombies(p)) /\ freeproc(s)
     \/ p # init /\ UNCHANGED <<pid, parent, chan, killed, state>>
  /\ release
  /\ goto(p, "user")
  /\ UNCHANGED <<nextpid, np, victims>>

wait_nokids(p) ==
  /\ at(p, "wait_scan")
  /\ children(p) = {}
  /\ release
  /\ goto(p, "user")
  /\ UNCHANGED <<procvars, np, victims>>

\* Children, but no zombie: the scan is over, killed(p) is tested ...
wait_scanned(p) ==
  /\ at(p, "wait_scan")
  /\ children(p) # {} /\ zombies(p) = {}
  /\ goto(p, "wait_killed")
  /\ UNCHANGED <<procvars, wait_lock, np, victims>>

\* Mutant: wait_lock is released before sleep() has p->lock.
wait_killed_unlocks(p) ==
  /\ at(p, "wait_killed")
  /\ release
  /\ goto(p, IF killed[p] = 1 THEN "user" ELSE "wait_sleep")
  /\ UNCHANGED <<procvars, np, victims>>

wait_killed(p) ==
  /\ at(p, "wait_killed")
  /\ IF killed[p] = 1
     THEN release /\ goto(p, "user")
     ELSE UNCHANGED wait_lock /\ goto(p, "wait_sleep")
  /\ UNCHANGED <<procvars, np, victims>>

\* ... and sleep(p, &wait_lock) takes p->lock, releases wait_lock and sleeps.
wait_sleep(p) ==
  /\ at(p, "wait_sleep")
  /\ state' = [state EXCEPT ![p] = "SLEEPING"]
  /\ chan' = [chan EXCEPT ![p] = p]
  /\ release
  /\ goto(p, "wait")
  /\ UNCHANGED <<pid, parent, killed, nextpid, np, victims>>

---------------------------------------------------------------------------
kwait(p) ==
  \/ wait_acquire(p) \/ wait_found(p) \/ wait_nokids(p) \/ wait_scanned(p)
  \/ wait_killed(p) \/ wait_sleep(p)

\* What a process does next by itself once it is in the kernel.
InKernel(p) ==
  \/ fork_parent(p) \/ fork_run(p) \/ pause_test(p) \/ pause_sleep(p)
  \/ exit_reparent(p) \/ exit_zombie(p) \/ kwait(p)

\* What it may choose to do.
Syscall(p) ==
  \/ fork_alloc(p) \/ pause(p) \/ exit(p) \/ call_wait(p) \/ fault(p)
  \/ \E x \in KillPids : kkill(p, x)

Next == clockintr \/ \E p \in Slot : Syscall(p) \/ InKernel(p)

Spec == Init /\ [][Next]_vars

\* The kernel gets on with every process; the timer ticks; a killed process
\* exits; init.c calls wait() whenever it has a child.
Fairness ==
  /\ WF_vars(clockintr)
  /\ \A p \in Slot :
       /\ SF_vars(InKernel(p))
       /\ WF_vars(killed[p] = 1 /\ exit(p))
  /\ WF_vars(call_wait(init))

FairSpec == Spec /\ Fairness

---------------------------------------------------------------------------
\* Types of the process slots, the locks and the calls in progress.
TypeOK ==
  /\ state \in [Slot -> States]
  /\ pid \in [Slot -> 0..MaxPid]
  /\ parent \in [Slot -> Slot \cup {None}]
  /\ chan \in [Slot -> Slot \cup {None, ticks}]
  /\ killed \in [Slot -> {0, 1}]
  /\ nextpid \in 2..(MaxPid + 1)
  /\ wait_lock \in Slot \cup {None}
  /\ pc \in [Slot -> PCs]
  /\ np \in [Slot -> Slot \cup {None}]
  /\ victims \subseteq Nat

live(s) == state[s] \in {"SLEEPING", "RUNNABLE"}

\* Two processes never share a pid, and only a free slot has none: kkill() names
\* one process.
PidsUnique ==
  \A s \in Slot :
    /\ pid[s] = 0 <=> state[s] = "UNUSED"
    /\ \A t \in Slot : s # t /\ pid[s] # 0 => pid[s] # pid[t]

\* Every process but init that has run has a parent which is alive, and so can
\* still wait() for it: a parent that exits has given its children to init before
\* it lets wait_lock go, and no slot of a freed parent is ever pointed to.
ParentAlive ==
  \A s \in Slot \ {init} :
    live(s) \/ state[s] = "ZOMBIE" => parent[s] # None /\ live(parent[s])

\* A slot is in the making exactly while one live process is in kfork() with it.
OneMaker ==
  \A s \in Slot :
    state[s] = "USED" => Cardinality({p \in Slot : live(p) /\ np[p] = s}) = 1

\* A slot is marked killed only if the pid it has was passed to kill(), or the
\* process faulted, or somebody called kill(0): 0 is the pid of the free slots, and
\* allocproc() keeps the mark for the next process it makes there.
MarksExplained ==
  \A s \in Slot : killed[s] = 1 => pid[s] \in victims \/ 0 \in victims

\* "Kill the process with the given pid" (proc.c:736): a process is marked killed
\* only if its own pid was passed to kill() or it faulted.
OnlyVictimsKilled ==
  \A s \in Slot : state[s] # "UNUSED" /\ killed[s] = 1 => pid[s] \in victims

\* The table makes sense to those who walk it with one p->lock at a time: pids
\* name one process, parents can wait, each slot in the making has one maker, and
\* every mark of kill() goes back to a call with that pid or to kill(0).
TableConsistent == TypeOK /\ PidsUnique /\ ParentAlive /\ OneMaker /\ MarksExplained

\* The wakeup of kexit() is not lost: no process sleeps in wait() while a child
\* of its is a zombie.
NoMissedExit ==
  \A s \in Slot : state[s] = "SLEEPING" /\ pc[s] = "wait" => zombies(s) = {}

\* Orphans do not accumulate: a zombie that is a child of init is freed.
OrphansReaped ==
  \A s \in Slot : (state[s] = "ZOMBIE" /\ parent[s] = init) ~> state[s] = "UNUSED"

\* kill() ends a pause(): the victim becomes a zombie.
KillEndsPause ==
  \A s \in Slot :
    (killed[s] = 1 /\ live(s) /\ pc[s] \in {"pause", "pause_sleep"}) ~> state[s] = "ZOMBIE"
============================================================================
