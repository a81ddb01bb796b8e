------------------------------- MODULE Sched -------------------------------
(***************************************************************************)
(* scheduler(), yield() and the CPU quota of kernel/proc.c, the accounting *)
(* of kernel/trap.c and setquota() of kernel/sysproc.c, on several CPUs.   *)
(*                                                                         *)
(* Each iteration of a loop over proc[] holds one p->lock and is one step; *)
(* ticks is read under tickslock in a step of its own; the unlocked reads  *)
(* and writes of quota_window_start are steps of their own.  waiting_tick  *)
(* and quota_violations are counted by the code but never read by it, so   *)
(* they are left out, and with them the loop over proc[] that only         *)
(* increments waiting_tick.  eco_mode is ECO_QUOTA and never assigned.     *)
(***************************************************************************)
EXTENDS Integers, FiniteSets

CONSTANTS NCPU,            \* number of CPUs
          NPROC,           \* slots of proc[]
          WINDOW_SIZE,     \* ticks per quota window
          UINT,            \* number of values of ticks, a C uint
          DefaultQuota,    \* the quota allocproc() gives
          SetQuotas,       \* arguments passed to setquota()
          QuotaPids,       \* pids of the processes whose program calls it
          MaxPid,          \* bound: pids handed out
          MaxTicks         \* bound: ticks counted

ASSUME SchedAssumption ==
  /\ NCPU \in Nat \ {0}
  /\ NPROC \in Nat \ {0}
  /\ WINDOW_SIZE \in Nat \ {0}
  /\ UINT \in Nat /\ WINDOW_SIZE < UINT
  /\ DefaultQuota \in Nat \ {0}
  /\ SetQuotas \subseteq Int
  /\ MaxPid \in Nat \ {0}
  /\ MaxTicks \in Nat

CPU == 0..(NCPU - 1)
Slot == 1..NPROC

VARIABLES
  \* struct proc
  state, pid, cpu_quota, cpu_used, throttled,
  bySchedtest,   \* is the parent's name "schedtest"
  inUser,        \* will the process go on in user space when it next runs
  nextpid,
  \* globals
  ticks, quota_window_start,
  \* struct cpu and the locals of each CPU's scheduler()
  cpc, proc, current, k, chosen,
  \* history: ticks since the last opening of a window that was due; whether the
  \* reset a CPU is doing is for such a window; user ticks charged to a process
  \* since that window was opened and since its reset got to the process; the
  \* largest quota the process has had since that reset
  sinceOpen, due, charged, granted

procvars == <<state, pid, cpu_quota, cpu_used, throttled, bySchedtest, inUser, nextpid>>
clock == <<ticks, quota_window_start>>
cpuvars == <<cpc, proc, current, k, chosen>>
history == <<sinceOpen, due, charged, granted>>
vars == <<procvars, clock, cpuvars, history>>

States == {"UNUSED", "SLEEPING", "RUNNABLE", "RUNNING", "ZOMBIE"}
None == 0

goto(c, l) == cpc' = [cpc EXCEPT ![c] = l]

\* userinit() has made the first process; every CPU enters scheduler().
Init ==
  /\ state = [s \in Slot |-> IF s = 1 THEN "RUNNABLE" ELSE "UNUSED"]
  /\ pid = [s \in Slot |-> IF s = 1 THEN 1 ELSE 0]
  /\ cpu_quota = [s \in Slot |-> DefaultQuota]
  /\ cpu_used = [s \in Slot |-> 0]
  /\ throttled = [s \in Slot |-> 0]
  /\ bySchedtest = [s \in Slot |-> FALSE]
  /\ inUser = [s \in Slot |-> TRUE]
  /\ nextpid = 2
  /\ ticks = 0
  /\ quota_window_start = 0
  /\ cpc = [c \in CPU |-> "top"]
  /\ proc = [c \in CPU |-> None]
  /\ current = [c \in CPU |-> 0]
  /\ k = [c \in CPU |-> 1]
  /\ chosen = [c \in CPU |-> None]
  /\ sinceOpen = 0
  /\ due = [c \in CPU |-> FALSE]
  /\ charged = [s \in Slot |-> 0]
  /\ granted = cpu_quota

---------------------------------------------------------------------------
(* Timer interrupts.                                                       *)

\* clockintr(): CPU 0 counts the tick.
clockintr(c) ==
  IF c = 0
  THEN /\ ticks < MaxTicks
       /\ ticks' = (ticks + 1) % UINT
       /\ sinceOpen' = IF sinceOpen < WINDOW_SIZE THEN sinceOpen + 1 ELSE sinceOpen
  ELSE UNCHANGED <<ticks, sinceOpen>>

\* In user space the process will be charged; in the kernel it only yields.
TimerInProcess(c) ==
  /\ cpc[c] = "process"
  /\ clockintr(c)
  /\ goto(c, IF inUser[proc[c]] THEN "charge" ELSE "yield")
  /\ UNCHANGED <<procvars, quota_window_start, proc, current, k, chosen, due, charged, granted>>

\* An interrupt that arrived in scheduler() is taken where it enables them: at
\* most one tick per round, a round being much shorter than a tick.
TimerInScheduler(c) ==
  /\ cpc[c] = "top"
  /\ clockintr(c)
  /\ goto(c, "begin")
  /\ UNCHANGED <<procvars, quota_window_start, proc, current, k, chosen, due, charged, granted>>

\* wfi returns when an interrupt is pending.
Wfi(c) ==
  /\ cpc[c] = "wfi"
  /\ goto(c, "top")
  /\ UNCHANGED <<procvars, clock, proc, current, k, chosen, history>>

\* usertrap(): charge the tick, and throttle when the quota is used up.
Charge(c) ==
  LET s == proc[c]
      used == cpu_used[s] + 1
  IN
  /\ cpc[c] = "charge"
  /\ cpu_used' = [cpu_used EXCEPT ![s] = used]
  /\ throttled' = [throttled EXCEPT ![s] = IF used >= cpu_quota[s] THEN 1 ELSE @]
  /\ charged' = [charged EXCEPT ![s] = IF @ <= granted[s] THEN @ + 1 ELSE @]
  /\ goto(c, "yield")
  /\ UNCHANGED <<state, pid, cpu_quota, bySchedtest, inUser, nextpid, clock,
                 proc, current, k, chosen, sinceOpen, due, granted>>

---------------------------------------------------------------------------
(* scheduler().                                                            *)

\* check_and_reset_quota_window() reads ticks under tickslock ...
ReadTicks(c) ==
  /\ cpc[c] \in {"top", "begin"}
  /\ current' = [current EXCEPT ![c] = ticks]
  /\ goto(c, "compare")
  /\ UNCHANGED <<procvars, clock, proc, k, chosen, history>>

\* Mutant: the window ends one tick early.
windowOver_early(c) == (current[c] - quota_window_start) % UINT >= WINDOW_SIZE - 1

\* ... compares it, as unsigned, with the start of the window ...
windowOver(c) == (current[c] - quota_window_start) % UINT >= WINDOW_SIZE

\* current_ticks is dead from here on.
forget(c) == current' = [current EXCEPT ![c] = 0]

startScan(c, l) == goto(c, l) /\ k' = [k EXCEPT ![c] = 1]

Compare(c) ==
  /\ cpc[c] = "compare"
  /\ IF windowOver(c)
     THEN goto(c, "open") /\ UNCHANGED <<k, current>>
     ELSE startScan(c, "scan") /\ forget(c)
  /\ UNCHANGED <<procvars, clock, proc, chosen, history>>

\* ... and moves the start, all without a lock on quota_window_start.
OpenWindow(c) ==
  /\ cpc[c] = "open"
  /\ quota_window_start' = current[c]
  /\ due' = [due EXCEPT ![c] = sinceOpen >= WINDOW_SIZE]
  /\ sinceOpen' = IF due'[c] THEN 0 ELSE sinceOpen
  /\ charged' = IF due'[c] THEN [s \in Slot |-> 0] ELSE charged
  /\ startScan(c, "reset")
  /\ forget(c)
  /\ UNCHANGED <<procvars, ticks, proc, chosen, granted>>

\* The next iteration of a loop over proc[], or what follows the loop.
nextSlot(c, after) ==
  IF k[c] < NPROC
  THEN k' = [k EXCEPT ![c] = @ + 1] /\ UNCHANGED cpc
  ELSE startScan(c, after)

\* History: a reset that was due begins a new account for the process.
forgive(c, s) ==
  /\ charged' = IF due[c] THEN [charged EXCEPT ![s] = 0] ELSE charged
  /\ granted' = IF due[c] /\ state[s] # "UNUSED" THEN [granted EXCEPT ![s] = cpu_quota[s]] ELSE granted

\* Mutant: a new window forgets the ticks used but not the throttling.
ResetSlot_keepsThrottled(c) ==
  LET s == k[c] IN
  /\ cpc[c] = "reset"
  /\ IF state[s] # "UNUSED"
     THEN cpu_used' = [cpu_used EXCEPT ![s] = 0]
     ELSE UNCHANGED cpu_used
  /\ forgive(c, s)
  /\ nextSlot(c, "scan")
  /\ UNCHANGED <<state, pid, cpu_quota, throttled, bySchedtest, inUser, nextpid, clock,
                 proc, current, chosen, sinceOpen, due>>

\* reset_cpu_quotas(), one slot.
ResetSlot(c) ==
  LET s == k[c] IN
  /\ cpc[c] = "reset"
  /\ IF state[s] # "UNUSED"
     THEN /\ cpu_used' = [cpu_used EXCEPT ![s] = 0]
          /\ throttled' = [throttled EXCEPT ![s] = 0]
     ELSE UNCHANGED <<cpu_used, throttled>>
  /\ forgive(c, s)
  /\ nextSlot(c, "scan")
  /\ UNCHANGED <<state, pid, cpu_quota, bySchedtest, inUser, nextpid, clock,
                 proc, current, chosen, sinceOpen, due>>

eligible(s) == state[s] = "RUNNABLE" /\ throttled[s] = 0

\* Mutant: the largest pid wins.
preferred_max(c) ==
  /\ eligible(k[c])
  /\ bySchedtest[k[c]]
  /\ chosen[c] = None \/ pid[k[c]] > pid[chosen[c]]

\* First loop: the eligible child of schedtest with the smallest pid.  The pid
\* of the candidate so far is read without its lock.
preferred(c) ==
  /\ eligible(k[c])
  /\ bySchedtest[k[c]]
  /\ chosen[c] = None \/ pid[k[c]] < pid[chosen[c]]

ScanSlot(c) ==
  /\ cpc[c] = "scan"
  /\ chosen' = IF preferred(c) THEN [chosen EXCEPT ![c] = k[c]] ELSE chosen
  /\ nextSlot(c, IF chosen'[c] = None THEN "fallback" ELSE "run")
  /\ UNCHANGED <<procvars, clock, proc, current, history>>

\* Second loop: the first eligible process of the table.
FallbackSlot(c) ==
  /\ cpc[c] = "fallback"
  /\ IF eligible(k[c])
     THEN chosen' = [chosen EXCEPT ![c] = k[c]] /\ startScan(c, "run")
     ELSE UNCHANGED chosen /\ nextSlot(c, "wfi")
  /\ UNCHANGED <<procvars, clock, proc, current, history>>

\* Mutant: no second test.
Run_unchecked(c) ==
  /\ cpc[c] = "run"
  /\ state' = [state EXCEPT ![chosen[c]] = "RUNNING"]
  /\ proc' = [proc EXCEPT ![c] = chosen[c]]
  /\ goto(c, "process")
  /\ chosen' = [chosen EXCEPT ![c] = None]
  /\ UNCHANGED <<pid, cpu_quota, cpu_used, throttled, bySchedtest, inUser, nextpid, clock,
                 current, k, history>>

\* The choice is tested again under its lock before the switch to it.  The next
\* round begins with chosen = 0.
Run(c) ==
  /\ cpc[c] = "run"
  /\ IF eligible(chosen[c])
     THEN /\ state' = [state EXCEPT ![chosen[c]] = "RUNNING"]
          /\ proc' = [proc EXCEPT ![c] = chosen[c]]
          /\ goto(c, "process")
     ELSE UNCHANGED <<state, proc>> /\ goto(c, "top")
  /\ chosen' = [chosen EXCEPT ![c] = None]
  /\ UNCHANGED <<pid, cpu_quota, cpu_used, throttled, bySchedtest, inUser, nextpid, clock,
                 current, k, history>>

---------------------------------------------------------------------------
(* What a running process does.                                            *)

\* sched(): the process has changed its state and the CPU is back in scheduler().
leave(c, newstate) ==
  /\ state' = [state EXCEPT ![proc[c]] = newstate]
  /\ proc' = [proc EXCEPT ![c] = None]
  /\ goto(c, "top")
  /\ UNCHANGED <<current, k, chosen>>

Yield(c) ==
  /\ cpc[c] = "yield"
  /\ leave(c, "RUNNABLE")
  /\ UNCHANGED <<pid, cpu_quota, cpu_used, throttled, bySchedtest, inUser, nextpid, clock, history>>

InKernel(c) == cpc[c] = "process" /\ ~ inUser[proc[c]]

Syscall(c) ==
  /\ cpc[c] = "process" /\ inUser[proc[c]]
  /\ inUser' = [inUser EXCEPT ![proc[c]] = FALSE]
  /\ UNCHANGED <<state, pid, cpu_quota, cpu_used, throttled, bySchedtest, nextpid, clock,
                 cpuvars, history>>

Return(c) ==
  /\ InKernel(c)
  /\ inUser' = [inUser EXCEPT ![proc[c]] = TRUE]
  /\ UNCHANGED <<state, pid, cpu_quota, cpu_used, throttled, bySchedtest, nextpid, clock,
                 cpuvars, history>>

\* sys_setquota(), for the caller itself.
SetQuota(c) ==
  LET s == proc[c] IN
  /\ InKernel(c) /\ pid[s] \in QuotaPids
  /\ \E q \in SetQuotas :
       /\ q > 0
       /\ cpu_quota' = [cpu_quota EXCEPT ![s] = q]
       /\ throttled' = [throttled EXCEPT ![s] = IF cpu_used[s] < q THEN 0 ELSE @]
       /\ granted' = [granted EXCEPT ![s] = IF q > @ THEN q ELSE @]
  /\ inUser' = [inUser EXCEPT ![s] = TRUE]
  /\ UNCHANGED <<state, pid, cpu_used, bySchedtest, nextpid, clock, cpuvars, sinceOpen, due, charged>>

\* yield() called in the kernel, for instance by a pipe that is full or empty.
YieldInKernel(c) ==
  /\ InKernel(c)
  /\ leave(c, "RUNNABLE")
  /\ UNCHANGED <<pid, cpu_quota, cpu_used, throttled, bySchedtest, inUser, nextpid, clock, history>>

Sleep(c) ==
  /\ InKernel(c)
  /\ leave(c, "SLEEPING")
  /\ UNCHANGED <<pid, cpu_quota, cpu_used, throttled, bySchedtest, inUser, nextpid, clock, history>>

\* wakeup() or kkill() by the process on CPU c or by an interrupt it takes.
Wakeup(c) ==
  /\ cpc[c] \in {"process", "top"}
  /\ \E s \in Slot :
       /\ state[s] = "SLEEPING"
       /\ state' = [state EXCEPT ![s] = "RUNNABLE"]
  /\ UNCHANGED <<pid, cpu_quota, cpu_used, throttled, bySchedtest, inUser, nextpid, clock,
                 cpuvars, history>>

\* kfork(): allocproc() takes the first UNUSED slot and resets the quota.
Fork(c) ==
  /\ InKernel(c)
  /\ nextpid <= MaxPid
  /\ \E s \in Slot :
       /\ state[s] = "UNUSED" /\ \A r \in Slot : state[r] = "UNUSED" => s <= r
       /\ state' = [state EXCEPT ![s] = "RUNNABLE"]
       /\ pid' = [pid EXCEPT ![s] = nextpid]
       /\ cpu_quota' = [cpu_quota EXCEPT ![s] = DefaultQuota]
       /\ cpu_used' = [cpu_used EXCEPT ![s] = 0]
       /\ throttled' = [throttled EXCEPT ![s] = 0]
       /\ \E b \in BOOLEAN : bySchedtest' = [bySchedtest EXCEPT ![s] = b]
       /\ inUser' = [inUser EXCEPT ![s] = TRUE]
       /\ charged' = [charged EXCEPT ![s] = 0]
       /\ granted' = [granted EXCEPT ![s] = DefaultQuota]
  /\ nextpid' = nextpid + 1
  /\ UNCHANGED <<clock, cpuvars, sinceOpen, due>>

\* kexec() gives the caller the name of the program: some slots, those of its
\* children, become or cease to be children of "schedtest".
Exec(c) ==
  /\ InKernel(c)
  /\ \E children \in SUBSET {s \in Slot \ {1, proc[c]} : state[s] # "UNUSED"}, b \in BOOLEAN :
       bySchedtest' = [s \in Slot |-> IF s \in children THEN b ELSE bySchedtest[s]]
  /\ UNCHANGED <<state, pid, cpu_quota, cpu_used, throttled, inUser, nextpid, clock,
                 cpuvars, history>>

\* kexit(); the first process never exits and inherits the children.
Exit(c) ==
  /\ InKernel(c)
  /\ proc[c] # 1
  /\ leave(c, "ZOMBIE")
  /\ \E children \in SUBSET (Slot \ {proc[c]}) :
       bySchedtest' = [s \in Slot |-> bySchedtest[s] /\ s \notin children]
  /\ UNCHANGED <<pid, cpu_quota, cpu_used, throttled, inUser, nextpid, clock, history>>

\* kwait() by the process on CPU c calls freeproc(), which leaves the quota
\* fields as they are.
Reap(c) ==
  /\ InKernel(c)
  /\ \E s \in Slot :
       /\ state[s] = "ZOMBIE"
       /\ state' = [state EXCEPT ![s] = "UNUSED"]
       /\ pid' = [pid EXCEPT ![s] = 0]
       /\ bySchedtest' = [bySchedtest EXCEPT ![s] = FALSE]
  /\ UNCHANGED <<cpu_quota, cpu_used, throttled, inUser, nextpid, clock, cpuvars, history>>

---------------------------------------------------------------------------
Scheduler(c) ==
  \/ ReadTicks(c) \/ Compare(c) \/ OpenWindow(c) \/ ResetSlot(c)
  \/ ScanSlot(c) \/ FallbackSlot(c) \/ Wfi(c) \/ Run(c)

Process(c) ==
  \/ Syscall(c) \/ Return(c) \/ SetQuota(c) \/ YieldInKernel(c) \/ Sleep(c) \/ Wakeup(c)
  \/ Fork(c) \/ Exec(c) \/ Exit(c) \/ Reap(c)

Next ==
  \E c \in CPU :
    \/ Scheduler(c) \/ Process(c)
    \/ TimerInProcess(c) \/ TimerInScheduler(c) \/ Charge(c) \/ Yield(c)

Spec == Init /\ [][Next]_vars

\* The CPUs keep executing, and their timers keep firing.
Fairness ==
  \A c \in CPU :
    /\ WF_vars(Scheduler(c))
    /\ WF_vars(Charge(c))
    /\ WF_vars(Yield(c))
    /\ SF_vars(TimerInProcess(c))
    /\ SF_vars(TimerInScheduler(c))

FairSpec == Spec /\ Fairness

---------------------------------------------------------------------------
(* Properties.                                                             *)

\* Types of the process table, the clock and the CPUs' locals.
TypeOK ==
  /\ state \in [Slot -> States]
  /\ pid \in [Slot -> 0..MaxPid]
  /\ cpu_quota \in [Slot -> Nat \ {0}]
  /\ cpu_used \in [Slot -> Nat]
  /\ throttled \in [Slot -> 0..1]
  /\ bySchedtest \in [Slot -> BOOLEAN]
  /\ inUser \in [Slot -> BOOLEAN]
  /\ nextpid \in 2..(MaxPid + 1)
  /\ ticks \in 0..(UINT - 1)
  /\ quota_window_start \in 0..(UINT - 1)
  /\ cpc \in [CPU -> {"top", "begin", "compare", "open", "reset", "scan", "fallback", "wfi",
                      "run", "process", "charge", "yield"}]
  /\ proc \in [CPU -> Slot \cup {None}]
  /\ current \in [CPU -> 0..(UINT - 1)]
  /\ k \in [CPU -> Slot]
  /\ chosen \in [CPU -> Slot \cup {None}]
  /\ sinceOpen \in 0..WINDOW_SIZE
  /\ due \in [CPU -> BOOLEAN]
  /\ charged \in [Slot -> Nat]
  /\ granted \in [Slot -> Nat]

\* A process is RUNNING exactly when one CPU runs it: although a CPU chooses a
\* process long before it locks it to switch to it, two CPUs never run the same
\* process and none runs a process that slept, exited or was reaped meanwhile.
OneCpuEach ==
  /\ \A s \in Slot : state[s] = "RUNNING" <=> \E c \in CPU : proc[c] = s
  /\ \A c, d \in CPU : proc[c] = proc[d] /\ proc[c] # None => c = d

\* A throttled process executes nothing: it is on a CPU only between the charge
\* that throttled it and the yield() that usertrap() does next.
ThrottledIsOff ==
  \A c \in CPU : cpc[c] = "process" => throttled[proc[c]] = 0

\* A process is throttled only for ticks it used in this window, whatever other
\* CPUs reset meanwhile.
ThrottledHasUsed ==
  \A s \in Slot : throttled[s] = 1 => cpu_used[s] >= cpu_quota[s]

\* Between two windows that open at least WINDOW_SIZE ticks apart, a process is
\* charged no more than its quota (proc.h:112, "max CPU ticks allowed per window"):
\* the largest one it had in that window, since setquota() may lower it below what
\* is already used.
QuotaPerWindow ==
  \A s \in Slot : state[s] # "UNUSED" => charged[s] <= granted[s]

\* A dispatched process is the child of schedtest with the smallest pid, if such
\* a child may run (proc.c:552).
SmallestPidFirst ==
  [][\A s \in Slot :
       state[s] # "RUNNING" /\ state'[s] = "RUNNING" =>
         \A t \in Slot : eligible(t) /\ bySchedtest[t] => bySchedtest[s] /\ pid[s] <= pid[t]
    ]_vars

\* Throttling ends: the timer advances, some scheduler() sees that the window is
\* over, and the reset reaches every slot.
ThrottlingEnds ==
  \A s \in Slot : throttled[s] = 1 ~> throttled[s] = 0

\* What the CPUs have chosen, run and charged without a common lock agrees with
\* the process table: one CPU for each running process, none for a throttled one,
\* and no process throttled for ticks that were forgiven.
CpusConsistent == TypeOK /\ OneCpuEach /\ ThrottledIsOff /\ ThrottledHasUsed
============================================================================
