----------------------------- MODULE PipeSched -----------------------------
(***************************************************************************)
(* A pipe's processes on one CPU: Pipe composed with the scheduling of     *)
(* kernel/proc.c and the quota accounting of kernel/trap.c.  No process    *)
(* here ever sleeps (the pipe spins with yield()), none is a child of      *)
(* "schedtest", and a process that has closed its end has exited, so the   *)
(* scheduler's choice is the first unthrottled process of the table that   *)
(* still has its end open.                                                 *)
(***************************************************************************)
EXTENDS Pipe

CONSTANTS Slot,        \* index in proc[] of each process
          Quota,       \* cpu_quota of every process
          Idle         \* no process

VARIABLES running,     \* c->proc of the only CPU, or Idle in scheduler()
          used,        \* cpu_used_in_window
          throttled    \* processes with the throttled flag

schedvars == <<running, used, throttled>>
allvars == <<vars, schedvars>>

RUNNABLE == ofile \ throttled

\* scheduler(): the scan of proc[] starts from the first slot every time and
\* stops at the first process that may run.
chosen ==
  IF RUNNABLE = {} THEN Idle
  ELSE CHOOSE p \in RUNNABLE : \A q \in RUNNABLE : Slot[p] <= Slot[q]

SchedInit ==
  /\ Init
  /\ running = Idle
  /\ used = [p \in Procs |-> 0]
  /\ throttled = {}

\* The process on the CPU would call yield() in its next step.
AtYield(p) == pc[p] = "yield" \/ (pc[p] = "spin_turn" /\ turn = other(p))

\* The process on the CPU executes one step of Pipe.
Execute ==
  /\ running \in ofile
  /\ Call(running) \/ Close(running) \/ InCall(running)
  /\ running' = IF AtYield(running) \/ running \notin ofile' THEN Idle ELSE running
  /\ UNCHANGED <<used, throttled>>

\* Timer interrupt in user space: usertrap() charges the process and yields.
UserTick ==
  /\ running \in ofile
  /\ pc[running] = "user"
  /\ used' = [used EXCEPT ![running] = @ + 1]
  /\ throttled' = IF used'[running] >= Quota THEN throttled \cup {running} ELSE throttled
  /\ running' = Idle
  /\ UNCHANGED vars

\* Timer interrupt in the kernel: kerneltrap() yields and charges nobody.
KernelTick ==
  /\ running \in ofile
  /\ pc[running] # "user"
  /\ running' = Idle
  /\ UNCHANGED <<vars, used, throttled>>

\* One round of scheduler().  Now and then it finds that the window is over.
Schedule ==
  /\ running = Idle
  /\ running' = chosen
  /\ UNCHANGED <<vars, used, throttled>>

NewWindow ==
  /\ running = Idle
  /\ used' = [p \in Procs |-> 0]
  /\ throttled' = {}
  /\ UNCHANGED <<vars, running>>

SchedNext == Execute \/ UserTick \/ KernelTick \/ Schedule \/ NewWindow

\* The CPU never stops: it executes the process it runs, or schedules; timer
\* interrupts and new windows keep coming.
SchedSpec ==
  /\ SchedInit
  /\ [][SchedNext]_allvars
  /\ SF_allvars(Execute)
  /\ WF_allvars(Schedule)
  /\ SF_allvars(UserTick)
  /\ SF_allvars(KernelTick)
  /\ SF_allvars(throttled # {} /\ NewWindow)

\* A process that finds the pipe full or empty gives the process at the other
\* end the chance to run (pipe.c:28, "we exit and yield() to let the other run").
OtherRuns ==
  \A p, q \in Procs :
    p # q /\ pc[p] = "yield" /\ q \in ofile ~> running = q \/ p \notin ofile
============================================================================
