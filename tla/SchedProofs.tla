---------------------------- MODULE SchedProofs ----------------------------
(***************************************************************************)
(* Proofs about Sched: what the CPUs choose, run and charge without a      *)
(* common lock agrees with the process table, for any number of CPUs and   *)
(* processes.                                                              *)
(***************************************************************************)
EXTENDS Sched, TLAPS

\* A CPU has a process exactly while it executes one, and it switches only to a
\* process it has chosen.
CpuInv ==
  /\ CpusConsistent
  /\ \A c \in CPU : proc[c] # None <=> cpc[c] \in {"process", "charge", "yield"}
  /\ \A c \in CPU : cpc[c] = "run" => chosen[c] # None

\* No CPU runs a process initially.
LEMMA CpuInvInit == Init => CpuInv
<1> SUFFICES ASSUME Init PROVE CpuInv
  OBVIOUS
<1>1. TypeOK
  <2>1. 0 \in 0..(UINT - 1) /\ 1 \in 0..MaxPid /\ 0 \in 0..MaxPid /\ 2 \in 2..(MaxPid + 1)
        /\ 0 \in 0..WINDOW_SIZE /\ 1 \in Slot /\ DefaultQuota \in Nat \ {0}
    BY SchedAssumption DEF Slot
  <2>2. QED
    BY <2>1 DEF Init, TypeOK, States, None
<1>2. OneCpuEach /\ ThrottledIsOff /\ ThrottledHasUsed
  BY SchedAssumption DEF Init, OneCpuEach, ThrottledIsOff, ThrottledHasUsed, None, Slot
<1>3. QED
  BY <1>1, <1>2 DEF CpuInv, CpusConsistent, Init, None

\* The step of one CPU keeps the types.
LEMMA TypeNext ==
  ASSUME CpuInv, NEW c \in CPU,
         Scheduler(c) \/ Process(c) \/ TimerInProcess(c) \/ TimerInScheduler(c) \/ Charge(c) \/ Yield(c)
  PROVE  TypeOK'
<1>0. /\ 1 \in Slot /\ 0 \in 0..(UINT - 1) /\ 0 \in 0..WINDOW_SIZE
      /\ k[c] < NPROC => k[c] + 1 \in Slot
  <2>1. k[c] \in Slot
    BY SMTT(30) DEF CpuInv, CpusConsistent, TypeOK
  <2>2. QED
    BY <2>1, SchedAssumption DEF Slot
<1> USE DEF CpuInv, CpusConsistent, TypeOK, procvars, clock, cpuvars, history, goto
<1>1. CASE Scheduler(c)
  <2>1. CASE ReadTicks(c)
    BY <2>1 DEF ReadTicks
  <2>2. CASE Compare(c)
    BY <2>2, <1>0 DEF Compare, startScan, forget
  <2>3. CASE OpenWindow(c)
    BY <2>3, <1>0 DEF OpenWindow, startScan, forget
  <2>4. CASE ResetSlot(c)
    BY <2>4, <1>0, SMTT(30) DEF ResetSlot, forgive, nextSlot, startScan
  <2>5. CASE ScanSlot(c)
    BY <2>5, <1>0 DEF ScanSlot, nextSlot, startScan
  <2>6. CASE FallbackSlot(c)
    BY <2>6, <1>0, SMTT(30) DEF FallbackSlot, nextSlot, startScan
  <2>7. CASE Wfi(c)
    BY <2>7 DEF Wfi
  <2>8. CASE Run(c)
    BY <2>8, SMTT(30) DEF Run, None, States
  <2>9. QED
    BY <1>1, <2>1, <2>2, <2>3, <2>4, <2>5, <2>6, <2>7, <2>8 DEF Scheduler
<1>2. CASE Process(c)
  <2> USE DEF InKernel, leave, States, None
  <2>1. CASE Syscall(c) \/ Return(c)
    <3>1. PICK b \in BOOLEAN : inUser' = [inUser EXCEPT ![proc[c]] = b]
      BY <2>1, Zenon DEF Syscall, Return
    <3>2. UNCHANGED <<state, pid, cpu_quota, cpu_used, throttled, bySchedtest, nextpid, clock, cpuvars, history>>
      BY <2>1 DEF Syscall, Return
    <3>3. QED
      BY <3>1, <3>2, Zenon
  <2>2. CASE SetQuota(c)
    BY <2>2, SchedAssumption DEF SetQuota
  <2>3. CASE YieldInKernel(c) \/ Sleep(c) \/ Wakeup(c)
    BY <2>3, SMTT(30) DEF YieldInKernel, Sleep, Wakeup
  <2>4. CASE Fork(c)
    BY <2>4, SchedAssumption DEF Fork
  <2>5. CASE Exec(c)
    BY <2>5 DEF Exec
  <2>6. CASE Exit(c)
    BY <2>6 DEF Exit
  <2>7. CASE Reap(c)
    BY <2>7, SchedAssumption DEF Reap
  <2>8. QED
    BY <1>2, <2>1, <2>2, <2>3, <2>4, <2>5, <2>6, <2>7, Zenon DEF Process
<1>3. CASE TimerInProcess(c) \/ TimerInScheduler(c)
  BY <1>3, SchedAssumption DEF TimerInProcess, TimerInScheduler, clockintr
<1>4. CASE Charge(c)
  BY <1>4 DEF Charge, None
<1>5. CASE Yield(c)
  BY <1>5 DEF Yield, leave, None, States
<1>6. QED
  BY <1>1, <1>2, <1>3, <1>4, <1>5, Zenon

\* What the conjuncts of CpuInv other than the types have in common: a process
\* on a CPU is RUNNING, and on that CPU only.
LEMMA OnlyHere ==
  ASSUME CpuInv, NEW c \in CPU, proc[c] # None
  PROVE  /\ proc[c] \in Slot /\ state[proc[c]] = "RUNNING"
         /\ \A d \in CPU : proc[d] = proc[c] => d = c
  BY DEF CpuInv, CpusConsistent, TypeOK, OneCpuEach

\* The labels at which a CPU has a process.
RunPCs == {"process", "charge", "yield"}

\* What CpuInv says, conjunct by conjunct.
LEMMA CpuInvIs ==
  CpuInv <=> /\ TypeOK
             /\ \A s \in Slot : state[s] = "RUNNING" <=> \E d \in CPU : proc[d] = s
             /\ \A d, f \in CPU : proc[d] = proc[f] /\ proc[d] # None => d = f
             /\ \A d \in CPU : cpc[d] = "process" => throttled[proc[d]] = 0
             /\ \A s \in Slot : throttled[s] = 1 => cpu_used[s] >= cpu_quota[s]
             /\ \A d \in CPU : proc[d] # None <=> cpc[d] \in RunPCs
             /\ \A d \in CPU : cpc[d] = "run" => chosen[d] # None
  BY DEF CpuInv, CpusConsistent, OneCpuEach, ThrottledIsOff, ThrottledHasUsed, RunPCs

\* The types of what CpuInv is about.
LEMMA CpuTypes ==
  ASSUME TypeOK
  PROVE  /\ state \in [Slot -> States] /\ throttled \in [Slot -> 0..1]
         /\ cpu_used \in [Slot -> Nat] /\ cpu_quota \in [Slot -> Nat \ {0}]
         /\ DOMAIN cpc = CPU /\ cpc = [d \in CPU |-> cpc[d]] /\ proc \in [CPU -> Slot \cup {None}]
         /\ k \in [CPU -> Slot] /\ chosen \in [CPU -> Slot \cup {None}] /\ None \notin Slot
<1>1. 0 \notin 1..NPROC
  BY SchedAssumption
<1>2. QED
  BY <1>1, Zenon DEF TypeOK, None, Slot

\* A step that changes who runs nowhere, and throttles nobody.
LEMMA QuietStep ==
  ASSUME CpuInv, TypeOK',
         UNCHANGED proc,
         \A s \in Slot : state'[s] = "RUNNING" <=> state[s] = "RUNNING",
         \A s \in Slot : throttled'[s] = 1 => throttled[s] = 1 /\ cpu_used'[s] >= cpu_quota'[s],
         \A d \in CPU : /\ cpc'[d] \in RunPCs <=> cpc[d] \in RunPCs
                        /\ cpc'[d] = "process" => cpc[d] = "process"
                        /\ cpc'[d] = "run" => chosen'[d] # None
  PROVE  CpuInv'
<1>1. ASSUME NEW d \in CPU, cpc'[d] = "process" PROVE throttled'[proc'[d]] = 0
  <2>1. cpc[d] = "process" /\ "process" \in RunPCs
    BY <1>1 DEF RunPCs
  <2>2. throttled[proc[d]] = 0 /\ proc[d] # None
    BY <2>1, CpuInvIs
  <2>3. proc[d] \in Slot
    BY <2>2, OnlyHere
  <2>4. throttled'[proc[d]] # 1
    BY <2>2, <2>3
  <2>5. throttled'[proc[d]] \in 0..1
    BY <2>3 DEF TypeOK
  <2>6. QED
    BY <2>4, <2>5
<1>2. \A s \in Slot : state[s] = "RUNNING" <=> \E d \in CPU : proc[d] = s
  BY CpuInvIs
<1>3. \A d, f \in CPU : proc[d] = proc[f] /\ proc[d] # None => d = f
  BY CpuInvIs
<1>4. \A d \in CPU : proc[d] # None <=> cpc[d] \in RunPCs
  BY CpuInvIs
<1>5. OneCpuEach'
  BY <1>2, <1>3 DEF OneCpuEach
<1>6. ThrottledIsOff'
  BY <1>1 DEF ThrottledIsOff
<1>7. ThrottledHasUsed'
  BY DEF ThrottledHasUsed
<1>8. \A d \in CPU : proc'[d] # None <=> cpc'[d] \in RunPCs
  BY <1>4
<1>9. CpusConsistent'
  BY <1>5, <1>6, <1>7 DEF CpusConsistent
<1>10. QED
  BY <1>8, <1>9 DEF CpuInv, RunPCs

\* Steps of scheduler() keep CpuInv: only Run() changes who runs.
LEMMA SchedulerKeeps ==
  ASSUME CpuInv, NEW c \in CPU, Scheduler(c)
  PROVE  CpuInv'
<1>1. TypeOK' /\ TypeOK
  BY TypeNext, CpuInvIs
<1>t. /\ throttled \in [Slot -> 0..1] /\ cpu_used \in [Slot -> Nat] /\ state \in [Slot -> States]
      /\ \A s \in Slot : throttled[s] = 1 => cpu_used[s] >= cpu_quota[s]
      /\ DOMAIN cpc = CPU /\ cpc = [d \in CPU |-> cpc[d]] /\ proc \in [CPU -> Slot \cup {None}]
      /\ k[c] \in Slot /\ chosen \in [CPU -> Slot \cup {None}] /\ None \notin Slot
  BY <1>1, CpuTypes, CpuInvIs
<1>c. \A d \in CPU : cpc[d] = "run" => chosen[d] # None
  BY CpuInvIs
<1>s. /\ {"top", "begin", "compare", "open", "reset", "scan", "fallback", "wfi", "run"} \cap RunPCs = {}
      /\ "process" \in RunPCs
  BY DEF RunPCs
<1> USE DEF procvars, goto
<1>q. ASSUME UNCHANGED <<state, proc, cpu_quota>>,
             NEW l \in {"top", "begin", "compare", "open", "reset", "scan", "fallback", "wfi", "run"},
             cpc[c] \notin RunPCs, cpc' = [cpc EXCEPT ![c] = l],
             \A d \in CPU \ {c} : chosen'[d] = chosen[d],
             l = "run" => chosen'[c] # None,
             \A s \in Slot : throttled'[s] = 1 => throttled[s] = 1 /\ cpu_used'[s] >= cpu_quota[s]
      PROVE  CpuInv'
  <2>1. ASSUME NEW d \in CPU
        PROVE  /\ cpc'[d] \in RunPCs <=> cpc[d] \in RunPCs
               /\ cpc'[d] = "process" => cpc[d] = "process"
               /\ cpc'[d] = "run" => chosen'[d] # None
    <3>1. CASE d = c
      <4>1. cpc'[d] = l
        BY <1>t, <1>q, <3>1
      <4>2. QED
        BY <1>q, <1>s, <3>1, <4>1
    <3>2. CASE d # c
      <4>1. cpc'[d] = cpc[d] /\ chosen'[d] = chosen[d]
        BY <1>t, <1>q, <3>2
      <4>2. QED
        BY <1>c, <4>1
    <3>3. QED
      BY <3>1, <3>2
  <2>2. QED
    BY <1>1, <1>q, <2>1, QuietStep, Zenon
<1>2. CASE ReadTicks(c) \/ Wfi(c) \/ Compare(c)
  <2>1. PICK l \in {"compare", "top", "open", "scan"} : cpc' = [cpc EXCEPT ![c] = l]
    BY <1>2 DEF ReadTicks, Wfi, Compare, startScan
  <2>2. cpc[c] \in {"top", "begin", "wfi", "compare"} /\ UNCHANGED <<procvars, proc, chosen>>
    BY <1>2 DEF ReadTicks, Wfi, Compare
  <2>3. QED
    BY <1>q, <1>s, <1>t, <2>1, <2>2, Zenon
<1>3. CASE OpenWindow(c)
  <2>1. cpc[c] = "open" /\ cpc' = [cpc EXCEPT ![c] = "reset"] /\ UNCHANGED <<procvars, proc, chosen>>
    BY <1>3 DEF OpenWindow, startScan
  <2>2. QED
    BY <1>q, <1>s, <1>t, <2>1
<1>4. CASE ResetSlot(c)
  <2>1. PICK l \in {"reset", "scan"} : cpc' = [cpc EXCEPT ![c] = l]
    <3>1. cpc[c] = "reset" /\ (UNCHANGED cpc \/ cpc' = [cpc EXCEPT ![c] = "scan"])
      BY <1>4 DEF ResetSlot, nextSlot, startScan
    <3>2. QED
      BY <1>t, <3>1
  <2>2. cpc[c] = "reset" /\ UNCHANGED <<state, proc, chosen, cpu_quota>>
    BY <1>4 DEF ResetSlot
  <2>3. \/ cpu_used' = [cpu_used EXCEPT ![k[c]] = 0] /\ throttled' = [throttled EXCEPT ![k[c]] = 0]
        \/ UNCHANGED <<cpu_used, throttled>>
    BY <1>4 DEF ResetSlot
  <2>4. \A s \in Slot : throttled'[s] = 1 => throttled[s] = 1 /\ cpu_used'[s] >= cpu_quota[s]
    BY <1>t, <2>3
  <2>5. QED
    BY <1>q, <1>s, <2>1, <2>2, <2>4, Zenon
<1>5. CASE ScanSlot(c)
  <2>1. cpc[c] = "scan" /\ UNCHANGED <<procvars, proc>>
    BY <1>5 DEF ScanSlot
  <2>2. \A d \in CPU \ {c} : chosen'[d] = chosen[d]
    BY <1>5, <1>t DEF ScanSlot
  <2>3. PICK l \in {"scan", "fallback", "run"} :
          cpc' = [cpc EXCEPT ![c] = l] /\ (l = "run" => chosen'[c] # None)
    <3>1. \/ UNCHANGED cpc
          \/ cpc' = [cpc EXCEPT ![c] = IF chosen'[c] = None THEN "fallback" ELSE "run"]
      BY <1>5 DEF ScanSlot, nextSlot, startScan
    <3>2. CASE UNCHANGED cpc
      BY <1>t, <2>1, <3>2
    <3>3. CASE cpc' = [cpc EXCEPT ![c] = IF chosen'[c] = None THEN "fallback" ELSE "run"]
      BY <3>3, Zenon
    <3>4. QED
      BY <3>1, <3>2, <3>3
  <2>4. QED
    BY <1>q, <1>s, <1>t, <2>1, <2>2, <2>3, Zenon
<1>6. CASE FallbackSlot(c)
  <2>1. cpc[c] = "fallback" /\ UNCHANGED <<procvars, proc>>
    BY <1>6 DEF FallbackSlot
  <2>2. CASE eligible(k[c])
    <3>1. chosen' = [chosen EXCEPT ![c] = k[c]] /\ cpc' = [cpc EXCEPT ![c] = "run"]
      BY <1>6, <2>2 DEF FallbackSlot, startScan
    <3>2. chosen'[c] # None /\ \A d \in CPU \ {c} : chosen'[d] = chosen[d]
      BY <1>t, <3>1
    <3>3. QED
      BY <1>q, <1>s, <1>t, <2>1, <3>1, <3>2
  <2>3. CASE ~ eligible(k[c])
    <3>1. UNCHANGED chosen /\ (cpc' = [cpc EXCEPT ![c] = "wfi"] \/ UNCHANGED cpc)
      BY <1>6, <2>3 DEF FallbackSlot, nextSlot, startScan
    <3>2. PICK l \in {"wfi", "fallback"} : cpc' = [cpc EXCEPT ![c] = l]
      BY <1>t, <2>1, <3>1
    <3>3. QED
      BY <1>q, <1>s, <1>t, <2>1, <3>1, <3>2, Zenon
  <2>4. QED
    BY <2>2, <2>3
<1>7. CASE Run(c)
  <2>1. cpc[c] = "run" /\ chosen' = [chosen EXCEPT ![c] = None] /\ UNCHANGED <<cpu_quota, cpu_used, throttled>>
    BY <1>7 DEF Run
  <2>2. chosen[c] # None /\ chosen[c] \in Slot /\ proc[c] = None
    <3>1. chosen[c] # None /\ cpc[c] \notin RunPCs
      BY <1>c, <1>s, <2>1
    <3>2. QED
      BY <1>t, <3>1, CpuInvIs
  <2>3. CASE ~ eligible(chosen[c])
    <3>1. UNCHANGED <<state, proc>> /\ cpc' = [cpc EXCEPT ![c] = "top"]
      BY <1>7, <2>3 DEF Run
    <3>2. \A d \in CPU \ {c} : chosen'[d] = chosen[d]
      BY <1>t, <2>1
    <3>3. QED
      BY <1>q, <1>s, <1>t, <2>1, <3>1, <3>2
  <2>4. CASE eligible(chosen[c])
    <3>1. /\ state' = [state EXCEPT ![chosen[c]] = "RUNNING"]
          /\ proc' = [proc EXCEPT ![c] = chosen[c]]
          /\ cpc' = [cpc EXCEPT ![c] = "process"]
      BY <1>7, <2>4, Zenon DEF Run
    <3>2. \A d \in CPU : proc[d] # chosen[c]
      <4>1. state[chosen[c]] # "RUNNING"
        BY <2>4 DEF eligible
      <4>2. QED
        BY <2>2, <4>1, CpuInvIs
    <3>p. /\ proc'[c] = chosen[c] /\ cpc'[c] = "process" /\ chosen'[c] = None
          /\ \A d \in CPU \ {c} : proc'[d] = proc[d] /\ cpc'[d] = cpc[d] /\ chosen'[d] = chosen[d]
      BY <1>t, <2>1, <3>1, Zenon
    <3>3. ASSUME NEW s \in Slot PROVE state'[s] = "RUNNING" <=> \E d \in CPU : proc'[d] = s
      <4>1. CASE s = chosen[c]
        BY <1>t, <3>1, <3>p, <4>1, Zenon
      <4>2. CASE s # chosen[c]
        <5>1. state'[s] = state[s]
          BY <1>t, <3>1, <4>2
        <5>2. (\E d \in CPU : proc'[d] = s) <=> (\E d \in CPU : proc[d] = s)
          BY <1>t, <2>2, <3>p, <4>2
        <5>3. state[s] = "RUNNING" <=> \E d \in CPU : proc[d] = s
          BY CpuInvIs, Zenon
        <5>4. QED
          BY <5>1, <5>2, <5>3
      <4>3. QED
        BY <4>1, <4>2
    <3>4. \A d, f \in CPU : proc'[d] = proc'[f] /\ proc'[d] # None => d = f
      <4>1. \A d, f \in CPU : proc[d] = proc[f] /\ proc[d] # None => d = f
        BY CpuInvIs, Zenon
      <4>2. QED
        BY <3>2, <3>p, <4>1, ZenonT(30)
    <3>5. ASSUME NEW d \in CPU, cpc'[d] = "process" PROVE throttled[proc'[d]] = 0
      <4>1. CASE d = c
        BY <2>4, <3>p, <4>1 DEF eligible
      <4>2. CASE d # c
        BY <3>5, <3>p, <4>2, CpuInvIs, ZenonT(30)
      <4>3. QED
        BY <4>1, <4>2, Zenon
    <3>6. \A d \in CPU : (proc'[d] # None <=> cpc'[d] \in RunPCs) /\ (cpc'[d] = "run" => chosen'[d] # None)
      <4>1. \A d \in CPU : (proc[d] # None <=> cpc[d] \in RunPCs)
        BY CpuInvIs
      <4>2. QED
        BY <1>c, <1>s, <2>2, <3>p, <4>1, ZenonT(30)
    <3>7. OneCpuEach' /\ ThrottledIsOff' /\ ThrottledHasUsed'
      BY <1>t, <2>1, <3>3, <3>4, <3>5 DEF OneCpuEach, ThrottledIsOff, ThrottledHasUsed
    <3>8. QED
      BY <1>1, <3>6, <3>7 DEF CpuInv, CpusConsistent, RunPCs
  <2>5. QED
    BY <2>3, <2>4
<1>8. QED
  BY <1>2, <1>3, <1>4, <1>5, <1>6, <1>7 DEF Scheduler

\* Steps of a process and of the timer keep CpuInv.
LEMMA ProcessKeeps ==
  ASSUME CpuInv, NEW c \in CPU,
         Process(c) \/ TimerInProcess(c) \/ TimerInScheduler(c) \/ Charge(c) \/ Yield(c)
  PROVE  CpuInv'
<1>1. TypeOK' /\ TypeOK
  BY TypeNext, CpuInvIs, Zenon
<1>t. /\ throttled \in [Slot -> 0..1] /\ cpu_used \in [Slot -> Nat] /\ state \in [Slot -> States]
      /\ cpu_quota \in [Slot -> Nat \ {0}]
      /\ \A s \in Slot : throttled[s] = 1 => cpu_used[s] >= cpu_quota[s]
      /\ DOMAIN cpc = CPU /\ cpc = [d \in CPU |-> cpc[d]] /\ proc \in [CPU -> Slot \cup {None}]
      /\ None \notin Slot
  BY <1>1, CpuTypes, CpuInvIs, Zenon
<1>c. \A d \in CPU : /\ cpc[d] = "run" => chosen[d] # None
                     /\ proc[d] # None <=> cpc[d] \in RunPCs
                     /\ cpc[d] = "process" => throttled[proc[d]] = 0
  BY CpuInvIs
<1>s. "process" \in RunPCs /\ "charge" \in RunPCs /\ "yield" \in RunPCs /\ "top" \notin RunPCs /\ "begin" \notin RunPCs
  BY Zenon DEF RunPCs
<1> USE DEF procvars, cpuvars, goto
<1>q. ASSUME UNCHANGED <<proc, cpc, chosen>>,
             \A s \in Slot : state'[s] = "RUNNING" <=> state[s] = "RUNNING",
             \A s \in Slot : throttled'[s] = 1 => throttled[s] = 1 /\ cpu_used'[s] >= cpu_quota'[s]
      PROVE  CpuInv'
  BY <1>1, <1>c, <1>q, QuietStep, Zenon
<1>2. CASE Syscall(c) \/ Return(c) \/ Exec(c)
  <2>1. UNCHANGED <<proc, cpc, chosen, state, throttled, cpu_used, cpu_quota>>
    BY <1>2, Zenon DEF Syscall, Return, Exec
  <2>2. QED
    BY <1>q, <1>t, <2>1, Zenon
<1>3. CASE SetQuota(c)
  <2>1. UNCHANGED <<proc, cpc, chosen, state, cpu_used>>
    BY <1>3, Zenon DEF SetQuota
  <2>2. PICK q \in SetQuotas :
          /\ cpu_quota' = [cpu_quota EXCEPT ![proc[c]] = q]
          /\ throttled' = [throttled EXCEPT ![proc[c]] = IF cpu_used[proc[c]] < q THEN 0 ELSE @]
    BY <1>3, Zenon DEF SetQuota
  <2>3. q \in Int /\ throttled[proc[c]] = 0
    BY <1>3, <1>c, SchedAssumption, Zenon DEF SetQuota, InKernel
  <2>4. \A s \in Slot : throttled'[s] = 1 => throttled[s] = 1 /\ cpu_used'[s] >= cpu_quota'[s]
    BY <1>t, <2>1, <2>2, <2>3
  <2>5. QED
    BY <1>q, <2>1, <2>4, Zenon
<1>4. CASE YieldInKernel(c) \/ Sleep(c) \/ Exit(c) \/ Yield(c)
  <2>1. PICK new \in {"RUNNABLE", "SLEEPING", "ZOMBIE"} : leave(c, new)
    BY <1>4, Zenon DEF YieldInKernel, Sleep, Exit, Yield
  <2>2. cpc[c] \in RunPCs /\ UNCHANGED <<cpu_quota, cpu_used, throttled>>
    BY <1>4, <1>s, Zenon DEF YieldInKernel, Sleep, Exit, Yield, InKernel
  <2>3. proc[c] \in Slot /\ \A d \in CPU : proc[d] = proc[c] => d = c
    BY <1>c, <2>2, OnlyHere
  <2>4. /\ state' = [state EXCEPT ![proc[c]] = new] /\ proc' = [proc EXCEPT ![c] = None]
        /\ cpc' = [cpc EXCEPT ![c] = "top"] /\ UNCHANGED chosen
    BY <2>1 DEF leave
  <2>p. /\ proc'[c] = None /\ cpc'[c] = "top"
        /\ \A d \in CPU \ {c} : proc'[d] = proc[d] /\ cpc'[d] = cpc[d]
    BY <1>t, <2>4, Zenon
  <2>5. ASSUME NEW s \in Slot PROVE state'[s] = "RUNNING" <=> \E d \in CPU : proc'[d] = s
    <3>1. CASE s = proc[c]
      <4>1. state'[s] # "RUNNING"
        BY <1>t, <2>4, <3>1
      <4>2. \A d \in CPU : proc'[d] # s
        BY <1>t, <2>3, <2>p, <3>1, Zenon
      <4>3. QED
        BY <4>1, <4>2
    <3>2. CASE s # proc[c]
      <4>1. state'[s] = state[s]
        BY <1>t, <2>4, <3>2, Zenon
      <4>2. (\E d \in CPU : proc'[d] = s) <=> (\E d \in CPU : proc[d] = s)
        BY <1>t, <2>p, <3>2, Zenon
      <4>3. state[s] = "RUNNING" <=> \E d \in CPU : proc[d] = s
        BY CpuInvIs, Zenon
      <4>4. QED
        BY <4>1, <4>2, <4>3
    <3>3. QED
      BY <3>1, <3>2, Zenon
  <2>6. \A d, f \in CPU : proc'[d] = proc'[f] /\ proc'[d] # None => d = f
    <3>1. \A d, f \in CPU : proc[d] = proc[f] /\ proc[d] # None => d = f
      BY CpuInvIs, Zenon
    <3>2. QED
      BY <2>p, <3>1, ZenonT(30)
  <2>7. \A d \in CPU : /\ cpc'[d] = "run" => chosen'[d] # None
                       /\ proc'[d] # None <=> cpc'[d] \in RunPCs
                       /\ cpc'[d] = "process" => throttled'[proc'[d]] = 0
    BY <1>c, <1>s, <2>2, <2>4, <2>p, ZenonT(30)
  <2>8. OneCpuEach' /\ ThrottledIsOff' /\ ThrottledHasUsed'
    BY <1>t, <2>2, <2>5, <2>6, <2>7 DEF OneCpuEach, ThrottledIsOff, ThrottledHasUsed
  <2>9. QED
    BY <1>1, <2>7, <2>8, Zenon DEF CpuInv, CpusConsistent, RunPCs
<1>5. CASE Wakeup(c)
  <2>1. PICK s \in Slot : state[s] = "SLEEPING" /\ state' = [state EXCEPT ![s] = "RUNNABLE"]
    BY <1>5, Zenon DEF Wakeup
  <2>2. UNCHANGED <<proc, cpc, chosen, throttled, cpu_used, cpu_quota>>
    BY <1>5 DEF Wakeup
  <2>3. \A t \in Slot : state'[t] = "RUNNING" <=> state[t] = "RUNNING"
    BY <1>t, <2>1
  <2>4. QED
    BY <1>q, <1>t, <2>2, <2>3
<1>6. CASE Fork(c)
  <2>1. PICK s \in Slot :
          /\ state[s] = "UNUSED" /\ state' = [state EXCEPT ![s] = "RUNNABLE"]
          /\ cpu_quota' = [cpu_quota EXCEPT ![s] = DefaultQuota]
          /\ cpu_used' = [cpu_used EXCEPT ![s] = 0]
          /\ throttled' = [throttled EXCEPT ![s] = 0]
    BY <1>6, Zenon DEF Fork
  <2>2. UNCHANGED <<proc, cpc, chosen>>
    BY <1>6 DEF Fork
  <2>3. \A t \in Slot : state'[t] = "RUNNING" <=> state[t] = "RUNNING"
    BY <1>t, <2>1
  <2>4. \A t \in Slot : throttled'[t] = 1 => throttled[t] = 1 /\ cpu_used'[t] >= cpu_quota'[t]
    BY <1>t, <2>1
  <2>5. QED
    BY <1>q, <2>2, <2>3, <2>4, Zenon
<1>7. CASE Reap(c)
  <2>1. PICK s \in Slot : state[s] = "ZOMBIE" /\ state' = [state EXCEPT ![s] = "UNUSED"]
    BY <1>7, Zenon DEF Reap
  <2>2. UNCHANGED <<proc, cpc, chosen, throttled, cpu_used, cpu_quota>>
    BY <1>7 DEF Reap
  <2>3. \A t \in Slot : state'[t] = "RUNNING" <=> state[t] = "RUNNING"
    BY <1>t, <2>1
  <2>4. QED
    BY <1>q, <1>t, <2>2, <2>3
<1>8. CASE TimerInProcess(c) \/ TimerInScheduler(c)
  <2>1. UNCHANGED <<proc, chosen, state, throttled, cpu_used, cpu_quota>>
    BY <1>8, Zenon DEF TimerInProcess, TimerInScheduler
  <2>2. PICK l \in {"charge", "yield", "begin"} :
          cpc' = [cpc EXCEPT ![c] = l] /\ cpc[c] = IF l = "begin" THEN "top" ELSE "process"
    BY <1>8 DEF TimerInProcess, TimerInScheduler
  <2>3. cpc'[c] = l /\ \A d \in CPU \ {c} : cpc'[d] = cpc[d]
    BY <1>t, <2>2
  <2>4. \A d \in CPU : /\ cpc'[d] \in RunPCs <=> cpc[d] \in RunPCs
                       /\ cpc'[d] = "process" => cpc[d] = "process"
                       /\ cpc'[d] = "run" => chosen'[d] # None
    BY <1>c, <1>s, <2>1, <2>2, <2>3, Zenon
  <2>5. QED
    BY <1>1, <1>t, <2>1, <2>4, QuietStep
<1>9. CASE Charge(c)
  <2>1. UNCHANGED <<state, proc, chosen, cpu_quota>> /\ cpc[c] = "charge" /\ cpc' = [cpc EXCEPT ![c] = "yield"]
    BY <1>9, Zenon DEF Charge
  <2>2. proc[c] \in Slot /\ \A d \in CPU : proc[d] = proc[c] => d = c
    BY <1>c, <1>s, <2>1, OnlyHere, Zenon
  <2>3. /\ cpu_used' = [cpu_used EXCEPT ![proc[c]] = @ + 1]
        /\ throttled' = [throttled EXCEPT ![proc[c]] = IF cpu_used[proc[c]] + 1 >= cpu_quota[proc[c]] THEN 1 ELSE @]
    BY <1>9, Zenon DEF Charge
  <2>p. cpc'[c] = "yield" /\ \A d \in CPU \ {c} : cpc'[d] = cpc[d]
    BY <1>t, <2>1, Zenon
  <2>4. ASSUME NEW s \in Slot, throttled'[s] = 1 PROVE cpu_used'[s] >= cpu_quota'[s]
    <3>0. cpu_used[s] \in Int /\ cpu_quota[s] \in Int
      BY <1>t
    <3>1. CASE s = proc[c]
      <4>1. cpu_used'[s] = cpu_used[s] + 1
        BY <1>t, <2>3, <3>1
      <4>2. cpu_used[s] + 1 >= cpu_quota[s] \/ throttled[s] = 1
        BY <1>t, <2>3, <2>4, <3>1
      <4>3. cpu_used[s] + 1 >= cpu_quota[s]
        BY <1>t, <3>0, <4>2
      <4>4. QED
        BY <2>1, <4>1, <4>3
    <3>2. CASE s # proc[c]
      <4>1. cpu_used'[s] = cpu_used[s] /\ throttled'[s] = throttled[s]
        BY <1>t, <2>3, <3>2, Zenon
      <4>2. QED
        BY <1>t, <2>1, <2>4, <4>1
    <3>3. QED
      BY <3>1, <3>2, Zenon
  <2>5. ASSUME NEW d \in CPU, cpc'[d] = "process" PROVE throttled'[proc'[d]] = 0
    <3>1. d # c /\ cpc[d] = "process"
      BY <2>5, <2>p, Zenon
    <3>2. throttled[proc[d]] = 0 /\ proc[d] # None /\ proc[d] # proc[c]
      BY <1>c, <1>s, <2>2, <3>1, Zenon
    <3>3. proc[d] \in Slot
      BY <1>t, <3>2
    <3>4. QED
      BY <1>t, <2>1, <2>3, <3>2, <3>3
  <2>6. \A d \in CPU : (cpc'[d] = "run" => chosen'[d] # None) /\ (proc'[d] # None <=> cpc'[d] \in RunPCs)
    BY <1>c, <1>s, <2>1, <2>p, Zenon
  <2>7. OneCpuEach'
    <3>1. OneCpuEach
      BY Zenon DEF CpuInv, CpusConsistent
    <3>2. QED
      BY <2>1, <3>1, Zenon DEF OneCpuEach
  <2>8. ThrottledIsOff' /\ ThrottledHasUsed'
    BY <2>4, <2>5 DEF ThrottledIsOff, ThrottledHasUsed
  <2>9. QED
    BY <1>1, <2>6, <2>7, <2>8, Zenon DEF CpuInv, CpusConsistent, RunPCs
<1>10. QED
  BY <1>2, <1>3, <1>4, <1>5, <1>6, <1>7, <1>8, <1>9, ZenonT(30) DEF Process

\* The invariant is inductive.
LEMMA CpuInvNext == CpuInv /\ [Next]_vars => CpuInv'
<1> SUFFICES ASSUME CpuInv, [Next]_vars PROVE CpuInv'
  OBVIOUS
<1>1. CASE UNCHANGED vars
  BY <1>1 DEF vars, procvars, clock, cpuvars, history, CpuInv, CpusConsistent, TypeOK,
              OneCpuEach, ThrottledIsOff, ThrottledHasUsed
<1>2. CASE Next
  BY <1>2, SchedulerKeeps, ProcessKeeps DEF Next
<1>3. QED
  BY <1>1, <1>2

\* What the CPUs have chosen, run and charged without a common lock agrees with
\* the process table: a process runs on one CPU at most, never while throttled,
\* and is throttled only for ticks that it used, for any number of CPUs.
THEOREM CpusAgree == Spec => []CpusConsistent
<1>1. CpuInv => CpusConsistent
  BY Zenon DEF CpuInv
<1>2. QED
  BY CpuInvInit, CpuInvNext, <1>1, PTL DEF Spec

---------------------------------------------------------------------------
(* A machine with one CPU: nothing changes the process table between the   *)
(* scan and the switch.                                                    *)

\* A candidate that the first loop of scheduler() looks for.
candidate(t) == eligible(t) /\ bySchedtest[t]

\* What scheduler() knows of the candidates at each place.
ScanInv ==
  /\ CpuInv
  /\ \A c \in CPU :
       /\ chosen[c] # None => cpc[c] \in {"scan", "run"}
       /\ cpc[c] = "scan" =>
            /\ chosen[c] # None => candidate(chosen[c])
            /\ \A t \in Slot : t < k[c] /\ candidate(t) =>
                 chosen[c] # None /\ pid[chosen[c]] <= pid[t]
       /\ cpc[c] = "fallback" => \A t \in Slot : ~ candidate(t)
       /\ cpc[c] = "run" =>
            \A t \in Slot : candidate(t) => bySchedtest[chosen[c]] /\ pid[chosen[c]] <= pid[t]

\* No scan has begun initially.
LEMMA ScanInvInit == Init => ScanInv
  BY CpuInvInit DEF Init, ScanInv, None

\* A pid is at most itself.
LEMMA AtMostItself == \A a \in Int : a <= a /\ a >= a
  OBVIOUS

\* One iteration of the first loop.
LEMMA ScanSlotKeeps ==
  ASSUME NCPU = 1, ScanInv, NEW c \in CPU, ScanSlot(c), CpuInv'
  PROVE  ScanInv'
<1>0. /\ \A d \in CPU : d = c
      /\ k[c] \in Slot /\ chosen[c] \in Slot \cup {None} /\ None \notin Slot
      /\ \A t \in Slot : pid[t] \in Int
      /\ TypeOK
  <2>1. TypeOK /\ k[c] \in Slot /\ chosen[c] \in Slot \cup {None}
    BY DEF ScanInv, CpuInv, CpusConsistent, TypeOK
  <2>2. None \notin Slot /\ \A d \in CPU : d = c
    BY SchedAssumption DEF CPU, Slot, None
  <2>3. \A t \in Slot : pid[t] \in Int
    BY <2>1 DEF TypeOK
  <2>4. QED
    BY <2>1, <2>2, <2>3, Zenon
<1>1. /\ UNCHANGED <<state, pid, throttled, bySchedtest>>
      /\ cpc[c] = "scan"
      /\ chosen' = IF preferred(c) THEN [chosen EXCEPT ![c] = k[c]] ELSE chosen
  BY Zenon DEF ScanSlot, procvars
<1>2. \A t : candidate(t)' <=> candidate(t)
  BY <1>1 DEF candidate, eligible
<1>3. \A t \in Slot : t <= k[c] /\ candidate(t) =>
        chosen'[c] # None /\ pid[chosen'[c]] <= pid[t]
  <2> SUFFICES ASSUME NEW t \in Slot, t <= k[c], candidate(t)
               PROVE  chosen'[c] # None /\ pid[chosen'[c]] <= pid[t]
    OBVIOUS
  <2>0. t < k[c] \/ t = k[c]
    BY <1>0 DEF Slot
  <2>1. CASE preferred(c)
    <3>1. chosen'[c] = k[c]
      BY <1>0, <1>1, <2>1, ZenonT(30) DEF TypeOK
    <3>2. CASE t = k[c]
      BY <1>0, <3>1, <3>2, AtMostItself, Zenon
    <3>3. CASE t < k[c]
      <4>1. chosen[c] # None /\ pid[chosen[c]] <= pid[t]
        BY <1>1, <3>3, Zenon DEF ScanInv
      <4>2. pid[k[c]] < pid[chosen[c]] /\ chosen[c] \in Slot
        BY <1>0, <2>1, <4>1, Zenon DEF preferred
      <4>3. k[c] # None /\ pid[k[c]] \in Int /\ pid[chosen[c]] \in Int /\ pid[t] \in Int
        BY <1>0, <4>2, ZenonT(30)
      <4>4. QED
        BY <3>1, <4>1, <4>2, <4>3, SMTT(30)
    <3>4. QED
      BY <2>0, <3>2, <3>3, Zenon
  <2>2. CASE ~ preferred(c)
    <3>1. chosen'[c] = chosen[c]
      BY <1>1, <2>2
    <3>2. CASE t = k[c]
      <4>1. chosen[c] # None /\ ~ (pid[k[c]] < pid[chosen[c]])
        BY <2>2, <3>2, Zenon DEF preferred, candidate
      <4>2. pid[k[c]] \in Int /\ pid[chosen[c]] \in Int
        BY <1>0, <4>1, Zenon
      <4>3. QED
        BY <3>1, <3>2, <4>1, <4>2
    <3>3. CASE t < k[c]
      BY <1>0, <1>1, <3>1, <3>3, Zenon DEF ScanInv
    <3>4. QED
      BY <2>0, <3>2, <3>3, ZenonT(30)
  <2>3. QED
    BY <2>1, <2>2
<1>4. chosen'[c] # None => candidate(chosen'[c])
  BY <1>0, <1>1, Zenon DEF ScanInv, preferred, candidate, TypeOK
<1>5. CASE k[c] < NPROC
  <2>1. k'[c] = k[c] + 1 /\ cpc' = cpc
    BY <1>0, <1>5, Zenon DEF ScanSlot, nextSlot, TypeOK
  <2>2. \A t \in Slot : t < k'[c] => t <= k[c]
    BY <1>0, <2>1 DEF Slot
  <2>3. QED
    BY <1>0, <1>1, <1>2, <1>3, <1>4, <2>1, <2>2, Zenon DEF ScanInv
<1>6. CASE ~ (k[c] < NPROC)
  <2>1. cpc'[c] = IF chosen'[c] = None THEN "fallback" ELSE "run"
    BY <1>0, <1>6, Zenon DEF ScanSlot, nextSlot, startScan, goto, TypeOK
  <2>2. \A t \in Slot : t <= k[c]
    BY <1>0, <1>6, SchedAssumption DEF Slot
  <2>3. QED
    BY <1>0, <1>1, <1>2, <1>3, <1>4, <2>1, <2>2, Zenon DEF ScanInv, candidate
<1>7. QED
  BY <1>5, <1>6

\* Every step keeps what the scan of scheduler() has found out true.
LEMMA ScanInvNext ==
  ASSUME NCPU = 1, ScanInv, [Next]_vars
  PROVE  ScanInv'
<1>0. (\A c, d \in CPU : d = c) /\ CpuInv /\ TypeOK /\ CpuInv'
  <2>1. CpuInv'
    BY CpuInvNext, ZenonT(30) DEF ScanInv
  <2>2. QED
    BY <2>1 DEF CPU, ScanInv, CpuInv, CpusConsistent
<1>1. CASE UNCHANGED vars
  BY <1>0, <1>1 DEF vars, procvars, clock, cpuvars, history, ScanInv, candidate, eligible
<1>2. ASSUME NEW c \in CPU, ScanSlot(c) PROVE ScanInv'
  BY <1>0, <1>2, ScanSlotKeeps
<1>3. ASSUME NEW c \in CPU, FallbackSlot(c) PROVE ScanInv'
  <2>1. UNCHANGED <<state, pid, throttled, bySchedtest>> /\ cpc[c] = "fallback"
    BY <1>3 DEF FallbackSlot, procvars
  <2>2. \A t : candidate(t)' <=> candidate(t)
    BY <2>1, Zenon DEF candidate, eligible
  <2>3. CASE eligible(k[c])
    <3>1. cpc'[c] = "run"
      BY <1>0, <1>3, <2>3, Zenon DEF FallbackSlot, startScan, goto, TypeOK
    <3>2. QED
      BY <1>0, <2>1, <2>2, <3>1, Zenon DEF ScanInv
  <2>4. CASE ~ eligible(k[c])
    <3>1. UNCHANGED chosen /\ cpc'[c] \in {"fallback", "wfi"}
      BY <1>0, <1>3, <2>1, <2>4, Zenon DEF FallbackSlot, nextSlot, startScan, goto, TypeOK
    <3>2. QED
      BY <1>0, <2>1, <2>2, <3>1, Zenon DEF ScanInv
  <2>5. QED
    BY <2>3, <2>4, Zenon
<1>4. ASSUME NEW c \in CPU, cpc'[c] = "scan", k'[c] = 1, chosen'[c] = None PROVE ScanInv'
  <2>1. \A t \in Slot : ~ (t < k'[c])
    BY <1>4, SchedAssumption, SMTT(30) DEF Slot
  <2>2. QED
    BY <1>0, <1>4, <2>1, Zenon DEF ScanInv
<1>5. ASSUME NEW c \in CPU, cpc'[c] \notin {"scan", "fallback", "run"}, chosen'[c] = None
      PROVE  ScanInv'
  BY <1>0, <1>5, Zenon DEF ScanInv
<1>6. ASSUME NEW c \in CPU, Scheduler(c) PROVE ScanInv'
  <2>1. CASE Compare(c)
    <3>1. chosen'[c] = None
      BY <2>1, Zenon DEF Compare, ScanInv
    <3>2. cpc'[c] = "open" \/ (cpc'[c] = "scan" /\ k'[c] = 1)
      BY <1>0, <2>1 DEF Compare, startScan, goto, TypeOK
    <3>3. QED
      BY <1>4, <1>5, <3>1, <3>2, Zenon
  <2>2. CASE ResetSlot(c)
    <3>1. chosen'[c] = None
      BY <2>2, Zenon DEF ResetSlot, ScanInv
    <3>2. cpc'[c] = "reset" \/ (cpc'[c] = "scan" /\ k'[c] = 1)
      BY <1>0, <2>2 DEF ResetSlot, nextSlot, startScan, goto, TypeOK
    <3>3. QED
      BY <1>4, <1>5, <3>1, <3>2, Zenon
  <2>3. CASE ReadTicks(c) \/ OpenWindow(c) \/ Wfi(c)
    <3>1. chosen'[c] = None
      BY <2>3, Zenon DEF ReadTicks, OpenWindow, Wfi, ScanInv
    <3>2. cpc'[c] \in {"compare", "reset", "top"}
      BY <1>0, <2>3 DEF ReadTicks, OpenWindow, Wfi, startScan, goto, TypeOK
    <3>3. QED
      BY <1>5, <3>1, <3>2, Zenon
  <2>4. CASE Run(c)
    <3>1. chosen'[c] = None
      BY <1>0, <2>4, Zenon DEF Run, TypeOK
    <3>2. cpc'[c] \in {"process", "top"}
      BY <1>0, <2>4, Zenon DEF Run, goto, TypeOK
    <3>3. QED
      BY <1>5, <3>1, <3>2, Zenon
  <2>5. QED
    BY <1>2, <1>3, <1>6, <2>1, <2>2, <2>3, <2>4 DEF Scheduler
<1>7. ASSUME NEW c \in CPU,
             Process(c) \/ TimerInProcess(c) \/ TimerInScheduler(c) \/ Charge(c) \/ Yield(c)
      PROVE  ScanInv'
  <2>1. cpc[c] \in {"process", "top", "charge", "yield"} /\ chosen' = chosen
    BY <1>7, Zenon DEF Process, Syscall, Return, SetQuota, YieldInKernel, Sleep, Wakeup, Fork, Exec, Exit,
                Reap, InKernel, leave, cpuvars, TimerInProcess, TimerInScheduler, Charge, Yield
  <2>2. cpc' = cpc \/ \E l \in {"top", "begin", "charge", "yield"} : goto(c, l)
    BY <1>7, Zenon DEF Process, Syscall, Return, SetQuota, YieldInKernel, Sleep, Wakeup, Fork, Exec, Exit,
                Reap, leave, cpuvars, TimerInProcess, TimerInScheduler, Charge, Yield
  <2>3. cpc'[c] \in {"process", "top", "begin", "charge", "yield"}
    BY <1>0, <2>1, <2>2 DEF goto, TypeOK
  <2>4. QED
    BY <1>5, <2>1, <2>3, Zenon DEF ScanInv
<1>8. QED
  BY <1>1, <1>6, <1>7, Zenon DEF Next

\* On one CPU, scheduler() switches to the child of schedtest with the smallest
\* pid, if such a child may run, whatever happened to the table during the scan.
THEOREM SmallestPid == ASSUME NCPU = 1 PROVE Spec => SmallestPidFirst
<1> DEFINE Smallest ==
      \A s \in Slot :
        state[s] # "RUNNING" /\ state'[s] = "RUNNING" =>
          \A t \in Slot : eligible(t) /\ bySchedtest[t] => bySchedtest[s] /\ pid[s] <= pid[t]
<1>1. ScanInv /\ [Next]_vars => [Smallest]_vars
  <2> SUFFICES ASSUME ScanInv, Next, NEW s \in Slot,
                      state[s] # "RUNNING", state'[s] = "RUNNING"
               PROVE  \A t \in Slot : eligible(t) /\ bySchedtest[t] =>
                        bySchedtest[s] /\ pid[s] <= pid[t]
    OBVIOUS
  <2>0. TypeOK
    BY Zenon DEF ScanInv, CpuInv, CpusConsistent
  <2>1. PICK c \in CPU : Run(c)
    <3>1. state' # state
      OBVIOUS
    <3>2. PICK c \in CPU : \/ Scheduler(c) \/ Process(c)
                          \/ TimerInProcess(c) \/ TimerInScheduler(c) \/ Charge(c) \/ Yield(c)
      BY DEF Next
    <3>3. ASSUME NEW new, new # "RUNNING", leave(c, new) PROVE FALSE
      BY <2>0, <3>3, Zenon DEF leave, TypeOK
    <3>4. ~ Process(c)
      BY <2>0, <3>1, <3>3, ZenonT(30) DEF Process, Syscall, Return, SetQuota, YieldInKernel, Sleep, Wakeup, Fork,
                              Exec, Exit, Reap, TypeOK
    <3>5. ~ (TimerInProcess(c) \/ TimerInScheduler(c) \/ Charge(c) \/ Yield(c))
      BY <3>1, <3>3, Zenon DEF TimerInProcess, TimerInScheduler, Charge, Yield, procvars
    <3>6. QED
      BY <3>1, <3>2, <3>4, <3>5, Zenon DEF Scheduler, ReadTicks, Compare, OpenWindow, ResetSlot, ScanSlot,
                                    FallbackSlot, Wfi, procvars
  <2>2. chosen[c] = s
    BY <2>0, <2>1 DEF Run, TypeOK
  <2>3. QED
    BY <2>1, <2>2, Zenon DEF Run, ScanInv, candidate
<1>2. ScanInv /\ [Next]_vars => ScanInv'
  BY ScanInvNext
<1>3. QED
  BY ScanInvInit, <1>1, <1>2, PTL DEF Spec, SmallestPidFirst

---------------------------------------------------------------------------
(* A machine with one CPU: a window is never opened early, and what a      *)
(* process was charged in it is at most what it used of the largest quota  *)
(* it had since the reset.  A quota may be lowered below what is used      *)
(* already, so the current quota is no bound.                              *)

\* Ticks since quota_window_start, as check_and_reset_quota_window() counts them.
elapsed == (ticks - quota_window_start) % UINT

QuotaInv ==
  /\ CpuInv
  /\ elapsed <= sinceOpen \/ sinceOpen = WINDOW_SIZE
  /\ \A c \in CPU :
       /\ cpc[c] \in {"compare", "open"} => current[c] = ticks
       /\ cpc[c] = "open" => sinceOpen = WINDOW_SIZE
       /\ cpc[c] = "reset" => due[c]
       /\ cpc[c] = "charge" => throttled[proc[c]] = 0
  /\ \A s \in Slot :
       /\ cpu_quota[s] <= granted[s]
       /\ throttled[s] = 0 => cpu_used[s] < granted[s]
       /\ charged[s] <= cpu_used[s] /\ charged[s] <= granted[s]

\* With one CPU, every action is a step of that CPU.
LEMMA OneCpu == NCPU = 1 => \A c, d \in CPU : c = d
  BY DEF CPU

\* A quota is at least one tick.
LEMMA PositiveNat == \A n \in Nat \ {0} : n > 0
  OBVIOUS

\* Once the clock says that the window is over, the window has been open to its end.
LEMMA WindowFull == \A w \in Nat : \A o \in 0..w, e \in Int : (e <= o \/ o = w) /\ e >= w => o = w
  OBVIOUS

\* One more tick stays within a quota that was not used up.
LEMMA ChargedOnce == \A u, h, q \in Int : u < q /\ h <= u => h + 1 <= u + 1 /\ h + 1 <= q
  OBVIOUS

\* Differences of two values of an unsigned counter.
LEMMA ModSmall == \A a \in Int, m \in Nat \ {0} : 0 <= a /\ a < m => a % m = a
  OBVIOUS

\* The difference of two values, the second the larger.
LEMMA ModNegative == \A a \in Int, m \in Nat \ {0} : a < 0 /\ 0 <= a + m => a % m = a + m
  OBVIOUS

\* A sum beyond the wrap.
LEMMA ModBig == \A a \in Int, m \in Nat \ {0} : a >= m /\ a < m + m => a % m = a - m
  OBVIOUS

\* The range of a remainder.
LEMMA ModType == \A a \in Int, m \in Nat \ {0} : a % m \in 0..(m - 1)
  OBVIOUS

\* One more tick, also across the wrap, is at most one more elapsed.
LEMMA OneTick ==
  ASSUME NEW t \in 0..(UINT - 1), NEW w \in 0..(UINT - 1)
  PROVE  (((t + 1) % UINT) - w) % UINT <= ((t - w) % UINT) + 1
<1>0. UINT \in Nat \ {0} /\ t \in Int /\ w \in Int
  BY SchedAssumption
<1>1. (t - w) % UINT = IF t >= w THEN t - w ELSE t - w + UINT
  BY <1>0, ModSmall, ModNegative
<1>2. (t + 1) % UINT = IF t + 1 = UINT THEN 0 ELSE t + 1
  <2>1. CASE t + 1 = UINT
    BY <1>0, <2>1, ModBig
  <2>2. CASE t + 1 # UINT
    BY <1>0, <2>2, ModSmall
  <2>3. QED
    BY <2>1, <2>2
<1>3. CASE t + 1 = UINT
  <2>1. (0 - w) % UINT = IF w = 0 THEN 0 ELSE 0 - w + UINT
    BY <1>0, ModSmall, ModNegative
  <2>2. QED
    BY <1>0, <1>1, <1>2, <1>3, <2>1
<1>4. CASE t + 1 # UINT
  <2>1. (t + 1 - w) % UINT = IF t + 1 >= w THEN t + 1 - w ELSE t + 1 - w + UINT
    BY <1>0, <1>4, ModSmall, ModNegative
  <2>2. QED
    BY <1>0, <1>1, <1>2, <1>4, <2>1
<1>5. QED
  BY <1>3, <1>4

\* Nothing has been charged initially.
LEMMA QuotaInvInit == Init => QuotaInv
<1> SUFFICES ASSUME Init PROVE QuotaInv
  OBVIOUS
<1>1. elapsed = 0
  BY SchedAssumption, ModSmall DEF Init, elapsed
<1>2. elapsed <= sinceOpen
  BY <1>1 DEF Init
<1>3. \A s \in Slot :
        /\ cpu_quota[s] <= granted[s]
        /\ cpu_used[s] < granted[s] /\ charged[s] <= cpu_used[s] /\ charged[s] <= granted[s]
  BY SchedAssumption DEF Init
<1>4. QED
  BY <1>2, <1>3, CpuInvInit, Zenon DEF Init, QuotaInv

\* A tick.
LEMMA ClockKeeps ==
  ASSUME QuotaInv, NEW c \in CPU, clockintr(c), UNCHANGED quota_window_start
  PROVE  (elapsed <= sinceOpen \/ sinceOpen = WINDOW_SIZE)'
<1>0. /\ ticks \in 0..(UINT - 1) /\ quota_window_start \in 0..(UINT - 1)
      /\ sinceOpen \in 0..WINDOW_SIZE /\ WINDOW_SIZE \in Nat
  BY SchedAssumption, Zenon DEF QuotaInv, CpuInv, CpusConsistent, TypeOK
<1>1. CASE c = 0
  <2>1. elapsed \in Int /\ elapsed' \in Int
    BY <1>0, <1>1, SchedAssumption, ModType DEF elapsed, clockintr
  <2>2. elapsed' <= elapsed + 1
    BY <1>0, <1>1, OneTick, Zenon DEF elapsed, clockintr
  <2>3. QED
    BY <1>0, <1>1, <2>1, <2>2 DEF clockintr, QuotaInv
<1>2. CASE c # 0
  BY <1>2 DEF clockintr, QuotaInv, elapsed
<1>3. QED
  BY <1>1, <1>2, Zenon

\* Steps of scheduler() on the only CPU.
LEMMA QuotaScheduler ==
  ASSUME NCPU = 1, QuotaInv, NEW c \in CPU, Scheduler(c), CpuInv'
  PROVE  QuotaInv'
<1>0. (\A d \in CPU : d = c) /\ TypeOK
  BY OneCpu, Zenon DEF QuotaInv, CpuInv, CpusConsistent
<1> USE <1>0 DEF procvars, clock, history, goto, startScan, nextSlot, elapsed
<1>1. CASE ReadTicks(c)
  BY <1>1 DEF QuotaInv, ReadTicks, TypeOK
<1>2. CASE Compare(c)
  <2>1. windowOver(c) => sinceOpen = WINDOW_SIZE
    <3>1. sinceOpen \in 0..WINDOW_SIZE /\ WINDOW_SIZE \in Nat /\ elapsed \in Int
      BY SchedAssumption, ModType DEF TypeOK
    <3>2. windowOver(c) => elapsed >= WINDOW_SIZE
      BY <1>2, Zenon DEF Compare, windowOver, QuotaInv
    <3>3. QED
      BY <3>1, <3>2, WindowFull, ZenonT(30) DEF QuotaInv
  <2>2. CASE windowOver(c)
    BY <1>2, <2>1, <2>2, Zenon DEF Compare, QuotaInv, TypeOK
  <2>3. CASE ~ windowOver(c)
    BY <1>2, <2>3 DEF Compare, QuotaInv, TypeOK
  <2>4. QED
    BY <2>2, <2>3, ZenonT(30)
<1>3. CASE OpenWindow(c)
  <2>1. due'[c] /\ sinceOpen' = 0 /\ \A s \in Slot : charged'[s] = 0
    <3>1. sinceOpen >= WINDOW_SIZE
      <4>1. cpc[c] = "open"
        BY <1>3, Zenon DEF OpenWindow
      <4>2. sinceOpen = WINDOW_SIZE
        BY <4>1, Zenon DEF QuotaInv
      <4>3. QED
        BY <4>2, SchedAssumption
    <3>2. due' = [due EXCEPT ![c] = TRUE]
      BY <1>3, <3>1, Zenon DEF OpenWindow
    <3>3. due'[c]
      BY <3>2 DEF TypeOK
    <3>4. QED
      BY <1>3, <3>3 DEF OpenWindow
  <2>2. elapsed' = 0
    <3>1. quota_window_start' = ticks /\ ticks' = ticks /\ ticks \in Int
      BY <1>3 DEF OpenWindow, QuotaInv, TypeOK
    <3>2. QED
      BY <3>1, SchedAssumption, ModSmall, SMTT(30)
  <2>3. cpc'[c] = "reset" /\ UNCHANGED procvars
    BY <1>3 DEF OpenWindow, TypeOK
  <2>4. (elapsed <= sinceOpen \/ sinceOpen = WINDOW_SIZE)'
    BY <2>1, <2>2
  <2>5. (\A s \in Slot : charged'[s] <= cpu_used[s] /\ charged'[s] <= granted[s]) /\ granted' = granted
    <3>1. cpu_used \in [Slot -> Nat] /\ granted \in [Slot -> Nat]
      BY Zenon DEF TypeOK
    <3>2. granted' = granted
      BY <1>3, Zenon DEF OpenWindow
    <3>3. QED
      BY <2>1, <3>1, <3>2
  <2>6. QED
    BY <2>1, <2>3, <2>4, <2>5, Zenon DEF QuotaInv
<1>4. CASE ResetSlot(c)
  <2>1. cpc'[c] \in {"reset", "scan"} /\ UNCHANGED <<cpu_quota, sinceOpen, clock, due>> /\ due[c]
    BY <1>4, Zenon DEF ResetSlot, TypeOK, QuotaInv
  <2>2. charged' = [charged EXCEPT ![k[c]] = 0]
    BY <1>4, <2>1, Zenon DEF ResetSlot, forgive
  <2>3. /\ state[k[c]] # "UNUSED" =>
             /\ cpu_used' = [cpu_used EXCEPT ![k[c]] = 0] /\ throttled' = [throttled EXCEPT ![k[c]] = 0]
             /\ granted' = [granted EXCEPT ![k[c]] = cpu_quota[k[c]]]
        /\ state[k[c]] = "UNUSED" => UNCHANGED <<cpu_used, throttled, granted>>
    BY <1>4, <2>1, Zenon DEF ResetSlot, forgive
  <2>t. /\ cpu_quota \in [Slot -> Nat \ {0}] /\ cpu_used \in [Slot -> Nat] /\ throttled \in [Slot -> 0..1]
        /\ charged \in [Slot -> Nat] /\ granted \in [Slot -> Nat] /\ k[c] \in Slot
    BY Zenon DEF TypeOK
  <2>4. \A s \in Slot :
          /\ cpu_quota[s] <= granted'[s]
          /\ throttled'[s] = 0 => cpu_used'[s] < granted'[s]
          /\ charged'[s] <= cpu_used'[s] /\ charged'[s] <= granted'[s]
    <3> SUFFICES ASSUME NEW s \in Slot
                 PROVE  /\ cpu_quota[s] <= granted'[s]
                        /\ throttled'[s] = 0 => cpu_used'[s] < granted'[s]
                        /\ charged'[s] <= cpu_used'[s] /\ charged'[s] <= granted'[s]
      OBVIOUS
    <3>1. /\ cpu_quota[s] <= granted[s]
          /\ throttled[s] = 0 => cpu_used[s] < granted[s]
          /\ charged[s] <= cpu_used[s] /\ charged[s] <= granted[s]
      BY Zenon DEF QuotaInv
    <3>2. CASE s = k[c] /\ state[k[c]] # "UNUSED"
      <4>1. cpu_used'[s] = 0 /\ charged'[s] = 0 /\ granted'[s] = cpu_quota[s]
        BY <2>t, <2>2, <2>3, <3>2, Zenon
      <4>2. cpu_quota[s] \in Nat \ {0}
        BY <2>t, Zenon
      <4>3. QED
        BY <4>1, <4>2
    <3>3. CASE s = k[c] /\ state[k[c]] = "UNUSED"
      <4>1. cpu_used'[s] = cpu_used[s] /\ throttled'[s] = throttled[s] /\ charged'[s] = 0 /\ granted'[s] = granted[s]
        BY <2>t, <2>2, <2>3, <3>3, Zenon
      <4>2. cpu_used[s] \in Nat /\ granted[s] \in Nat
        BY <2>t, Zenon
      <4>3. QED
        BY <3>1, <4>1, <4>2
    <3>4. CASE s # k[c]
      <4>1. cpu_used'[s] = cpu_used[s] /\ throttled'[s] = throttled[s] /\ charged'[s] = charged[s] /\ granted'[s] = granted[s]
        BY <2>t, <2>2, <2>3, <3>4, ZenonT(30)
      <4>2. QED
        BY <3>1, <4>1, Zenon
    <3>5. QED
      BY <3>2, <3>3, <3>4, Zenon
  <2>5. QED
    BY <2>1, <2>4, Zenon DEF QuotaInv
<1>5. CASE ScanSlot(c) \/ FallbackSlot(c) \/ Wfi(c) \/ Run(c)
  <2>1. cpc'[c] \in {"scan", "fallback", "run", "wfi", "top", "process"}
    BY <1>5, ZenonT(30) DEF ScanSlot, FallbackSlot, Wfi, Run, TypeOK
  <2>2. UNCHANGED <<cpu_quota, cpu_used, throttled, clock, history>>
    BY <1>5, Zenon DEF ScanSlot, FallbackSlot, Wfi, Run
  <2>3. QED
    BY <2>1, <2>2, Zenon DEF QuotaInv
<1>6. QED
  BY <1>1, <1>2, <1>3, <1>4, <1>5, Zenon DEF Scheduler

\* Steps of processes and of the timer on the only CPU.
LEMMA QuotaProcess ==
  ASSUME NCPU = 1, QuotaInv, CpuInv', NEW c \in CPU,
         Process(c) \/ TimerInProcess(c) \/ TimerInScheduler(c) \/ Charge(c) \/ Yield(c)
  PROVE  QuotaInv'
<1>0. (\A d \in CPU : d = c) /\ TypeOK
  BY OneCpu, Zenon DEF QuotaInv, CpuInv, CpusConsistent
<1>t. /\ cpu_quota \in [Slot -> Nat \ {0}] /\ cpu_used \in [Slot -> Nat]
      /\ throttled \in [Slot -> 0..1] /\ charged \in [Slot -> Nat] /\ granted \in [Slot -> Nat]
      /\ proc \in [CPU -> Slot \cup {None}]
  BY <1>0, Zenon DEF TypeOK
<1> USE <1>0 DEF procvars, clock, cpuvars, history, goto, leave, InKernel
<1>1. CASE \/ Syscall(c) \/ Return(c) \/ YieldInKernel(c) \/ Sleep(c) \/ Wakeup(c)
           \/ Exec(c) \/ Exit(c) \/ Reap(c) \/ Yield(c)
  <2>1. UNCHANGED <<cpu_quota, cpu_used, throttled, clock, history>>
    BY <1>1, Zenon DEF Syscall, Return, YieldInKernel, Sleep, Wakeup, Exec, Exit, Reap, Yield
  <2>2. cpc'[c] \in {"process", "top"}
    BY <1>1, Zenon DEF Syscall, Return, YieldInKernel, Sleep, Wakeup, Exec, Exit, Reap, Yield, TypeOK
  <2>3. QED
    BY <2>1, <2>2, Zenon DEF QuotaInv, elapsed
<1>2. CASE SetQuota(c)
  <2>1. PICK q \in SetQuotas :
          /\ q > 0
          /\ cpu_quota' = [cpu_quota EXCEPT ![proc[c]] = q]
          /\ throttled' = [throttled EXCEPT ![proc[c]] = IF cpu_used[proc[c]] < q THEN 0 ELSE @]
          /\ granted' = [granted EXCEPT ![proc[c]] = IF q > @ THEN q ELSE @]
    BY <1>2, Zenon DEF SetQuota
  <2>2. proc[c] \in Slot /\ q \in Int
    BY <1>2, <2>1, OnlyHere, SchedAssumption, ZenonT(30) DEF SetQuota, QuotaInv, CpuInv
  <2>4. \A s \in Slot :
          /\ cpu_quota'[s] <= granted'[s]
          /\ throttled'[s] = 0 => cpu_used[s] < granted'[s]
          /\ charged[s] <= cpu_used[s] /\ charged[s] <= granted'[s]
    <3> SUFFICES ASSUME NEW s \in Slot
                 PROVE  /\ cpu_quota'[s] <= granted'[s]
                        /\ throttled'[s] = 0 => cpu_used[s] < granted'[s]
                        /\ charged[s] <= cpu_used[s] /\ charged[s] <= granted'[s]
      OBVIOUS
    <3>1. /\ cpu_quota[s] <= granted[s]
          /\ throttled[s] = 0 => cpu_used[s] < granted[s]
          /\ charged[s] <= cpu_used[s] /\ charged[s] <= granted[s]
      BY Zenon DEF QuotaInv
    <3>2. CASE s = proc[c]
      <4>1. /\ cpu_quota'[s] = q /\ granted'[s] = IF q > granted[s] THEN q ELSE granted[s]
            /\ throttled'[s] = IF cpu_used[s] < q THEN 0 ELSE throttled[s]
        BY <1>t, <2>1, <3>2, Zenon
      <4>2. cpu_used[s] \in Int /\ charged[s] \in Int /\ granted[s] \in Int
        BY <1>t
      <4>3. QED
        BY <2>2, <3>1, <4>1, <4>2
    <3>3. CASE s # proc[c]
      <4>1. cpu_quota'[s] = cpu_quota[s] /\ throttled'[s] = throttled[s] /\ granted'[s] = granted[s]
        BY <1>t, <2>1, <3>3, Zenon
      <4>2. QED
        BY <3>1, <4>1, Zenon
    <3>4. QED
      BY <3>2, <3>3, ZenonT(30)
  <2>5. UNCHANGED <<cpu_used, clock, cpuvars, sinceOpen, due, charged>> /\ cpc[c] = "process"
    BY <1>2, Zenon DEF SetQuota
  <2>6. QED
    BY <2>4, <2>5, Zenon DEF QuotaInv, elapsed
<1>3. CASE Fork(c)
  <2>1. PICK s \in Slot :
          /\ cpu_quota' = [cpu_quota EXCEPT ![s] = DefaultQuota]
          /\ cpu_used' = [cpu_used EXCEPT ![s] = 0]
          /\ throttled' = [throttled EXCEPT ![s] = 0]
          /\ charged' = [charged EXCEPT ![s] = 0]
          /\ granted' = [granted EXCEPT ![s] = DefaultQuota]
    BY <1>3, Zenon DEF Fork
  <2>2. \A r \in Slot :
          /\ cpu_quota'[r] <= granted'[r]
          /\ throttled'[r] = 0 => cpu_used'[r] < granted'[r]
          /\ charged'[r] <= cpu_used'[r] /\ charged'[r] <= granted'[r]
    <3> SUFFICES ASSUME NEW r \in Slot
                 PROVE  /\ cpu_quota'[r] <= granted'[r]
                        /\ throttled'[r] = 0 => cpu_used'[r] < granted'[r]
                        /\ charged'[r] <= cpu_used'[r] /\ charged'[r] <= granted'[r]
      OBVIOUS
    <3>1. CASE r = s
      <4>1. cpu_quota'[r] = DefaultQuota /\ granted'[r] = DefaultQuota /\ cpu_used'[r] = 0 /\ charged'[r] = 0
        BY <1>t, <2>1, <3>1, Zenon
      <4>2. QED
        BY <4>1, SchedAssumption
    <3>2. CASE r # s
      <4>1. /\ cpu_quota'[r] = cpu_quota[r] /\ cpu_used'[r] = cpu_used[r]
            /\ throttled'[r] = throttled[r] /\ charged'[r] = charged[r] /\ granted'[r] = granted[r]
        BY <1>t, <2>1, <3>2, Zenon
      <4>2. QED
        BY <4>1, Zenon DEF QuotaInv
    <3>3. QED
      BY <3>1, <3>2, Zenon
  <2>3. UNCHANGED <<clock, cpuvars, sinceOpen, due>> /\ cpc[c] = "process"
    BY <1>3, Zenon DEF Fork
  <2>4. QED
    BY <2>2, <2>3, Zenon DEF QuotaInv, elapsed
<1>4. CASE TimerInProcess(c) \/ TimerInScheduler(c)
  <2>1. (elapsed <= sinceOpen \/ sinceOpen = WINDOW_SIZE)'
    BY <1>4, ClockKeeps, Zenon DEF TimerInProcess, TimerInScheduler
  <2>2. UNCHANGED <<procvars, proc, due, charged, granted>>
    BY <1>4, Zenon DEF TimerInProcess, TimerInScheduler
  <2>3. cpc'[c] \in {"charge", "yield", "begin"} /\ (cpc'[c] = "charge" => cpc[c] = "process")
    BY <1>4, Zenon DEF TimerInProcess, TimerInScheduler, TypeOK
  <2>4. QED
    BY <2>1, <2>2, <2>3, Zenon DEF QuotaInv, CpuInv, CpusConsistent, ThrottledIsOff
<1>5. CASE Charge(c)
  <2>1. proc[c] \in Slot /\ throttled[proc[c]] = 0
    BY <1>5, OnlyHere, Zenon DEF Charge, QuotaInv, CpuInv
  <2>2. \A s \in Slot :
          /\ throttled'[s] = 0 => cpu_used'[s] < granted[s]
          /\ charged'[s] <= cpu_used'[s] /\ charged'[s] <= granted[s]
    <3>1. /\ cpu_used' = [cpu_used EXCEPT ![proc[c]] = @ + 1]
          /\ throttled' = [throttled EXCEPT ![proc[c]] = IF cpu_used[proc[c]] + 1 >= cpu_quota[proc[c]] THEN 1 ELSE @]
          /\ charged' = [charged EXCEPT ![proc[c]] = IF @ <= granted[proc[c]] THEN @ + 1 ELSE @]
      BY <1>5, Zenon DEF Charge
    <3> SUFFICES ASSUME NEW s \in Slot
                 PROVE  /\ throttled'[s] = 0 => cpu_used'[s] < granted[s]
                        /\ charged'[s] <= cpu_used'[s] /\ charged'[s] <= granted[s]
      OBVIOUS
    <3>2. /\ throttled[s] = 0 => cpu_used[s] < granted[s]
          /\ charged[s] <= cpu_used[s] /\ charged[s] <= granted[s]
          /\ cpu_quota[s] <= granted[s]
          /\ cpu_used[s] \in Int /\ charged[s] \in Int /\ granted[s] \in Int /\ cpu_quota[s] \in Int
      <4>1. cpu_used[s] \in Int /\ charged[s] \in Int /\ granted[s] \in Int /\ cpu_quota[s] \in Int
        BY <1>t
      <4>2. QED
        BY <4>1, Zenon DEF QuotaInv
    <3>3. CASE s = proc[c]
      <4>1. /\ cpu_used'[s] = cpu_used[s] + 1 /\ charged'[s] = charged[s] + 1
            /\ throttled'[s] = 0 => cpu_used[s] + 1 < granted[s]
        BY <1>t, <2>1, <3>1, <3>2, <3>3
      <4>2. QED
        BY <2>1, <3>2, <3>3, <4>1, ChargedOnce, Zenon
    <3>4. CASE s # proc[c]
      <4>1. cpu_used'[s] = cpu_used[s] /\ throttled'[s] = throttled[s] /\ charged'[s] = charged[s]
        BY <1>t, <3>1, <3>4, ZenonT(30)
      <4>2. QED
        BY <3>2, <4>1, Zenon
    <3>5. QED
      BY <3>3, <3>4, Zenon
  <2>3. UNCHANGED <<cpu_quota, clock, sinceOpen, due, granted>> /\ cpc'[c] = "yield"
    BY <1>5 DEF Charge, TypeOK
  <2>4. QED
    BY <2>2, <2>3, Zenon DEF QuotaInv, elapsed
<1>6. QED
  BY <1>1, <1>2, <1>3, <1>4, <1>5, Zenon DEF Process

\* On one CPU, a process is charged at most its quota between two openings of a
\* window, also when ticks wraps and whatever values setquota() is called with: at
\* most the largest quota it had meanwhile.  With two CPUs this is false: the start
\* of the window is moved without a lock.
THEOREM QuotaHolds == ASSUME NCPU = 1 PROVE Spec => []QuotaPerWindow
<1>1. QuotaInv /\ [Next]_vars => QuotaInv'
  <2> SUFFICES ASSUME QuotaInv, [Next]_vars PROVE QuotaInv'
    OBVIOUS
  <2>1. CpuInv'
    BY CpuInvNext, Zenon DEF QuotaInv
  <2>2. CASE UNCHANGED vars
    BY <2>1, <2>2, Zenon DEF vars, procvars, clock, cpuvars, history, QuotaInv, elapsed
  <2>3. CASE Next
    BY <2>1, <2>3, QuotaScheduler, QuotaProcess, Zenon DEF Next
  <2>4. QED
    BY <2>2, <2>3
<1>2. QuotaInv => QuotaPerWindow
  BY Zenon DEF QuotaInv, QuotaPerWindow
<1>3. QED
  BY QuotaInvInit, <1>1, <1>2, PTL DEF Spec
============================================================================
