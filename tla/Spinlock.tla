------------------------------ MODULE Spinlock ------------------------------
(***************************************************************************)
(* kernel/spinlock.c on several CPUs, with what makes it delicate: timer   *)
(* interrupts that take locks on the CPU they interrupt, and kernel        *)
(* threads that switch CPUs while a lock is held across swtch() (yield(),  *)
(* sleep(), sched(), forkret() and scheduler() of kernel/proc.c).          *)
(*                                                                         *)
(* A context, a kernel thread or a CPU's scheduler(), has the sequence of  *)
(* elementary steps it still has to do; an interrupt puts its own in       *)
(* front.  Each CPU executes one context.                                  *)
(***************************************************************************)
EXTENDS Integers, Sequences

CONSTANTS CPU, Threads,
          Cpu0,       \* the CPU whose cpuid() is 0
          None

ASSUME SpinAssumption ==
  Cpu0 \in CPU /\ None \notin CPU /\ CPU \cap Threads = {} /\ "tickslock" \notin Threads

\* p->lock of every thread, and tickslock, which threads and clockintr() share.
Lock == Threads \cup {"tickslock"}

VARIABLES
  locked, owner,       \* struct spinlock
  cur,                 \* the context each CPU executes
  sie, noff, intena,   \* interrupt enable bit and struct cpu
  todo,                \* what each context has left to do
  runnable,            \* is the thread's state RUNNABLE
  panicked,
  held                 \* history: the locks each CPU has taken and not given back

vars == <<locked, owner, cur, sie, noff, intena, todo, runnable, panicked, held>>

---------------------------------------------------------------------------
(* The steps of each function.                                             *)

op(name, arg) == <<[op |-> name, arg |-> arg]>>

push_off == op("intr_get", None)

acquire(l) == push_off \o op("swap", l) \o op("setcpu", l)

release(l) == op("clearcpu", l) \o op("unlock", l) \o op("pop_off", None)

yield(t) == acquire(t) \o op("sched", t) \o release(t)

\* sleep(chan, lk) of a thread that holds lk and is woken at once; its two
\* locked sections overlap.
sleep(t, lk) == acquire(t) \o release(lk) \o op("sched", t) \o release(t) \o acquire(lk)

\* The loop of wakeup(), with the threads S still to come.
wakeup(S) == op("wakeup", S)

\* clockintr() on the CPU that counts the ticks: wakeup() of all but the caller.
clockintr(x) == acquire("tickslock") \o wakeup(Threads \ {x}) \o release("tickslock")

\* kerneltrap() for a timer interrupt, taken on CPU c by a thread or by
\* scheduler().
kerneltrap(c, x) ==
  (IF c = Cpu0 THEN clockintr(x) ELSE <<>>)
  \o (IF x \in Threads THEN yield(x) ELSE <<>>)
  \o op("sret", None)

\* A round of scheduler() that runs t.  Its scans of proc[] take and release
\* the same locks without a switch, as this one does when t is not RUNNABLE.
round(t) == op("intr_on", None) \o op("intr_off", None) \o acquire(t) \o op("swtch", t) \o release(t)

\* killed() of the thread itself.
killed(t) == acquire(t) \o release(t)

\* What a thread does in the kernel with interrupts on: sys_pause(), which
\* sleeps with the lock that clockintr() takes; one turn of its loop.
pause(t) == acquire("tickslock") \o killed(t) \o sleep(t, "tickslock") \o release("tickslock")

\* forkret(): the first thing a new thread does; usertrap() enables interrupts.
forkret(t) == release(t) \o op("intr_on", None)

Init ==
  /\ locked = [l \in Lock |-> 0]
  /\ owner = [l \in Lock |-> None]
  /\ cur = [c \in CPU |-> c]
  /\ sie = [c \in CPU |-> 0]
  /\ noff = [c \in CPU |-> 0]
  /\ intena = [c \in CPU |-> 0]
  /\ todo = [x \in CPU \cup Threads |-> IF x \in Threads THEN forkret(x) ELSE <<>>]
  /\ runnable = [t \in Threads |-> TRUE]
  /\ panicked = FALSE
  /\ held = [c \in CPU |-> {}]

---------------------------------------------------------------------------
(* Steps of the context on CPU c.                                          *)

running(c) == cur[c]

at(c, name) ==
  /\ ~ panicked
  /\ todo[running(c)] # <<>>
  /\ Head(todo[running(c)]).op = name

arg(c) == Head(todo[running(c)]).arg

finish(c) == todo' = [todo EXCEPT ![running(c)] = Tail(@)]

\* The step is over, and another takes its place.
become(c, name, a) == todo' = [todo EXCEPT ![running(c)] = op(name, a) \o Tail(@)]

panic == panicked' = TRUE

holding(c, l) == locked[l] = 1 /\ owner[l] = c

\* push_off(): old = intr_get(), after which an interrupt may still come ...
IntrGet(c) ==
  /\ at(c, "intr_get") /\ sie[c] = 1
  /\ become(c, "count", 1)
  /\ UNCHANGED <<locked, owner, cur, sie, noff, intena, runnable, panicked, held>>

\* What intr_get() returned; with interrupts off nothing comes between.
old(c) == IF at(c, "count") THEN arg(c) ELSE 0

\* Only the outermost push_off() records whether interrupts were on.
intenaAfter(c) == IF noff[c] = 0 THEN old(c) ELSE intena[c]

\* ... then intr_off() and the rest.
IntrOffCount(c) ==
  /\ at(c, "count") \/ (at(c, "intr_get") /\ sie[c] = 0)
  /\ sie' = [sie EXCEPT ![c] = 0]
  /\ intena' = [intena EXCEPT ![c] = intenaAfter(c)]
  /\ noff' = [noff EXCEPT ![c] = @ + 1]
  /\ finish(c)
  /\ UNCHANGED <<locked, owner, cur, runnable, panicked, held>>

\* Mutant: an inner pop_off() turns interrupts on too.
turnsOn_inner(c) == intena[c] = 1

\* The outermost pop_off() turns interrupts on if they were on before.
turnsOn(c) == noff[c] = 1 /\ intena[c] = 1

\* pop_off().
PopOff(c) ==
  /\ at(c, "pop_off")
  /\ IF sie[c] = 1 \/ noff[c] < 1
     THEN panic /\ UNCHANGED <<sie, noff, todo>>
     ELSE /\ noff' = [noff EXCEPT ![c] = @ - 1]
          /\ sie' = [sie EXCEPT ![c] = IF turnsOn(c) THEN 1 ELSE @]
          /\ finish(c)
          /\ UNCHANGED panicked
  /\ UNCHANGED <<locked, owner, cur, intena, runnable, held>>

\* The atomic swap returned 0.
isFree(l) == locked[l] = 0

\* acquire(): the test for a second acquire by the same CPU, whose outcome no
\* other CPU can change, and the atomic swap, repeated until the lock is free ...
Swap(c) ==
  /\ at(c, "swap")
  /\ IF holding(c, arg(c))
     THEN panic /\ UNCHANGED <<locked, held, todo>>
     ELSE /\ isFree(arg(c))
          /\ locked' = [locked EXCEPT ![arg(c)] = 1]
          /\ held' = [held EXCEPT ![c] = @ \cup {arg(c)}]
          /\ finish(c)
          /\ UNCHANGED panicked
  /\ UNCHANGED <<owner, cur, sie, noff, intena, runnable>>

\* ... and lk->cpu = mycpu().
SetCpu(c) ==
  /\ at(c, "setcpu")
  /\ owner' = [owner EXCEPT ![arg(c)] = c]
  /\ finish(c)
  /\ UNCHANGED <<locked, cur, sie, noff, intena, runnable, panicked, held>>

\* release(): the test, lk->cpu = 0 ...
ClearCpu(c) ==
  /\ at(c, "clearcpu")
  /\ IF holding(c, arg(c))
     THEN owner' = [owner EXCEPT ![arg(c)] = None] /\ finish(c) /\ UNCHANGED panicked
     ELSE panic /\ UNCHANGED <<owner, todo>>
  /\ UNCHANGED <<locked, cur, sie, noff, intena, runnable, held>>

\* ... and the store that frees the lock.
Unlock(c) ==
  /\ at(c, "unlock")
  /\ locked' = [locked EXCEPT ![arg(c)] = 0]
  /\ held' = [held EXCEPT ![c] = @ \ {arg(c)}]
  /\ finish(c)
  /\ UNCHANGED <<owner, cur, sie, noff, intena, runnable, panicked>>

\* Mutant: a thread that comes back keeps the intena of whoever ran before.
intenaBack_cpu(c) == intena[c]

\* mycpu()->intena = intena after swtch().
intenaBack(c) == arg(c)

\* sched(): the tests, then swtch() to the scheduler of this CPU.
Sched(c) ==
  LET t == arg(c) IN
  /\ at(c, "sched")
  /\ IF ~ holding(c, t) \/ noff[c] # 1 \/ sie[c] = 1
     THEN panic /\ UNCHANGED <<todo, cur, runnable>>
     ELSE /\ become(c, "resume", intena[c])
          /\ cur' = [cur EXCEPT ![c] = c]
          /\ runnable' = [runnable EXCEPT ![t] = TRUE]
          /\ UNCHANGED panicked
  /\ UNCHANGED <<locked, owner, sie, noff, intena, held>>

\* The end of sched(), on whatever CPU the thread is now.
Resume(c) ==
  /\ at(c, "resume")
  /\ intena' = [intena EXCEPT ![c] = intenaBack(c)]
  /\ finish(c)
  /\ UNCHANGED <<locked, owner, cur, sie, noff, runnable, panicked, held>>

\* scheduler(): the state is tested under p->lock, and swtch() to the thread.
Swtch(c) ==
  LET t == arg(c) IN
  /\ at(c, "swtch")
  /\ IF runnable[t]
     THEN cur' = [cur EXCEPT ![c] = t] /\ runnable' = [runnable EXCEPT ![t] = FALSE]
     ELSE UNCHANGED <<cur, runnable>>
  /\ finish(c)
  /\ UNCHANGED <<locked, owner, sie, noff, intena, panicked, held>>

\* wakeup() takes and releases p->lock of each thread in turn.
WakeNext(c) ==
  LET S == arg(c)
      t == CHOOSE t \in S : TRUE
  IN
  /\ at(c, "wakeup")
  /\ IF S = {}
     THEN finish(c)
     ELSE todo' = [todo EXCEPT ![running(c)] = acquire(t) \o release(t) \o wakeup(S \ {t}) \o Tail(@)]
  /\ UNCHANGED <<locked, owner, cur, sie, noff, intena, runnable, panicked, held>>

\* intr_on() and intr_off(); sret restores the bit the interrupt saved.
SetIntr(c) ==
  /\ at(c, "intr_on") \/ at(c, "intr_off") \/ at(c, "sret")
  /\ sie' = [sie EXCEPT ![c] = IF at(c, "intr_off") THEN 0 ELSE 1]
  /\ finish(c)
  /\ UNCHANGED <<locked, owner, cur, noff, intena, runnable, panicked, held>>

\* A timer interrupt between any two steps.
Timer(c) ==
  /\ ~ panicked /\ sie[c] = 1
  /\ sie' = [sie EXCEPT ![c] = 0]
  /\ todo' = [todo EXCEPT ![running(c)] = kerneltrap(c, running(c)) \o @]
  /\ UNCHANGED <<locked, owner, cur, noff, intena, runnable, panicked, held>>

\* A thread calls pause() again, a scheduler() begins its next round.
Call(c) ==
  /\ ~ panicked /\ todo[running(c)] = <<>>
  /\ \E s \in IF running(c) \in Threads THEN {pause(running(c))} ELSE {round(t) : t \in Threads} :
       todo' = [todo EXCEPT ![running(c)] = s]
  /\ UNCHANGED <<locked, owner, cur, sie, noff, intena, runnable, panicked, held>>

Next ==
  \E c \in CPU :
    \/ IntrGet(c) \/ IntrOffCount(c) \/ PopOff(c)
    \/ Swap(c) \/ SetCpu(c) \/ ClearCpu(c) \/ Unlock(c)
    \/ Sched(c) \/ Resume(c) \/ Swtch(c) \/ WakeNext(c) \/ SetIntr(c)
    \/ Timer(c) \/ Call(c)

Spec == Init /\ [][Next]_vars

---------------------------------------------------------------------------
(* Properties.                                                             *)

\* Types of the locks, the CPUs and the contexts.
TypeOK ==
  /\ locked \in [Lock -> {0, 1}]
  /\ owner \in [Lock -> CPU \cup {None}]
  /\ \A c \in CPU : cur[c] \in Threads \cup {c}
  /\ sie \in [CPU -> {0, 1}] /\ intena \in [CPU -> {0, 1}]
  /\ noff \in [CPU -> 0..3]
  /\ runnable \in [Threads -> BOOLEAN]
  /\ held \in [CPU -> SUBSET Lock]

\* No lock is held by two CPUs, and holding() is true for the right one only:
\* a CPU that owns a lock holds it.
OneHolder ==
  /\ \A c, d \in CPU : c # d => held[c] \cap held[d] = {}
  /\ \A l \in Lock : owner[l] # None => l \in held[owner[l]]

\* A CPU that holds a lock has interrupts off, so that no handler can spin for a
\* lock of the CPU it interrupted; noff counts at least the locks it holds.
NoInterruptWhileHolding ==
  \A c \in CPU : held[c] # {} => sie[c] = 0 /\ noff[c] > 0

\* A thread that called acquire() and release() in matched pairs with interrupts
\* on has them on afterwards, also when it slept, was preempted in between or
\* came back on another CPU (proc.c:613, "intena is a property of this kernel
\* thread, not this CPU").
InterruptsRestored ==
  \A c \in CPU :
    cur[c] \in Threads /\ todo[cur[c]] = <<>> => sie[c] = 1 /\ noff[c] = 0

\* None of the panics of acquire(), release(), pop_off() and sched() is reached.
NoPanic == ~ panicked

\* Locks exclude, and they exclude the handlers of the own CPU too: no panic and
\* no handler that spins for what it interrupted.
LocksExclude == TypeOK /\ OneHolder /\ NoInterruptWhileHolding /\ NoPanic
=============================================================================
