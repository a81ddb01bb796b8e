--------------------------------- MODULE Vm ---------------------------------
(***************************************************************************)
(* User memory: the page allocator of kernel/kalloc.c, the page tables of  *)
(* kernel/vm.c and what fork, exit, wait, exec, sbrk, page faults and the  *)
(* copies between kernel and user do with them, on a machine that runs out *)
(* of pages at any kalloc() of any of them.                                *)
(*                                                                         *)
(* A process works on its own page table and shares only the free pages,   *)
(* so that each operation is one step: what another process could change   *)
(* meanwhile is the kalloc() at which the memory runs out, and the model   *)
(* has every such point.  A page table has three levels, like the Sv39     *)
(* ones of the code, with two entries per node instead of 512: eight       *)
(* virtual pages, the last two being the trapframe and the trampoline.     *)
(***************************************************************************)
EXTENDS Integers, Sequences, SequencesExt, FiniteSets, FiniteSetsExt

CONSTANTS NPROCS, NPAGES,  \* process slots, physical pages
          PGSIZE,          \* bytes of a page
          Progs,           \* programs: sequences of [vaddr, memsz, w]
          Incs,            \* arguments of sbrk()
          MaxCalls         \* bound: system calls and faults

\* What is assumed of the constants.
VmAssumption ==
  /\ {NPROCS, NPAGES, PGSIZE} \subseteq Nat \ {0} /\ MaxCalls \in Nat
  /\ Incs \subseteq Int

Procs == 1..NPROCS
Pages == 1..NPAGES
VPages == 0..7
TRAMPOLINE == 7
TRAPFRAME == 6
TrampolinePa == NPAGES + 1 \* a page of the kernel's text
MaxSz == 2 ^ 8             \* uint64, far above the eight pages
USERSTACK == 1

\* The nodes of a page table: the root, those of level 1, those of level 0.
Nodes == 0..6
node1(va) == 1 + va \div 4
node0(va) == 3 + va \div 2

VARIABLES free,    \* how often each page is on kmem.freelist
          proc,    \* the process table
          ret,     \* the last operation and its result
          ncalls   \* operations so far

vars == <<free, proc, ret, ncalls>>

NoLeaf == [pa |-> 0, u |-> FALSE, w |-> FALSE]
NoPt == [node |-> [n \in Nodes |-> 0], leaf |-> [va \in VPages |-> NoLeaf]]
NoProc == [state |-> "unused", tf |-> 0, pt |-> NoPt, sz |-> 0, lazy |-> {}]

PGROUNDUP(sz) == (sz + PGSIZE - 1) \div PGSIZE     \* in pages

---------------------------------------------------------------------------
(* kalloc.c and vm.c.  The functions work on a record: the free pages, the *)
(* page table in hand, a page, a size and the result.                      *)

Work(f, pt) == [free |-> f, node |-> pt.node, leaf |-> pt.leaf, pg |-> 0, sz |-> 0, r |-> "ok"]
ptOf(st) == [node |-> st.node, leaf |-> st.leaf]
result(st, r) == [st EXCEPT !.r = r]
andThen(st, F(_)) == IF st.r = "ok" THEN F(st) ELSE st
orElse(st, F(_)) == IF st.r = "fail" THEN F(st) ELSE st

kalloc(st) ==
  LET some == {pg \in Pages : st.free[pg] > 0} IN
  IF some = {} THEN result(st, "fail") ELSE [st EXCEPT !.pg = Min(some), !.free[Min(some)] = @ - 1]

kfree(st, pg) == [st EXCEPT !.free[pg] = @ + 1]

\* walk() with alloc: the missing nodes on the way to va.
walk(st, va) ==
  LET step(s, n) == IF s.node[n] # 0 THEN s ELSE andThen(kalloc(s), LAMBDA k : [k EXCEPT !.node[n] = k.pg])
  IN  andThen(step(st, node1(va)), LAMBDA s : step(s, node0(va)))

mappages(st, va, pa, u, w) ==
  andThen(walk(st, va), LAMBDA s :
    IF s.leaf[va].pa # 0 THEN result(s, "panic")       \* "mappages: remap"
    ELSE [s EXCEPT !.leaf[va] = [pa |-> pa, u |-> u, w |-> w]])

\* Pages lo .. hi-1; those that are not mapped are passed over.
uvmunmap(st, lo, hi, do_free) ==
  LET gone == {va \in VPages : va >= lo /\ va < hi /\ st.leaf[va].pa # 0} IN
  [st EXCEPT !.leaf = [va \in VPages |-> IF va \in gone THEN NoLeaf ELSE @[va]],
             !.free = [pg \in Pages |-> @[pg] + (IF do_free THEN Cardinality({va \in gone : st.leaf[va].pa = pg}) ELSE 0)]]

\* Mutant: the page in hand is not freed when it cannot be mapped.
mapnew_leaks(st, va, w) == andThen(kalloc(st), LAMBDA k : mappages(k, va, k.pg, TRUE, w))

\* A new page at va: kalloc(), mappages(), kfree() if that failed.
mapnew(st, va, w) ==
  andThen(kalloc(st), LAMBDA k : orElse(mappages(k, va, k.pg, TRUE, w), LAMBDA m : kfree(m, k.pg)))

\* New pages at the virtual pages vas, in order; if one fails, those before it are
\* unmapped from lo on.  w says which are writable.
mapall(st, vas, lo, w) ==
  LET step(s, va) == andThen(s, LAMBDA t : orElse(mapnew(t, va, w[va]), LAMBDA m : uvmunmap(m, lo, va, TRUE)))
  IN  FoldLeft(step, st, vas)

range(lo, hi) == [k \in 1..Max({0, hi - lo}) |-> lo + k - 1]

uvmalloc(st, oldsz, newsz, w) ==
  IF newsz < oldsz THEN st
  ELSE mapall(st, range(PGROUNDUP(oldsz), PGROUNDUP(newsz)), PGROUNDUP(oldsz), [va \in VPages |-> w])

uvmdealloc(st, oldsz, newsz) ==
  IF newsz >= oldsz THEN st ELSE uvmunmap(st, PGROUNDUP(newsz), PGROUNDUP(oldsz), TRUE)

\* Copies of the pages of old that exist; the flags are copied too.
uvmcopy(st, old, sz) ==
  andThen(mapall(st, SelectSeq(range(0, PGROUNDUP(sz)), LAMBDA va : old.leaf[va].pa # 0), 0, [va \in VPages |-> old.leaf[va].w]),
          LAMBDA s : [s EXCEPT !.leaf = [va \in VPages |->
                                          IF va < PGROUNDUP(sz) THEN [@[va] EXCEPT !.u = old.leaf[va].u] ELSE @[va]]])

freewalk(st) ==
  IF \E va \in VPages : st.leaf[va].pa # 0 THEN result(st, "panic")   \* "freewalk: leaf"
  ELSE [st EXCEPT !.node = NoPt.node,
                  !.free = [pg \in Pages |-> @[pg] + Cardinality({n \in Nodes : st.node[n] = pg})]]

uvmfree(st, sz) == freewalk(uvmunmap(st, 0, PGROUNDUP(sz), TRUE))

\* A page of lazily allocated memory, or nothing.
vmfault(st, addr, sz) ==
  IF addr >= sz \/ st.leaf[addr \div PGSIZE].pa # 0 THEN result(st, "fail") ELSE mapnew(st, addr \div PGSIZE, TRUE)

\* copyin() and copyout() of len bytes at addr, page by page.
copy(st, sz, addr, len, out) ==
  LET page(s, va) ==
        andThen(IF s.r # "ok" \/ (va \in VPages /\ s.leaf[va].u) THEN s ELSE vmfault(s, va * PGSIZE, sz),
                LAMBDA f : IF out /\ ~ f.leaf[va].w THEN result(f, "fail") ELSE f)
  IN  FoldLeft(page, st, range(addr \div PGSIZE, PGROUNDUP(addr + len)))

---------------------------------------------------------------------------
(* Page tables of processes, and exec.                                     *)

proc_pagetable(f, tf) ==
  andThen(kalloc(Work(f, NoPt)), LAMBDA c :
    andThen(orElse(mappages([c EXCEPT !.node[0] = c.pg], TRAMPOLINE, TrampolinePa, FALSE, FALSE),
                   LAMBDA t : uvmfree(t, 0)),
            LAMBDA t : orElse(mappages(t, TRAPFRAME, tf, FALSE, TRUE),
                              LAMBDA x : uvmfree(uvmunmap(x, TRAMPOLINE, TRAMPOLINE + 1, FALSE), 0))))

proc_freepagetable(st, sz) ==
  uvmfree(uvmunmap(uvmunmap(st, TRAMPOLINE, TRAMPOLINE + 1, FALSE), TRAPFRAME, TRAPFRAME + 1, FALSE), sz)

\* kexec(), up to the commit: the new image.  fault = k: segment k cannot be read;
\* one more than their number: the arguments do not fit on the stack.
exec_image(f, tf, prog, fault) ==
  LET end(k) == prog[k].vaddr + prog[k].memsz
      segment(s, k) ==
        andThen(IF s.r # "ok" THEN s ELSE uvmalloc(s, s.sz, end(k), prog[k].w), LAMBDA u :
          IF Max({u.sz, end(k)}) = 0 THEN result(u, "fail")
          ELSE [u EXCEPT !.sz = Max({@, end(k)}), !.r = IF fault = k THEN "fail" ELSE "ok"])
      \* the next page boundary, a guard page and the stack
      round(s) == [s EXCEPT !.sz = PGROUNDUP(@) * PGSIZE]
      guard(s) == [s EXCEPT !.leaf[s.sz \div PGSIZE].u = FALSE, !.sz = @ + (USERSTACK + 1) * PGSIZE,
                            !.r = IF fault = Len(prog) + 1 THEN "fail" ELSE "ok"]
      stack(s) == andThen(uvmalloc(s, s.sz, s.sz + (USERSTACK + 1) * PGSIZE, TRUE), guard)
  IN  andThen(FoldLeft(segment, proc_pagetable(f, tf), range(1, Len(prog) + 1)), LAMBDA s : stack(round(s)))

\* Mutant: the image is replaced once its stack exists, before the arguments are copied.
exec_commits_early(st) == \E va \in VPages : st.leaf[va].pa # 0 /\ st.leaf[va].w /\ va < TRAPFRAME /\ ~ st.leaf[va].u

\* The outcome that replaces the image.
exec_commits(st) == st.r = "ok"

\* bad: free the new page table.
exec_bad(st) == orElse(st, LAMBDA s : proc_freepagetable(s, s.sz))

\* allocproc(): a trapframe and a page table, or neither.
allocproc(f) ==
  andThen(kalloc(Work(f, NoPt)), LAMBDA t :
    orElse([proc_pagetable(t.free, t.pg) EXCEPT !.pg = t.pg], LAMBDA a : kfree(a, t.pg)))

\* freeproc()
freeproc(f, p) == proc_freepagetable(Work([f EXCEPT ![p.tf] = @ + 1], p.pt), p.sz)

\* userinit(), and the kexec("/init") of its first run.
Init ==
  LET a == allocproc([pg \in Pages |-> 1])
      x == exec_image(a.free, a.pg, CHOOSE prog \in Progs : \A q \in Progs : Len(prog) <= Len(q), 0)
  IN
  /\ free = proc_freepagetable(Work(x.free, ptOf(a)), 0).free
  /\ proc = [p \in Procs |-> IF p = 1 THEN [state |-> "run", tf |-> a.pg, pt |-> ptOf(x), sz |-> x.sz, lazy |-> {}]
                             ELSE NoProc]
  /\ ret = [op |-> "boot", r |-> "ok"]
  /\ ncalls = 0

---------------------------------------------------------------------------
(* The operations.                                                         *)

running(p) == proc[p].state = "run"

\* The operation op ends with result r.
Ends(op, r) ==
  /\ ret.r # "panic" /\ ncalls < MaxCalls
  /\ ncalls' = ncalls + 1
  /\ ret' = [op |-> op, r |-> r]

\* The memory of the child, in kfork(); undone if it cannot be copied.
fork_image(f, old, sz) ==
  andThen(allocproc(f), LAMBDA a :
    orElse([uvmcopy(a, old, sz) EXCEPT !.pg = a.pg], LAMBDA c : proc_freepagetable(kfree(c, a.pg), 0)))

kfork(p) ==
  LET unused == {x \in Procs : proc[x].state = "unused"} IN
  /\ running(p) /\ unused # {}
  /\ \E c \in {fork_image(free, proc[p].pt, proc[p].sz)} :
       /\ Ends("fork", c.r) /\ free' = c.free
       /\ proc' = IF c.r = "ok" THEN [proc EXCEPT ![Min(unused)] = [proc[p] EXCEPT !.tf = c.pg, !.pt = ptOf(c)]] ELSE proc

kexit(p) ==
  /\ running(p) /\ p # 1
  /\ Ends("exit", "ok")
  /\ proc' = [proc EXCEPT ![p].state = "zombie"]
  /\ UNCHANGED free

\* kwait() finds the zombie q; its status goes to addr, unless that is 0.
kwait(p, q, addr) ==
  /\ running(p) /\ proc[q].state = "zombie"
  /\ \E c \in {IF addr = 0 THEN Work(free, proc[p].pt)
              ELSE copy(Work(free, proc[p].pt), proc[p].sz, addr, 1, TRUE)} :
     \E z \in {andThen(c, LAMBDA s : freeproc(s.free, proc[q]))} :
       /\ Ends("wait", z.r) /\ free' = z.free
       /\ proc' = [proc EXCEPT ![p].pt = ptOf(c), ![q] = IF c.r = "ok" THEN NoProc ELSE @]

kexec(p, prog, fault) ==
  /\ running(p)
  /\ \E x \in {exec_image(free, proc[p].tf, prog, fault)} :
       IF exec_commits(x)
       THEN \E old \in {proc_freepagetable(Work(x.free, proc[p].pt), proc[p].sz)} :
              /\ Ends("exec", IF old.r = "panic" THEN "panic" ELSE x.r) /\ free' = old.free
              /\ proc' = [proc EXCEPT ![p] = [@ EXCEPT !.pt = ptOf(x), !.sz = x.sz, !.lazy = {}]]
       ELSE \E bad \in {exec_bad(x)} :
              Ends("exec", bad.r) /\ free' = bad.free /\ UNCHANGED proc

toobig(sz) == sz > TRAPFRAME * PGSIZE

\* growproc() of n > 0 bytes has to report failure, or sets the size.
grown(st) == st.r = "ok"

\* sys_sbrk(), eager and growing.
sbrk_grow(p, n) ==
  LET sz == proc[p].sz IN
  /\ running(p) /\ n > 0
  /\ IF toobig(sz + n) THEN Ends("sbrk", "fail") /\ UNCHANGED <<free, proc>>
     ELSE \E u \in {uvmalloc(Work(free, proc[p].pt), sz, sz + n, TRUE)} :
            /\ Ends("sbrk", u.r) /\ free' = u.free
            /\ proc' = [proc EXCEPT ![p].pt = ptOf(u), ![p].sz = IF grown(u) THEN sz + n ELSE @]

\* sys_sbrk() of a negative number: the sum is a uint64.
sbrk_shrink(p, n) ==
  LET sz == proc[p].sz
      newsz == (sz + n) % MaxSz
      u == uvmdealloc(Work(free, proc[p].pt), sz, newsz)
  IN
  /\ running(p) /\ n < 0
  /\ Ends("sbrk", "ok") /\ free' = u.free
  /\ proc' = [proc EXCEPT ![p] = [@ EXCEPT !.pt = ptOf(u), !.sz = Min({sz, newsz}),
                                           !.lazy = {va \in @ : va < PGROUNDUP(Min({sz, newsz}))}]]

\* sys_sbrk() with SBRK_LAZY: only the size grows.
sbrk_lazy(p, n) ==
  LET sz == proc[p].sz IN
  /\ running(p) /\ n > 0
  /\ IF toobig(sz + n) THEN Ends("sbrk", "fail") /\ UNCHANGED <<free, proc>>
     ELSE /\ Ends("sbrk", "ok")
          /\ proc' = [proc EXCEPT ![p].sz = @ + n, ![p].lazy = @ \cup (PGROUNDUP(sz)..(PGROUNDUP(sz + n) - 1))]
          /\ UNCHANGED free

\* usertrap() on a page fault at addr: map the page, or kill the process.
page_fault(p, addr) ==
  /\ running(p) /\ ~ proc[p].pt.leaf[addr \div PGSIZE].u
  /\ \E f \in {vmfault(Work(free, proc[p].pt), addr, proc[p].sz)} :
       /\ f.r = "fail" => p # 1                       \* "init exiting"
       /\ Ends("fault", f.r) /\ free' = f.free
       /\ proc' = [proc EXCEPT ![p].pt = ptOf(f), ![p].state = IF f.r = "fail" THEN "zombie" ELSE @]

\* A system call copies two pages' worth of bytes in or out.
sys_copy(p, addr, out) ==
  /\ running(p)
  /\ \E c \in {copy(Work(free, proc[p].pt), proc[p].sz, addr, 2 * PGSIZE, out)} :
       /\ Ends("copy", c.r) /\ free' = c.free
       /\ proc' = [proc EXCEPT ![p].pt = ptOf(c)]

\* The processes may make no more calls.
Rest == UNCHANGED vars

Next ==
  \/ Rest
  \/ \E p \in Procs :
       \/ kfork(p) \/ kexit(p)
       \/ \E q \in Procs, addr \in {0, 4 * PGSIZE} : kwait(p, q, addr)
       \/ \E prog \in Progs : \E fault \in 0..(Len(prog) + 1) : kexec(p, prog, fault)
       \/ \E n \in Incs : sbrk_grow(p, n) \/ sbrk_shrink(p, n) \/ sbrk_lazy(p, n)
       \/ \E va \in VPages : page_fault(p, va * PGSIZE)
       \/ \E va \in 0..TRAPFRAME, out \in BOOLEAN : sys_copy(p, va * PGSIZE, out)

Spec == Init /\ [][Next]_vars

---------------------------------------------------------------------------
(* Properties.                                                             *)

\* Types of the page tables, the processes and the free list.
TypeOK ==
  /\ free \in [Pages -> Nat]
  /\ \A p \in Procs : /\ proc[p].state \in {"unused", "run", "zombie"}
                      /\ proc[p].sz \in 0..(TRAPFRAME * PGSIZE)
                      /\ proc[p].pt.node \in [Nodes -> 0..NPAGES]

\* Every page is in exactly one place: on the free list, a node of a page table, a page
\* of user memory or a trapframe.  No path of fork, exec, sbrk, wait or a fault, with
\* the memory running out at any kalloc(), leaks a page, frees one twice or gives it
\* to two processes.
PagesOwnedOnce ==
  LET uses(pg) ==
        MapThenSumSet(LAMBDA p :
            Cardinality({n \in Nodes : proc[p].pt.node[n] = pg})
            + Cardinality({va \in VPages : proc[p].pt.leaf[va].pa = pg /\ va # TRAPFRAME})
            + (IF proc[p].tf = pg THEN 1 ELSE 0), Procs)
  IN  ret.r # "panic" => \A pg \in Pages : free[pg] + uses(pg) = 1

\* User pages lie below the size of the process, which is what the removal of a page
\* table and the next growth rely on, and the trapframe and the trampoline stay mapped
\* and out of the user's reach.
UserPagesBelowSize ==
  \A p \in Procs : proc[p].state # "unused" =>
    /\ \A va \in VPages : proc[p].pt.leaf[va].pa # 0 => va < PGROUNDUP(proc[p].sz) \/ va >= TRAPFRAME
    /\ proc[p].pt.leaf[TRAPFRAME] = [pa |-> proc[p].tf, u |-> FALSE, w |-> TRUE]
    /\ proc[p].pt.leaf[TRAMPOLINE] = [pa |-> TrampolinePa, u |-> FALSE, w |-> FALSE]

\* Memory that the process got by exec, or by an eager sbrk() that did not fail, is
\* there: only lazily grown pages can be missing.
OnlyLazyPagesMissing ==
  \A p \in Procs : \A va \in 0..(PGROUNDUP(proc[p].sz) - 1) :
    proc[p].pt.leaf[va].pa = 0 => va \in proc[p].lazy

undone == ret'.r = "fail" /\ ret'.op \in {"fork", "exec"} => free' = free /\ proc' = proc

\* A fork() or an exec() that fails has no effect: the caller keeps its image and
\* every page is free again ("frees any allocated pages on failure", vm.c:294).
FailureUndone == [][undone]_vars

\* No "mappages: remap", no "freewalk: leaf".
NoPanic == ret.r # "panic"

\* Pages and page tables fit together, whatever failed: every page in one place,
\* user memory where the size says, only lazily grown pages missing, no panic.
MemoryConsistent ==
  TypeOK /\ PagesOwnedOnce /\ UserPagesBelowSize /\ OnlyLazyPagesMissing /\ NoPanic
=============================================================================
