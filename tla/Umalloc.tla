------------------------------ MODULE Umalloc ------------------------------
(***************************************************************************)
(* malloc() and free() of user/umalloc.c: a circular list of free blocks,  *)
(* sorted by address, that starts at the static header base.  Addresses    *)
(* and sizes are in units of a Header; base is address 0 and the heap      *)
(* grows from 1 by sbrk().  A block is known by the address of its header. *)
(***************************************************************************)
EXTENDS Integers, FiniteSets

CONSTANTS Limit,      \* highest address sbrk() gives
          MinCore,    \* units morecore() asks for at least (4096)
          Requests    \* sizes malloc() is called with, in units with the header

VARIABLES size, ptr,  \* the two fields of the header at each address
          freep,      \* -1 before the first malloc()
          brk,        \* first address beyond the heap
          used,       \* history: blocks handed out, with the size asked for
          owned,      \* history: units malloc() got from sbrk()
          failed      \* history: what the last call asked for in vain, or 0

vars == <<size, ptr, freep, brk, used, owned, failed>>

base == 0
Addr == 0..Limit
Null == 0 - 1

Init ==
  /\ size = [a \in Addr |-> 0]
  /\ ptr = [a \in Addr |-> 0]
  /\ freep = Null
  /\ brk = 1
  /\ used = [a \in {} |-> 0]
  /\ owned = {}
  /\ failed = 0

\* What malloc() and free() work on.
heap == [size |-> size, ptr |-> ptr, freep |-> freep, brk |-> brk]

with(x, F(_)) == F(x)

---------------------------------------------------------------------------
\* free(): the loop that finds the block p after which bp belongs.
RECURSIVE place(_, _, _)
place(h, bp, p) ==
  IF \/ bp > p /\ bp < h.ptr[p]
     \/ p >= h.ptr[p] /\ (bp > p \/ bp < h.ptr[p])
  THEN p
  ELSE place(h, bp, h.ptr[p])

\* Join with the block above, or point at it.
joinUpper(h, bp, p) ==
  IF bp + h.size[bp] = h.ptr[p]
  THEN [h EXCEPT !.size[bp] = @ + h.size[h.ptr[p]], !.ptr[bp] = h.ptr[h.ptr[p]]]
  ELSE [h EXCEPT !.ptr[bp] = h.ptr[p]]

\* Mutant: the block below is not joined.
joinLower_never(h, bp, p) == [h EXCEPT !.ptr[p] = bp, !.freep = p]

\* Join with the block below, or let it point here.
joinLower(h, bp, p) ==
  IF p + h.size[p] = bp
  THEN [h EXCEPT !.size[p] = @ + h.size[bp], !.ptr[p] = h.ptr[bp], !.freep = p]
  ELSE [h EXCEPT !.ptr[p] = bp, !.freep = p]

release(h, bp) ==
  with(place(h, bp, h.freep), LAMBDA p : joinLower(joinUpper(h, bp, p), bp, p))

\* morecore(): sbrk() fails, or a block at the old end of the heap is freed.
units(nu) == IF nu < MinCore THEN MinCore ELSE nu

morecore(h, nu) ==
  release([h EXCEPT !.size[h.brk] = units(nu), !.brk = @ + units(nu)], h.brk)

canGrow(h, nu) == h.brk + units(nu) - 1 <= Limit

\* A block that is large enough: all of it, or its tail end.
take(h, nu, prevp, p) ==
  IF h.size[p] = nu
  THEN [h |-> [h EXCEPT !.ptr[prevp] = h.ptr[p], !.freep = prevp], got |-> p]
  ELSE [h |-> [h EXCEPT !.size[p] = @ - nu, !.size[p + h.size[p] - nu] = nu, !.freep = prevp],
        got |-> p + h.size[p] - nu]

\* The search is back at its start.
wentRound(h, p) == p = h.freep

\* The loop of malloc().
RECURSIVE search(_, _, _, _)
search(h, nu, prevp, p) ==
  IF h.size[p] >= nu THEN take(h, nu, prevp, p)
  ELSE IF ~ wentRound(h, p) THEN search(h, nu, p, h.ptr[p])
  ELSE IF ~ canGrow(h, nu) THEN [h |-> h, got |-> Null]
  ELSE with(morecore(h, nu), LAMBDA g : search(g, nu, g.freep, g.ptr[g.freep]))

started(h) ==
  IF h.freep = Null THEN [h EXCEPT !.ptr[base] = base, !.freep = base, !.size[base] = 0] ELSE h

malloc(h, nu) == with(started(h), LAMBDA g : search(g, nu, g.freep, g.ptr[g.freep]))

become(h) == size' = h.size /\ ptr' = h.ptr /\ freep' = h.freep /\ brk' = h.brk

Malloc(nu) ==
  \E r \in {malloc(heap, nu)} :
    /\ become(r.h)
    /\ owned' = owned \cup (brk..(r.h.brk - 1))
    /\ failed' = IF r.got = Null THEN nu ELSE 0
    /\ used' = IF r.got = Null THEN used
               ELSE [a \in DOMAIN used \cup {r.got} |-> IF a = r.got THEN nu ELSE used[a]]

\* free() of a block that malloc() handed out.
Free(bp) ==
  /\ bp \in DOMAIN used
  /\ become(release(heap, bp))
  /\ used' = [a \in DOMAIN used \ {bp} |-> used[a]]
  /\ failed' = 0
  /\ UNCHANGED owned

\* The program calls sbrk() itself: the heap is no longer contiguous.
Sbrk ==
  /\ brk < Limit
  /\ brk' = brk + 1
  /\ failed' = 0
  /\ UNCHANGED <<size, ptr, freep, used, owned>>

Next == (\E nu \in Requests : Malloc(nu)) \/ (\E a \in Addr : Free(a)) \/ Sbrk

Spec == Init /\ [][Next]_vars

---------------------------------------------------------------------------
(* Properties.                                                             *)

\* base and the free blocks, following the pointers from base.
onList ==
  LET nth[k \in Nat] == IF k = 0 THEN base ELSE ptr[nth[k - 1]]
  IN {nth[k] : k \in 0..Limit}

cells(a, n) == a..(a + n - 1)

\* Types; a header that was handed out keeps its size.
TypeOK ==
  /\ size \in [Addr -> Nat] /\ ptr \in [Addr -> Addr]
  /\ freep \in Addr \cup {Null}
  /\ brk \in 1..(Limit + 1)
  /\ \A a \in DOMAIN used : size[a] = used[a]

\* The blocks handed out and the free blocks never overlap, and together they
\* are all the memory malloc() ever got: nothing is handed out twice, nothing
\* leaks, whatever the order of the calls and wherever the heap grows.
HeapTiled ==
  LET blocks == {<<a, used[a]>> : a \in DOMAIN used}
                \cup {<<a, size[a]>> : a \in onList \ {base}}
  IN /\ \A x, y \in blocks : x # y => cells(x[1], x[2]) \cap cells(y[1], y[2]) = {}
     /\ owned = UNION {cells(x[1], x[2]) : x \in blocks}

\* The free list is one ring through base and freep in the order of addresses,
\* and no two free blocks touch, so that free memory is found again as large as
\* it is.
SortedAndJoined ==
  freep # Null =>
    /\ freep \in onList
    /\ \A a \in onList : ptr[a] = base \/ ptr[a] > a
    /\ \A a, b \in onList \ {base} : a + size[a] # b

\* malloc() returns 0 only when no free block is large enough.
FailsOnlyWhenFull ==
  \A a \in onList : failed > 0 => size[a] < failed

\* The heap is sound after any sequence of calls, and malloc() finds what is free.
HeapSound == TypeOK /\ HeapTiled /\ SortedAndJoined /\ FailsOnlyWhenFull
=============================================================================
