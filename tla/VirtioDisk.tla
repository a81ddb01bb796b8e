----------------------------- MODULE VirtioDisk -----------------------------
(***************************************************************************)
(* The disk driver of kernel/virtio_disk.c and the device it talks to.     *)
(*                                                                         *)
(* disk.vdisk_lock is held across the steps of virtio_disk_rw() and of     *)
(* virtio_disk_intr() between which the device acts, so it is a variable.  *)
(* The device takes chains from the avail ring in order, finishes them in  *)
(* any order, reports them in the used ring, and interrupts.  Each process *)
(* transfers a buffer of its own (it holds the buffer's sleep-lock), so a  *)
(* process stands for its buffer too.  What is transferred is left to      *)
(* Bcache.                                                                 *)
(***************************************************************************)
EXTENDS Integers, Sequences, FiniteSets

CONSTANTS Procs,
          NUM,        \* descriptors, and entries of each ring
          UINT16,     \* number of values of the ring indices
          None, Intr  \* no process; the interrupt handler as holder of the lock

\* What is assumed of the constants.
VirtioAssumption ==
  /\ NUM \in Nat /\ NUM >= 3
  /\ UINT16 \in Nat /\ UINT16 >= NUM /\ UINT16 % NUM = 0
  /\ None \notin Procs /\ Intr \notin Procs /\ None # Intr
  /\ None \notin 0..(NUM - 1)

Desc == 0..(NUM - 1)

VARIABLES
  vdisk_lock,
  free,                  \* descriptors that are free
  next,                  \* desc[i].next, or None without VRING_DESC_F_NEXT
  infob, status,         \* info[i].b and info[i].status
  avail, avail_idx,      \* the avail ring, written by the driver
  used, used_idx,        \* the used ring and its index, written by the device
  seen_idx,              \* disk.used_idx: how far the driver has looked
  bdisk,                 \* b->disk of each process's buffer
  pc, idx,               \* of each process: its place, its three descriptors
  taken_idx, working,    \* device: how far it has read avail, chains in work
  irq,                   \* device: interrupt raised and not acknowledged
  raise,                 \* device: about to raise an interrupt
  panicked,
  served                 \* history: processes whose request the device has done

driver == <<vdisk_lock, free, next, infob, avail, avail_idx, seen_idx, bdisk>>
device == <<used, used_idx, taken_idx, working, irq, raise>>
vars == <<driver, device, status, pc, idx, panicked, served>>

PCs == {"idle", "rw", "sleep_desc", "ring", "sleep", "woken"}

goto(p, l) == pc' = [pc EXCEPT ![p] = l]
add(i, k) == (i + k) % UINT16

\* virtio_disk_init().
Init ==
  /\ vdisk_lock = None
  /\ free = Desc
  /\ next = [i \in Desc |-> None]
  /\ infob = [i \in Desc |-> None]
  /\ status = [i \in Desc |-> 0]
  /\ avail = [i \in Desc |-> 0] /\ avail_idx = 0
  /\ used = [i \in Desc |-> 0] /\ used_idx = 0
  /\ seen_idx = 0
  /\ bdisk = [p \in Procs |-> 0]
  /\ pc = [p \in Procs |-> "idle"]
  /\ idx = [p \in Procs |-> <<>>]
  /\ taken_idx = 0 /\ working = {}
  /\ irq = FALSE /\ raise = FALSE
  /\ panicked = FALSE
  /\ served = {}

---------------------------------------------------------------------------
(* virtio_disk_rw().                                                       *)

Call(p) ==
  /\ pc[p] = "idle"
  /\ goto(p, "rw")
  /\ UNCHANGED <<driver, device, status, idx, panicked, served>>

\* alloc_desc() takes the smallest free descriptor.
alloc_desc(i, S) == i \in S /\ \A j \in S : i <= j

\* alloc3_desc(): three times.
alloc3_desc(t) ==
  /\ alloc_desc(t[1], free)
  /\ alloc_desc(t[2], free \ {t[1]})
  /\ alloc_desc(t[3], free \ {t[1], t[2]})

\* wakeup(&disk.free[0]), with p's own step to label l.
wakeFree(p, l) ==
  pc' = [q \in Procs |-> IF q = p THEN l ELSE IF pc[q] = "sleep_desc" THEN "rw" ELSE pc[q]]

\* alloc3_desc() fails: what it took is given back by free_desc(), which wakes
\* those that wait for descriptors, and p goes to sleep on &disk.free[0].
alloc_fail(p) ==
  /\ pc[p] = "rw" /\ vdisk_lock = None /\ ~ panicked
  /\ Cardinality(free) < 3
  /\ IF free = {} THEN goto(p, "sleep_desc") ELSE wakeFree(p, "sleep_desc")
  /\ UNCHANGED <<driver, device, status, idx, panicked, served>>

\* alloc3_desc() succeeds: fill in the chain and write its head to the ring.
submit(p) ==
  /\ pc[p] = "rw" /\ vdisk_lock = None /\ ~ panicked
  /\ \E t \in free \X free \X free :
       /\ alloc3_desc(t)
       /\ idx' = [idx EXCEPT ![p] = t]
       /\ free' = free \ {t[1], t[2], t[3]}
       /\ next' = [next EXCEPT ![t[1]] = t[2], ![t[2]] = t[3], ![t[3]] = None]
       /\ status' = [status EXCEPT ![t[1]] = 255]
       /\ infob' = [infob EXCEPT ![t[1]] = p]
       /\ avail' = [avail EXCEPT ![avail_idx % NUM] = t[1]]
  /\ vdisk_lock' = p
  /\ bdisk' = [bdisk EXCEPT ![p] = 1]
  /\ served' = served \ {p}
  /\ goto(p, "ring")
  /\ UNCHANGED <<avail_idx, seen_idx, device, panicked>>

\* After the fence: avail->idx += 1, notify, and sleep on b.
notify(p) ==
  /\ pc[p] = "ring"
  /\ avail_idx' = add(avail_idx, 1)
  /\ vdisk_lock' = None
  /\ goto(p, "sleep")
  /\ UNCHANGED <<free, next, infob, avail, seen_idx, bdisk, device, status, idx, panicked, served>>

\* Mutant: only the first descriptor is given back.
chain_headOnly(i) == {i}

\* The descriptors of the chain that starts at i.
chain(i) ==
  {i} \cup (IF next[i] = None THEN {}
            ELSE {next[i]} \cup (IF next[next[i]] = None THEN {} ELSE {next[next[i]]}))

\* Mutant: b->disk is tested once, before the sleep.
finish_noRetest(p) ==
  LET c == chain(idx[p][1]) IN
  /\ pc[p] = "woken" /\ vdisk_lock = None /\ ~ panicked
  /\ infob' = [infob EXCEPT ![idx[p][1]] = None]
  /\ panicked' = (c \cap free # {})
  /\ free' = free \cup c
  /\ next' = [i \in Desc |-> IF i \in c THEN None ELSE next[i]]
  /\ idx' = [idx EXCEPT ![p] = <<>>]
  /\ wakeFree(p, "idle")
  /\ UNCHANGED <<vdisk_lock, avail, avail_idx, seen_idx, bdisk, device, status, served>>

\* Awake: sleep again while b->disk is 1, else free_chain() and return.
finish(p) ==
  LET c == chain(idx[p][1]) IN
  /\ pc[p] = "woken" /\ vdisk_lock = None /\ ~ panicked
  /\ IF bdisk[p] = 1
     THEN goto(p, "sleep") /\ UNCHANGED <<free, next, infob, idx, panicked>>
     ELSE /\ infob' = [infob EXCEPT ![idx[p][1]] = None]
          /\ panicked' = (c \cap free # {})          \* free_desc 2
          /\ free' = free \cup c
          /\ next' = [i \in Desc |-> IF i \in c THEN None ELSE next[i]]
          /\ idx' = [idx EXCEPT ![p] = <<>>]
          /\ wakeFree(p, "idle")
  /\ UNCHANGED <<vdisk_lock, avail, avail_idx, seen_idx, bdisk, device, status, served>>

\* kkill() wakes a sleeper that is not interested in it.
Kill(p) ==
  /\ pc[p] \in {"sleep", "sleep_desc"}
  /\ goto(p, IF pc[p] = "sleep" THEN "woken" ELSE "rw")
  /\ UNCHANGED <<driver, device, status, idx, panicked, served>>

---------------------------------------------------------------------------
(* virtio_disk_intr().                                                     *)

\* Take the lock and acknowledge the interrupt ...
intr ==
  /\ irq /\ vdisk_lock = None /\ ~ panicked
  /\ vdisk_lock' = Intr
  /\ irq' = FALSE
  /\ UNCHANGED <<free, next, infob, avail, avail_idx, seen_idx, bdisk, used, used_idx,
                 taken_idx, working, raise, status, pc, idx, panicked, served>>

\* b->disk = 0 and wakeup(b) for the request that starts at descriptor id; a
\* status the device has not set, or no buffer, stops the kernel.
complete(id) ==
  IF status[id] # 0 \/ infob[id] = None
  THEN panicked' = TRUE /\ UNCHANGED <<bdisk, pc>>
  ELSE /\ bdisk' = [bdisk EXCEPT ![infob[id]] = 0]
       /\ pc' = [pc EXCEPT ![infob[id]] = IF @ = "sleep" THEN "woken" ELSE @]
       /\ UNCHANGED panicked

\* Mutant: one entry per interrupt.
intr_entry_once ==
  /\ vdisk_lock = Intr /\ ~ panicked
  /\ seen_idx # used_idx
  /\ complete(used[seen_idx % NUM])
  /\ used' = [used EXCEPT ![seen_idx % NUM] = 0]
  /\ seen_idx' = add(seen_idx, 1)
  /\ vdisk_lock' = None
  /\ UNCHANGED <<free, next, infob, avail, avail_idx, used_idx, taken_idx,
                 working, irq, raise, status, idx, served>>

\* ... handle the entries of the used ring one by one ...
intr_entry ==
  /\ vdisk_lock = Intr /\ ~ panicked
  /\ seen_idx # used_idx
  /\ complete(used[seen_idx % NUM])
  /\ used' = [used EXCEPT ![seen_idx % NUM] = 0]
  /\ seen_idx' = add(seen_idx, 1)
  /\ UNCHANGED <<vdisk_lock, free, next, infob, avail, avail_idx, used_idx, taken_idx,
                 working, irq, raise, status, idx, served>>

\* ... until none is left.
intr_done ==
  /\ vdisk_lock = Intr /\ ~ panicked
  /\ seen_idx = used_idx
  /\ vdisk_lock' = None
  /\ UNCHANGED <<free, next, infob, avail, avail_idx, seen_idx, bdisk, device, status, pc, idx,
                 panicked, served>>

---------------------------------------------------------------------------
(* The device.                                                             *)

\* The entry taken is dead until the driver writes it again; so is an entry of
\* the used ring that the driver has handled.  Both are cleared to save states.
DeviceTake ==
  /\ taken_idx # avail_idx
  /\ avail' = [avail EXCEPT ![taken_idx % NUM] = 0]
  /\ working' = working \cup {avail[taken_idx % NUM]}
  /\ taken_idx' = add(taken_idx, 1)
  /\ UNCHANGED <<vdisk_lock, free, next, infob, avail_idx, seen_idx, bdisk, used, used_idx, irq, raise, status, pc, idx, panicked, served>>

\* Transfer the data, set the status, then report the chain.
DeviceFinish(i) ==
  /\ i \in working
  /\ working' = working \ {i}
  /\ status' = [status EXCEPT ![i] = 0]
  /\ used' = [used EXCEPT ![used_idx % NUM] = i]
  /\ used_idx' = add(used_idx, 1)
  /\ raise' = TRUE
  /\ served' = served \cup {p \in Procs : idx[p] # <<>> /\ idx[p][1] = i}
  /\ UNCHANGED <<driver, taken_idx, irq, pc, idx, panicked>>

DeviceRaise ==
  /\ raise
  /\ raise' = FALSE
  /\ irq' = TRUE
  /\ UNCHANGED <<driver, used, used_idx, taken_idx, working, status, pc, idx, panicked, served>>

---------------------------------------------------------------------------
virtio_disk_rw(p) == alloc_fail(p) \/ submit(p) \/ notify(p) \/ finish(p)
virtio_disk_intr == intr \/ intr_entry \/ intr_done
Device == DeviceTake \/ (\E i \in Desc : DeviceFinish(i)) \/ DeviceRaise

Next ==
  \/ \E p \in Procs : Call(p) \/ virtio_disk_rw(p) \/ Kill(p)
  \/ virtio_disk_intr
  \/ Device

Spec == Init /\ [][Next]_vars

---------------------------------------------------------------------------
(* Properties.                                                             *)

\* Types of the driver's and the device's variables.
TypeOK ==
  /\ vdisk_lock \in Procs \cup {None, Intr}
  /\ free \subseteq Desc
  /\ next \in [Desc -> Desc \cup {None}]
  /\ infob \in [Desc -> Procs \cup {None}]
  /\ status \in [Desc -> {0, 255}]
  /\ avail \in [Desc -> Desc] /\ used \in [Desc -> Desc]
  /\ {avail_idx, used_idx, seen_idx, taken_idx} \subseteq 0..(UINT16 - 1)
  /\ bdisk \in [Procs -> 0..1]
  /\ pc \in [Procs -> PCs]
  /\ idx \in [Procs -> {<<>>} \cup (Desc \X Desc \X Desc)]
  /\ working \subseteq Desc
  /\ {irq, raise, panicked} \subseteq BOOLEAN
  /\ served \subseteq Procs

\* No descriptor is lost or used twice: each is free or in the chain of exactly
\* one request, whatever failed allocations and killed sleepers do.
DescOwned ==
  LET owners(i) == {o \in Procs \X (1..3) : idx[o[1]] # <<>> /\ idx[o[1]][o[2]] = i}
  IN  \A i \in Desc : Cardinality(owners(i)) = IF i \in free THEN 0 ELSE 1

\* Neither free_desc() nor virtio_disk_intr() finds anything to panic about.
NoPanic == ~ panicked

\* virtio_disk_rw() returns only after the device has done this request.
ReturnsServed ==
  [][\A p \in Procs : pc[p] = "woken" /\ pc'[p] = "idle" => p \in served]_vars

\* A process sleeps for descriptors only while fewer than three are free.
NoMissedFree ==
  \A p \in Procs : pc[p] = "sleep_desc" => Cardinality(free) < 3

\* Ring entries from index i up to index j.
Pending(ring, i, j) == {ring[add(i, k) % NUM] : k \in 0..(((j - i) % UINT16) - 1)}

\* No request is forgotten: while a process sleeps for its buffer, its chain is in
\* the avail ring, in the device, or in the used ring, and in the last case an
\* interrupt is on its way or virtio_disk_intr() is still looking.
NoLostInterrupt ==
  \A p \in Procs : pc[p] = "sleep" =>
    \/ idx[p][1] \in Pending(avail, taken_idx, avail_idx) \cup working
    \/ /\ idx[p][1] \in Pending(used, seen_idx, used_idx)
       /\ raise \/ irq \/ vdisk_lock = Intr

\* Descriptors are conserved and no panic of the driver is reached.
DriverConsistent == TypeOK /\ DescOwned /\ NoPanic

\* Nobody sleeps for something that has happened already: descriptors that are
\* free, a request that is done.
NothingMissed == NoMissedFree /\ NoLostInterrupt
=============================================================================
