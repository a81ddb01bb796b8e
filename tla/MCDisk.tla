------------------------------- MODULE MCDisk -------------------------------
(***************************************************************************)
(* The buffer cache and the disk driver for TLC.  They meet only in        *)
(* virtio_disk_rw(b), which each of them models from its side, so that in  *)
(* each behaviour one of them moves and the other stays as it was          *)
(* initialised.  Processes, buffers, blocks and contents are               *)
(* interchangeable.                                                        *)
(***************************************************************************)
EXTENDS Bcache, TLC

CONSTANTS NUM, UINT16, Intr

VARIABLES
  unit,        \* the component that moves
  \* VirtioDisk, dpc being its pc
  vdisk_lock, free, next, infob, status, avail, avail_idx, used, used_idx, seen_idx,
  bdisk, dpc, idx, taken_idx, working, irq, raise, panicked, served

Disk == INSTANCE VirtioDisk WITH pc <- dpc

ASSUME DiskAssumption == Disk!VirtioAssumption

diskvars == <<vdisk_lock, free, next, infob, status, avail, avail_idx, used, used_idx, seen_idx,
              bdisk, dpc, idx, taken_idx, working, irq, raise, panicked, served>>
everything == <<unit, vars, diskvars>>

InitUnit == unit \in {"cache", "disk"} /\ Init /\ Disk!Init

\* A panic() of the buffer cache ("bget: no buffers") stops the machine.
Stopped == mode = "panic" /\ UNCHANGED vars

NextUnit ==
  /\ UNCHANGED unit
  /\ \/ unit = "cache" /\ (Next \/ Stopped) /\ UNCHANGED diskvars
     \/ unit = "disk" /\ Disk!Next /\ UNCHANGED vars

SpecUnit == InitUnit /\ [][NextUnit]_everything

Symmetric ==
  Permutations(Procs) \cup Permutations(Bufs) \cup Permutations(Blocks) \cup Permutations(Val)

---------------------------------------------------------------------------
(* The properties of VirtioDisk, under names of this module.               *)

\* Each descriptor of the disk is free or in the chain of exactly one request,
\* whatever failed allocations and killed sleepers do, and the driver finds
\* nothing to panic about.
DriverConsistent == Disk!DriverConsistent

\* A process sleeps for descriptors only while fewer than three are free, and for
\* its request only while the chain is on its way and an interrupt will follow.
NothingMissed == Disk!NothingMissed

\* virtio_disk_rw() returns only after the device has done this request.
ReturnsServed == Disk!ReturnsServed
=============================================================================
