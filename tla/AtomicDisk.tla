---------------------------- MODULE AtomicDisk ----------------------------
(***************************************************************************)
(* What the log promises the file system: a disk that changes only by      *)
(* whole groups of finished operations.  An operation is bracketed by      *)
(* begin_op() and end_op(); what it writes is visible at once to those     *)
(* that run, and reaches the disk together with the writes of all others   *)
(* of its group, at a moment when none is in progress.  A crash brings     *)
(* back the last such moment.                                              *)
(***************************************************************************)
CONSTANTS Ops, Blocks, Val

VARIABLES disk,     \* what a reboot would find
          view,     \* what running operations see
          active    \* operations in progress

avars == <<disk, view, active>>

AInit ==
  /\ disk \in [Blocks -> Val]
  /\ view = disk
  /\ active = {}

Begin(p) ==
  /\ p \notin active
  /\ active' = active \cup {p}
  /\ UNCHANGED <<disk, view>>

Write(p) ==
  /\ p \in active
  /\ \E b \in Blocks, v \in Val : view' = [view EXCEPT ![b] = v]
  /\ UNCHANGED <<disk, active>>

End(p) ==
  /\ p \in active
  /\ active' = active \ {p}
  /\ UNCHANGED <<disk, view>>

Commit ==
  /\ active = {}
  /\ disk' = view
  /\ UNCHANGED <<view, active>>

CrashAll ==
  /\ view' = disk
  /\ active' = {}
  /\ UNCHANGED disk

ANext == Commit \/ CrashAll \/ \E p \in Ops : Begin(p) \/ Write(p) \/ End(p)

ASpec == AInit /\ [][ANext]_avars
===========================================================================
