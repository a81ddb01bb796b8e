------------------------------- MODULE FileSys -------------------------------
(***************************************************************************)
(* The inode layer and the directories of kernel/fs.c under the file       *)
(* system calls of kernel/sysfile.c: the in-memory inode table with its    *)
(* references and sleep-locks, path lookup, create, link, unlink, open,    *)
(* close and chdir by several processes, a crash at any point, and the     *)
(* reclamation of orphans at boot.                                         *)
(*                                                                         *)
(* A system call is a sequence of calls into fs.c.  todo[p] is what is     *)
(* left of it: a step executes the first call and puts the calls its       *)
(* outcome leads to in front of the rest.  A step ends where other         *)
(* processes may come in between: at the end of a section under            *)
(* itable.lock, at the release of a sleep-lock or of a buffer.             *)
(* The contents of files are left out (module FileData); a directory's are *)
(* its entries, and any dirlink() may run out of disk blocks.              *)
(* Log.tla shows that the log commits the operations that were in progress *)
(* together, when the last one ends, and that a crash goes back to the     *)
(* last commit; this module starts from that.                              *)
(***************************************************************************)
EXTENDS Integers, Sequences, FiniteSets, FiniteSetsExt

CONSTANTS NPROCS,    \* processes
          NINODES,   \* inodes on disk
          NINODE,    \* slots of the inode table
          Names,     \* names of directory entries, besides "." and ".."
          File,      \* the name of the file mkfs put into the root
          Workloads, \* the calls the processes may make: for the first, the second, ...
                     \* a set of <<process, call, paths>>, a path being
                     \* [abs |-> BOOLEAN, elems |-> Seq(Names \cup {".", ".."})]
          MaxLink    \* bound: links of an inode

ASSUME FileSysAssumption ==
  NPROCS \in Nat \ {0} /\ NINODES \in Nat \ {0, 1} /\ NINODE \in Nat \ {0} /\ File \in Names /\ MaxLink \in Nat \ {0}

Procs == 1..NPROCS
Inums == 1..NINODES
Slots == 1..NINODE
ROOTINO == 1

VARIABLES
  disk,       \* the inodes as the block layer shows them, with their entries
  committed,  \* the inodes as they are after a crash
  itab,       \* itable.inode[]
  held,       \* of each process, the slot each of its inode pointers refers to, or 0
  args,       \* of each process: rest of the path, last name, type to create
  todo,       \* of each process: what is left of its system call
  ops,        \* processes inside begin_op() .. end_op()
  mode,       \* "up", "boot", or the message of a panic()
  script,     \* the workload of this behaviour
  ncalls,     \* system calls made
  left        \* history: a path has left a removed directory through ".."

vars == <<disk, committed, itab, held, args, todo, ops, mode, script, ncalls, left>>

Pointers == {"ip", "dp", "next", "cwd", "file"}
Types == {"none", "file", "dir", "device"}

NoEnts == [n \in Names \cup {".."} |-> 0]
\* History: a directory was removed; an inode was linked into a removed directory.
FreeInode == [type |-> "none", nlink |-> 0, ents |-> NoEnts, removed |-> FALSE, stray |-> FALSE]
FreeSlot == [inum |-> 0, ref |-> 0, lock |-> 0, valid |-> 0, type |-> "none", nlink |-> 0]
NoArg == [elems |-> <<>>, name |-> "", type |-> "none"]

\* The table after boot: every process has the root as its working directory.
booted == [s \in Slots |-> IF s = 1 THEN [FreeSlot EXCEPT !.inum = ROOTINO, !.ref = NPROCS] ELSE FreeSlot]
atRoot == [p \in Procs |-> [v \in Pointers |-> IF v = "cwd" THEN 1 ELSE 0]]

\* The image that mkfs makes: the root directory with a file in it.
Init ==
  /\ disk = [i \in Inums |->
                IF i = ROOTINO
                THEN [FreeInode EXCEPT !.type = "dir", !.nlink = 1,
                                       !.ents[".."] = ROOTINO, !.ents[File] = 2]
                ELSE IF i = 2 THEN [FreeInode EXCEPT !.type = "file", !.nlink = 1] ELSE FreeInode]
  /\ committed = disk
  /\ itab = booted /\ held = atRoot
  /\ args = [p \in Procs |-> NoArg]
  /\ todo = [p \in Procs |-> <<>>]
  /\ ops = {}
  /\ mode = "up"
  /\ script \in Workloads
  /\ ncalls = 0
  /\ left = FALSE

---------------------------------------------------------------------------
(* The calls a system call is made of.                                     *)

Panics == {"iget: no inodes", "ilock: no type", "iunlock", "unlink: nlink < 1"}

at(p, f) == mode \notin Panics /\ todo[p] # <<>> /\ todo[p][1][1] = f
first(p, calls) == calls \o Tail(todo[p])
run(p, calls) == todo' = [todo EXCEPT ![p] = first(p, calls)]
skip(p) == run(p, <<>>)

ilk(v) == <<"ilock", v>>
unlockput(v) == <<<<"iunlock", v>>, <<"iput", v>>>>
done == <<<<"end_op", "">>>>

slot(p, v) == itab[held[p][v]]
inum(p, v) == slot(p, v).inum

panic(msg) == mode' = msg /\ UNCHANGED <<disk, committed, itab, held, args, todo, ops, script, ncalls, left>>

\* iupdate() after the link count of the inode in slot s became n.
setnlink(s, n) ==
  /\ itab' = [itab EXCEPT ![s].nlink = n]
  /\ disk' = [disk EXCEPT ![itab[s].inum].nlink = n]

tableSlots(i) == {s \in Slots : itab[s].ref > 0 /\ itab[s].inum = i}

\* p's pointer v = iget(i), then the calls that are left to do.
iget(p, v, i, calls) ==
  LET empty == {s \in Slots : itab[s].ref = 0}
      s == IF tableSlots(i) # {} THEN Min(tableSlots(i)) ELSE Min(empty)
  IN  IF tableSlots(i) \cup empty = {}
      THEN mode' = "iget: no inodes" /\ UNCHANGED <<itab, held, todo>>
      ELSE /\ itab' = [itab EXCEPT ![s] = IF tableSlots(i) # {} THEN [@ EXCEPT !.ref = @ + 1]
                                          ELSE [FreeSlot EXCEPT !.inum = i, !.ref = 1]]
           /\ held' = [held EXCEPT ![p][v] = s]
           /\ todo' = [todo EXCEPT ![p] = calls]
           /\ UNCHANGED mode

\* ilock(): sleeps until the lock is free; reads the inode if it is not valid.
ilock(p) ==
  LET v == todo[p][1][2]  s == held[p][v]  i == inum(p, v) IN
  /\ at(p, "ilock") /\ itab[s].lock = 0
  /\ IF itab[s].valid = 0 /\ disk[i].type = "none"
     THEN panic("ilock: no type")
     ELSE /\ itab' = [itab EXCEPT ![s] =
                        IF @.valid = 1 THEN [@ EXCEPT !.lock = p]
                        ELSE [@ EXCEPT !.lock = p, !.valid = 1, !.type = disk[i].type, !.nlink = disk[i].nlink]]
          /\ skip(p)
          /\ UNCHANGED <<disk, committed, held, args, ops, mode, script, ncalls, left>>

iunlock(p) ==
  LET s == held[p][todo[p][1][2]] IN
  /\ at(p, "iunlock")
  /\ IF itab[s].lock # p \/ itab[s].ref < 1 THEN panic("iunlock")
     ELSE /\ itab' = [itab EXCEPT ![s].lock = 0]
          /\ skip(p)
          /\ UNCHANGED <<disk, committed, held, args, ops, mode, script, ncalls, left>>

\* iput() has to free the inode on disk.
lastRef(s) == itab[s].ref = 1 /\ itab[s].valid = 1 /\ itab[s].nlink = 0

\* Mutant: the reference survives.
deref_keeps(s) == IF itab[s].ref = 1 THEN FreeSlot ELSE itab[s]

\* ip->ref--; a slot without references counts as empty, whatever it holds.
deref(s) == IF itab[s].ref = 1 THEN FreeSlot ELSE [itab[s] EXCEPT !.ref = @ - 1]

\* iput(), its first section under itable.lock.
iput(p) ==
  LET v == todo[p][1][2]  s == held[p][v] IN
  /\ at(p, "iput")
  /\ IF lastRef(s)
     THEN /\ itab' = [itab EXCEPT ![s].lock = p]       \* acquiresleep()
          /\ run(p, <<<<"ifree", v>>, <<"deref", v>>>>)
          /\ UNCHANGED held
     ELSE /\ itab' = [itab EXCEPT ![s] = deref(s)]
          /\ held' = [held EXCEPT ![p][v] = 0]
          /\ skip(p)
  /\ UNCHANGED <<disk, committed, args, ops, mode, script, ncalls, left>>

\* itrunc(), ip->type = 0, iupdate(), ip->valid = 0, releasesleep().
iput_free(p) ==
  LET s == held[p][todo[p][1][2]] IN
  /\ at(p, "ifree")
  /\ disk' = [disk EXCEPT ![itab[s].inum] = FreeInode]
  /\ itab' = [itab EXCEPT ![s].valid = 0, ![s].lock = 0]
  /\ skip(p)
  /\ UNCHANGED <<committed, held, args, ops, mode, script, ncalls, left>>

\* iput(), its last section under itable.lock.
iput_deref(p) ==
  LET v == todo[p][1][2]  s == held[p][v] IN
  /\ at(p, "deref")
  /\ itab' = [itab EXCEPT ![s] = deref(s)]
  /\ held' = [held EXCEPT ![p][v] = 0]
  /\ skip(p)
  /\ UNCHANGED <<disk, committed, args, ops, mode, script, ncalls, left>>

\* end_op(): the last operation in progress commits them all.
end_op(p) ==
  /\ at(p, "end_op")
  /\ ops' = ops \ {p}
  /\ committed' = IF ops' = {} THEN disk ELSE committed
  /\ args' = [args EXCEPT ![p] = NoArg]
  /\ skip(p)
  /\ UNCHANGED <<disk, itab, held, mode, script, ncalls, left>>

---------------------------------------------------------------------------
(* namex().  The pointer is "dp" for nameiparent() and "ip" for namei().   *)

dirlookup(i, name) == IF name = "." THEN i ELSE disk[i].ents[name]

\* What follows a lookup that fails: the end of the call, but link() has counted
\* the link already when it looks for the new parent.
link_bad == <<ilk("ip"), <<"link_undo", "">>>>
notfound(p, v) == IF v = "dp" /\ held[p]["ip"] # 0 THEN link_bad ELSE done
fail(p, v, calls) == todo' = [todo EXCEPT ![p] = calls \o notfound(p, v)]

\* skipelem(): the next element, and the rest of the path.
elements(p, v, elems) ==
  args' = [args EXCEPT ![p].elems = IF elems = <<>> THEN <<>> ELSE Tail(elems),
                       ![p].name = IF elems = <<>> THEN @ ELSE Head(elems)]

\* The head of the loop: lock the inode to look the next element up; without one,
\* namei() returns the inode, and nameiparent() gives it back and fails.
namex(p, v, elems) ==
  CASE elems # <<>> -> first(p, <<ilk(v), <<"lookup", v>>>>)
    [] elems = <<>> /\ v = "ip" -> first(p, <<>>)
    [] elems = <<>> /\ v = "dp" -> <<<<"iput", v>>>> \o notfound(p, v)

\* The entry ".." of a removed directory names an inode that may be free, or another's
\* by now.
leaves(p, v) == args[p].name = ".." /\ disk[inum(p, v)].removed

\* Start at the root or at the working directory.
namex_start(p) ==
  LET v == todo[p][1][2]  path == todo[p][1][3] IN
  /\ at(p, "path")
  /\ elements(p, v, path.elems)
  /\ iget(p, v, IF path.abs THEN ROOTINO ELSE inum(p, "cwd"), namex(p, v, path.elems))
  /\ UNCHANGED <<disk, committed, ops, script, ncalls, left>>

\* With ip locked: stop one level early, or look the name up.
namex_lookup(p) ==
  LET v == todo[p][1][2]  next == dirlookup(inum(p, v), args[p].name) IN
  /\ at(p, "lookup")
  /\ IF slot(p, v).type # "dir" \/ (next = 0 /\ ~ (v = "dp" /\ args[p].elems = <<>>))
     THEN fail(p, v, unlockput(v)) /\ UNCHANGED <<itab, held, mode>>
     ELSE IF v = "dp" /\ args[p].elems = <<>>
     THEN run(p, <<<<"iunlock", v>>>>) /\ UNCHANGED <<itab, held, mode>>
     ELSE iget(p, "next", next, first(p, unlockput(v) \o <<<<"next", v>>>>))
  /\ left' = (left \/ leaves(p, v))
  /\ UNCHANGED <<disk, committed, args, ops, script, ncalls>>

\* ip = next, and on to the next element.
namex_next(p) ==
  LET v == todo[p][1][2] IN
  /\ at(p, "next")
  /\ held' = [held EXCEPT ![p][v] = held[p]["next"], ![p]["next"] = 0]
  /\ elements(p, v, args[p].elems)
  /\ todo' = [todo EXCEPT ![p] = namex(p, v, args[p].elems)]
  /\ UNCHANGED <<disk, committed, itab, ops, mode, script, ncalls, left>>

---------------------------------------------------------------------------
(* create(): for open() with O_CREATE, mkdir() and mknod().                *)

create(path) == <<<<"path", "dp", path>>, ilk("dp"), <<"create_lookup", "">>>>

\* The caller goes on with the locked inode.
created(p) == IF args[p].type = "file" THEN <<<<"opened", "">>>> ELSE unlockput("ip") \o done

\* Mutant: the parent stays locked until the existing inode is locked.
existing_nested == <<ilk("ip"), <<"exists", "">>>> \o unlockput("dp")

\* The name exists: leave the parent, then lock the inode.
existing == unlockput("dp") \o <<ilk("ip"), <<"exists", "">>>>

\* dirlookup() and ialloc() up to its brelse(), with dp locked.
create_lookup(p) ==
  LET i == dirlookup(inum(p, "dp"), args[p].name)
      free == {j \in Inums : disk[j].type = "none"}
  IN
  /\ at(p, "create_lookup")
  /\ IF i # 0 THEN iget(p, "ip", i, first(p, existing)) /\ UNCHANGED disk
     ELSE /\ IF free = {} THEN run(p, unlockput("dp") \o done) /\ UNCHANGED disk
             ELSE /\ disk' = [disk EXCEPT ![Min(free)] = [FreeInode EXCEPT !.type = args[p].type]]
                  /\ run(p, <<<<"ialloc_iget", Min(free)>>, ilk("ip"), <<"create_init", "">>>>)
          /\ UNCHANGED <<itab, held, mode>>
  /\ left' = (left \/ leaves(p, "dp"))
  /\ UNCHANGED <<committed, args, ops, script, ncalls>>

create_exists(p) ==
  /\ at(p, "exists")
  /\ run(p, IF args[p].type = "file" /\ slot(p, "ip").type \in {"file", "device"}
            THEN created(p) ELSE unlockput("ip") \o done)
  /\ UNCHANGED <<disk, committed, itab, held, args, ops, mode, script, ncalls, left>>

\* The end of ialloc().
ialloc_iget(p) ==
  /\ at(p, "ialloc_iget")
  /\ iget(p, "ip", todo[p][1][2], first(p, <<>>))
  /\ UNCHANGED <<disk, committed, args, ops, script, ncalls, left>>

\* Both inodes are locked: set the new one up and link it into the parent ...
create_init(p) ==
  LET i == inum(p, "ip")  d == inum(p, "dp")
      up == IF args[p].type = "dir" THEN 1 ELSE 0       \* dp->nlink++ for ".."
      n == slot(p, "dp").nlink + up
  IN
  /\ at(p, "create_init") /\ n <= MaxLink
  /\ itab' = [itab EXCEPT ![held[p]["ip"]].nlink = 1, ![held[p]["dp"]].nlink = n]
  /\ disk' = [disk EXCEPT ![i].nlink = 1, ![i].ents[".."] = IF up = 1 THEN d ELSE 0,
                          ![i].stray = disk[d].removed,
                          ![d].ents[args[p].name] = i, ![d].nlink = n]
  /\ run(p, unlockput("dp") \o created(p))
  /\ UNCHANGED <<committed, held, args, ops, mode, script, ncalls, left>>

\* Mutant: the inode that could not be linked keeps its link count.
create_fail_linked(p) ==
  /\ at(p, "create_init")
  /\ setnlink(held[p]["ip"], 1)
  /\ run(p, unlockput("ip") \o unlockput("dp") \o done)
  /\ UNCHANGED <<committed, held, args, ops, mode, script, ncalls, left>>

\* ... or a dirlink() has no disk block: de-allocate ip.
create_fail(p) ==
  /\ at(p, "create_init")
  /\ setnlink(held[p]["ip"], 0)
  /\ run(p, unlockput("ip") \o unlockput("dp") \o done)
  /\ UNCHANGED <<committed, held, args, ops, mode, script, ncalls, left>>

---------------------------------------------------------------------------
(* sys_open() and sys_chdir().                                            *)

\* A descriptor for the locked inode ...
open_ok(p) ==
  /\ at(p, "opened") /\ held[p]["file"] = 0
  /\ held' = [held EXCEPT ![p]["file"] = held[p]["ip"], ![p]["ip"] = 0]
  /\ run(p, <<<<"iunlock", "file">>>> \o done)
  /\ UNCHANGED <<disk, committed, itab, args, ops, mode, script, ncalls, left>>

\* ... or none is left, the mode is not for a directory, the device does not exist.
open_fail(p) ==
  /\ at(p, "opened") /\ (held[p]["file"] # 0 \/ slot(p, "ip").type # "file")
  /\ run(p, unlockput("ip") \o done)
  /\ UNCHANGED <<disk, committed, itab, held, args, ops, mode, script, ncalls, left>>

chdir_check(p) ==
  /\ at(p, "chdir")
  /\ run(p, IF slot(p, "ip").type # "dir" THEN unlockput("ip") \o done
            ELSE <<<<"iunlock", "ip">>, <<"iput", "cwd">>>> \o done \o <<<<"setcwd", "">>>>)
  /\ UNCHANGED <<disk, committed, itab, held, args, ops, mode, script, ncalls, left>>

chdir_set(p) ==
  /\ at(p, "setcwd")
  /\ held' = [held EXCEPT ![p]["cwd"] = held[p]["ip"], ![p]["ip"] = 0]
  /\ skip(p)
  /\ UNCHANGED <<disk, committed, itab, args, ops, mode, script, ncalls, left>>

---------------------------------------------------------------------------
(* sys_link()                                                              *)

\* The old inode is locked: count the link before it is made.
link_count(p) ==
  /\ at(p, "link")
  /\ IF slot(p, "ip").type = "dir"
     THEN todo' = [todo EXCEPT ![p] = unlockput("ip") \o done] /\ UNCHANGED <<disk, itab>>
     ELSE /\ slot(p, "ip").nlink < MaxLink
          /\ setnlink(held[p]["ip"], slot(p, "ip").nlink + 1)
          /\ run(p, <<<<"iunlock", "ip">>>>)
  /\ UNCHANGED <<committed, held, args, ops, mode, script, ncalls, left>>

\* dirlink(dp, name, ip->inum) finds the name, or there is room for the entry ...
link_dirlink(p) ==
  LET d == inum(p, "dp")  old == dirlookup(d, args[p].name) IN
  /\ at(p, "dirlink")
  /\ IF old # 0
     THEN iget(p, "next", old, first(p, <<<<"iput", "next">>>> \o unlockput("dp") \o link_bad)) /\ UNCHANGED disk
     ELSE /\ disk' = [disk EXCEPT ![d].ents[args[p].name] = inum(p, "ip"),
                                  ![inum(p, "ip")].stray = @ \/ disk[d].removed]
          /\ run(p, unlockput("dp") \o <<<<"iput", "ip">>>> \o done)
          /\ UNCHANGED <<itab, held, mode>>
  /\ UNCHANGED <<committed, args, ops, script, ncalls, left>>

\* ... or not.
link_full(p) ==
  /\ at(p, "dirlink") /\ dirlookup(inum(p, "dp"), args[p].name) = 0
  /\ run(p, unlockput("dp") \o link_bad)
  /\ UNCHANGED <<disk, committed, itab, held, args, ops, mode, script, ncalls, left>>

link_undo(p) ==
  /\ at(p, "link_undo")
  /\ setnlink(held[p]["ip"], slot(p, "ip").nlink - 1)
  /\ run(p, unlockput("ip") \o done)
  /\ UNCHANGED <<committed, held, args, ops, mode, script, ncalls, left>>

---------------------------------------------------------------------------
(* sys_unlink()                                                            *)

unlink_lookup(p) ==
  LET name == args[p].name  i == dirlookup(inum(p, "dp"), name) IN
  /\ at(p, "unlink")
  /\ IF name \in {".", ".."} \/ i = 0
     THEN run(p, unlockput("dp") \o done) /\ UNCHANGED <<itab, held, mode>>
     ELSE iget(p, "ip", i, first(p, <<ilk("ip"), <<"unlink_entry", "">>>>))
  /\ UNCHANGED <<disk, committed, args, ops, script, ncalls, left>>

isdirempty(i) == \A n \in Names : disk[i].ents[n] = 0

\* Both are locked: clear the entry, and leave the parent.
unlink_entry(p) ==
  LET i == inum(p, "ip")  d == inum(p, "dp")  isdir == slot(p, "ip").type = "dir"
      n == slot(p, "dp").nlink - (IF isdir THEN 1 ELSE 0)
  IN
  /\ at(p, "unlink_entry")
  /\ IF slot(p, "ip").nlink < 1 THEN panic("unlink: nlink < 1")
     ELSE /\ IF isdir /\ ~ isdirempty(i)
             THEN run(p, unlockput("ip") \o unlockput("dp") \o done) /\ UNCHANGED <<disk, itab>>
             ELSE /\ disk' = [disk EXCEPT ![d].ents[args[p].name] = 0, ![d].nlink = n, ![i].removed = isdir]
                  /\ itab' = [itab EXCEPT ![held[p]["dp"]].nlink = n]
                  /\ run(p, unlockput("dp") \o <<<<"unlink_count", "">>>>)
          /\ UNCHANGED <<committed, held, args, ops, mode, script, ncalls, left>>

unlink_count(p) ==
  /\ at(p, "unlink_count")
  /\ setnlink(held[p]["ip"], slot(p, "ip").nlink - 1)
  /\ run(p, unlockput("ip") \o done)
  /\ UNCHANGED <<committed, held, args, ops, mode, script, ncalls, left>>

---------------------------------------------------------------------------
(* The system calls, and a crash.                                          *)

begin_op(p, type, calls) ==
  /\ mode = "up" /\ todo[p] = <<>>
  /\ ncalls' = ncalls + 1
  /\ todo' = [todo EXCEPT ![p] = calls]
  /\ args' = [args EXCEPT ![p].type = type]
  /\ ops' = ops \cup {p}
  /\ UNCHANGED <<disk, committed, itab, held, mode, script, left>>

call(p, f) == IF ncalls = Len(script) THEN {} ELSE {c \in script[ncalls + 1] : c[1] = p /\ c[2] = f}

sys_open(p) ==
  \/ \E c \in call(p, "open") : begin_op(p, "none", <<<<"path", "ip", c[3]>>, ilk("ip"), <<"opened", "">>>>)
  \/ \E c \in call(p, "create") : begin_op(p, "file", create(c[3]))

sys_mkdir(p) == \E c \in call(p, "mkdir") : begin_op(p, "dir", create(c[3]))

sys_mknod(p) == \E c \in call(p, "mknod") : begin_op(p, "device", create(c[3]))

sys_chdir(p) ==
  \E c \in call(p, "chdir") : begin_op(p, "none", <<<<"path", "ip", c[3]>>, ilk("ip"), <<"chdir", "">>>>)

sys_link(p) ==
  \E c \in call(p, "link") :
    begin_op(p, "none", <<<<"path", "ip", c[3]>>, ilk("ip"), <<"link", "">>,
                          <<"path", "dp", c[4]>>, ilk("dp"), <<"dirlink", "">>>>)

sys_unlink(p) ==
  \E c \in call(p, "unlink") : begin_op(p, "none", <<<<"path", "dp", c[3]>>, ilk("dp"), <<"unlink", "">>>>)

\* fileclose() of the last descriptor of the file.
sys_close(p) ==
  \E c \in call(p, "close") : held[p]["file"] # 0 /\ begin_op(p, "none", <<<<"iput", "file">>>> \o done)

\* Mutant: nobody reclaims orphans.
reclaim_none == <<<<"boot", 1>>>>

reclaim == <<<<"ireclaim", 1>>>>

\* The machine stops, or is restarted after a panic().  Everything but the committed
\* blocks is lost; the first process runs fsinit().
Crash ==
  /\ disk' = committed
  /\ itab' = booted /\ held' = atRoot
  /\ args' = [p \in Procs |-> NoArg]
  /\ todo' = [p \in Procs |-> IF p = 1 THEN reclaim ELSE <<>>]
  /\ ops' = {}
  /\ mode' = "boot"
  /\ left' = FALSE
  /\ UNCHANGED <<committed, script, ncalls>>

\* ireclaim(): free the next inode if it is allocated and has no links.
ireclaim(p) ==
  LET i == todo[p][1][2]  more == IF i < NINODES THEN <<<<"ireclaim", i + 1>>>> ELSE <<<<"boot", 1>>>> IN
  /\ at(p, "ireclaim")
  /\ IF disk[i].type # "none" /\ disk[i].nlink = 0
     THEN /\ iget(p, "ip", i, first(p, <<ilk("ip")>> \o unlockput("ip") \o done \o more))
          /\ ops' = {p}
     ELSE run(p, more) /\ UNCHANGED <<itab, held, ops, mode>>
  /\ UNCHANGED <<disk, committed, args, script, ncalls, left>>

boot(p) ==
  /\ at(p, "boot")
  /\ mode' = "up"
  /\ skip(p)
  /\ UNCHANGED <<disk, committed, itab, held, args, ops, script, ncalls, left>>

\* The next call of a system call in progress.
Step(p) ==
  \/ ilock(p) \/ iunlock(p) \/ iput(p) \/ iput_free(p) \/ iput_deref(p) \/ end_op(p)
  \/ namex_start(p) \/ namex_lookup(p) \/ namex_next(p)
  \/ create_lookup(p) \/ create_exists(p) \/ ialloc_iget(p) \/ create_init(p) \/ create_fail(p)
  \/ open_ok(p) \/ open_fail(p) \/ chdir_check(p) \/ chdir_set(p)
  \/ link_count(p) \/ link_dirlink(p) \/ link_full(p) \/ link_undo(p)
  \/ unlink_lookup(p) \/ unlink_entry(p) \/ unlink_count(p)
  \/ ireclaim(p) \/ boot(p)

Call(p) ==
  sys_open(p) \/ sys_mkdir(p) \/ sys_mknod(p) \/ sys_chdir(p) \/ sys_link(p) \/ sys_unlink(p) \/ sys_close(p)

Next == Crash \/ \E p \in Procs : Step(p) \/ Call(p)

Spec == Init /\ [][Next]_vars

---------------------------------------------------------------------------
(* Properties.                                                             *)

\* Types of the inode table, the image on disk, the locks and the calls in progress.
TypeOK ==
  /\ disk \in [Inums -> [type : Types, nlink : 0..MaxLink, ents : [Names \cup {".."} -> 0..NINODES],
                       removed : BOOLEAN, stray : BOOLEAN]]
  /\ itab \in [Slots -> [inum : 0..NINODES, ref : 0..(5 * NPROCS), lock : 0..NPROCS, valid : 0..1,
                         type : Types, nlink : 0..MaxLink]]
  /\ held \in [Procs -> [Pointers -> 0..NINODE]]
  /\ ops \subseteq Procs
  /\ mode \in {"up", "boot"} \cup Panics

\* ip->ref is the number of pointers to the slot: no path of any call, successful
\* or not, loses a reference or drops one twice.
RefsExact ==
  \A s \in Slots : itab[s].ref = Cardinality({x \in Procs \X Pointers : held[x[1]][x[2]] = s})

\* Every image a crash may leave is consistent: the link count of an inode is the
\* number of entries that name it, plus one for each subdirectory (its ".."), and
\* no entry of a directory names a free inode.  Directories already removed, whose
\* ".." may be stale, and inodes that were linked into one are left out: see the
\* README.
ImageConsistent ==
  LET d == committed
      dirs == {i \in Inums : d[i].type = "dir"}
      naming(i) == {x \in dirs \X Names : d[x[1]].ents[x[2]] = i}
      subdirs(i) == {n \in Names : d[i].ents[n] \in dirs}
  IN  \A i \in Inums :
        /\ d[i].type # "none" /\ ~ d[i].stray =>
             d[i].nlink = Cardinality(naming(i)) + Cardinality(subdirs(i)) + (IF i = ROOTINO THEN 1 ELSE 0)
        /\ i \in dirs /\ ~ d[i].removed =>
             \A n \in Names \cup {".."} : d[i].ents[n] # 0 => d[d[i].ents[n]].type # "none"

Orphans(d) == {i \in Inums : d[i].type # "none" /\ d[i].nlink = 0}

\* ireclaim() leaves no orphan behind, whenever the crash came: in the middle of
\* an unlink(), with files open, or in the middle of an earlier ireclaim().
OrphansReclaimed == \A p \in Procs : at(p, "boot") => Orphans(committed) = {}

\* "ip->ref == 1 means no other process can have ip locked, so this acquiresleep()
\* won't block (or deadlock)" (fs.c:345); iput() holds a spinlock there.
IputWontBlock ==
  \A p \in Procs : at(p, "iput") =>
    LET s == held[p][todo[p][1][2]] IN lastRef(s) => itab[s].lock = 0

\* No set of processes waits for inode locks held within the set, whatever the
\* paths and with "." and ".." in them.
NoDeadlock ==
  LET waitsFor(p) == IF at(p, "ilock") THEN itab[held[p][todo[p][1][2]]].lock ELSE 0 IN
  \A S \in SUBSET Procs : S # {} => \E p \in S : waitsFor(p) \notin S

\* An inode has at most one slot: two would be locked and counted independently.
OneSlotPerInode ==
  \A s, t \in Slots : s # t /\ itab[s].ref > 0 /\ itab[t].ref > 0 => itab[s].inum # itab[t].inum

\* The panics of fs.c and sysfile.c that can be reached.  ilock() meets a free inode
\* ("ilock: no type", fs.c:316) only after a path has left a removed directory through
\* "..", there or, because it then frees an inode that ialloc() has just taken, in
\* another process; iget() gives up ("iget: no inodes", fs.c:268) only while as many inodes
\* are in use as the table has slots; iunlock() of a lock not held and unlink() of
\* an inode without links never happen.
PanicsExplained ==
  /\ mode \notin {"iunlock", "unlink: nlink < 1"}
  /\ mode = "ilock: no type" => left
  /\ mode = "iget: no inodes" => Cardinality({itab[s].inum : s \in {t \in Slots : itab[t].ref > 0}}) = NINODE

\* References are exact, slots are unique, and nothing but a full table and the stale
\* ".." of a removed directory makes the kernel panic.
TableConsistent == TypeOK /\ RefsExact /\ OneSlotPerInode /\ PanicsExplained

\* Nobody waits for an inode lock for ever: no cycle of holders, and no wait in
\* iput() with a spinlock held.
LocksSafe == NoDeadlock /\ IputWontBlock
=============================================================================
