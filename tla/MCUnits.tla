------------------------------ MODULE MCUnits ------------------------------
(***************************************************************************)
(* User memory, the contents of files, spinlocks, the shell, the user's    *)
(* memory allocator, string functions and filters for TLC.  They share no  *)
(* state: in each behaviour one of them takes steps.                       *)
(***************************************************************************)
EXTENDS Spinlock

CONSTANTS NPROCS, NPAGES, PGSIZE, Progs, Incs, MaxCalls,
          NDESC, NFILE, NINODES, FSSIZE, BSIZE, NDIRECT, MaxChunk, Files, Opens, Sizes, MaxFileCalls,
          MAXARGS, Lines, NPROC, NOFILE,
          Limit, MinCore, Requests,
          DIRSIZ, W, Names, Paths, Cells,
          BUF, Texts, Patterns

VARIABLES
  unit,        \* the component that takes steps in this behaviour
  \* Vm
  free, proc, ret, ncalls,
  \* FileData, each with an f before its name
  fused, fdata, flogged, fino, ftab, fofile, fpc, fcontent, fmode, fncalls,
  \* Shell, cmds being its todo
  line, tree, state, parent, ofile, cmds, pipes, source, started, forkFailed,
  \* Umalloc
  size, ptr, freep, brk, used, owned, failed,
  \* Strings
  call,
  \* Filters
  prog, text, re, pos, buf, out, count, done

Mem == INSTANCE Vm
Fd == INSTANCE FileData WITH NOFILE <- NDESC, MaxCalls <- MaxFileCalls, used <- fused, data <- fdata,
        logged <- flogged, ino <- fino, ofile <- fofile, pc <- fpc, content <- fcontent, mode <- fmode,
        ncalls <- fncalls
Sh == INSTANCE Shell WITH todo <- cmds
Heap == INSTANCE Umalloc
Str == INSTANCE Strings
Filt == INSTANCE Filters

ASSUME MemAssumption == Mem!VmAssumption
ASSUME FileAssumption == Fd!FileDataAssumption

memvars == <<free, proc, ret, ncalls>>
fdvars == <<fused, fdata, flogged, fino, ftab, fofile, fpc, fcontent, fmode, fncalls>>
shvars == <<line, tree, state, parent, ofile, cmds, pipes, source, started, forkFailed>>
heapvars == <<size, ptr, freep, brk, used, owned, failed>>
filtvars == <<prog, text, re, pos, buf, out, count, done>>
everything == <<unit, memvars, fdvars, vars, shvars, heapvars, call, filtvars>>

\* The spinlocks stay in their first state when another part takes steps, the
\* variables of the other parts are 0.
InitUnit ==
  /\ unit \in {"vm", "files", "spinlock", "shell", "umalloc", "strings", "filters"}
  /\ Init
  /\ IF unit = "vm" THEN Mem!Init
     ELSE  /\ free = 0 /\ proc = 0 /\ ret = 0 /\ ncalls = 0
  /\ IF unit = "files" THEN Fd!Init
     ELSE  /\ fused = 0 /\ fdata = 0 /\ flogged = 0 /\ fino = 0 /\ ftab = 0 /\ fofile = 0
           /\ fpc = 0 /\ fcontent = 0 /\ fmode = 0 /\ fncalls = 0
  /\ IF unit = "shell" THEN Sh!Init
     ELSE  /\ line = 0 /\ tree = 0 /\ state = 0 /\ parent = 0 /\ ofile = 0 /\ cmds = 0
           /\ pipes = 0 /\ source = 0 /\ started = 0 /\ forkFailed = 0
  /\ IF unit = "umalloc" THEN Heap!Init
     ELSE  /\ size = 0 /\ ptr = 0 /\ freep = 0 /\ brk = 0 /\ used = 0 /\ owned = 0
           /\ failed = 0
  /\ IF unit = "strings" THEN Str!Init
     ELSE  /\ call = 0
  /\ IF unit = "filters" THEN Filt!Init
     ELSE  /\ prog = 0 /\ text = 0 /\ re = 0 /\ pos = 0 /\ buf = 0 /\ out = 0
           /\ count = 0 /\ done = 0

NextUnit ==
  /\ UNCHANGED unit
  /\ \/ unit = "vm" /\ Mem!Next /\ UNCHANGED <<fdvars, vars, shvars, heapvars, call, filtvars>>
     \/ unit = "files" /\ Fd!Next /\ UNCHANGED <<memvars, vars, shvars, heapvars, call, filtvars>>
     \/ unit = "spinlock" /\ Next /\ UNCHANGED <<fdvars, memvars, shvars, heapvars, call, filtvars>>
     \/ unit = "shell" /\ Sh!Next /\ UNCHANGED <<fdvars, memvars, vars, heapvars, call, filtvars>>
     \/ unit = "umalloc" /\ Heap!Next /\ UNCHANGED <<fdvars, memvars, vars, shvars, call, filtvars>>
     \/ unit = "strings" /\ Str!Next /\ UNCHANGED <<fdvars, memvars, vars, shvars, heapvars, filtvars>>
     \/ unit = "filters" /\ Filt!Next /\ UNCHANGED <<fdvars, memvars, vars, shvars, heapvars, call>>

SpecUnit == InitUnit /\ [][NextUnit]_everything

---------------------------------------------------------------------------
(* Values of the constants.                                                *)

\* Text only; text and data, with the data starting at the next page.
TwoProgs == {<<[vaddr |-> 0, memsz |-> 1, w |-> FALSE]>>,
             <<[vaddr |-> 0, memsz |-> 2, w |-> FALSE], [vaddr |-> 2, memsz |-> 1, w |-> TRUE]>>}

\* Growth within a page and beyond, and a decrease past zero.
SomeIncs == {1, 4, -1, -3, -20}

\* Every line of up to three characters, and lines with pipelines that succeed or
\* run out of processes, blocks, redirections, lists and background commands.
SomeLines ==
  UNION {[1..k -> {"a", " ", "|", "&", ";", ">", "(", ")"}] : k \in 0..3}
  \cup {<<"a", "|", "a", "|", "q">>,
        <<"a", "|", "a", "|", "a", "|", "q">>,
        <<"a", "<", "f", "|", "q", ">", "g", " ", ">", "h">>,
        <<"(", "a", ";", "a", ")", "|", "a">>,
        <<"a", "|", "q", "&", ";", "a">>,
        <<"a", "|", "(", "a", "&", ")">>,
        <<"a", ">", ">", "n", ";", "z">>,
        <<"a", "a", " ", "a">>,
        <<"c", "d", " ", "x">>}

\* The root directory, a file of one byte and an empty file; the file is also
\* opened with O_TRUNC.
ThreeFiles == <<1, 1, 0>>
SomeOpens == {<<2, TRUE, FALSE>>, <<3, TRUE, TRUE>>}

SomeNames == UNION {[1..k -> {"a", "b"}] : k \in 1..3}
SomePaths == UNION {[1..k -> {"a", "b", "/"}] : k \in 0..5}

\* Every text of up to four characters, words that blanks part, and lines of
\* which one is longer than the buffer.
SomeTexts ==
  UNION {[1..k -> {"a", "b", "NL"}] : k \in 0..4}
  \cup {<<"a", " ", "b", " ", "b", "NL", "a">>,
        <<"a", "NL", "b", "b", "NL", "a", "b", "a", "NL", "a", "NL">>}
SomePatterns == UNION {[1..k -> {"a", ".", "*", "^", "$"}] : k \in 0..3} \cup {<<"a", "*", "a", "b">>}

---------------------------------------------------------------------------
(* The properties of the other parts, under names of this module.          *)

\* Every page is in exactly one place: on the free list, a node of a page table, a page
\* of user memory or a trapframe.  User pages lie below the size of the process, of
\* those only lazily grown ones can be missing, and no page table is freed with pages
\* in it.  No path of fork, exec, sbrk, wait or a fault breaks this, with the memory
\* running out at any kalloc().
MemoryConsistent == unit = "vm" => Mem!MemoryConsistent

\* A fork() or an exec() that fails has no effect: the caller keeps its image and
\* every page is free again ("frees any allocated pages on failure", vm.c:294).
FailureUndone == [][unit = "vm" => Mem!undone]_everything

\* The bitmap and the inodes agree on who owns each block, whatever fails in the
\* middle of a write, reads leave both alone, and no panic of fs.c and file.c is
\* reached.
DiskConsistent == unit = "files" => Fd!DiskConsistent

\* Every byte of a file that a read returns is the one that a write counted there
\* last, or one that a write which failed later was putting there: writei() leaves
\* such bytes in the buffer without logging it.  They are never found beyond the
\* end the file had, however it grows.
FileHolds == unit = "files" => Fd!FileHolds

\* Descriptors, open files and inodes count each other exactly, and those who share
\* an open file after dup() or fork() share its offset, so that their bytes never
\* overwrite each other.
SharingSafe == unit = "files" => Fd!SharingSafe

\* The parser accepts exactly the lines of the grammar, with the tree that
\* splitting at the operators gives ("a & b" is an error, "a ;" is not), and every
\* word in it is the C string that was typed, although the NUL that ends a word
\* overwrites a character of the line, possibly an operator.
ParserMeetsGrammar == unit = "shell" => Sh!ParserMeetsGrammar

\* A program starts with the input and output its command line says and with no
\* other descriptor than standard error: no end of a pipe leaks into it.
ProgramsWired == unit = "shell" => Sh!ProgramsWired

\* The processes of a command line never all wait for each other, also when a
\* fork() or a pipe() within the line fails; and when the shell prompts again, what
\* it ran in the foreground is over, unless some fork() failed.
CommandEnds == unit = "shell" => Sh!CommandEnds

\* Blocks handed out and free blocks tile what malloc() got from sbrk(), free
\* blocks are sorted and joined, and malloc() fails only when none is large enough.
HeapSound == unit = "umalloc" => Heap!HeapSound

\* The string, name and number routines compute what they should at the ends of
\* their buffers, and grep and wc give the same result however read() cuts the
\* text up.
TextRoutinesCorrect ==
  /\ unit = "strings" => Str!RoutinesCorrect
  /\ unit = "filters" => Filt!FiltersCorrect
=============================================================================
