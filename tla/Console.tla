------------------------------ MODULE Console ------------------------------
(***************************************************************************)
(* The input side of kernel/console.c: consoleread() by several processes  *)
(* and consoleintr(), which the UART's handler calls for each character,   *)
(* on the ring cons.buf with its three free-running indices.               *)
(*                                                                         *)
(* cons.lock is a variable, because a reader holds it between its test of  *)
(* killed() and sleep(); consoleintr() holds it for one step.  The echo is *)
(* left to Uart: uartputc_sync() waits for the device only.                *)
(***************************************************************************)
EXTENDS Integers, Sequences

CONSTANTS Readers,           \* processes that read the console
          INPUT_BUF_SIZE,
          UINT,              \* number of values of an index, a C uint
          ReadSizes,         \* arguments of read()
          Keys,              \* the keys typed, of AllKeys
          None

AllKeys == {"x", "nl", "cr", "^D", "^U", "^H", "^P", "nul"}

\* The ring divides the range of its indices, as 128 divides 2^32.
ConsoleAssumption ==
  /\ INPUT_BUF_SIZE \in Nat \ {0} /\ UINT \in Nat /\ INPUT_BUF_SIZE < UINT /\ UINT % INPUT_BUF_SIZE = 0
  /\ ReadSizes \subseteq Nat /\ Keys \subseteq AllKeys /\ None \notin Readers

VARIABLES
  \* struct cons
  buf, r, w, e, lock,
  \* each reader: where it is, its arguments and locals, its last result
  rpc, n, target, killed, ret

consvars == <<buf, r, w, e, lock>>
readvars == <<rpc, n, target, killed, ret>>
vars == <<consvars, readvars>>

\* consoleinit().
Init ==
  /\ buf = [i \in 0..(INPUT_BUF_SIZE - 1) |-> "nul"]
  /\ r = 0 /\ w = 0 /\ e = 0 /\ lock = None
  /\ rpc = [p \in Readers |-> "idle"]
  /\ n = [p \in Readers |-> 0]
  /\ target = [p \in Readers |-> 0]
  /\ killed = [p \in Readers |-> FALSE]
  /\ ret = [p \in Readers |-> 0]

plus(i, k) == (i + k) % UINT
slot(i) == i % INPUT_BUF_SIZE
used(i) == (i - r) % UINT

---------------------------------------------------------------------------
(* consoleread().                                                          *)

moveR(p, l) == rpc' = [rpc EXCEPT ![p] = l]

Read(p) ==
  /\ rpc[p] = "idle" /\ ~ killed[p]
  /\ \E k \in ReadSizes :
       /\ n' = [n EXCEPT ![p] = k]
       /\ target' = [target EXCEPT ![p] = k]
  /\ ret' = [ret EXCEPT ![p] = 0]
  /\ moveR(p, "acquire")
  /\ UNCHANGED <<consvars, killed>>

\* acquire(&cons.lock), at the start and at the end of sleep().
ReadAcquire(p) ==
  /\ rpc[p] = "acquire" /\ lock = None
  /\ lock' = p
  /\ moveR(p, "loop")
  /\ UNCHANGED <<buf, r, w, e, n, target, killed, ret>>

readReturn(p, v) ==
  /\ lock' = None
  /\ ret' = [ret EXCEPT ![p] = v]
  /\ n' = [n EXCEPT ![p] = 0]
  /\ target' = [target EXCEPT ![p] = 0]
  /\ moveR(p, "idle")

\* The inner loop: no committed input.
ReadEmpty(p) ==
  /\ rpc[p] = "loop" /\ n[p] > 0 /\ r = w
  /\ IF killed[p]
     THEN readReturn(p, -1)
     ELSE moveR(p, "sleep") /\ UNCHANGED <<lock, n, target, ret>>
  /\ UNCHANGED <<buf, r, w, e, killed>>

\* sleep(&cons.r, &cons.lock).
ReadSleep(p) ==
  /\ rpc[p] = "sleep"
  /\ lock' = None
  /\ moveR(p, "asleep")
  /\ UNCHANGED <<buf, r, w, e, n, target, killed, ret>>

\* ^D: a read that has bytes already leaves it for the next read.
readEof(p) ==
  /\ r' = IF n[p] < target[p] THEN r ELSE plus(r, 1)
  /\ readReturn(p, target[p] - n[p])

\* One character of the outer loop, or the end of it; either_copyout() may fail.
ReadChar(p) ==
  LET c == buf[slot(r)] IN
  /\ rpc[p] = "loop" /\ (n[p] = 0 \/ r # w)
  /\ \/ n[p] = 0 /\ readReturn(p, target[p]) /\ UNCHANGED r
     \/ n[p] > 0 /\ c = "^D" /\ readEof(p)
     \/ n[p] > 0 /\ c # "^D" /\ r' = plus(r, 1) /\ readReturn(p, target[p] - n[p])
     \/ n[p] > 0 /\ c = "nl" /\ r' = plus(r, 1) /\ readReturn(p, target[p] - n[p] + 1)
     \/ /\ n[p] > 0 /\ c \notin {"^D", "nl"}
        /\ r' = plus(r, 1)
        /\ n' = [n EXCEPT ![p] = @ - 1]
        /\ UNCHANGED <<lock, rpc, target, ret>>
  /\ UNCHANGED <<buf, w, e, killed>>

\* kkill() of a reader.
Kill(p) ==
  /\ ~ killed[p] /\ rpc[p] # "idle"
  /\ killed' = [killed EXCEPT ![p] = TRUE]
  /\ moveR(p, IF rpc[p] = "asleep" THEN "acquire" ELSE rpc[p])
  /\ UNCHANGED <<consvars, n, target, ret>>

---------------------------------------------------------------------------
(* consoleintr().                                                          *)

\* ^U: how many characters it takes back.
lineLength ==
  CHOOSE k \in 0..INPUT_BUF_SIZE :
    /\ plus(e, 0 - k) = w \/ buf[slot(plus(e, 0 - k - 1))] = "nl"
    /\ \A j \in 0..(k - 1) :
         plus(e, 0 - j) # w /\ buf[slot(plus(e, 0 - j - 1))] # "nl"

accepted(ch) == ch # "nul" /\ used(e) < INPUT_BUF_SIZE

\* Mutant: only one of the sleeping readers is woken.
wakeReaders_one ==
  LET asleep == {p \in Readers : rpc[p] = "asleep"} IN
  rpc' = IF asleep = {} THEN rpc ELSE [rpc EXCEPT ![CHOOSE p \in asleep : TRUE] = "acquire"]

\* wakeup(&cons.r).
wakeReaders == rpc' = [p \in Readers |-> IF rpc[p] = "asleep" THEN "acquire" ELSE rpc[p]]

\* Mutant: a full buffer does not count as a line.
lineEnds_notFull(c) == c \in {"nl", "^D"}

\* The conditions under which what was edited is given to the readers.
lineEnds(c) == c \in {"nl", "^D"} \/ used(plus(e, 1)) = INPUT_BUF_SIZE

\* The default case: store the character.
store(ch) ==
  LET c == IF ch = "cr" THEN "nl" ELSE ch IN
  /\ buf' = [buf EXCEPT ![slot(e)] = c]
  /\ e' = plus(e, 1)
  /\ IF lineEnds(c) THEN w' = e' /\ wakeReaders ELSE UNCHANGED <<w, rpc>>

\* consoleintr(ch), from acquire to release; ^P only prints.
Type(ch) ==
  /\ lock = None
  /\ \/ ch = "^P" /\ UNCHANGED <<buf, w, e, rpc>>
     \/ ch = "^U" /\ e' = plus(e, 0 - lineLength) /\ UNCHANGED <<buf, w, rpc>>
     \/ ch = "^H" /\ e' = (IF e # w THEN plus(e, 0 - 1) ELSE e) /\ UNCHANGED <<buf, w, rpc>>
     \/ ch \notin {"^P", "^U", "^H"} /\ accepted(ch) /\ store(ch)
     \/ ch \notin {"^P", "^U", "^H"} /\ ~ accepted(ch) /\ UNCHANGED <<buf, w, e, rpc>>
  /\ UNCHANGED <<r, lock, n, target, killed, ret>>

---------------------------------------------------------------------------
Reader(p) == ReadAcquire(p) \/ ReadEmpty(p) \/ ReadSleep(p) \/ ReadChar(p)

Next ==
  \/ \E ch \in Keys : Type(ch)
  \/ \E p \in Readers : Reader(p) \/ Read(p) \/ Kill(p)

Spec == Init /\ [][Next]_vars

---------------------------------------------------------------------------
(* Properties.                                                             *)

\* The characters of the ring that readers may take, and those still edited.
Committed == [i \in 1..used(w) |-> buf[slot(plus(r, i - 1))]]
Editing == [i \in 1..((e - w) % UINT) |-> buf[slot(plus(w, i - 1))]]

Line == INSTANCE InputLine WITH
  Char <- {"x", "nl", "^D"}, NL <- "nl", EOF <- "^D", Room <- INPUT_BUF_SIZE,
  committed <- Committed, editing <- Editing

\* Types of the ring and the readers; the indices in the order
\* r, w, e within one buffer length, across their wrap-around; no read returns
\* more than it asked for.
TypeOK ==
  /\ buf \in [0..(INPUT_BUF_SIZE - 1) -> AllKeys \ {"cr"}]
  /\ {r, w, e} \subseteq 0..(UINT - 1)
  /\ used(w) <= used(e) /\ used(e) <= INPUT_BUF_SIZE
  /\ lock \in Readers \cup {None}
  /\ rpc \in [Readers -> {"idle", "acquire", "loop", "sleep", "asleep"}]
  /\ target \in [Readers -> ReadSizes \cup {0}]
  /\ n \in [Readers -> Nat] /\ \A p \in Readers : n[p] <= target[p]
  /\ killed \in [Readers -> BOOLEAN]
  /\ \A p \in Readers : ret[p] \in {-1, 0} \/ \E k \in ReadSizes : ret[p] \in 0..k

\* The ring with its three free-running indices is a line editor: erasing never
\* reaches committed input, nothing is overwritten when the ring is full, and
\* the readers together take what was typed, in order.
RingIsLineEditor == Line!Spec

\* No wakeup is lost between consoleread() and consoleintr(): a sleeping reader
\* has nothing to read.
SleepersHaveNoInput ==
  \A p \in Readers : rpc[p] = "asleep" => r = w

\* An end of file is consumed only by a read that returns 0 (console.c:107, "to
\* make sure caller gets a 0-byte result"), and a read returns 0 only after it
\* has consumed something: an end of file, or a byte it could not copy out.
EofIsEmptyRead ==
  [][\A p \in Readers :
       /\ r # w /\ buf[slot(r)] = "^D" /\ r' # r /\ lock = p => ret'[p] = 0 /\ rpc'[p] = "idle"
       /\ rpc[p] = "loop" /\ rpc'[p] = "idle" /\ target[p] > 0 /\ ret'[p] = 0 =>
            r # w /\ r' = plus(r, 1)
    ]_vars

\* The indices stay in order and no reader sleeps over input.
ConsoleConsistent == TypeOK /\ SleepersHaveNoInput

\* What readers get is lines as they were edited, and an end of file once.
ReadsLines == RingIsLineEditor /\ EofIsEmptyRead
============================================================================
