------------------------------ MODULE Strings ------------------------------
(***************************************************************************)
(* The byte and string functions the kernel and the programs share:        *)
(* memmove() (kernel/string.c and user/ulib.c), strncpy(), strncmp() and   *)
(* skipelem() as directories use them, copyinstr(), printint() and atoi(). *)
(* Each state is one call with its arguments; nothing happens to it.       *)
(* Loops are written as loops, one byte at a time, so that overlap, stale  *)
(* bytes and ends of buffers mean what they mean in C.                     *)
(***************************************************************************)
EXTENDS Integers, Sequences, SequencesExt, FiniteSets

CONSTANTS DIRSIZ,     \* bytes of a name in a directory entry
          PGSIZE,
          W,          \* width in bits of the integers printed
          Names,      \* path elements: non-empty sequences of characters
          Paths,      \* sequences of characters and "/"
          Cells       \* size of the memories used

VARIABLE call

with(x, F(_)) == F(x)

char(b, s) == IF s \in 1..Len(b) THEN b[s] ELSE "NUL"

---------------------------------------------------------------------------
(* memmove(): one assignment after the other.                              *)

copyOne(mem, d, s) == [mem EXCEPT ![d] = mem[s]]

forward(mem, dst, src, n) ==
  FoldLeft(LAMBDA m, i : copyOne(m, dst + i - 1, src + i - 1), mem, [i \in 1..n |-> i])

backward(mem, dst, src, n) ==
  FoldLeft(LAMBDA m, i : copyOne(m, dst + n - i, src + n - i), mem, [i \in 1..n |-> i])

memmove(mem, dst, src, n) ==
  IF src < dst /\ src + n > dst THEN backward(mem, dst, src, n) ELSE forward(mem, dst, src, n)

umemmove(mem, dst, src, n) ==
  IF src > dst THEN forward(mem, dst, src, n) ELSE backward(mem, dst, src, n)

---------------------------------------------------------------------------
(* Names in paths and in directories.                                      *)

RECURSIVE slashes(_, _)
slashes(path, s) == IF char(path, s) = "/" THEN slashes(path, s + 1) ELSE s

RECURSIVE element(_, _)
element(path, s) == IF char(path, s) \in {"/", "NUL"} THEN s ELSE element(path, s + 1)

\* memmove(name, s, k) into a name buffer that holds an earlier name.
over(name, text, k) == [i \in 1..DIRSIZ |-> IF i <= k THEN text[i] ELSE name[i]]

\* Mutant: a short name is not terminated.
putName_noNul(name, text) ==
  over(name, text, IF Len(text) >= DIRSIZ THEN DIRSIZ ELSE Len(text))

\* The name buffer after skipelem() has copied an element into it.
putName(name, text) ==
  IF Len(text) >= DIRSIZ THEN over(name, text, DIRSIZ)
  ELSE [over(name, text, Len(text)) EXCEPT ![Len(text) + 1] = "NUL"]

\* skipelem(path + p, name): the position it returns, 0 for a null pointer.
skipelem(path, p, name) ==
  with(slashes(path, p), LAMBDA s :
    IF char(path, s) = "NUL" THEN [path |-> 0, name |-> name]
    ELSE with(element(path, s), LAMBDA e :
           [path |-> slashes(path, e), name |-> putName(name, SubSeq(path, s, e - 1))]))

\* strncpy(s, t, n), n = DIRSIZ: copy up to and with the NUL, then fill up.
RECURSIVE strncpy(_, _, _, _)
strncpy(s, t, i, n) ==
  IF n <= 0 THEN s
  ELSE IF char(t, i) # "NUL" THEN strncpy([s EXCEPT ![i] = t[i]], t, i + 1, n - 1)
  ELSE [j \in 1..DIRSIZ |-> IF j >= i /\ j < i + n THEN "NUL" ELSE s[j]]

\* strncmp(p, q, n) = 0.
RECURSIVE same(_, _, _, _)
same(p, q, i, n) ==
  IF n > 0 /\ char(p, i) # "NUL" /\ char(p, i) = char(q, i) THEN same(p, q, i + 1, n - 1)
  ELSE n = 0 \/ char(p, i) = char(q, i)

namecmp(p, q) == same(p, q, 1, DIRSIZ)

junk == [i \in 1..DIRSIZ |-> "j"]

\* The name of the entry dirlink() writes over an old one.
entry(name) == strncpy(junk, name, 1, DIRSIZ)

\* namex() finds the element y of a path, with x in the name buffer before it.
found(x, y) == namecmp(skipelem(y, 1, skipelem(x, 1, junk).name).name,
                       entry(skipelem(x, 1, junk).name))

\* namex() takes the elements one by one, with one name buffer for all.
RECURSIVE elements(_, _, _)
elements(path, p, name) ==
  with(skipelem(path, p, name), LAMBDA r :
    IF r.path = 0 THEN <<>>
    ELSE <<[name |-> entry(r.name), last |-> char(path, r.path) = "NUL"]>>
         \o elements(path, r.path, r.name))

---------------------------------------------------------------------------
(* copyinstr(): user memory in pages, of which some are mapped.            *)

\* One page: the bytes up to the NUL, the end of the page or max.
RECURSIVE copyPage(_, _, _, _)
copyPage(mem, dst, va, n) ==
  IF n = 0 THEN [dst |-> dst, null |-> FALSE]
  ELSE IF mem[va] = "NUL" THEN [dst |-> Append(dst, "NUL"), null |-> TRUE]
  ELSE copyPage(mem, Append(dst, mem[va]), va + 1, n - 1)

smaller(a, b) == IF a < b THEN a ELSE b

\* What is left of max after n bytes.
left(max, n) == max - n

RECURSIVE copyinstr(_, _, _, _, _)
copyinstr(mem, mapped, dst, srcva, max) ==
  IF max <= 0 \/ srcva \div PGSIZE \notin mapped THEN [ret |-> 0 - 1, dst |-> dst]
  ELSE with(smaller(PGSIZE - (srcva % PGSIZE), max), LAMBDA n :
         with(copyPage(mem, dst, srcva, n), LAMBDA r :
           IF r.null THEN [ret |-> 0, dst |-> r.dst]
           ELSE copyinstr(mem, mapped, r.dst, (srcva \div PGSIZE + 1) * PGSIZE, left(max, n))))

---------------------------------------------------------------------------
(* printint() and atoi().                                                  *)

RECURSIVE digits(_, _)
digits(x, base) ==
  IF x \div base = 0 THEN <<x>> ELSE digits(x \div base, base) \o <<x % base>>

\* x = -xx as an unsigned number of W bits.
magnitude(xx) == (IF xx < 0 THEN 0 - xx ELSE xx) % (2^W)

printint(xx, base, sign) ==
  IF sign /\ xx < 0 THEN [minus |-> TRUE, digits |-> digits(magnitude(xx), base)]
  ELSE [minus |-> FALSE, digits |-> digits(xx % (2^W), base)]

RECURSIVE atoi(_, _)
atoi(s, n) == IF s = <<>> \/ Head(s) \notin 0..9 THEN n ELSE atoi(Tail(s), n * 10 + Head(s))

---------------------------------------------------------------------------
Places == 1..Cells

Jobs ==
  [fn : {"memmove"}, dst : Places, src : Places, n : 0..Cells]
  \cup [fn : {"name"}, x : Names, y : Names]
  \cup [fn : {"path"}, path : Paths]
  \cup [fn : {"copyinstr"}, nul : SUBSET (0..(Cells - 1)), mapped : SUBSET (0..((Cells - 1) \div PGSIZE)),
        va : 0..(Cells - 1), max : 0..Cells]
  \cup [fn : {"printint"}, xx : (0 - 2^(W - 1))..(2^(W - 1) - 1), base : {10, 16}, sign : BOOLEAN]

Init == call \in Jobs

Next == UNCHANGED call

Spec == Init /\ [][Next]_call

---------------------------------------------------------------------------
(* Properties.                                                             *)

\* memmove() of the kernel and of the programs copies as if through a buffer of
\* its own, however source and destination overlap.
MoveKeepsBytes ==
  LET d == call.dst
      s == call.src
      n == call.n
      before == [i \in Places |-> i]
      after == [i \in Places |-> IF i \in d..(d + n - 1) THEN before[i - d + s] ELSE before[i]]
  IN call.fn = "memmove" /\ d + n <= Cells + 1 /\ s + n <= Cells + 1 =>
       memmove(before, d, s, n) = after /\ umemmove(before, d, s, n) = after

\* A name that was linked is found under another name exactly when the first
\* DIRSIZ characters agree: neither the missing NUL of a name of DIRSIZ
\* characters nor what an earlier element left in the name buffer matters.
NamesFound ==
  call.fn = "name" =>
    (found(call.x, call.y) <=>
       SubSeq(call.x, 1, smaller(Len(call.x), DIRSIZ)) = SubSeq(call.y, 1, smaller(Len(call.y), DIRSIZ)))

\* Where the elements of a path begin and end: its longest runs without "/".
runs(path) ==
  {x \in (1..Len(path)) \X (1..Len(path)) :
     /\ x[1] <= x[2]
     /\ \A k \in x[1]..x[2] : path[k] # "/"
     /\ char(path, x[1] - 1) \in {"/", "NUL"} /\ char(path, x[2] + 1) \in {"/", "NUL"}}

padded(text) == [i \in 1..DIRSIZ |-> char(text, i)]

\* Repeated skipelem() yields the elements of a path in order, cut to DIRSIZ
\* characters, however many slashes there are, and only the last one leaves an
\* empty path (fs.c:636, "so the caller can check *path=='\0'").
PathElements ==
  call.fn = "path" =>
    with(SetToSortSeq(runs(call.path), LAMBDA x, y : x[1] < y[1]), LAMBDA ordered :
      elements(call.path, 1, junk) =
        [i \in 1..Len(ordered) |->
           [name |-> padded(SubSeq(call.path, ordered[i][1], ordered[i][2])),
            last |-> i = Len(ordered)]])

\* copyinstr() succeeds exactly when a NUL is among the first max bytes and the
\* pages up to it are mapped, and then the copy is the string with its NUL.
StringCopied ==
  LET mem == [a \in 0..(Cells - 1) |-> IF a \in call.nul THEN "NUL" ELSE "c"]
      ends == {a \in call.nul : a >= call.va /\ a < call.va + call.max}
      r == copyinstr(mem, call.mapped, <<>>, call.va, call.max)
  IN call.fn = "copyinstr" =>
       (r.ret = 0 <=>
          \E a \in ends :
            /\ \A b \in ends : a <= b
            /\ \A p \in (call.va \div PGSIZE)..(a \div PGSIZE) : p \in call.mapped
            /\ r.dst = [i \in 1..(a - call.va + 1) |-> mem[call.va + i - 1]])

value(s, base) == FoldLeft(LAMBDA n, d : n * base + d, 0, s)

\* What is printed reads as the number, the most negative one included, or as
\* its unsigned value; atoi() reads what %d of a non-negative number prints.
PrintsTheNumber ==
  call.fn = "printint" =>
    with(printint(call.xx, call.base, call.sign), LAMBDA s :
      /\ (IF s.minus THEN 0 - value(s.digits, call.base) ELSE value(s.digits, call.base))
           = IF call.sign THEN call.xx ELSE call.xx % (2^W)
      /\ call.xx >= 0 /\ call.base = 10 => atoi(s.digits, 0) = call.xx)

\* Every call computes what its definition without loops and buffers says.
RoutinesCorrect ==
  MoveKeepsBytes /\ NamesFound /\ PathElements /\ StringCopied /\ PrintsTheNumber
=============================================================================
