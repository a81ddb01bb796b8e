------------------------------ MODULE Filters ------------------------------
(***************************************************************************)
(* The filters of user/grep.c and user/wc.c.  They read a text through     *)
(* read(), which may return any part of what is left (a pipe's reader      *)
(* takes what the writer has put there so far), so that a line or a word   *)
(* comes in pieces.  Texts contain no NUL byte.                            *)
(***************************************************************************)
EXTENDS Integers, Sequences, SequencesExt

CONSTANTS BUF,        \* sizeof(buf) of grep
          Texts,      \* inputs: sequences of characters, "NL" and " "
          Patterns    \* regular expressions of grep

VARIABLES prog,    \* the program: "grep" or "wc"
          text,    \* all of its input
          re,      \* grep's pattern
          pos,     \* bytes read so far
          buf,     \* grep: the bytes of buf before m
          out,     \* grep: what it has written
          count,   \* wc: l, w, c and inword
          done     \* the program has returned from its loop

vars == <<prog, text, re, pos, buf, out, count, done>>

with(x, F(_)) == F(x)

at(s, i) == IF i \in 1..Len(s) THEN s[i] ELSE "NUL"

---------------------------------------------------------------------------
(* The matcher; r and t are the positions re and text point to.            *)

RECURSIVE matchhere(_, _, _, _), matchstar(_, _, _, _, _)

matchhere(pattern, line, r, t) ==
  CASE at(pattern, r) = "NUL" -> TRUE
    [] at(pattern, r) # "NUL" /\ at(pattern, r + 1) = "*" ->
         matchstar(at(pattern, r), pattern, line, r + 2, t)
    [] at(pattern, r) = "$" /\ at(pattern, r + 1) = "NUL" -> at(line, t) = "NUL"
    [] OTHER -> /\ at(line, t) # "NUL"
                /\ at(pattern, r) \in {".", at(line, t)}
                /\ matchhere(pattern, line, r + 1, t + 1)

matchstar(c, pattern, line, r, t) ==
  \/ matchhere(pattern, line, r, t)
  \/ /\ at(line, t) # "NUL"
     /\ c \in {".", at(line, t)}
     /\ matchstar(c, pattern, line, r, t + 1)

match(pattern, line) ==
  IF at(pattern, 1) = "^" THEN matchhere(pattern, line, 2, 1)
  ELSE \E t \in 1..(Len(line) + 1) : matchhere(pattern, line, 1, t)

---------------------------------------------------------------------------
(* One round of grep()'s loop: the whole lines in buf, then the rest moved *)
(* to its front.                                                           *)

RECURSIVE printLines(_, _)
printLines(b, o) ==
  IF ~Contains(b, "NL") THEN [buf |-> b, out |-> o]
  ELSE with(CHOOSE q \in 1..Len(b) : b[q] = "NL" /\ \A i \in 1..(q - 1) : b[i] # "NL",
         LAMBDA q :
           printLines(SubSeq(b, q + 1, Len(b)),
                      IF match(re, SubSeq(b, 1, q - 1)) THEN o \o SubSeq(b, 1, q) ELSE o))

\* One byte of wc()'s loop.
countByte(k, ch) ==
  [l |-> IF ch = "NL" THEN k.l + 1 ELSE k.l,
   w |-> IF ch \notin {"NL", " "} /\ ~k.inword THEN k.w + 1 ELSE k.w,
   c |-> k.c + 1,
   inword |-> ch \notin {"NL", " "}]

counted(k, bytes) == FoldLeft(countByte, k, bytes)

\* read() may return any number of bytes up to the size asked for, and 0 only
\* at the end of the input or when the size is 0.
got(size) == {n \in 1..size : pos + n <= Len(text)}

room == BUF - Len(buf) - 1

---------------------------------------------------------------------------
Init ==
  /\ prog \in {"grep", "wc"}
  /\ text \in Texts
  /\ re \in IF prog = "grep" THEN Patterns ELSE {<<>>}
  /\ pos = 0 /\ buf = <<>> /\ out = <<>>
  /\ count = [l |-> 0, w |-> 0, c |-> 0, inword |-> FALSE]
  /\ done = FALSE

Grep ==
  /\ prog = "grep" /\ ~done
  /\ \E n \in got(room) :
       \E r \in {printLines(buf \o SubSeq(text, pos + 1, pos + n), out)} :
         /\ buf' = r.buf
         /\ out' = r.out
         /\ pos' = pos + n
  /\ UNCHANGED <<prog, text, re, count, done>>

Wc ==
  /\ prog = "wc" /\ ~done
  /\ \E n \in got(BUF) :
       /\ count' = counted(count, SubSeq(text, pos + 1, pos + n))
       /\ pos' = pos + n
  /\ UNCHANGED <<prog, text, re, buf, out, done>>

\* read() returns 0.
Return ==
  /\ ~done
  /\ got(IF prog = "grep" THEN room ELSE BUF) = {}
  /\ done' = TRUE
  /\ UNCHANGED <<prog, text, re, pos, buf, out, count>>

Finished == done /\ UNCHANGED vars

Next == Grep \/ Wc \/ Return \/ Finished

Spec == Init /\ [][Next]_vars

---------------------------------------------------------------------------
(* What a pattern means, by the sets of places its items lead to.          *)

\* The items of a pattern from r on: a character, starred or not.
RECURSIVE items(_, _)
items(pattern, r) ==
  IF r > Len(pattern) \/ (r = Len(pattern) /\ pattern[r] = "$") THEN <<>>
  ELSE IF at(pattern, r + 1) = "*" THEN <<<<pattern[r], TRUE>>>> \o items(pattern, r + 2)
  ELSE <<<<pattern[r], FALSE>>>> \o items(pattern, r + 1)

\* The last "$" is an anchor when it is not the starred or the first character
\* of an item.
RECURSIVE anchoredEnd(_, _)
anchoredEnd(pattern, r) ==
  /\ r <= Len(pattern)
  /\ IF at(pattern, r + 1) = "*" THEN anchoredEnd(pattern, r + 2)
     ELSE (r = Len(pattern) /\ pattern[r] = "$") \/ anchoredEnd(pattern, r + 1)

fits(c, ch) == c = "." \/ c = ch

after(line, item, S) ==
  IF item[2]
  THEN {t \in 1..(Len(line) + 1) :
          \E s \in S : s <= t /\ \A i \in s..(t - 1) : fits(item[1], line[i])}
  ELSE {s + 1 : s \in {x \in S : x <= Len(line) /\ fits(item[1], line[x])}}

means(pattern, line) ==
  with(IF at(pattern, 1) = "^" THEN 2 ELSE 1, LAMBDA r :
    with(FoldLeft(LAMBDA S, item : after(line, item, S),
                  IF r = 2 THEN {1} ELSE 1..(Len(line) + 1), items(pattern, r)),
         LAMBDA E : IF anchoredEnd(pattern, r) THEN Len(line) + 1 \in E ELSE E # {}))

\* The lines of s that end in a newline, up to the first that, with its
\* newline, is longer than the buffer.
RECURSIVE wanted(_)
wanted(s) ==
  IF ~Contains(s, "NL") THEN <<>>
  ELSE with(CHOOSE q \in 1..Len(s) : s[q] = "NL" /\ \A i \in 1..(q - 1) : s[i] # "NL",
         LAMBDA q :
           IF q > BUF - 1 THEN <<>>
           ELSE (IF means(re, SubSeq(s, 1, q - 1)) THEN SubSeq(s, 1, q) ELSE <<>>)
                \o wanted(SubSeq(s, q + 1, Len(s))))

---------------------------------------------------------------------------
(* Properties.                                                             *)

\* However read() cuts the text up, grep writes exactly the lines that match
\* (as far as no line is too long for buf), each once and whole.
GrepWritesMatches == prog = "grep" /\ done => out = wanted(text)

\* wc counts lines, words and bytes of the text, not of the pieces: a word that
\* two calls of read() return in parts is one word.
WcCounts ==
  prog = "wc" /\ done =>
    LET starts == {i \in 1..Len(text) :
                     text[i] \notin {"NL", " "} /\ at(text, i - 1) \in {"NL", " ", "NUL"}}
    IN /\ count.l = Len(SelectSeq(text, LAMBDA ch : ch = "NL"))
       /\ count.w = Len(SelectSeq([i \in 1..Len(text) |-> i], LAMBDA i : i \in starts))
       /\ count.c = Len(text)

\* The result does not depend on how read() cuts the text up.
FiltersCorrect == GrepWritesMatches /\ WcCounts
=============================================================================
