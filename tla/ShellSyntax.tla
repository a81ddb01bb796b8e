---------------------------- MODULE ShellSyntax ----------------------------
(***************************************************************************)
(* The parser of user/sh.c: gettoken(), peek() and the recursive descent   *)
(* parsecmd(), parseline(), parsepipe(), parseexec(), parseblock(),        *)
(* parseredirs(), with nulterminate().  A line is a sequence of            *)
(* characters; a pointer into it is a position, and the position after the *)
(* last character holds the NUL.                                           *)
(***************************************************************************)
EXTENDS Naturals, Sequences, FiniteSets, SequencesExt

CONSTANT MAXARGS

whitespace == {" ", "\n"}
symbols == {"<", "|", ">", "&", ";", "(", ")"}

char(b, s) == IF s \in 1..Len(b) THEN b[s] ELSE "NUL"

\* The first position from s on whose character is not in the set cs.
RECURSIVE skip(_, _, _)
skip(b, s, cs) == IF char(b, s) \in cs THEN skip(b, s + 1, cs) ELSE s

RECURSIVE wordEnd(_, _)
wordEnd(b, s) ==
  IF char(b, s) \in whitespace \cup symbols \cup {"NUL"} THEN s ELSE wordEnd(b, s + 1)

with(x, F(_)) == F(x)

\* The token at s: "+" stands for ">>", "a" for a word.
token(b, s) ==
  with(char(b, s), LAMBDA c :
  CASE c = "NUL" -> [tok |-> c, eq |-> s]
    [] c = ">" /\ char(b, s + 1) = ">" -> [tok |-> "+", eq |-> s + 2]
    [] c \in symbols -> [tok |-> c, eq |-> s + 1]
    [] OTHER -> [tok |-> "a", eq |-> wordEnd(b, s)])

gettoken(b, ps) ==
  with(skip(b, ps, whitespace), LAMBDA q :
    with(token(b, q), LAMBDA t :
      [tok |-> t.tok, q |-> q, eq |-> t.eq, s |-> skip(b, t.eq, whitespace)]))

peek(b, ps, toks) == char(b, skip(b, ps, whitespace)) \in toks

\* The trees.
execcmd(argv) == [type |-> "EXEC", argv |-> argv]
redircmd(cmd, file, tok) == [type |-> "REDIR", cmd |-> cmd, file |-> file,
                             tok |-> tok, fd |-> IF tok = "<" THEN 0 ELSE 1]
pipecmd(left, right) == [type |-> "PIPE", left |-> left, right |-> right]
listcmd(left, right) == [type |-> "LIST", left |-> left, right |-> right]
backcmd(cmd) == [type |-> "BACK", cmd |-> cmd]

\* A parse ends with a tree and a position, or with panic().
parsed(cmd, s) == [ok |-> TRUE, cmd |-> cmd, s |-> s]
panic == [ok |-> FALSE]
andThen(r, F(_)) == IF r.ok THEN F(r) ELSE panic

\* parseredirs(): the redirections at ps, in order.
RECURSIVE parseredirs(_, _, _)
parseredirs(b, rs, ps) ==
  IF ~ peek(b, ps, {"<", ">"})
  THEN [ok |-> TRUE, redirs |-> rs, s |-> ps]
  ELSE with(gettoken(b, ps), LAMBDA t : with(gettoken(b, t.s), LAMBDA f :
         IF f.tok # "a" THEN panic
         ELSE parseredirs(b, Append(rs, [file |-> <<f.q, f.eq>>, tok |-> t.tok]), f.s)))

\* A later redirection is put around an earlier one.
wrap(cmd, rs) == FoldLeft(LAMBDA c, x : redircmd(c, x.file, x.tok), cmd, rs)

tooMany(argc) == argc >= MAXARGS

\* The loop of parseexec(): words, and redirections between them.
RECURSIVE parseargs(_, _, _, _)
parseargs(b, argv, rs, ps) ==
  IF peek(b, ps, {"|", ")", "&", ";"}) THEN parsed(wrap(execcmd(argv), rs), ps)
  ELSE with(gettoken(b, ps), LAMBDA t :
    IF t.tok = "NUL" THEN parsed(wrap(execcmd(argv), rs), t.s)
    ELSE IF t.tok # "a" \/ tooMany(Len(argv) + 1) THEN panic
    ELSE andThen(parseredirs(b, rs, t.s), LAMBDA r :
           parseargs(b, Append(argv, <<t.q, t.eq>>), r.redirs, r.s)))

RECURSIVE parseline(_, _)

parseblock(b, ps) ==
  andThen(parseline(b, gettoken(b, ps).s), LAMBDA l :
    IF ~ peek(b, l.s, {")"}) THEN panic
    ELSE andThen(parseredirs(b, <<>>, gettoken(b, l.s).s), LAMBDA r :
           parsed(wrap(l.cmd, r.redirs), r.s)))

parseexec(b, ps) ==
  IF peek(b, ps, {"("}) THEN parseblock(b, ps)
  ELSE andThen(parseredirs(b, <<>>, ps), LAMBDA r : parseargs(b, <<>>, r.redirs, r.s))

RECURSIVE parsepipe(_, _)
parsepipe(b, ps) ==
  andThen(parseexec(b, ps), LAMBDA l :
    IF ~ peek(b, l.s, {"|"}) THEN l
    ELSE andThen(parsepipe(b, gettoken(b, l.s).s), LAMBDA r :
           parsed(pipecmd(l.cmd, r.cmd), r.s)))

\* The loop of parseline(): any number of "&".
RECURSIVE backs(_, _, _)
backs(b, cmd, ps) ==
  IF peek(b, ps, {"&"}) THEN backs(b, backcmd(cmd), gettoken(b, ps).s) ELSE parsed(cmd, ps)

\* Does a list go on at ps?
another(b, ps) == peek(b, ps, {";"})

parseline(b, ps) ==
  andThen(parsepipe(b, ps), LAMBDA l :
    with(backs(b, l.cmd, l.s), LAMBDA k :
      IF ~ another(b, k.s) THEN k
      ELSE andThen(parseline(b, gettoken(b, k.s).s), LAMBDA r :
             parsed(listcmd(k.cmd, r.cmd), r.s))))

\* Nothing may be left over.
parsecmd(b) ==
  andThen(parseline(b, 1), LAMBDA l :
    IF skip(b, l.s, whitespace) = Len(b) + 1 THEN l ELSE panic)

\* nulterminate(): the positions it overwrites with a NUL.
RECURSIVE nulterminate(_)
nulterminate(cmd) ==
  CASE cmd.type = "EXEC" -> {cmd.argv[i][2] : i \in DOMAIN cmd.argv}
    [] cmd.type = "REDIR" -> nulterminate(cmd.cmd) \cup {cmd.file[2]}
    [] cmd.type \in {"PIPE", "LIST"} -> nulterminate(cmd.left) \cup nulterminate(cmd.right)
    [] cmd.type = "BACK" -> nulterminate(cmd.cmd)

\* The C string from position q of a line with its NULs in place.
RECURSIVE cstring(_, _)
cstring(z, q) == IF char(z, q) = "NUL" THEN <<>> ELSE <<z[q]>> \o cstring(z, q + 1)

\* Mutant: only the words of the first command of a pipe or list are terminated.
nuls_left(cmd) == IF cmd.type \in {"PIPE", "LIST"} THEN nulterminate(cmd.left) ELSE nulterminate(cmd)

nuls(cmd) == nulterminate(cmd)

terminated(b, cmd) == with(nuls(cmd), LAMBDA S : [i \in 1..Len(b) |-> IF i \in S THEN "NUL" ELSE b[i]])

\* The tree as runcmd() finds it: its words are C strings.
RECURSIVE spelled(_, _)
spelled(z, cmd) ==
  CASE cmd.type = "EXEC" -> execcmd([i \in DOMAIN cmd.argv |-> cstring(z, cmd.argv[i][1])])
    [] cmd.type = "REDIR" -> redircmd(spelled(z, cmd.cmd), cstring(z, cmd.file[1]), cmd.tok)
    [] cmd.type = "PIPE" -> pipecmd(spelled(z, cmd.left), spelled(z, cmd.right))
    [] cmd.type = "LIST" -> listcmd(spelled(z, cmd.left), spelled(z, cmd.right))
    [] cmd.type = "BACK" -> backcmd(spelled(z, cmd.cmd))

---------------------------------------------------------------------------
(* The grammar, by splitting the line's tokens at its operators.           *)

\* All tokens of the line from position s on, words with their spelling.
RECURSIVE lexemes(_, _)
lexemes(b, s) ==
  with(skip(b, s, whitespace), LAMBDA q :
    IF q > Len(b) THEN <<>>
    ELSE with(IF b[q] \in symbols
              THEN IF SubSeq(b, q, q + 1) = <<">", ">">> THEN q + 1 ELSE q
              ELSE CHOOSE i \in q..Len(b) :
                     /\ \A j \in q..i : b[j] \notin whitespace \cup symbols
                     /\ i = Len(b) \/ b[i + 1] \in whitespace \cup symbols,
              LAMBDA last :
           <<[tok |-> IF b[q] \notin symbols THEN "a" ELSE IF last > q THEN "+" ELSE b[q],
              word |-> SubSeq(b, q, last)]>> \o lexemes(b, last + 1)))

depth(ts, k) ==
  Cardinality({i \in 1..k : ts[i].tok = "("}) - Cardinality({i \in 1..k : ts[i].tok = ")"})

\* Positions of an operator outside parentheses.
outer(ts, t) == {k \in DOMAIN ts : ts[k].tok = t /\ depth(ts, k) = 0}

first(S) == CHOOSE k \in S : \A j \in S : k <= j

before(ts, k) == SubSeq(ts, 1, k - 1)
after(ts, k) == SubSeq(ts, k + 1, Len(ts))

Wrong == [type |-> "wrong"]

\* Words and redirections, in any order.
RECURSIVE simple(_, _, _)
simple(ts, argv, rs) ==
  IF ts = <<>> THEN IF Len(argv) < MAXARGS THEN wrap(execcmd(argv), rs) ELSE Wrong
  ELSE IF ts[1].tok = "a" THEN simple(Tail(ts), Append(argv, ts[1].word), rs)
  ELSE IF ts[1].tok \in {"<", ">", "+"} /\ Len(ts) > 1 /\ ts[2].tok = "a"
       THEN simple(SubSeq(ts, 3, Len(ts)), argv, Append(rs, [file |-> ts[2].word, tok |-> ts[1].tok]))
  ELSE Wrong

join(f(_, _), l, r) == IF l = Wrong \/ r = Wrong THEN Wrong ELSE f(l, r)

\* A block and its redirections.
block(ts, c, k) ==
  with(after(ts, k), LAMBDA rs :
    IF c = Wrong \/ simple(rs, <<>>, <<>>) = Wrong \/ (\E i \in DOMAIN rs : i % 2 = 1 /\ rs[i].tok = "a")
    THEN Wrong
    ELSE wrap(c, [i \in 1..(Len(rs) \div 2) |-> [file |-> rs[2 * i].word, tok |-> rs[2 * i - 1].tok]]))

back(c) == IF c = Wrong THEN Wrong ELSE backcmd(c)

RECURSIVE grammar(_)
split(ts, t, f(_, _)) ==
  with(first(outer(ts, t)), LAMBDA k : join(f, grammar(before(ts, k)), grammar(after(ts, k))))

grammar(ts) ==
  IF \E k \in DOMAIN ts : depth(ts, k) < 0 THEN Wrong
  ELSE IF outer(ts, ";") # {} THEN split(ts, ";", listcmd)
  ELSE IF ts # <<>> /\ Last(ts).tok = "&" THEN back(grammar(Front(ts)))
  ELSE IF outer(ts, "&") # {} THEN Wrong
  ELSE IF outer(ts, "|") # {} THEN split(ts, "|", pipecmd)
  ELSE IF ts # <<>> /\ ts[1].tok = "("
  THEN IF outer(ts, ")") = {} THEN Wrong
       ELSE with(first(outer(ts, ")")), LAMBDA k : block(ts, grammar(SubSeq(ts, 2, k - 1)), k))
  ELSE simple(ts, <<>>, <<>>)
=============================================================================
