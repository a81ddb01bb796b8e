------------------------------- MODULE Shell -------------------------------
(***************************************************************************)
(* The shell, user/sh.c: main() reads a line, forks, and the child parses  *)
(* it (ShellSyntax) and executes the tree with runcmd(): processes that    *)
(* fork, wait, open, close, dup and pipe until they exec a program.        *)
(*                                                                         *)
(* A process has the list of what it still has to do.  The programs are    *)
(* external: "a" copies its standard input to its standard output until    *)
(* end of file, "q" exits at once, and no other name can be executed.      *)
(* Files and the console give two items and then end of file, and accept   *)
(* everything; a pipe holds one item.                                      *)
(***************************************************************************)
EXTENDS ShellSyntax

CONSTANTS Lines,      \* the lines typed, without their newline
          NPROC,      \* processes the shell and its descendants may have
          NOFILE      \* descriptors per process

VARIABLES
  line,
  tree,       \* what parsecmd() made of it
  \* per process: "unused", "run" or "zombie"; its parent, 0 for init; its
  \* descriptors; what it has to do
  state, parent, ofile, todo,
  \* items in each pipe; items each program may still take from a file
  pipes, source,
  \* history: the command each program was started for, and whether fork()
  \* failed
  started, forkFailed

vars == <<line, tree, state, parent, ofile, todo, pipes, source, started, forkFailed>>

Procs == 1..NPROC
Fd == 0..(NOFILE - 1)
Closed == <<"closed">>
Console == <<"console">>

op(name, arg) == <<[op |-> name, arg |-> arg]>>

openFds(f) == {d \in Fd : f[d] # Closed}

\* fdalloc(): the smallest free descriptor.
lowest(f) == CHOOSE d \in Fd : f[d] = Closed /\ \A c \in Fd : c < d => f[c] # Closed

buf == line \o <<"\n">>

\* main(), from its first statement; init gives it the console three times or,
\* started by hand, nothing.
Init ==
  /\ line \in Lines
  /\ tree = <<>>
  /\ state = [p \in Procs |-> IF p = 1 THEN "run" ELSE "unused"]
  /\ parent = [p \in Procs |-> 0]
  /\ \E k \in {0, 3} :
       ofile = [p \in Procs |-> [d \in Fd |-> IF p = 1 /\ d < k THEN Console ELSE Closed]]
  /\ todo = [p \in Procs |-> IF p = 1 THEN op("openConsole", 0) \o op("getcmd", 0) ELSE <<>>]
  /\ pipes = <<>>
  /\ source = [p \in Procs |-> 2]
  /\ started = [p \in Procs |-> <<>>]
  /\ forkFailed = FALSE

at(p, name) == state[p] = "run" /\ todo[p] # <<>> /\ Head(todo[p]).op = name
arg(p) == Head(todo[p]).arg
then(p, ops) == todo' = [todo EXCEPT ![p] = ops \o Tail(@)]
done(p) == then(p, <<>>)

---------------------------------------------------------------------------
(* System calls.                                                           *)

\* open(): every file of these lines can be opened but "n".
Open(p) ==
  /\ at(p, "open")
  /\ IF arg(p) = <<"file", <<"n">>>>
     THEN then(p, op("exit", 0)) /\ UNCHANGED ofile
     ELSE ofile' = [ofile EXCEPT ![p][lowest(ofile[p])] = arg(p)] /\ done(p)
  /\ UNCHANGED <<line, tree, state, parent, pipes, source, started, forkFailed>>

Close(p) ==
  /\ at(p, "close")
  /\ ofile' = [ofile EXCEPT ![p][arg(p)] = Closed]
  /\ done(p)
  /\ UNCHANGED <<line, tree, state, parent, pipes, source, started, forkFailed>>

Dup(p) ==
  /\ at(p, "dup")
  /\ ofile' = [ofile EXCEPT ![p][lowest(ofile[p])] = ofile[p][arg(p)]]
  /\ done(p)
  /\ UNCHANGED <<line, tree, state, parent, pipes, source, started, forkFailed>>

\* Mutant: the parent keeps the write end of the pipe.
parentCloses_readOnly(p0, p1) == op("close", p0)

parentCloses(p0, p1) == op("close", p0) \o op("close", p1)

\* Mutant: the left command keeps the read end of its own pipe.
leftOf_keeps(p0, p1) == op("close", 1) \o op("dup", p1) \o op("close", p1)

leftOf(p0, p1) == op("close", 1) \o op("dup", p1) \o op("close", p0) \o op("close", p1)
rightOf(p0, p1) == op("close", 0) \o op("dup", p0) \o op("close", p0) \o op("close", p1)

parentWaits == op("wait", 0) \o op("wait", 0)

runcmd(cmd, path) == op("runcmd", [cmd |-> cmd, path |-> path])

\* pipe(p), and what the PIPE case of runcmd() does with the two descriptors; a
\* pipe() that finds no struct file or no memory is a panic(), which exits.  A pipe
\* is named by the command that made it.
Pipe(p) ==
  /\ at(p, "pipe")
  /\ \/ then(p, op("exit", 0)) /\ UNCHANGED <<ofile, pipes>>
     \/ \E x \in {arg(p)}, p0 \in {lowest(ofile[p])} :
        \E p1 \in {lowest([ofile[p] EXCEPT ![p0] = Console])} :
           /\ ofile' = [ofile EXCEPT ![p][p0] = <<"read", x.path>>, ![p][p1] = <<"write", x.path>>]
           /\ then(p,
                op("fork", leftOf(p0, p1) \o runcmd(x.cmd.left, Append(x.path, "l")))
                \o op("fork", rightOf(p0, p1) \o runcmd(x.cmd.right, Append(x.path, "r")))
                \o parentCloses(p0, p1) \o parentWaits)
           /\ pipes' = [y \in DOMAIN pipes \cup {x.path} |-> IF y = x.path THEN 0 ELSE pipes[y]]
  /\ UNCHANGED <<line, tree, state, parent, source, started, forkFailed>>

\* fork1(): the child goes on with the operation's argument and then exits; a
\* failure is a panic(), which exits.
Fork(p) ==
  /\ at(p, "fork")
  /\ \/ \E q \in {x \in Procs : state[x] = "unused" /\ \A y \in 1..(x - 1) : state[y] # "unused"} :
          /\ state' = [state EXCEPT ![q] = "run"]
          /\ parent' = [parent EXCEPT ![q] = p]
          /\ ofile' = [ofile EXCEPT ![q] = ofile[p]]
          /\ todo' = [todo EXCEPT ![p] = Tail(@), ![q] = arg(p)]
          /\ source' = [source EXCEPT ![q] = 2]
          /\ UNCHANGED forkFailed
     \/ /\ \A x \in Procs : state[x] # "unused"
        /\ then(p, op("exit", 0))
        /\ forkFailed' = TRUE
        /\ UNCHANGED <<state, parent, ofile, source>>
  /\ UNCHANGED <<line, tree, pipes, started>>

\* wait(0): reap a child, or return at once when there is none.
Wait(p) ==
  /\ at(p, "wait")
  /\ \/ \E q \in Procs :
          /\ parent[q] = p /\ state[q] = "zombie"
          /\ state' = [state EXCEPT ![q] = "unused"]
          /\ parent' = [parent EXCEPT ![q] = 0]
     \/ (\A q \in Procs : parent[q] # p) /\ UNCHANGED <<state, parent>>
  /\ done(p)
  /\ UNCHANGED <<line, tree, ofile, pipes, source, started, forkFailed>>

\* exit(), or the end of what there is to do: descriptors are closed and the
\* children given to init.
Exit(p) ==
  /\ state[p] = "run"
  /\ todo[p] = <<>> \/ at(p, "exit")
  /\ state' = [state EXCEPT ![p] = "zombie"]
  /\ parent' = [q \in Procs |-> IF parent[q] = p THEN 0 ELSE parent[q]]
  /\ ofile' = [ofile EXCEPT ![p] = [d \in Fd |-> Closed]]
  /\ todo' = [todo EXCEPT ![p] = <<>>]
  /\ started' = [started EXCEPT ![p] = <<>>]
  /\ UNCHANGED <<line, tree, pipes, source, forkFailed>>

\* init reaps what was given to it.
Reap(q) ==
  /\ state[q] = "zombie" /\ parent[q] = 0
  /\ state' = [state EXCEPT ![q] = "unused"]
  /\ UNCHANGED <<line, tree, parent, ofile, todo, pipes, source, started, forkFailed>>

---------------------------------------------------------------------------
(* sh.c.                                                                   *)

\* main(): open the console until a descriptor is not one of the first three.
OpenConsole(p) ==
  /\ at(p, "openConsole")
  /\ IF lowest(ofile[p]) < 3
     THEN ofile' = [ofile EXCEPT ![p][lowest(ofile[p])] = Console] /\ UNCHANGED todo
     ELSE done(p) /\ UNCHANGED ofile
  /\ UNCHANGED <<line, tree, state, parent, pipes, source, started, forkFailed>>

\* main(): a blank line and cd are handled here, anything else by a child; then
\* comes the next prompt.  A chdir() changes nothing that is modelled.
GetCmd(p) ==
  /\ at(p, "getcmd")
  /\ \E cmd \in {SubSeq(buf, skip(buf, 1, {" "}), Len(buf))} :
       then(p, (IF cmd[1] = "\n" \/ (Len(cmd) > 2 /\ SubSeq(cmd, 1, 3) = <<"c", "d", " ">>)
                THEN <<>>
                ELSE op("fork", op("parsecmd", cmd)) \o op("wait", 0))
               \o op("prompt", 0))
  /\ UNCHANGED <<line, tree, state, parent, ofile, pipes, source, started, forkFailed>>

\* What parsecmd() returns, with the strings that nulterminate() made of it.
command(b) ==
  with(parsecmd(b), LAMBDA r : IF r.ok THEN spelled(terminated(b, r.cmd), r.cmd) ELSE Wrong)

\* runcmd(parsecmd(cmd)); a syntax error is a panic().
Parse(p) ==
  /\ at(p, "parsecmd")
  /\ \E r \in {command(arg(p))} :
       /\ tree' = r
       /\ then(p, IF r = Wrong THEN op("exit", 0) ELSE runcmd(r, <<>>))
  /\ UNCHANGED <<line, state, parent, ofile, pipes, source, started, forkFailed>>

\* The cases of runcmd().  EXEC of a program that does not exist prints a
\* message and exits.
steps(cmd, path) ==
  CASE cmd.type = "EXEC" ->
         IF cmd.argv = <<>> THEN op("exit", 0)
         ELSE op("exec", [prog |-> cmd.argv[1], path |-> path])
    [] cmd.type = "REDIR" ->
         op("close", cmd.fd) \o op("open", <<"file", cmd.file>>)
         \o runcmd(cmd.cmd, path)
    [] cmd.type = "LIST" ->
         op("fork", runcmd(cmd.left, Append(path, "l"))) \o op("wait", 0)
         \o runcmd(cmd.right, Append(path, "r"))
    [] cmd.type = "PIPE" -> op("pipe", [cmd |-> cmd, path |-> path])
    [] cmd.type = "BACK" -> op("fork", runcmd(cmd.cmd, Append(path, "b")))

RunCmd(p) ==
  /\ at(p, "runcmd")
  /\ then(p, steps(arg(p).cmd, arg(p).path))
  /\ UNCHANGED <<line, tree, state, parent, ofile, pipes, source, started, forkFailed>>

Exec(p) ==
  /\ at(p, "exec")
  /\ \E name \in {arg(p).prog} :
       IF name \in {<<"a">>, <<"q">>}
       THEN /\ started' = [started EXCEPT ![p] = <<name, arg(p).path>>]
            /\ todo' = [todo EXCEPT ![p] = IF name = <<"a">> THEN op("read", 0) ELSE <<>>]
       ELSE then(p, <<>>) /\ UNCHANGED started
  /\ UNCHANGED <<line, tree, state, parent, ofile, pipes, source, forkFailed>>

---------------------------------------------------------------------------
(* The program "a".                                                        *)

openIn(x) == {p \in Procs : \E d \in Fd : ofile[p][d] = x}

\* read(0): an item, end of file (nobody can write), or wait.
ReadItem(p) ==
  /\ at(p, "read")
  /\ \E f \in {ofile[p][0]} :
     \/ /\ f[1] = "read" /\ pipes[f[2]] > 0
        /\ pipes' = [pipes EXCEPT ![f[2]] = @ - 1]
        /\ then(p, op("write", 0))
        /\ UNCHANGED source
     \/ /\ f[1] \in {"file", "console"} /\ source[p] > 0
        /\ source' = [source EXCEPT ![p] = @ - 1]
        /\ then(p, op("write", 0))
        /\ UNCHANGED pipes
     \/ /\ \/ f[1] \in {"file", "console"} /\ source[p] = 0
           \/ f[1] = "read" /\ pipes[f[2]] = 0 /\ openIn(<<"write", f[2]>>) = {}
           \/ f[1] \in {"closed", "write"}
        /\ done(p)
        /\ UNCHANGED <<pipes, source>>
  /\ UNCHANGED <<line, tree, state, parent, ofile, started, forkFailed>>

\* write(1): into the pipe when there is room, failing when nobody can read.
WriteItem(p) ==
  /\ at(p, "write")
  /\ \E f \in {ofile[p][1]} :
     \/ /\ f[1] = "write" /\ pipes[f[2]] = 0 /\ openIn(<<"read", f[2]>>) # {}
        /\ pipes' = [pipes EXCEPT ![f[2]] = @ + 1]
        /\ then(p, op("read", 0))
     \/ /\ f[1] \in {"file", "console"}
        /\ then(p, op("read", 0))
        /\ UNCHANGED pipes
     \/ /\ f[1] \in {"closed", "read"} \/ (f[1] = "write" /\ openIn(<<"read", f[2]>>) = {})
        /\ done(p)
        /\ UNCHANGED pipes
  /\ UNCHANGED <<line, tree, state, parent, ofile, source, started, forkFailed>>

---------------------------------------------------------------------------
Step(p) ==
  \/ Open(p) \/ Close(p) \/ Dup(p) \/ Pipe(p) \/ Fork(p) \/ Wait(p) \/ Exit(p)
  \/ OpenConsole(p) \/ GetCmd(p) \/ Parse(p) \/ RunCmd(p) \/ Exec(p)
  \/ ReadItem(p) \/ WriteItem(p)

\* The shell is back at its prompt, or has exited because it could not fork, and
\* every process is gone.
Rest ==
  /\ \A p \in Procs : state[p] = "unused" \/ at(p, "prompt")
  /\ UNCHANGED vars

Work == \E p \in Procs : Step(p) \/ Reap(p)

Next == Work \/ Rest

Spec == Init /\ [][Next]_vars

---------------------------------------------------------------------------
(* Properties.                                                             *)

\* The parser accepts exactly the lines of the grammar, with the tree that
\* splitting at the operators gives ("a & b" is an error, "a ;" is not), and every
\* word in it is the C string that was typed, although the NUL that ends a word
\* overwrites a character of the line, possibly an operator.
ParserMeetsGrammar ==
  tree # <<>> => tree = grammar(lexemes(buf, 1))

\* What a command's standard input and output should be: the innermost (first
\* written) redirection counts, then the pipe it is in.
RECURSIVE wiring(_, _, _, _)
wiring(cmd, path, in, out) ==
  CASE cmd.type = "EXEC" -> {[path |-> path, in |-> in, out |-> out]}
    [] cmd.type = "REDIR" ->
         wiring(cmd.cmd, path, IF cmd.fd = 0 THEN <<"file", cmd.file>> ELSE in,
                               IF cmd.fd = 1 THEN <<"file", cmd.file>> ELSE out)
    [] cmd.type = "LIST" ->
         wiring(cmd.left, Append(path, "l"), in, out) \cup wiring(cmd.right, Append(path, "r"), in, out)
    [] cmd.type = "PIPE" ->
         wiring(cmd.left, Append(path, "l"), in, <<"write", path>>)
         \cup wiring(cmd.right, Append(path, "r"), <<"read", path>>, out)
    [] cmd.type = "BACK" -> wiring(cmd.cmd, Append(path, "b"), in, out)

\* A program starts with the input and output its command line says and with no
\* other descriptor than standard error: no end of a pipe leaks into it.
ProgramsWired ==
  \A p \in Procs : started[p] # <<>> =>
    /\ openFds(ofile[p]) = {0, 1, 2}
    /\ ofile[p][2] = Console
    /\ \E x \in wiring(tree, <<>>, Console, Console) :
         x.path = started[p][2] /\ ofile[p][0] = x.in /\ ofile[p][1] = x.out

\* When the shell prompts again, what it ran in the foreground is over: whatever
\* is left runs for a command with "&", unless some fork() failed.
ForegroundOver ==
  (\E p \in Procs : at(p, "prompt")) /\ ~ forkFailed =>
    \A p \in Procs : started[p] # <<>> => \E i \in DOMAIN started[p][2] : started[p][2][i] = "b"

waiting(p) ==
  \/ at(p, "wait") /\ (\E q \in Procs : parent[q] = p)
                  /\ \A q \in Procs : parent[q] = p => state[q] # "zombie"
  \/ at(p, "read") /\ ofile[p][0][1] = "read"
                  /\ pipes[ofile[p][0][2]] = 0 /\ openIn(<<"write", ofile[p][0][2]>>) # {}
  \/ at(p, "write") /\ ofile[p][1][1] = "write"
                   /\ pipes[ofile[p][1][2]] = 1 /\ openIn(<<"read", ofile[p][1][2]>>) # {}

\* The processes of a command never all wait for each other, wait() for a child,
\* a reader for a writer, a writer for a reader: as every command line takes
\* finitely many steps, the shell prompts again, or exits because it cannot
\* fork, and no program is left behind, also when a fork() within the line fails.
NoStandstill ==
  (\E p \in Procs : state[p] = "run" /\ ~ at(p, "prompt")) =>
    \E p \in Procs :
      \/ state[p] = "run" /\ ~ at(p, "prompt") /\ ~ waiting(p)
      \/ state[p] = "zombie" /\ parent[p] = 0

\* A command line comes to its end, also when a fork() or a pipe() within it fails;
\* unless some fork() failed, it does not end before its foreground has.
CommandEnds == NoStandstill /\ ForegroundOver
=============================================================================
