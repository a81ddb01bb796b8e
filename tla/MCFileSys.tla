----------------------------- MODULE MCFileSys -----------------------------
(* An instance of FileSys for TLC: the calls the processes make.           *)
EXTENDS FileSys

abs(elems) == [abs |-> TRUE, elems |-> elems]
rel(elems) == [abs |-> FALSE, elems |-> elems]
root == abs(<<>>)
a == abs(<<"a">>)
d == abs(<<"d">>)
da == abs(<<"d", "a">>)
dd == abs(<<"d", "d">>)

NamesAD == {"a", "d"}

\* Process 1 keeps files open and changes its directory, process 2 links and removes
\* what process 1 uses, with a directory in another.
Shared ==
  {<<1, "create", rel(<<"a">>)>>, <<1, "open", a>>, <<1, "chdir", d>>, <<1, "create", abs(<<"d", "..">>)>>,
   <<1, "close">>, <<2, "mkdir", d>>, <<2, "mknod", a>>, <<2, "link", a, da>>, <<2, "link", a, root>>,
   <<2, "unlink", a>>, <<2, "unlink", da>>, <<2, "unlink", d>>, <<2, "mkdir", dd>>}

Last == {<<1, "create", rel(<<"a">>)>>, <<1, "close">>, <<2, "unlink", da>>, <<2, "unlink", d>>}

\* Process 1 works in /d/d while process 2 removes it and /d; their inodes may then
\* be used for something else.
Stale ==
  {<<1, "open", rel(<<"..">>)>>, <<1, "create", rel(<<"..", "a">>)>>, <<1, "create", rel(<<"..">>)>>,
   <<1, "mkdir", rel(<<"d">>)>>, <<1, "link", a, rel(<<"..", "d">>)>>}
Nested ==
  <<{<<2, "mkdir", d>>}, {<<2, "mkdir", dd>>}, {<<1, "chdir", dd>>}, {<<2, "unlink", dd>>}, {<<2, "unlink", d>>},
    {<<2, "mknod", d>>} \cup Stale, Stale>>

Two == {<<Shared, Shared, Shared, Shared, Last>>, Nested}
=============================================================================
