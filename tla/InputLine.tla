----------------------------- MODULE InputLine -----------------------------
(***************************************************************************)
(* What a terminal's line input promises: characters are appended to a     *)
(* line that is still being edited, the whole line is then committed, and  *)
(* readers take committed characters in order, at most one line at a time. *)
(***************************************************************************)
EXTENDS Naturals, Sequences

CONSTANTS Char, NL, EOF,
          Room               \* most characters committed and edited together

VARIABLES committed, editing

Init == committed = <<>> /\ editing = <<>>

\* A character joins the line; it ends the line when it is a newline or an end
\* of file, or when there is no room for another.
Type ==
  \E c \in Char :
    LET line == Append(editing, c) IN
    /\ Len(committed) + Len(line) <= Room
    /\ IF c \in {NL, EOF} \/ Len(committed) + Len(line) = Room
       THEN committed' = committed \o line /\ editing' = <<>>
       ELSE editing' = line /\ UNCHANGED committed

\* Erasing reaches back only to the start of the line being edited.
Erase ==
  /\ editing # <<>>
  /\ editing' = SubSeq(editing, 1, Len(editing) - 1)
  /\ UNCHANGED committed

Kill == editing' = <<>> /\ UNCHANGED committed

Take ==
  /\ committed # <<>>
  /\ committed' = Tail(committed)
  /\ UNCHANGED editing

Next == Type \/ Erase \/ Kill \/ Take

Spec == Init /\ [][Next]_<<committed, editing>>
=============================================================================
