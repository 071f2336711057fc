------------------------------ MODULE FileTree ------------------------------
(***************************************************************************)
(* What web storage promises its user: a tree of folders and files, and    *)
(* operations that do to it what their names say. Paths are sequences of   *)
(* names; the root is the empty sequence and always exists. A name is a    *)
(* sequence too: what the user typed, then the numbers that were added to  *)
(* it to make it differ from the names already there.                      *)
(***************************************************************************)
EXTENDS Sequences, Functions, Naturals

CONSTANTS
  Content,    \* contents of files
  Typed,      \* names a user may type
  MaxSuffix   \* the largest number added to a name

VARIABLES
  files,    \* a function from the paths of the files to their contents
  folders   \* the paths of the folders

vars == <<files, folders>>

Init == files = << >> /\ folders = {}

Folder == folders \cup {<< >>}

Taken == DOMAIN files \cup Folder

Parent(p) == SubSeq(p, 1, Len(p) - 1)

Name(p) == p[Len(p)]

Under(p, q) == Len(q) >= Len(p) /\ SubSeq(q, 1, Len(p)) = p

\* Where an item called n goes in folder p: under its name if that is free,
\* under a numbered one otherwise.
Places(p, n) ==
  IF Append(p, n) \notin Taken THEN {Append(p, n)}
  ELSE {Append(p, Append(n, i)) : i \in 1..MaxSuffix} \ Taken

\* q with its beginning old replaced by new.
Rebased(q, old, new) == new \o SubSeq(q, Len(old) + 1, Len(q))

\* Everything under old moves to new; everything else stays.
Relocate(old, new) ==
  LET Where(q) == IF Under(old, q) THEN Rebased(q, old, new) ELSE q
      Origin(q) == IF Under(new, q) THEN Rebased(q, new, old) ELSE q
  IN /\ files' = [q \in {Where(f) : f \in DOMAIN files} |-> files[Origin(q)]]
     /\ folders' = {Where(q) : q \in folders}

Upload ==
  \E p \in Folder, n \in Typed, c \in Content :
    \E q \in Places(p, <<n>>) :
      /\ files' = [f \in DOMAIN files \cup {q} |-> IF f = q THEN c ELSE files[f]]
      /\ UNCHANGED folders

CreateFolder ==
  \E p \in Folder, n \in Typed :
    /\ Append(p, <<n>>) \notin Taken
    /\ folders' = folders \cup {Append(p, <<n>>)}
    /\ UNCHANGED files

\* A file, or a folder with all it contains.
Remove ==
  \E p \in Taken \ {<< >>} :
    /\ files' = Restrict(files, {f \in DOMAIN files : ~Under(p, f)})
    /\ folders' = {q \in folders : ~Under(p, q)}

\* In its folder, to a name that is free.
Rename ==
  \E p \in Taken \ {<< >>}, n \in Typed :
    /\ Append(Parent(p), <<n>>) \notin Taken
    /\ Relocate(p, Append(Parent(p), <<n>>))

MoveFile ==
  \E f \in DOMAIN files, p \in Folder :
    \E q \in Places(p, Name(f)) : Relocate(f, q)

MoveFolder ==
  \E p \in folders, into \in Folder :
    /\ ~Under(p, into)
    /\ Append(into, Name(p)) \notin Taken
    /\ Relocate(p, Append(into, Name(p)))

\* (The first conjunct only spares TLC the search for an action that leaves
\* the tree as it is.)
Next ==
  /\ vars' # vars
  /\ Upload \/ CreateFolder \/ Remove \/ Rename \/ MoveFile \/ MoveFolder

Spec == Init /\ [][Next]_vars
=============================================================================
