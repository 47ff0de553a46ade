----------------------------- MODULE WalkOrder ------------------------------
(* The rows of the index and the files of a walk as sequences.             *)
EXTENDS PathOrder, SequencesExt

\* SELECT path FROM notes ORDER BY sortable_path ASC
Indexed(S) == SetToSortSeq(S, SortedBefore)

\* The paths below the directory n.
Below(n, S) == {SubSeq(p, Len(n) + 2, Len(p)) : p \in {q \in S : Name(q, 0) = n /\ q # n}}

\* filepath.Walk: the names of a directory in the order of strings, and each
\* directory entered when it is met.
RECURSIVE Walk(_)
Walk(S) ==
  LET names == SetToSortSeq({Name(p, 0) : p \in S}, Less)
      visit(n) == IF n \in S THEN << n >>
                  ELSE LET inner == Walk(Below(n, S))
                       IN  [k \in DOMAIN inner |-> n \o << Slash >> \o inner[k]]
  IN  FoldLeft(LAMBDA out, n : out \o visit(n), << >>, names)

(* The comment of NoteDAO.Add: sorting by sortable_path is "the same order *)
(* returned by filepath.Walk", on every tree of files; and the order of    *)
(* two files in a walk is the one that WalkedBefore states.                *)
IndexedInWalkOrder ==
  Indexed(files) = Walk(files) /\ Walk(files) = SetToSortSeq(files, WalkedBefore)
=============================================================================
