------------------------------- MODULE MCDiff -------------------------------
(* Diff on four paths and two dates.                                       *)
EXTENDS Diff

MCPath == {"a.md", "foo.md", "foo/a.md", "z.md"}

\* filepath.Walk compares component by component: the directory foo before foo.md.
MCWalkRank == [p \in MCPath |->
  CASE p = "a.md" -> 1 [] p = "foo/a.md" -> 2 [] p = "foo.md" -> 3 [] p = "z.md" -> 4]

\* Bytes: "." is 0x2e and "/" is 0x2f.
MCByteRank == [p \in MCPath |->
  CASE p = "a.md" -> 1 [] p = "foo.md" -> 2 [] p = "foo/a.md" -> 3 [] p = "z.md" -> 4]
=============================================================================
