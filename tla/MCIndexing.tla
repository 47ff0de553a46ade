----------------------------- MODULE MCIndexing -----------------------------
(* A notebook with a note in a directory, a note whose name extends the    *)
(* directory's, a third note, and a hidden directory.                      *)
EXTENDS Indexing

MCDir == {"/", ".h/", "d/"}

\* filepath.Walk: the directory d before d.md.  Bytes: "." is 0x2e, "/" 0x2f.
MCWalkRank == [p \in Path |-> CASE p = "d/b.md" -> 5 [] p = "d.md" -> 6 [] p = "z.md" -> 7]
MCByteRank == [p \in Path |-> CASE p = "d.md" -> 5 [] p = "d/b.md" -> 6 [] p = "z.md" -> 7]
MCDirRank == [d \in MCDir |-> CASE d = "/" -> 1 [] d = ".h/" -> 2 [] d = "d/" -> 4]
MCParent == [e \in (Path \cup MCDir) \ {"/"} |-> IF e = "d/b.md" THEN "d/" ELSE "/"]
MCTime == 0 .. MaxVersion

\* A file written second has a malformed frontmatter, but in the directory.
MCMalformed == [p \in Path |-> IF p = "d/b.md" THEN {} ELSE {2}]
=============================================================================
