----------------------------- MODULE PathOrder ------------------------------
(***************************************************************************)
(* The three orders on the paths of notes that an indexing relies on: the  *)
(* order in which filepath.Walk visits the files, the order in which the   *)
(* index returns its rows (ORDER BY sortable_path), and the order of Go's  *)
(* strings, with which diffPair.diff compares two paths.                   *)
(*                                                                         *)
(* A path is a sequence of bytes; the files of a notebook are a set of     *)
(* paths that a directory tree can hold.                                   *)
(***************************************************************************)
EXTENDS Naturals, FiniteSets, Sequences

CONSTANTS
  Byte,      \* bytes other than "/" that occur in the names of files
  MaxLen,    \* bound on the length of a path
  MaxFiles   \* bound on the number of files

Slash == 47

ASSUME PathOrderAssumption ==
  /\ Byte \subseteq (2 .. 255) \ {Slash}
  /\ MaxLen \in Nat /\ MaxFiles \in Nat

VARIABLE files   \* the notes of the notebook

\* s < t in Go, and in the BINARY collation of SQLite.
Less(s, t) ==
  \E i \in 1 .. Len(t) :
    /\ \A j \in 1 .. i - 1 : j <= Len(s) /\ s[j] = t[j]
    /\ i > Len(s) \/ s[i] < t[i]

\* Mutant of SortablePath: the path itself.
SortablePathUnchanged(p) == p

\* strings.ReplaceAll(note.Path, "/", "\x01")
SortablePath(p) == [i \in DOMAIN p |-> IF p[i] = Slash THEN 1 ELSE p[i]]

\* ORDER BY sortable_path ASC
SortedBefore(p, q) == Less(SortablePath(p), SortablePath(q))

\* Mutant of DiffLess: the operands are swapped.
DiffLessSwapped(p, q) == Less(q, p)

\* diffPair.diff: p.source.Path < p.target.Path
DiffLess(p, q) == Less(p, q)

\* The name in p that starts after position d, where a directory ends.
Ends(p, d) == {e \in d + 1 .. Len(p) + 1 : e = Len(p) + 1 \/ p[e] = Slash}
Name(p, d) == SubSeq(p, d + 1, (CHOOSE e \in Ends(p, d) : \A f \in Ends(p, d) : e <= f) - 1)

\* filepath.Walk: the names of a directory in the order of strings.
Slashes(p) == {i \in DOMAIN p : p[i] = Slash}
WalkedBefore(p, q) ==
  \E d \in {0} \cup Slashes(p) :
    /\ d <= Len(q) /\ \A j \in 1 .. d : p[j] = q[j]
    /\ Less(Name(p, d), Name(q, d))
-----------------------------------------------------------------------------
\* Relative paths with no empty name.
Paths ==
  {p \in UNION {[1 .. n -> Byte \cup {Slash}] : n \in 1 .. MaxLen} :
     /\ p[1] # Slash /\ p[Len(p)] # Slash
     /\ \A i \in 1 .. Len(p) - 1 : ~(p[i] = Slash /\ p[i + 1] = Slash)}

IsDirOf(d, p) ==
  Len(d) < Len(p) /\ p[Len(d) + 1] = Slash /\ \A i \in 1 .. Len(d) : d[i] = p[i]

Init == files = {}

Create == \E p \in Paths \ files :
  /\ Cardinality(files) < MaxFiles
  /\ \A q \in files : ~IsDirOf(p, q) /\ ~IsDirOf(q, p)
  /\ files' = files \cup {p}

Delete == \E p \in files : files' = files \ {p}

Next == Create \/ Delete
Spec == Init /\ [][Next]_files
-----------------------------------------------------------------------------
\* The directory name of p that ends before position i, and the name that
\* stands in the same place of q, start alike; q goes on with a byte below "/".
Shadows(p, q) ==
  \E i \in Slashes(p) :
    /\ i <= Len(q) /\ q[i] < Slash
    /\ \A j \in 1 .. i - 1 : p[j] = q[j]

(* Exactly when diff compares in the order of its two streams: unless a    *)
(* directory (foo/) stands beside a name that extends its name with a byte *)
(* below "/", such as "." or "-" (foo.md, foo-bar/).                       *)
DiffOrderUnlessShadowed ==
  \A p, q \in files : SortedBefore(p, q) => (DiffLess(p, q) <=> ~Shadows(p, q))

(* The comment of NoteDAO.Add, for two files of a tree: sorting by         *)
(* sortable_path is "the same order returned by filepath.Walk".            *)
SortedAsWalked ==
  \A p, q \in files : p # q => (SortedBefore(p, q) <=> WalkedBefore(p, q))
=============================================================================
