------------------------------- MODULE Stream -------------------------------
(***************************************************************************)
(* The streams of file metadata that an indexing compares: type Metadata   *)
(* of internal/util/paths/paths.go sent through a Go channel.              *)
(*                                                                         *)
(* A channel is the set of the values still to be received: its producer   *)
(* sends in the order of filepath.Walk and every path at most once, so the *)
(* least element is the head of the queue.                                 *)
(***************************************************************************)
EXTENDS Naturals, FiniteSets

CONSTANTS
  Path,      \* paths of files, relative to the notebook
  Time,      \* modification dates
  WalkRank,  \* position of a path in the order of filepath.Walk
  None       \* a nil pointer

VARIABLE source   \* values not yet received from the channel of paths.Walk

Metadata == [path : Path, modified : Time]

PathsOf(S) == {m.path : m \in S}

\* A set of metadata that a channel may hold: no path occurs twice.
IsStream(S) == \A m, n \in S : m.path = n.path => m = n

\* m is the next value that the channel S delivers.
IsHead(m, S) == m \in S /\ \A n \in S : WalkRank[m.path] <= WalkRank[n.path]
=============================================================================
