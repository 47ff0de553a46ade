-------------------------------- MODULE Walk --------------------------------
(***************************************************************************)
(* paths.Walk (internal/util/paths/walk.go): the goroutine that visits the *)
(* notebook with filepath.Walk and sends the metadata of its notes to a    *)
(* channel, while the user may write and delete files.                     *)
(*                                                                         *)
(* The agenda of filepath.Walk is the set of the entries whose names have  *)
(* been read from their directory and that are still to be visited; the    *)
(* least one, in the order of the walk, is visited next.                   *)
(***************************************************************************)
EXTENDS Stream

CONSTANTS
  Dir,          \* directories of the notebook
  Root,         \* the notebook itself
  Parent,       \* the directory of each file and of each other directory
  DirRank,      \* position of a directory in the order of filepath.Walk
  Hidden,       \* files and directories whose name starts with "."
  RootNamed,    \* directories that have the name of the notebook's directory
  ChannelSize   \* capacity of the channel (50 in the code)

Rank(e) == IF e \in Dir THEN DirRank[e] ELSE WalkRank[e]

ASSUME WalkAssumption ==
  /\ Root \in RootNamed /\ RootNamed \subseteq Dir
  /\ Path \cap Dir = {} /\ Hidden \subseteq Path \cup Dir
  /\ Parent \in [(Path \cup Dir) \ {Root} -> Dir]
  /\ DirRank \in [Dir -> Nat]
  /\ \A e, f \in Path \cup Dir : Rank(e) = Rank(f) => e = f
  /\ \A e \in (Path \cup Dir) \ {Root} :
       /\ Rank(Parent[e]) < Rank(e)
       /\ \A f \in (Path \cup Dir) \ {Root} :
            Rank(Parent[e]) < Rank(f) /\ Rank(f) < Rank(e)
              => Rank(Parent[e]) <= Rank(Parent[f])
  /\ \A S \in SUBSET (Path \cup Dir) :
       S # {} /\ (\A e \in S \ {Root} : Parent[e] \in S) => Root \in S
  /\ ChannelSize \in Nat

VARIABLES
  disk,      \* modification date of each file, 0 if there is no such file
  unreadable,\* directories that may not be listed, files that may not be read
  todo,      \* entries that filepath.Walk has still to visit
  walker,    \* the goroutine: "idle", "walking", or "closed" (close(c))
  walkErr    \* the error returned by filepath.Walk: "nil" or "failed"

walkVars == <<source, todo, walker, walkErr>>

\* The call of Walk.
WalkStart ==
  /\ todo' = {Root} /\ walker' = "walking" /\ walkErr' = "nil"
  /\ source' = {}

IsNext(e) ==
  /\ walker = "walking" /\ e \in todo
  /\ \A f \in todo : Rank(e) <= Rank(f)

\* readDirNames: the names found in a directory at the time it is read.
Children(d) ==
  {e \in (Path \cup Dir) \ {Root} : Parent[e] = d /\ (e \in Path => disk[e] # 0)}

\* The error reaches the callback, which returns it: the whole walk ends.
AbortWalk == todo' = {} /\ walkErr' = "failed"

VisitDir(d) ==
  /\ IsNext(d)
  /\ \/ d \in unreadable /\ AbortWalk
     \/ /\ d \notin unreadable
        /\ todo' = (todo \ {d}) \cup
                     (IF d \in Hidden \ RootNamed THEN {} ELSE Children(d))
        /\ UNCHANGED walkErr
  /\ UNCHANGED <<source, walker>>

\* lstat, the callback and its send.  A send that blocks on a full channel
\* holds one value more than the channel.
VisitFile(p, shouldIgnore) ==
  /\ IsNext(p)
  /\ \/ disk[p] = 0 /\ AbortWalk /\ UNCHANGED source
     \/ /\ disk[p] # 0 /\ (p \in Hidden \/ shouldIgnore)
        /\ todo' = todo \ {p}
        /\ UNCHANGED <<source, walkErr>>
     \/ /\ disk[p] # 0 /\ ~(p \in Hidden \/ shouldIgnore)
        /\ Cardinality(source) <= ChannelSize
        /\ source' = source \cup {[path |-> p, modified |-> disk[p]]}
        /\ todo' = todo \ {p}
        /\ UNCHANGED walkErr
  /\ UNCHANGED walker

\* Mutant of CloseChannel: the channel is closed at the end of a whole walk
\* instead of by a deferred call.
CloseChannelOnSuccess ==
  /\ walker = "walking" /\ todo = {} /\ walkErr = "nil"
  /\ walker' = "closed"
  /\ UNCHANGED <<source, todo, walkErr>>

CloseChannel ==
  /\ walker = "walking" /\ todo = {}
  /\ walker' = "closed"
  /\ UNCHANGED <<source, todo, walkErr>>
=============================================================================
