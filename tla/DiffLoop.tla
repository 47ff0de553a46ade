------------------------------ MODULE DiffLoop ------------------------------
(***************************************************************************)
(* paths.Diff (internal/util/paths/diff.go): the merge of two streams of   *)
(* file metadata, the files of the notebook (source) and the notes of the  *)
(* index (target), into one report of changes, up to the callback.         *)
(*                                                                         *)
(* Both streams deliver their files in the order of filepath.Walk: the     *)
(* source because it is a walk, the target because the index sorts by      *)
(* sortable_path, which was made for that.  diffPair.diff however compares *)
(* two paths with Go's string order.  WalkRank and ByteRank are these two  *)
(* orders; module PathOrder relates them.                                  *)
(*                                                                         *)
(* Receiving from an empty channel means that it is closed: a module that  *)
(* composes the loop with a producer adds the guard that it is done.       *)
(***************************************************************************)
EXTENDS Stream

CONSTANT ByteRank   \* position of a path in Go's order on strings

ASSUME DiffAssumption ==
  /\ WalkRank \in [Path -> Nat]
  /\ ByteRank \in [Path -> Nat]
  /\ \A p, q \in Path : WalkRank[p] = WalkRank[q] => p = q
  /\ \A p, q \in Path : ByteRank[p] = ByteRank[q] => p = q
  /\ None \notin Metadata

\* The two orders are the same: the hypothesis of the theorems.
OrdersAgree ==
  \A p, q \in Path : WalkRank[p] < WalkRank[q] <=> ByteRank[p] < ByteRank[q]

Kind == {"added", "modified", "removed", "unchanged"}
Change == [path : Path, kind : Kind]

VARIABLES
  target,         \* values not yet received from the target channel
  force,          \* the argument forceModified
  pair,           \* the diffPair: the two files being compared, or None
  opened,         \* sourceOpened and targetOpened: the channels not seen closed
  sourceCount,    \* number of files received from the source
  change,         \* the change handed to the callback
  err,            \* the error returned by the callback, "nil" if none
  pc              \* the next statement of the loop

loopVars == <<pair, opened, sourceCount, change, err, pc>>

LoopInit ==
  /\ pair = [source |-> None, target |-> None]
  /\ opened = {"source", "target"}
  /\ sourceCount = 0
  /\ change = None
  /\ err = "nil"
  /\ pc = "source"

\* The same, when Diff is called by a running program.
LoopStart ==
  /\ pair' = [source |-> None, target |-> None]
  /\ opened' = {"source", "target"}
  /\ sourceCount' = 0
  /\ change' = None
  /\ err' = "nil"
  /\ pc' = "source"

\* Mutant of LoopGuard: && for ||, the loop ends with the shorter stream.
LoopGuardBothOpened == err = "nil" /\ opened = {"source", "target"}

\* for err == nil && (sourceOpened || targetOpened)
LoopGuard == err = "nil" /\ opened # {}

ReceiveSource ==
  /\ pc = "source" /\ LoopGuard
  /\ \/ /\ pair.source # None
        /\ UNCHANGED <<source, pair, opened, sourceCount>>
     \/ /\ pair.source = None /\ source # {}
        /\ \E m \in source :
             /\ IsHead(m, source)
             /\ source' = source \ {m}
             /\ pair' = [pair EXCEPT !.source = m]
        /\ sourceCount' = sourceCount + 1
        /\ UNCHANGED opened
     \/ /\ pair.source = None /\ source = {}
        /\ opened' = opened \ {"source"}
        /\ UNCHANGED <<source, pair, sourceCount>>
  /\ pc' = "target"
  /\ UNCHANGED <<target, change, err>>

\* Mutant of ReceiveTarget: a closed channel is not noticed.
ReceiveTargetMissesClose ==
  /\ pc = "target"
  /\ \/ /\ pair.target # None \/ target = {}
        /\ UNCHANGED <<target, pair>>
     \/ /\ pair.target = None
        /\ \E m \in target :
             /\ IsHead(m, target)
             /\ target' = target \ {m}
             /\ pair' = [pair EXCEPT !.target = m]
  /\ pc' = "diff"
  /\ UNCHANGED <<source, opened, sourceCount, change, err>>

ReceiveTarget ==
  /\ pc = "target"
  /\ \/ /\ pair.target # None
        /\ UNCHANGED <<target, pair, opened>>
     \/ /\ pair.target = None /\ target # {}
        /\ \E m \in target :
             /\ IsHead(m, target)
             /\ target' = target \ {m}
             /\ pair' = [pair EXCEPT !.target = m]
        /\ UNCHANGED opened
     \/ /\ pair.target = None /\ target = {}
        /\ opened' = opened \ {"target"}
        /\ UNCHANGED <<target, pair>>
  /\ pc' = "diff"
  /\ UNCHANGED <<source, sourceCount, change, err>>

\* diff returns a change for the callback.
Report(p, kind) ==
  /\ change' = [path |-> p, kind |-> kind]
  /\ pc' = "callback"

\* Both channels are closed.
DiffNothing ==
  /\ pair.source = None /\ pair.target = None
  /\ pc' = "source"
  /\ UNCHANGED <<pair, change>>

DiffRemoved ==
  /\ pair.target # None
  /\ \/ pair.source = None
     \/ /\ pair.source # None
        /\ pair.source.path # pair.target.path
        /\ ~(ByteRank[pair.source.path] < ByteRank[pair.target.path])
  /\ Report(pair.target.path, "removed")
  /\ pair' = [pair EXCEPT !.target = None]

DiffAdded ==
  /\ pair.source # None
  /\ \/ pair.target = None
     \/ /\ pair.target # None
        /\ pair.source.path # pair.target.path
        /\ ByteRank[pair.source.path] < ByteRank[pair.target.path]
  /\ Report(pair.source.path, "added")
  /\ pair' = [pair EXCEPT !.source = None]

\* Same path on both sides: compare the modification dates.
DiffSame ==
  /\ pair.source # None /\ pair.target # None
  /\ pair.source.path = pair.target.path
  /\ Report(pair.source.path,
            IF force \/ pair.source.modified # pair.target.modified
              THEN "modified" ELSE "unchanged")
  /\ pair' = [source |-> None, target |-> None]

Compare ==
  /\ pc = "diff"
  /\ DiffNothing \/ DiffRemoved \/ DiffAdded \/ DiffSame
  /\ UNCHANGED <<source, target, opened, sourceCount, err>>

\* The loop ends: both channels are closed, or the callback failed.
Return ==
  /\ pc = "source" /\ ~LoopGuard
  /\ pc' = "done"
  /\ UNCHANGED <<source, target, pair, opened, sourceCount, change, err>>
=============================================================================
