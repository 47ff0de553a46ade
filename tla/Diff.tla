-------------------------------- MODULE Diff --------------------------------
(***************************************************************************)
(* paths.Diff on its own, on any two streams, with a callback that records *)
(* the changes it receives and may return an error, and what its report    *)
(* has to say.                                                             *)
(***************************************************************************)
EXTENDS DiffLoop

CONSTANT CallbackMayFail   \* whether the callback of Diff may return an error

ASSUME CallbackAssumption == CallbackMayFail \in BOOLEAN

VARIABLES
  source0,        \* history: everything the source delivers
  target0,        \* history: everything the target delivers
  reported        \* history: the changes the callback has accepted

histVars == <<source0, target0, reported>>
vars == <<source, target, force, loopVars, histVars>>

Init ==
  /\ source \in SUBSET Metadata /\ IsStream(source)
  /\ target \in SUBSET Metadata /\ IsStream(target)
  /\ force \in BOOLEAN
  /\ LoopInit
  /\ source0 = source /\ target0 = target /\ reported = {}

Callback ==
  /\ pc = "callback"
  /\ \/ reported' = reported \cup {change} /\ err' = "nil"
     \/ CallbackMayFail /\ reported' = reported /\ err' = "failed"
  /\ pc' = "source"
  /\ UNCHANGED <<source, target, pair, opened, sourceCount,
                 change, source0, target0>>

Next ==
  \/ (ReceiveSource \/ ReceiveTarget \/ Compare \/ Return) /\ UNCHANGED <<force, histVars>>
  \/ Callback /\ UNCHANGED force

Spec == Init /\ [][Next]_vars
FairSpec == Spec /\ WF_vars(Next)
-----------------------------------------------------------------------------
(* The variables of the loop have their types, and the callback is called  *)
(* with a change, never with nil.                                          *)
TypeOK ==
  /\ source \in SUBSET Metadata /\ target \in SUBSET Metadata
  /\ source0 \in SUBSET Metadata /\ target0 \in SUBSET Metadata
  /\ force \in BOOLEAN /\ err \in {"nil", "failed"}
  /\ pair \in [source : Metadata \cup {None}, target : Metadata \cup {None}]
  /\ opened \subseteq {"source", "target"}
  /\ sourceCount \in Nat
  /\ pc \in {"source", "target", "diff", "callback", "done"}
  /\ pc = "callback" => change \in Change
  /\ reported \in SUBSET Change

\* What a comparison of the two streams has to say about path p.
ExpectedKind(p) ==
  IF p \notin PathsOf(target0) THEN "added"
  ELSE IF p \notin PathsOf(source0) THEN "removed"
  ELSE IF force \/ \E m \in source0, n \in target0 :
                     m.path = p /\ n.path = p /\ m.modified # n.modified
  THEN "modified" ELSE "unchanged"

(* No change is ever reported wrongly, whether or not Diff gets to its     *)
(* end: what the callback has received when it aborts the loop is a part   *)
(* of the exact report, and no path is handed to the callback twice.       *)
ReportSound ==
  /\ \A c \in reported : c.kind = ExpectedKind(c.path)
  /\ pc = "callback" =>
       /\ change.kind = ExpectedKind(change.path)
       /\ \A c \in reported : c.path # change.path

(* Diff "compares two sources of Metadata and report the file changes": it *)
(* never reports a change that did not happen or a path twice, also when   *)
(* its callback aborts it, and once it returns without an error, every     *)
(* path of either stream has been reported.                                *)
ReportExact ==
  /\ ReportSound
  /\ pc = "done" /\ err = "nil" =>
       reported = {[path |-> p, kind |-> ExpectedKind(p)] :
                     p \in PathsOf(source0) \cup PathsOf(target0)}

(* The loop reaches its end from any two streams: it never waits for a     *)
(* file that is already in the pair and never compares a pair for ever.    *)
Terminates == <>(pc = "done")
=============================================================================
