----------------------------- MODULE DiffProofs -----------------------------
(***************************************************************************)
(* Diff reports exactly the changes, for every set of paths and every two  *)
(* streams, when the order of the streams is the order diff compares with. *)
(***************************************************************************)
EXTENDS Diff, TLAPS

\* The prover of the steps that do not name one.
USE ZenonT(30)

\* The files of each stream that have not been reported yet.
SourceLeft == source \cup ({pair.source} \ {None})
TargetLeft == target \cup ({pair.target} \ {None})

\* The streams: what is left of them is a part of them, the file in the pair
\* comes before the files in the channel, and a closed channel is empty.
StreamInv ==
  /\ IsStream(source0) /\ IsStream(target0)
  /\ source \subseteq source0 /\ target \subseteq target0
  /\ pair.source # None =>
       /\ pair.source \in source0
       /\ \A m \in source : WalkRank[pair.source.path] < WalkRank[m.path]
  /\ pair.target # None =>
       /\ pair.target \in target0
       /\ \A m \in target : WalkRank[pair.target.path] < WalkRank[m.path]
  /\ "source" \notin opened => source = {} /\ pair.source = None
  /\ "target" \notin opened => target = {} /\ pair.target = None
  /\ pc \in {"target", "diff"} => (pair.source = None => source = {})
  /\ pc = "diff" => (pair.target = None => target = {})

\* The frontier: all that is gone from one stream comes before all that is
\* left of the other.
FrontierInv ==
  /\ \A m \in source0 \ SourceLeft, n \in TargetLeft : WalkRank[m.path] < WalkRank[n.path]
  /\ \A n \in target0 \ TargetLeft, m \in SourceLeft : WalkRank[n.path] < WalkRank[m.path]

\* The report so far: right about the files that are gone, silent on others.
SoundInv ==
  /\ \A c \in reported :
       /\ c.kind = ExpectedKind(c.path)
       /\ c.path \in PathsOf(source0) \cup PathsOf(target0)
       /\ c.path \notin PathsOf(SourceLeft) \cup PathsOf(TargetLeft)
  /\ pc = "callback" =>
       /\ change.kind = ExpectedKind(change.path)
       /\ change.path \in PathsOf(source0) \cup PathsOf(target0)
       /\ change.path \notin PathsOf(SourceLeft) \cup PathsOf(TargetLeft)
       /\ \A c \in reported : c.path # change.path

\* No file is lost between the streams and the report.
CompleteInv ==
  /\ pc \in {"target", "diff", "callback"} => err = "nil"
  /\ err = "nil" => \A p \in PathsOf(source0) \cup PathsOf(target0) :
       \/ p \in PathsOf(SourceLeft) \cup PathsOf(TargetLeft)
       \/ \E c \in reported : c.path = p
       \/ pc = "callback" /\ change.path = p
  /\ pc = "done" /\ err = "nil" => opened = {}

IInv == TypeOK /\ StreamInv /\ FrontierInv /\ SoundInv /\ CompleteInv
-----------------------------------------------------------------------------
(* Type correctness of the loop and of the report it builds.               *)
THEOREM TypeCorrect == Spec => []TypeOK
<1>1. Init => TypeOK
  BY SMT DEF Init, LoopInit, TypeOK
<1>2. TypeOK /\ [Next]_vars => TypeOK'
  <2> SUFFICES ASSUME TypeOK, [Next]_vars PROVE TypeOK'
    OBVIOUS
  <2> USE DEF TypeOK
  <2>1. CASE ReceiveSource /\ UNCHANGED <<force, histVars>>
    BY <2>1, SMT DEF ReceiveSource, histVars
  <2>2. CASE ReceiveTarget /\ UNCHANGED <<force, histVars>>
    BY <2>2 DEF ReceiveTarget, histVars
  <2>3. CASE Compare /\ UNCHANGED <<force, histVars>>
    BY <2>3, SMT DEF Compare, DiffNothing, DiffRemoved, DiffAdded, DiffSame, Report,
                Change, Kind, Metadata, histVars
  <2>4. CASE Return /\ UNCHANGED <<force, histVars>>
    BY <2>4 DEF Return, histVars
  <2>5. CASE Callback /\ UNCHANGED force
    BY <2>5 DEF Callback
  <2>6. CASE UNCHANGED vars
    BY <2>6 DEF vars, loopVars, histVars
  <2>7. QED
    BY <2>1, <2>2, <2>3, <2>4, <2>5, <2>6 DEF Next
<1>3. QED
  BY <1>1, <1>2, PTL DEF Spec
-----------------------------------------------------------------------------
(* What the comparison has to say depends on the two streams and on the    *)
(* flag only, none of which the loop changes.                              *)
LEMMA ExpectedKindConstant ==
  ASSUME UNCHANGED <<force, source0, target0>>, NEW p
  PROVE  ExpectedKind(p)' = ExpectedKind(p)
BY DEF ExpectedKind, PathsOf

(* The three cases of the expected report.                                 *)
LEMMA ExpectedAdded ==
  ASSUME NEW p, p \notin PathsOf(target0)
  PROVE  ExpectedKind(p) = "added"
BY DEF ExpectedKind

\* A file of the index that is not in the notebook was removed.
LEMMA ExpectedRemoved ==
  ASSUME NEW p, p \in PathsOf(target0), p \notin PathsOf(source0)
  PROVE  ExpectedKind(p) = "removed"
BY DEF ExpectedKind

\* A file on both sides was modified exactly if force or the dates say so.
LEMMA ExpectedSame ==
  ASSUME IsStream(source0), IsStream(target0),
         NEW m \in source0, NEW n \in target0, m.path = n.path
  PROVE  ExpectedKind(m.path) =
           IF force \/ m.modified # n.modified THEN "modified" ELSE "unchanged"
<1>1. m.path \in PathsOf(source0) /\ m.path \in PathsOf(target0)
  BY DEF PathsOf
<1>2. (\E a \in source0, b \in target0 :
         a.path = m.path /\ b.path = m.path /\ a.modified # b.modified)
      <=> m.modified # n.modified
  BY DEF IsStream
<1>3. QED
  BY <1>1, <1>2 DEF ExpectedKind
-----------------------------------------------------------------------------
(* The inductive invariant, one lemma per statement of the loop.           *)

\* Before the first iteration nothing is taken from the streams.
LEMMA IInvInit == Init => IInv
<1> SUFFICES ASSUME Init PROVE IInv
  OBVIOUS
<1>1. TypeOK
  BY DEF Init, LoopInit, TypeOK
<1>2. SourceLeft = source0 /\ TargetLeft = target0
  BY DEF Init, LoopInit, SourceLeft, TargetLeft
<1>3. QED
  BY <1>1, <1>2 DEF Init, LoopInit, IInv, StreamInv, FrontierInv, SoundInv, CompleteInv

(* A statement that takes nothing away from what is left, and that leaves  *)
(* the report alone, keeps the frontier and the report sound.              *)
LEMMA LeftUnchanged ==
  ASSUME IInv, UNCHANGED <<force, histVars>>,
         SourceLeft' = SourceLeft, TargetLeft' = TargetLeft,
         pc' # "callback", pc # "callback"
  PROVE  FrontierInv' /\ SoundInv'
<1>1. FrontierInv'
  BY DEF IInv, FrontierInv, histVars
<1>2. \A p : ExpectedKind(p)' = ExpectedKind(p)
  BY ExpectedKindConstant DEF histVars
<1>3. SoundInv'
  BY <1>2 DEF IInv, SoundInv, histVars, PathsOf
<1>4. QED
  BY <1>1, <1>3

\* Receiving from the source takes its least path into the pair.
LEMMA ReceiveSourceInv ==
  ASSUME IInv, TypeOK', ReceiveSource, UNCHANGED <<force, histVars>>
  PROVE  IInv'
<1> USE DiffAssumption
<1>1. SourceLeft' = SourceLeft /\ TargetLeft' = TargetLeft
  BY SMT DEF IInv, TypeOK, ReceiveSource, SourceLeft, TargetLeft, IsHead
<1>2. StreamInv'
  <2>1. CASE pair.source # None
    BY <2>1 DEF IInv, StreamInv, TypeOK, ReceiveSource, histVars, IsStream
  <2>2. CASE pair.source = None /\ source # {}
    <3>1. PICK m \in source : /\ IsHead(m, source)
                             /\ source' = source \ {m}
                             /\ pair' = [pair EXCEPT !.source = m]
      BY <2>2 DEF ReceiveSource
    <3>2. \A n \in source' : WalkRank[m.path] < WalkRank[n.path]
      BY <3>1, SMT DEF IInv, TypeOK, StreamInv, IsStream, IsHead, Metadata
    <3>3. pair'.source = m /\ pair'.target = pair.target
      BY <3>1 DEF IInv, TypeOK
    <3>4. QED
      BY <2>2, <3>1, <3>2, <3>3
      DEF IInv, StreamInv, TypeOK, ReceiveSource, histVars, IsStream
  <2>3. CASE pair.source = None /\ source = {}
    BY <2>3 DEF IInv, StreamInv, TypeOK, ReceiveSource, histVars, IsStream
  <2>4. QED
    BY <2>1, <2>2, <2>3
<1>3. FrontierInv' /\ SoundInv'
  BY <1>1, LeftUnchanged DEF ReceiveSource
<1>4. CompleteInv'
  BY <1>1 DEF IInv, CompleteInv, ReceiveSource, LoopGuard, histVars, PathsOf
<1>5. QED
  BY <1>2, <1>3, <1>4 DEF IInv

\* Receiving from the target takes its least path into the pair.
LEMMA ReceiveTargetInv ==
  ASSUME IInv, TypeOK', ReceiveTarget, UNCHANGED <<force, histVars>>
  PROVE  IInv'
<1> USE DiffAssumption
<1>1. SourceLeft' = SourceLeft /\ TargetLeft' = TargetLeft
  BY SMT DEF IInv, TypeOK, ReceiveTarget, SourceLeft, TargetLeft, IsHead
<1>2. StreamInv'
  <2>1. CASE pair.target # None
    BY <2>1 DEF IInv, StreamInv, TypeOK, ReceiveTarget, histVars, IsStream
  <2>2. CASE pair.target = None /\ target # {}
    <3>1. PICK m \in target : /\ IsHead(m, target)
                             /\ target' = target \ {m}
                             /\ pair' = [pair EXCEPT !.target = m]
      BY <2>2 DEF ReceiveTarget
    <3>2. \A n \in target' : WalkRank[m.path] < WalkRank[n.path]
      BY <3>1, SMT DEF IInv, TypeOK, StreamInv, IsStream, IsHead, Metadata
    <3>3. pair'.target = m /\ pair'.source = pair.source
      BY <3>1 DEF IInv, TypeOK
    <3>4. QED
      BY <2>2, <3>1, <3>2, <3>3, SMT
      DEF IInv, StreamInv, TypeOK, ReceiveTarget, histVars, IsStream
  <2>3. CASE pair.target = None /\ target = {}
    BY <2>3 DEF IInv, StreamInv, TypeOK, ReceiveTarget, histVars, IsStream
  <2>4. QED
    BY <2>1, <2>2, <2>3
<1>3. FrontierInv' /\ SoundInv'
  BY <1>1, LeftUnchanged DEF ReceiveTarget
<1>4. CompleteInv'
  BY <1>1 DEF IInv, CompleteInv, ReceiveTarget, histVars, PathsOf
<1>5. QED
  BY <1>2, <1>3, <1>4 DEF IInv

(* The pair after diff: the fields that were reported are nil.             *)
LEMMA CompareInv ==
  ASSUME OrdersAgree, IInv, TypeOK', Compare, UNCHANGED <<force, histVars>>
  PROVE  IInv'
<1> USE DiffAssumption
<1> DEFINE s == pair.source
           t == pair.target
<1>0. /\ pc = "diff" /\ err = "nil" /\ err' = "nil"
      /\ s = None => source = {}
      /\ t = None => target = {}
      /\ source' = source /\ target' = target /\ opened' = opened
      /\ UNCHANGED <<source0, target0, reported>>
      /\ \A p : ExpectedKind(p)' = ExpectedKind(p)
  BY ExpectedKindConstant DEF IInv, StreamInv, CompleteInv, Compare, histVars
<1>1. CASE DiffNothing
  <2>1. SourceLeft' = SourceLeft /\ TargetLeft' = TargetLeft
    BY <1>0, <1>1 DEF DiffNothing, SourceLeft, TargetLeft
  <2>2. StreamInv'
    BY <1>0, <1>1 DEF IInv, StreamInv, DiffNothing, IsStream
  <2>3. FrontierInv' /\ SoundInv'
    BY <1>0, <1>1, <2>1, LeftUnchanged DEF DiffNothing
  <2>4. CompleteInv'
    BY <1>0, <1>1, <2>1 DEF IInv, CompleteInv, DiffNothing, PathsOf
  <2>5. QED
    BY <2>2, <2>3, <2>4 DEF IInv
<1>2. CASE DiffRemoved
  <2>1. /\ t \in target0 /\ t \in TargetLeft /\ t \notin target /\ t.path \in Path
        /\ pair'.target = None /\ pair'.source = s
        /\ change' = [path |-> t.path, kind |-> "removed"] /\ pc' = "callback"
    BY <1>2, SMT DEF IInv, TypeOK, StreamInv, TargetLeft, DiffRemoved, Report, Metadata
  <2>2. SourceLeft' = SourceLeft /\ TargetLeft' = TargetLeft \ {t}
    BY <1>0, <2>1, SMT DEF SourceLeft, TargetLeft
  <2>3. \A m \in SourceLeft : WalkRank[t.path] < WalkRank[m.path]
    <3>1. CASE s = None
      BY <1>0, <3>1 DEF SourceLeft
    <3>2. CASE s # None
      <4>1. WalkRank[t.path] < WalkRank[s.path]
        BY <1>2, <3>2, <2>1, SMT DEF DiffRemoved, OrdersAgree, IInv, TypeOK, Metadata
      <4>2. \A m \in source : m.path \in Path /\ WalkRank[s.path] < WalkRank[m.path]
        BY <3>2 DEF IInv, TypeOK, StreamInv, Metadata
      <4>3. s.path \in Path
        BY <3>2 DEF IInv, TypeOK, Metadata
      <4>4. \A m \in source : WalkRank[t.path] < WalkRank[m.path]
        BY <2>1, <4>1, <4>2, <4>3, SMT
      <4>5. QED
        BY <4>1, <4>4 DEF SourceLeft
    <3>3. QED
      BY <3>1, <3>2
  <2>4. t.path \notin PathsOf(source0)
    BY <2>1, <2>3, SMT DEF IInv, TypeOK, FrontierInv, PathsOf, Metadata
  <2>5. ExpectedKind(t.path) = "removed"
    BY <2>1, <2>4, ExpectedRemoved DEF PathsOf
  <2>6. t.path \notin PathsOf(SourceLeft) \cup PathsOf(TargetLeft \ {t})
    BY <2>1, <2>3, SMT DEF IInv, TypeOK, StreamInv, IsStream, PathsOf, TargetLeft, SourceLeft, Metadata
  <2>7. StreamInv'
    BY <1>0, <2>1 DEF IInv, StreamInv, IsStream
  <2>8. FrontierInv'
    BY <1>0, <2>1, <2>2, <2>3 DEF IInv, FrontierInv
  <2>9. SoundInv'
    BY <1>0, <2>1, <2>2, <2>5, <2>6, SMT DEF IInv, SoundInv, PathsOf
  <2>10. CompleteInv'
    <3>1. /\ PathsOf(TargetLeft) \subseteq PathsOf(TargetLeft') \cup {t.path}
          /\ PathsOf(SourceLeft) = PathsOf(SourceLeft')
      BY <2>1, <2>2 DEF PathsOf
    <3>2. QED
      BY <1>0, <2>1, <3>1 DEF IInv, CompleteInv, PathsOf
  <2>11. QED
    BY <2>7, <2>8, <2>9, <2>10 DEF IInv
<1>3. CASE DiffAdded
  <2>1. /\ s \in source0 /\ s \in SourceLeft /\ s \notin source /\ s.path \in Path
        /\ pair'.source = None /\ pair'.target = t
        /\ change' = [path |-> s.path, kind |-> "added"] /\ pc' = "callback"
    BY <1>3, SMT DEF IInv, TypeOK, StreamInv, SourceLeft, DiffAdded, Report, Metadata
  <2>2. TargetLeft' = TargetLeft /\ SourceLeft' = SourceLeft \ {s}
    BY <1>0, <2>1, SMT DEF SourceLeft, TargetLeft
  <2>3. \A n \in TargetLeft : WalkRank[s.path] < WalkRank[n.path]
    <3>1. CASE t = None
      BY <1>0, <3>1 DEF TargetLeft
    <3>2. CASE t # None
      <4>1. WalkRank[s.path] < WalkRank[t.path]
        BY <1>3, <3>2, <2>1 DEF DiffAdded, OrdersAgree, IInv, TypeOK, Metadata
      <4>2. \A m \in target : m.path \in Path /\ WalkRank[t.path] < WalkRank[m.path]
        BY <3>2 DEF IInv, TypeOK, StreamInv, Metadata
      <4>3. t.path \in Path
        BY <3>2 DEF IInv, TypeOK, Metadata
      <4>4. \A m \in target : WalkRank[s.path] < WalkRank[m.path]
        BY <2>1, <4>1, <4>2, <4>3, SMT
      <4>5. QED
        BY <4>1, <4>4 DEF TargetLeft
    <3>3. QED
      BY <3>1, <3>2
  <2>4. s.path \notin PathsOf(target0)
    BY <2>1, <2>3, SMT DEF IInv, TypeOK, FrontierInv, PathsOf, Metadata
  <2>5. ExpectedKind(s.path) = "added"
    BY <2>4, ExpectedAdded
  <2>6. s.path \notin PathsOf(TargetLeft) \cup PathsOf(SourceLeft \ {s})
    BY <2>1, <2>3, SMT DEF IInv, TypeOK, StreamInv, IsStream, PathsOf, TargetLeft, SourceLeft, Metadata
  <2>7. StreamInv'
    BY <1>0, <2>1 DEF IInv, StreamInv, IsStream
  <2>8. FrontierInv'
    BY <1>0, <2>1, <2>2, <2>3 DEF IInv, FrontierInv
  <2>9. SoundInv'
    BY <1>0, <2>1, <2>2, <2>5, <2>6, SMT DEF IInv, SoundInv, PathsOf
  <2>10. CompleteInv'
    <3>1. /\ PathsOf(SourceLeft) \subseteq PathsOf(SourceLeft') \cup {s.path}
          /\ PathsOf(TargetLeft) = PathsOf(TargetLeft')
      BY <2>1, <2>2 DEF PathsOf
    <3>2. QED
      BY <1>0, <2>1, <3>1 DEF IInv, CompleteInv, PathsOf
  <2>11. QED
    BY <2>7, <2>8, <2>9, <2>10 DEF IInv
<1>4. CASE DiffSame
  <2>1. /\ s \in source0 /\ s \in SourceLeft /\ s \notin source /\ s.path \in Path
        /\ t \in target0 /\ t \in TargetLeft /\ t \notin target
        /\ t.path = s.path
        /\ pair'.source = None /\ pair'.target = None /\ pc' = "callback"
        /\ change'.path = s.path
        /\ change'.kind = IF force \/ s.modified # t.modified THEN "modified" ELSE "unchanged"
    BY <1>4, SMT DEF IInv, TypeOK, StreamInv, SourceLeft, TargetLeft, DiffSame, Report, Metadata
  <2>2. TargetLeft' = TargetLeft \ {t} /\ SourceLeft' = SourceLeft \ {s}
    BY <1>0, <2>1 DEF SourceLeft, TargetLeft
  <2>3. change'.kind = ExpectedKind(s.path)
    BY <2>1, ExpectedSame DEF IInv, StreamInv
  <2>4. /\ \A n \in TargetLeft \ {t} : WalkRank[s.path] < WalkRank[n.path]
        /\ \A m \in SourceLeft \ {s} : WalkRank[t.path] < WalkRank[m.path]
    BY <2>1 DEF IInv, TypeOK, StreamInv, SourceLeft, TargetLeft, Metadata
  <2>6. s.path \notin PathsOf(TargetLeft \ {t}) \cup PathsOf(SourceLeft \ {s})
    BY <2>1, <2>4, SMT DEF IInv, TypeOK, StreamInv, PathsOf, TargetLeft, SourceLeft, Metadata
  <2>7. StreamInv'
    BY <1>0, <2>1 DEF IInv, StreamInv, IsStream
  <2>8. FrontierInv'
    BY ZenonT(30), <1>0, <2>1, <2>2, <2>4 DEF IInv, FrontierInv
  <2>9. SoundInv'
    BY <1>0, <2>1, <2>2, <2>3, <2>6, SMT DEF IInv, SoundInv, PathsOf
  <2>10. CompleteInv'
    <3>1. /\ PathsOf(SourceLeft) \subseteq PathsOf(SourceLeft') \cup {s.path}
          /\ PathsOf(TargetLeft) \subseteq PathsOf(TargetLeft') \cup {s.path}
      BY <2>1, <2>2 DEF PathsOf
    <3>2. QED
      BY <1>0, <2>1, <3>1 DEF IInv, CompleteInv, PathsOf
  <2>11. QED
    BY <2>7, <2>8, <2>9, <2>10 DEF IInv
<1>5. QED
  BY <1>1, <1>2, <1>3, <1>4 DEF Compare

\* Diff returns when both streams and the pair are empty, or on an error.
LEMMA ReturnInv ==
  ASSUME IInv, TypeOK', Return, UNCHANGED <<force, histVars>>
  PROVE  IInv'
<1>1. SourceLeft' = SourceLeft /\ TargetLeft' = TargetLeft
  BY DEF Return, SourceLeft, TargetLeft
<1>2. StreamInv'
  BY DEF IInv, StreamInv, Return, histVars, IsStream
<1>3. FrontierInv' /\ SoundInv'
  BY <1>1, LeftUnchanged DEF Return
<1>4. CompleteInv'
  BY <1>1 DEF IInv, CompleteInv, Return, LoopGuard, histVars, PathsOf
<1>5. QED
  BY <1>2, <1>3, <1>4 DEF IInv

\* The callback gets the change that diff returned, and may fail.
LEMMA CallbackInv ==
  ASSUME IInv, TypeOK', Callback, UNCHANGED force
  PROVE  IInv'
<1>1. SourceLeft' = SourceLeft /\ TargetLeft' = TargetLeft
  BY DEF Callback, SourceLeft, TargetLeft
<1>2. \A p : ExpectedKind(p)' = ExpectedKind(p)
  BY ExpectedKindConstant DEF Callback
<1>3. StreamInv'
  BY DEF IInv, StreamInv, Callback, IsStream
<1>4. FrontierInv'
  BY <1>1 DEF IInv, FrontierInv, Callback
<1>5. SoundInv'
  BY <1>1, <1>2 DEF IInv, SoundInv, Callback, PathsOf
<1>6. CompleteInv'
  BY <1>1 DEF IInv, CompleteInv, Callback, PathsOf
<1>7. QED
  BY <1>3, <1>4, <1>5, <1>6 DEF IInv
-----------------------------------------------------------------------------
(* The loop keeps the streams, the frontier between them and the report    *)
(* consistent.                                                             *)
THEOREM LoopInvariant == ASSUME OrdersAgree PROVE Spec => []IInv
<1>1. IInv /\ TypeOK' /\ [Next]_vars => IInv'
  <2> SUFFICES ASSUME IInv, TypeOK', [Next]_vars PROVE IInv'
    OBVIOUS
  <2>1. CASE UNCHANGED vars
    <3>1. \A p : ExpectedKind(p)' = ExpectedKind(p)
      BY <2>1, ExpectedKindConstant DEF vars, histVars
    <3>2. SourceLeft' = SourceLeft /\ TargetLeft' = TargetLeft
      BY <2>1 DEF vars, loopVars, SourceLeft, TargetLeft
    <3>3. QED
      BY <2>1, <3>1, <3>2, SMT
      DEF IInv, StreamInv, FrontierInv, SoundInv, CompleteInv, IsStream, PathsOf,
          vars, loopVars, histVars
  <2>2. QED
    BY <2>1, ReceiveSourceInv, ReceiveTargetInv, CompareInv, ReturnInv, CallbackInv DEF Next
<1>2. QED
  BY <1>1, IInvInit, TypeCorrect, PTL DEF Spec

(* Diff never reports a change that did not happen, even when its callback *)
(* aborts it half way, and never hands a path to the callback twice.       *)
LEMMA ReportSoundLemma == IInv => ReportSound
  BY DEF IInv, SoundInv, ReportSound

(* Diff's report is exact: with the two streams sorted in the order that   *)
(* diff compares with, nothing wrong is ever reported, and a loop that     *)
(* ends without an error has reported every file of both streams, and for  *)
(* each one what happened to it.                                           *)
THEOREM ReportExactTheorem == ASSUME OrdersAgree PROVE Spec => []ReportExact
<1>1. IInv => ReportExact
  <2> SUFFICES ASSUME IInv, pc = "done", err = "nil"
               PROVE  reported = {[path |-> p, kind |-> ExpectedKind(p)] :
                                    p \in PathsOf(source0) \cup PathsOf(target0)}
    BY ReportSoundLemma DEF ReportExact
  <2>1. SourceLeft = {} /\ TargetLeft = {}
    BY DEF IInv, CompleteInv, StreamInv, SourceLeft, TargetLeft
  <2>2. \A c \in reported : c = [path |-> c.path, kind |-> ExpectedKind(c.path)]
    BY SMT DEF IInv, SoundInv, TypeOK, Change
  <2>3. \A p \in PathsOf(source0) \cup PathsOf(target0) : \E c \in reported : c.path = p
    BY <2>1 DEF IInv, CompleteInv, PathsOf
  <2>4. \A c \in reported : c.path \in PathsOf(source0) \cup PathsOf(target0)
    BY DEF IInv, SoundInv
  <2>5. QED
    BY <2>2, <2>3, <2>4, SMT
<1>2. QED
  BY <1>1, LoopInvariant, PTL
=============================================================================
