--------------------------- MODULE IndexingProofs ---------------------------
(***************************************************************************)
(* An indexing brings the index in line with the notebook, and no change   *)
(* of a note goes unnoticed: for every notebook, every number of changes,  *)
(* failures, crashes and upgrades, and every interleaving of the walk, the *)
(* loop of Diff and the user.                                              *)
(***************************************************************************)
EXTENDS Indexing, TLAPS

\* The prover of the steps that do not name one.
USE ZenonT(30)

Entry == Path \cup Dir
InCallback == {"callback", "read", "stat", "store"}

\* Type correctness, and the local variables of the callback.
TypeInv ==
  /\ disk \in [Path -> Time] /\ clock \in Time /\ excluded \subseteq Path
  /\ db \in [Path -> Row \cup {None}] /\ rows \in [Path -> Row \cup {None}]
  /\ note \in Row \cup {None}
  /\ force \in BOOLEAN /\ needsReindexing \in BOOLEAN
  /\ source \subseteq Metadata /\ target \subseteq Metadata /\ todo \subseteq Entry
  /\ pair \in [source : Metadata \cup {None}, target : Metadata \cup {None}]
  /\ opened \subseteq {"source", "target"}
  /\ pc \in {"idle", "source", "target", "diff", "done"} \cup InCallback
  /\ pc \in InCallback => change \in Change
  /\ pc \in {"read", "stat", "store"} => change.kind \in {"added", "modified"}
  /\ pc \in {"stat", "store"} => note \in Row

\* What is left of a stream: what is in the channel, and the file in the pair.
Left(channel, file) == channel \cup ({file} \ {None})
Targets == Left(target, pair.target)

\* The loop: the target side of the pair is empty only when its channel is,
\* and the loop ends when it has seen both channels closed.
TargetLoopInv ==
  ~Idle =>
    /\ err = "nil"
    /\ pc = "diff" /\ pair.target = None => target = {}
    /\ "target" \notin opened => target = {} /\ pair.target = None
    /\ pc = "done" => opened = {}

\* The row of the note is still to be compared; the callback is handling it.
TargetPending(p) == p \in PathsOf(Targets)
Called(p) == pc \in InCallback /\ change.path = p

\* A row that has the date of a file has its content.
Detected(row, p) == disk[p] # 0 /\ row.modified = disk[p] => row.content = disk[p]

VersionInv ==
  /\ \A p \in Path :
       /\ disk[p] <= clock
       /\ db[p] # None => db[p].modified <= clock
       /\ rows[p] # None => rows[p].modified <= clock
  /\ note # None => note.modified <= clock

\* What is known about the row of a path that is not overlooked.
NotStale(p) ==
  /\ ~needsReindexing /\ db[p] # None => Detected(db[p], p)
  /\ ~Idle /\ rows[p] # None =>
       \/ Detected(rows[p], p)
       \/ needsReindexing /\ TargetPending(p)
       \/ needsReindexing /\ Called(p) /\ change.kind \in {"removed", "modified"}
  /\ pc = "stat" /\ change.path = p => disk[p] \in {0, note.content}
  /\ pc = "store" /\ change.path = p => Detected(note, p)

StaleInv ==
  /\ ~Idle /\ needsReindexing => force
  /\ \A p \in Path \ overlooked : NotStale(p)

DetectInv == TypeInv /\ TargetLoopInv /\ VersionInv /\ StaleInv
-----------------------------------------------------------------------------
(* Type correctness.                                                       *)

\* The dates are numbers, and the clock can go on until its last one.
LEMMA TimeType ==
  /\ Time \subseteq Nat /\ 0 \in Time /\ None \notin Row
  /\ \A t \in Time : t < MaxVersion => t + 1 \in Time
BY IndexingAssumption, SMT

\* The content and the date of a row are versions, hence numbers.
LEMMA RowType == \A r \in Row : r.content \in Nat /\ r.modified \in Nat
<1> SUFFICES ASSUME NEW r \in Row PROVE r.content \in Nat /\ r.modified \in Nat
  OBVIOUS
<1>1. r.content \in Time /\ r.modified \in Time
  BY DEF Row
<1>2. QED BY <1>1, TimeType

\* The types hold before the first indexing.
LEMMA TypeInit == Init => TypeInv
<1> SUFFICES ASSUME Init PROVE TypeInv
  OBVIOUS
<1>1. 1 \in Time /\ 0 \in Time
  BY IndexingAssumption, SMT
<1>2. disk \in [Path -> Time]
  BY <1>1 DEF Init
<1>3. pair \in [source : Metadata \cup {None}, target : Metadata \cup {None}]
  BY DEF Init
<1>4. db \in [Path -> Row \cup {None}] /\ rows \in [Path -> Row \cup {None}]
  BY DEF Init
<1>5. /\ clock \in Time /\ excluded \subseteq Path /\ note \in Row \cup {None}
      /\ source \subseteq Metadata /\ target \subseteq Metadata /\ todo \subseteq Entry
      /\ opened \subseteq {"source", "target"} /\ pc = "idle"
  BY <1>1 DEF Init
<1>6. force \in BOOLEAN /\ needsReindexing \in BOOLEAN
  BY DEF Init
<1>7. QED BY <1>2, <1>3, <1>4, <1>5, <1>6 DEF TypeInv, InCallback

\* Every step of the user, the walk, the loop and the callback keeps the types.
LEMMA TypeStep == ASSUME TypeInv, [Next]_vars PROVE TypeInv'
<1>1. ASSUME User PROVE TypeInv'
  <2> USE <1>1
  <2>1. ASSUME NEW p \in Path, WriteFile(p) PROVE TypeInv'
    <3>1. clock' \in Time /\ disk' \in [Path -> Time]
      BY <2>1, TimeType DEF TypeInv, WriteFile, MayEdit
    <3>2. QED BY <2>1, <3>1, SMT DEF WriteFile, TypeInv, loopVars, walkVars, dbVars, runVars
  <2>2. ASSUME NEW p \in Path, DeleteFile(p) PROVE TypeInv'
    <3>1. clock' \in Time /\ disk' \in [Path -> Time]
      BY <2>2, TimeType DEF TypeInv, DeleteFile, MayEdit
    <3>2. QED BY <2>2, <3>1, SMT DEF DeleteFile, TypeInv, loopVars, walkVars, dbVars, runVars
  <2>3. ASSUME NEW p \in Path, Reconfigure(p) PROVE TypeInv'
    BY <2>3, TimeType DEF TypeInv, Reconfigure, loopVars, walkVars, dbVars, runVars, Idle
  <2>4. ASSUME NEW e \in Lockable, Chmod(e) PROVE TypeInv'
    BY <2>4, TimeType, SMT DEF TypeInv, Chmod, MayEdit, loopVars, walkVars, dbVars, runVars, Idle
  <2>5. ASSUME Upgrade PROVE TypeInv'
    <3>1. ASSUME NEW p \in Path, db[p] # None
          PROVE  [db[p] EXCEPT !.content = 0] \in Row
      BY <3>1, TimeType DEF TypeInv, Row
    <3>2. db' \in [Path -> Row \cup {None}]
      BY <2>5, <3>1 DEF Upgrade
    <3>3. QED
      BY <2>5, <3>2 DEF TypeInv, Upgrade, loopVars, walkVars, userVars, runVars, Idle
  <2>6. QED BY <2>1, <2>3, <2>4, <2>5, <2>2, IndexingAssumption DEF User
<1>2. ASSUME StartIndexing PROVE TypeInv'
  <2> USE <1>2
  <2>1. target' \subseteq Metadata
    BY TimeType, SMT DEF TypeInv, StartIndexing, Metadata, Row
  <2>2. todo' \subseteq Entry
    BY WalkAssumption, SMT DEF StartIndexing, WalkStart, Entry
  <2>3. QED
    BY <2>1, <2>2 DEF TypeInv, StartIndexing, WalkStart, LoopStart, userVars, dbVars, InCallback
<1>3. ASSUME WalkStep PROVE TypeInv'
  <2> USE <1>3
  <2>1. source' \subseteq Metadata /\ todo' \subseteq Entry
    <3>1. ASSUME NEW d \in Dir, VisitDir(d) PROVE source' \subseteq Metadata /\ todo' \subseteq Entry
      BY <3>1 DEF TypeInv, VisitDir, AbortWalk, Children, Entry
    <3>2. ASSUME NEW p \in Path, VisitFile(p, ShouldIgnorePath(p))
          PROVE  source' \subseteq Metadata /\ todo' \subseteq Entry
      BY <3>2, SMT DEF TypeInv, VisitFile, AbortWalk, Metadata
    <3>3. CASE CloseChannel
      BY <3>3 DEF TypeInv, CloseChannel
    <3>4. QED BY <3>1, <3>2, <3>3 DEF WalkStep
  <2>2. QED
    BY <2>1, SMT DEF TypeInv, WalkStep, loopVars, userVars, dbVars, runVars
<1>4. ASSUME DiffStep PROVE TypeInv'
  <2> USE <1>4
  <2> USE DEF TypeInv, userVars, dbVars, runVars, InCallback
  <2>1. UNCHANGED <<force, todo, userVars, dbVars, runVars>>
    BY DEF DiffStep
  <2>2. CASE ReceiveSource
    BY <2>1, <2>2 DEF ReceiveSource
  <2>3. CASE ReceiveTarget
    BY <2>1, <2>3 DEF ReceiveTarget
  <2>4. CASE Compare
    <3>1. pair' \in [source : Metadata \cup {None}, target : Metadata \cup {None}]
      BY <2>4, SMT DEF Compare, DiffNothing, DiffRemoved, DiffAdded, DiffSame
    <3>2. /\ pc' \in {"source", "callback"}
          /\ pc' = "callback" => change' \in Change
      <4>1. \A k \in Kind, m \in Metadata : [path |-> m.path, kind |-> k] \in Change
        BY DEF Change, Metadata
      <4>2. {"added", "modified", "removed", "unchanged"} \subseteq Kind
        BY DEF Kind
      <4>3. QED BY <2>4, <4>1, <4>2, SMT DEF Compare, DiffNothing, DiffRemoved, DiffAdded, DiffSame, Report
    <3>3. QED BY <2>1, <2>4, <3>1, <3>2 DEF Compare
  <2>5. CASE Return
    BY <2>1, <2>5 DEF Return
  <2>6. QED BY <2>2, <2>3, <2>4, <2>5 DEF DiffStep
<1>5. ASSUME Callback \/ ReadNote \/ StatNote \/ StoreNote PROVE TypeInv'
  <2> USE <1>5
  <2> USE DEF TypeInv, userVars, dbVars, runVars, InCallback, CallbackStep, storeVars
  <2>1. pc \in InCallback /\ change \in Change /\ change.path \in Path
    BY DEF Callback, ReadNote, StatNote, StoreNote, Change
  <2>2. CASE Callback
    <3>1. rows' \in [Path -> Row \cup {None}]
      BY <2>1, <2>2 DEF Callback, StoreFails
    <3>2. /\ pc' \in {"source", "read"} /\ UNCHANGED <<note, change>>
          /\ pc' = "read" => change.kind \in {"added", "modified"}
      BY <2>2 DEF Callback
    <3>3. UNCHANGED <<source, target, force, pair, opened, todo, userVars, dbVars>>
      BY <2>2 DEF Callback
    <3>4. QED BY <2>1, <3>1, <3>2, <3>3
  <2>3. CASE ReadNote
    <3>1. note' \in Row \cup {None} /\ (pc' = "stat" => note' \in Row)
      BY <2>1, <2>3, TimeType, SMT DEF ReadNote, Row
    <3>2. pc' \in {"source", "stat"} /\ UNCHANGED <<rows, change>>
      BY <2>3 DEF ReadNote
    <3>3. UNCHANGED <<source, target, force, pair, opened, todo, userVars, dbVars>>
      BY <2>3 DEF ReadNote
    <3>4. change.kind \in {"added", "modified"}
      BY <2>3 DEF ReadNote
    <3>5. QED BY <2>1, <3>1, <3>2, <3>3, <3>4
  <2>4. CASE StatNote
    BY <2>1, <2>4 DEF StatNote, Row
  <2>5. CASE StoreNote
    <3>1. note \in Row /\ [note EXCEPT !.content = 0] \in Row
      BY <2>5, TimeType DEF StoreNote, Row
    <3>2. rows' \in [Path -> Row \cup {None}]
      BY <2>1, <2>5, <3>1 DEF StoreNote, StoreFails, StoreHalf
    <3>3. pc' = "source" /\ note' = None
      BY <2>5 DEF StoreNote
    <3>4. UNCHANGED <<source, target, force, pair, opened, todo, userVars, dbVars>>
      BY <2>5 DEF StoreNote
    <3>5. QED BY <2>1, <3>2, <3>3, <3>4
  <2>6. QED BY <2>2, <2>3, <2>4, <2>5
<1>6. ASSUME Commit \/ CommitFails \/ Rollback \/ Crash PROVE TypeInv'
  <2> USE <1>6
  <2>1. EndRun /\ db' \in {db, rows} /\ needsReindexing' \in {needsReindexing, FALSE}
    BY DEF Commit, CommitFails, Rollback, Crash
  <2>2. pair' \in [source : Metadata \cup {None}, target : Metadata \cup {None}]
    BY <2>1 DEF EndRun
  <2>3. /\ db' \in [Path -> Row \cup {None}] /\ rows' \in [Path -> Row \cup {None}]
    BY <2>1 DEF TypeInv, EndRun
  <2>4. needsReindexing' \in BOOLEAN
    BY <2>1 DEF TypeInv
  <2>5. UNCHANGED <<disk, clock, excluded, force, opened>>
    BY <2>1 DEF EndRun, userVars
  <2>6. pc' = "idle" /\ note' = None /\ source' = {} /\ target' = {} /\ todo' = {}
    BY <2>1 DEF EndRun
  <2>7. QED BY <2>2, <2>3, <2>5, <2>6, <2>4 DEF TypeInv, InCallback
<1>7. CASE UNCHANGED vars
  BY <1>7, SMT DEF vars, TypeInv, loopVars, userVars, dbVars, runVars
<1>8. QED
  BY <1>7, <1>1, <1>2, <1>3, <1>4, <1>5, <1>6 DEF Next, Run
-----------------------------------------------------------------------------
(* The end of the target's channel.                                        *)

\* Every step keeps what the loop knows about the rows it receives (diff.go:72).
LEMMA TargetLoopStep == ASSUME TypeInv, TargetLoopInv, [Next]_vars PROVE TargetLoopInv'
<1> USE DEF TargetLoopInv, Idle
<1>1. CASE UNCHANGED <<target, loopVars>>
  BY <1>1 DEF loopVars
<1>2. ASSUME User \/ WalkStep \/ UNCHANGED vars PROVE UNCHANGED <<target, loopVars>>
  BY <1>2 DEF User, WriteFile, DeleteFile, Reconfigure, Chmod, Upgrade, WalkStep, vars
<1>3. CASE StartIndexing
  BY <1>3 DEF StartIndexing, LoopStart
<1>4. CASE DiffStep
  <2>1. CASE ReceiveSource
    <3>1. pair'.target = pair.target
      BY <2>1 DEF ReceiveSource, TypeInv
    <3>2. QED BY <2>1, <3>1 DEF ReceiveSource
  <2>2. CASE ReceiveTarget
    <3>1. pc' = "diff" /\ err' = err /\ ~Idle
      BY <2>2 DEF ReceiveTarget
    <3>2. \/ pair.target # None /\ UNCHANGED <<target, pair, opened>>
          \/ target # {} /\ (\E m \in target : pair'.target = m) /\ opened' = opened
          \/ pair.target = None /\ target = {} /\ UNCHANGED <<target, pair>>
      BY <2>2 DEF ReceiveTarget, TypeInv
    <3>3. \A m \in target : m # None
      BY DiffAssumption DEF TypeInv
    <3>4. QED BY <3>1, <3>2, <3>3
  <2>3. CASE Compare
    <3>1. pc' \in {"source", "callback"} /\ UNCHANGED <<target, opened, err>> /\ ~Idle
      BY <2>3 DEF Compare, DiffNothing, DiffRemoved, DiffAdded, DiffSame, Report
    <3>2. pair'.target \in {pair.target, None}
      BY <2>3, SMT DEF Compare, DiffNothing, DiffRemoved, DiffAdded, DiffSame, TypeInv
    <3>3. QED BY <3>1, <3>2
  <2>4. CASE Return
    BY <2>4 DEF Return, LoopGuard
  <2>5. QED BY <1>4, <2>1, <2>2, <2>3, <2>4 DEF DiffStep
<1>5. CASE Callback \/ ReadNote \/ StatNote \/ StoreNote
  <2>1. /\ UNCHANGED <<target, pair, opened, err>> /\ ~Idle
        /\ pc' \in {"source", "read", "stat", "store"}
    BY <1>5 DEF Callback, ReadNote, StatNote, StoreNote, CallbackStep
  <2>2. QED BY <2>1
<1>6. CASE Commit \/ CommitFails \/ Rollback \/ Crash
  BY <1>6 DEF Commit, CommitFails, Rollback, Crash, EndRun
<1>7. QED
  BY <1>1, <1>2, <1>3, <1>4, <1>5, <1>6 DEF Next, Run
-----------------------------------------------------------------------------
(* The versions: every date is that of a write in the past.                *)

\* The versions of files, rows and the note being stored can be compared.
LEMMA VersionType ==
  ASSUME TypeInv
  PROVE  /\ \A p \in Path :
              /\ disk[p] \in Nat
              /\ db[p] # None => db[p].modified \in Nat
              /\ rows[p] # None => rows[p].modified \in Nat
         /\ note # None => note.modified \in Nat
<1>1. ASSUME NEW p \in Path PROVE disk[p] \in Time /\ db[p] \in Row \cup {None} /\ rows[p] \in Row \cup {None}
  BY DEF TypeInv
<1>2. note \in Row \cup {None}
  BY DEF TypeInv
<1>3. QED BY <1>1, <1>2, TimeType, RowType

\* Every step keeps all dates in the past: only a write takes a new one.
LEMMA VersionStep == ASSUME TypeInv, VersionInv, [Next]_vars PROVE VersionInv'
<1> USE DEF VersionInv
<1>1. clock \in Nat /\ Time \subseteq Nat /\ 0 \in Time /\ None \notin Row
  BY TimeType DEF TypeInv
<1>2. /\ \A p \in Path : /\ disk[p] \in Nat
                         /\ db[p] # None => db[p].modified \in Nat
                         /\ rows[p] # None => rows[p].modified \in Nat
      /\ note # None => note.modified \in Nat
  BY VersionType
<1>3. CASE clock' = clock + 1 /\ UNCHANGED <<db, rows, note>> /\
           \A p \in Path : disk'[p] \in {0, clock + 1, disk[p]}
  <2>1. \A n \in Nat : n <= clock => n <= clock'
    BY <1>1, <1>3, SMT
  <2>2. 0 <= clock' /\ clock + 1 <= clock'
    BY <1>1, <1>3, SMT
  <2>3. ASSUME NEW p \in Path PROVE disk'[p] <= clock'
    <3>1. disk[p] <= clock'
      BY <1>2, <2>1
    <3>2. QED BY <3>1, <2>2, <1>3
  <2>4. ASSUME NEW p \in Path
        PROVE  /\ db'[p] # None => db'[p].modified <= clock'
               /\ rows'[p] # None => rows'[p].modified <= clock'
    BY <1>2, <1>3, <2>1
  <2>5. note' # None => note'.modified <= clock'
    BY <1>2, <1>3, <2>1
  <2>6. QED BY <2>3, <2>4, <2>5
<1>4. ASSUME NEW p \in Path, WriteFile(p) \/ DeleteFile(p) PROVE VersionInv'
  <2>1. CASE WriteFile(p)
    BY <1>3, <2>1 DEF WriteFile, TypeInv, dbVars, runVars
  <2>2. CASE DeleteFile(p)
    BY <1>3, <2>2 DEF DeleteFile, TypeInv, dbVars, runVars
  <2>3. QED BY <1>4, <2>1, <2>2
<1>5. ASSUME (\E p \in Excludable : Reconfigure(p)) \/ (\E e \in Lockable : Chmod(e))
      PROVE  VersionInv'
  BY <1>3, <1>5 DEF Reconfigure, Chmod, dbVars, runVars
<1>6. CASE Upgrade
  BY <1>1, <1>6 DEF Upgrade, TypeInv, userVars, runVars, Row
<1>7. CASE StartIndexing
  BY <1>7 DEF StartIndexing, userVars, dbVars
<1>8. CASE WalkStep \/ DiffStep \/ UNCHANGED vars
  BY <1>8 DEF WalkStep, DiffStep, userVars, dbVars, runVars, vars
<1>9. CASE Callback \/ ReadNote \/ StatNote \/ StoreNote
  <2>1. UNCHANGED <<disk, clock, db>> /\ change.path \in Path
    BY <1>9 DEF Callback, ReadNote, StatNote, StoreNote, CallbackStep, userVars, dbVars,
                TypeInv, InCallback, Change
  <2>2. CASE Callback
    BY <2>1, <2>2 DEF Callback, StoreFails, storeVars, TypeInv
  <2>3. CASE ReadNote
    BY <1>1, <2>1, <2>3, SMT DEF ReadNote, storeVars
  <2>4. CASE StatNote
    BY <2>1, <2>4 DEF StatNote, storeVars, TypeInv, Row
  <2>5. CASE StoreNote
    <3>1. note \in Row /\ note # None
      BY <1>1, <2>5 DEF StoreNote, TypeInv
    <3>2. [note EXCEPT !.content = 0].modified = note.modified
      BY <3>1 DEF Row
    <3>3. \/ rows' = rows
          \/ rows' = [rows EXCEPT ![change.path] = note]
          \/ rows' = [rows EXCEPT ![change.path] = [note EXCEPT !.content = 0]]
      BY <2>5 DEF StoreNote, StoreFails, StoreHalf
    <3>4. note' = None
      BY <2>5 DEF StoreNote
    <3>5. QED BY <2>1, <3>1, <3>2, <3>3, <3>4 DEF TypeInv
  <2>6. QED BY <1>9, <2>2, <2>3, <2>4, <2>5
<1>10. CASE Commit \/ CommitFails \/ Rollback \/ Crash
  <2>1. UNCHANGED <<disk, clock>> /\ db' \in {db, rows} /\ rows' = db' /\ note' = None
    BY <1>10 DEF Commit, CommitFails, Rollback, Crash, EndRun, userVars
  <2>2. QED BY <2>1
<1>11. QED
  BY <1>4, <1>5, <1>6, <1>7, <1>8, <1>9, <1>10 DEF Next, Run, User
-----------------------------------------------------------------------------
(* A stale row is detected.                                                *)

\* A step that leaves the channel and the pair alone leaves the same rows to come.
LEMMA PendingFrame ==
  ASSUME UNCHANGED <<target, pair>>
  PROVE  Targets' = Targets /\ \A p : TargetPending(p)' <=> TargetPending(p)
BY DEF Left, Targets, TargetPending, PathsOf

\* Every step keeps what is known about the row of a path that is not overlooked.
LEMMA StaleStep ==
  ASSUME TypeInv, TargetLoopInv, VersionInv, StaleInv, [Next]_vars
  PROVE  StaleInv'
\* Nothing that concerns q has changed.
<1>1. ASSUME NEW q, NotStale(q), disk'[q] = disk[q],
             UNCHANGED <<target, pair, pc, change, needsReindexing, rows, db, note>>
      PROVE  NotStale(q)'
  <2> USE <1>1
  <2>1. TargetPending(q)' <=> TargetPending(q)
    BY PendingFrame
  <2>2. QED BY <2>1 DEF NotStale, Detected, Called, Idle
<1>2. ASSUME User PROVE StaleInv'
  <2> USE <1>2
  <2>1. ASSUME NEW p \in Path, WriteFile(p) PROVE StaleInv'
    <3>1. UNCHANGED <<target, pair, pc, change, force, needsReindexing, rows, db, note>>
      BY <2>1 DEF WriteFile, loopVars, dbVars, runVars
    <3>2. ASSUME NEW q \in Path \ overlooked', q # p PROVE NotStale(q)'
      <4>1. q \in Path \ overlooked /\ disk'[q] = disk[q]
        BY <2>1, <3>2 DEF WriteFile, Overlook, TypeInv
      <4>2. QED BY <3>1, <4>1, <1>1 DEF StaleInv
    <3>3. ASSUME p \notin overlooked' PROVE NotStale(p)'
      <4>1. ~(pc = "stat" /\ change.path = p) /\ disk'[p] = clock + 1
        BY <2>1, <3>3 DEF WriteFile, Overlook, TypeInv
      <4>2. ASSUME NEW n \in Nat, n <= clock PROVE n # clock + 1
        BY <4>2, TimeType, SMT DEF TypeInv
      <4>3. /\ db[p] # None => db[p].modified # disk'[p]
            /\ rows[p] # None => rows[p].modified # disk'[p]
            /\ note # None => note.modified # disk'[p]
        BY <4>1, <4>2, VersionType DEF VersionInv
      <4>4. pc = "store" => note # None
        BY TimeType DEF TypeInv
      <4>5. QED BY <3>1, <4>1, <4>3, <4>4 DEF NotStale, Detected
    <3>4. QED BY <3>1, <3>2, <3>3 DEF StaleInv, Idle
  <2>2. ASSUME NEW p \in Path, DeleteFile(p) PROVE StaleInv'
    <3>1. UNCHANGED <<target, pair, pc, change, force, needsReindexing, rows, db, note>>
      BY <2>2 DEF DeleteFile, loopVars, dbVars, runVars
    <3>2. ASSUME NEW q \in Path \ overlooked', q # p PROVE NotStale(q)'
      <4>1. q \in Path \ overlooked /\ disk'[q] = disk[q]
        BY <2>2, <3>2 DEF DeleteFile, Overlook, TypeInv
      <4>2. QED BY <3>1, <4>1, <1>1 DEF StaleInv
    <3>3. NotStale(p)'
      <4>1. disk'[p] = 0
        BY <2>2 DEF DeleteFile, TypeInv
      <4>2. QED BY <4>1 DEF NotStale, Detected
    <3>4. QED BY <3>1, <3>2, <3>3 DEF StaleInv, Idle
  <2>3. ASSUME NEW p \in Excludable, Reconfigure(p) PROVE StaleInv'
    <3>1. UNCHANGED <<target, pair, pc, change, force, needsReindexing, rows, db, note,
                      disk, overlooked>>
      BY <2>3 DEF Reconfigure, loopVars, dbVars, runVars
    <3>2. QED BY <3>1, <1>1 DEF StaleInv, Idle
  <2>4. ASSUME NEW e \in Lockable, Chmod(e) PROVE StaleInv'
    <3>1. UNCHANGED <<target, pair, pc, change, force, needsReindexing, rows, db, note,
                      disk, overlooked>>
      BY <2>4 DEF Chmod, loopVars, dbVars, runVars, histVars
    <3>2. QED BY <3>1, <1>1 DEF StaleInv, Idle
  <2>5. ASSUME Upgrade PROVE StaleInv'
    <3>1. pc' = "idle" /\ needsReindexing'
      BY <2>5 DEF Upgrade, Idle, loopVars
    <3>2. QED BY <3>1 DEF StaleInv, NotStale, Idle
  <2>6. QED BY <2>1, <2>2, <2>3, <2>4, <2>5 DEF User
<1>3. ASSUME StartIndexing PROVE StaleInv'
  <2> USE <1>3
  <2>1. /\ pc' = "source" /\ rows' = db
        /\ UNCHANGED <<disk, needsReindexing, db, overlooked>>
    BY DEF StartIndexing, LoopStart, userVars, dbVars
  <2>2. needsReindexing' => force'
    <3>1. PICK opt \in BOOLEAN : force' = (opt \/ needsReindexing)
      BY DEF StartIndexing
    <3>2. QED BY <2>1, <3>1
  <2>3. ASSUME NEW q \in Path, db[q] # None PROVE TargetPending(q)'
    <3>1. [path |-> q, modified |-> db[q].modified] \in target'
      BY <2>3 DEF StartIndexing
    <3>2. QED BY <3>1, SMT DEF TargetPending, PathsOf, Targets, Left
  <2>4. ASSUME NEW q \in Path \ overlooked PROVE NotStale(q)'
    <3>1. NotStale(q)
      BY DEF StaleInv
    <3>2. QED BY <2>1, <2>3, <3>1 DEF NotStale, Detected
  <2>5. QED BY <2>1, <2>4, <2>2 DEF StaleInv
<1>4. ASSUME DiffStep PROVE StaleInv'
  <2> USE <1>4
  <2>1. /\ UNCHANGED <<force, needsReindexing, rows, db, note, disk, overlooked>>
        /\ pc \in {"source", "target", "diff"}
    BY DEF DiffStep, ReceiveSource, ReceiveTarget, Compare, Return, userVars, dbVars, runVars,
           histVars
  <2>2. ASSUME NEW q \in Path \ overlooked, ~needsReindexing, pc' \notin {"stat", "store"}
        PROVE  NotStale(q)'
    <3>1. NotStale(q)
      BY DEF StaleInv
    <3>2. QED BY <2>1, <2>2, <3>1 DEF NotStale, Detected, Idle
  <2>3. ASSUME NEW q \in Path \ overlooked, pc' \notin {"stat", "store"},
               TargetPending(q) => TargetPending(q)' \/
                 (Called(q)' /\ change'.kind \in {"removed", "modified"})
        PROVE  NotStale(q)'
    <3>1. NotStale(q) /\ ~Called(q)
      BY <2>1 DEF StaleInv, Called, InCallback
    <3>2. QED BY <2>1, <2>3, <3>1 DEF NotStale, Detected, Idle
  <2>4. pc' \notin {"stat", "store"}
    BY DEF DiffStep, ReceiveSource, ReceiveTarget, Compare, Return, DiffNothing, DiffRemoved,
           DiffAdded, DiffSame, Report
  <2>5. ASSUME NEW q \in Path \ overlooked, needsReindexing, TargetPending(q)
        PROVE  TargetPending(q)' \/ (Called(q)' /\ change'.kind \in {"removed", "modified"})
    <3>1. PICK m \in Targets : m.path = q
      BY <2>5 DEF TargetPending, PathsOf
    <3>2. CASE m \in Targets'
      BY <3>1, <3>2 DEF TargetPending, PathsOf
    <3>3. CASE m \notin Targets'
      <4>1. CASE ReceiveSource \/ Return
        BY <3>3, <4>1 DEF ReceiveSource, Return, Targets, Left, TypeInv
      <4>2. CASE ReceiveTarget
        <5>1. CASE UNCHANGED <<target, pair>>
          BY <3>3, <5>1 DEF Left, Targets
        <5>2. CASE pair.target = None /\ \E n \in target : target' = target \ {n} /\ pair'.target = n
          <6>1. PICK n \in target : target' = target \ {n} /\ pair'.target = n
            BY <5>2
          <6>2. m \in target /\ m # None
            BY <3>1, <5>2, DiffAssumption, SMT DEF Left, Targets, TypeInv
          <6>3. QED BY <3>3, <6>1, <6>2 DEF Left, Targets
        <5>3. QED BY <4>2, <5>1, <5>2 DEF ReceiveTarget, TypeInv
      <4>3. CASE Compare
        <5>1. pc' = "callback" /\ m = pair.target /\ m # None /\ pair'.target # pair.target
          BY <3>3, <4>3 DEF Compare, DiffNothing, DiffRemoved, DiffAdded, DiffSame, Report, Targets, Left,
                            TypeInv
        <5>2. CASE DiffRemoved
          BY <3>1, <5>1, <5>2 DEF DiffRemoved, Report, Called, InCallback
        <5>3. CASE DiffSame
          <6>1. force
            BY <2>1, <2>5 DEF StaleInv, Idle
          <6>2. QED BY <3>1, <5>1, <5>3, <6>1 DEF DiffSame, Report, Called, InCallback
        <5>4. QED BY <4>3, <5>1, <5>2, <5>3 DEF Compare, DiffNothing, DiffAdded, TypeInv
      <4>4. QED BY <4>1, <4>2, <4>3 DEF DiffStep
    <3>4. QED BY <3>2, <3>3
  <2>6. QED BY <2>1, <2>2, <2>3, <2>4, <2>5 DEF StaleInv, Idle
<1>5. ASSUME Callback \/ ReadNote \/ StatNote \/ StoreNote PROVE StaleInv'
  <2> USE <1>5
  <2> DEFINE p == change.path
  <2>1. /\ pc \in InCallback /\ p \in Path
        /\ UNCHANGED <<target, pair, change, force, needsReindexing, db, disk>>
    BY DEF Callback, ReadNote, StatNote, StoreNote, CallbackStep, userVars, dbVars, TypeInv,
           InCallback, Change
  <2>2. \A q : TargetPending(q)' <=> TargetPending(q)
    BY <2>1, PendingFrame
  <2>3. overlooked \subseteq overlooked'
    BY DEF Callback, ReadNote, StatNote, StoreNote, StoreFails, StoreHalf, PassOver, storeVars
  <2>4. ASSUME NEW q \in Path \ overlooked', q # p PROVE NotStale(q)'
    <3>1. NotStale(q)
      BY <2>3 DEF StaleInv
    <3>2. rows'[q] = rows[q]
      <4>1. \/ rows' = rows
            \/ \E row : rows' = [rows EXCEPT ![p] = row]
        BY DEF Callback, ReadNote, StatNote, StoreNote, StoreFails, StoreHalf, storeVars
      <4>2. QED BY <2>4, <4>1 DEF TypeInv
    <3>3. QED BY <2>1, <2>2, <2>4, <3>1, <3>2 DEF NotStale, Detected, Called, Idle, InCallback
  <2>5. ASSUME p \notin overlooked' PROVE NotStale(p)'
    <3>1. NotStale(p) /\ ~Idle
      BY <2>1, <2>3, <2>5 DEF StaleInv, Idle, InCallback
    <3>2. ASSUME rows' = rows, pc' = "source",
                 \/ change.kind \in {"added", "unchanged"} \/ ~needsReindexing
                 \/ rows[p] = None \/ disk[p] = 0
          PROVE  NotStale(p)'
      BY <2>1, <2>2, <3>1, <3>2 DEF NotStale, Detected, Called, Idle, InCallback
    <3>3. ASSUME StoreFails(p), pc' = "source" PROVE NotStale(p)'
      BY <2>5, <3>2, <3>3 DEF StoreFails, PassOver
    <3>4. CASE Callback
      <4>1. CASE change.kind = "unchanged"
        BY <3>2, <3>4, <4>1 DEF Callback, CallbackStep, storeVars
      <4>2. CASE change.kind = "removed"
        <5>1. pc' = "source" /\ (StoreFails(p) \/ rows'[p] = None)
          BY <2>1, <3>4, <4>2 DEF Callback, CallbackStep, TypeInv
        <5>2. CASE rows'[p] = None
          BY <2>1, <3>1, <5>1, <5>2 DEF NotStale, Detected
        <5>3. QED BY <3>3, <5>1, <5>2
      <4>3. CASE change.kind \in {"added", "modified"}
        <5>1. pc' = "read" /\ rows' = rows
          BY <3>4, <4>3 DEF Callback, CallbackStep, storeVars
        <5>2. QED BY <2>1, <2>2, <3>1, <5>1 DEF NotStale, Detected, Called, Idle, InCallback
      <4>4. QED BY <3>4, <4>1, <4>2, <4>3 DEF Callback
    <3>5. CASE ReadNote
      <4>1. CASE disk[p] = 0 \/ ~Readable(p)
        <5>1. pc' = "source" /\ rows' = rows /\ PassOver(p)
          BY <3>5, <4>1 DEF ReadNote, CallbackStep
        <5>2. ~needsReindexing
          BY <2>5, <5>1 DEF PassOver
        <5>3. QED BY <3>2, <5>1, <5>2
      <4>2. CASE disk[p] # 0 /\ Readable(p)
        <5>1. pc' = "stat" /\ rows' = rows /\ note'.content = disk[p]
          BY <3>5, <4>2, SMT DEF ReadNote, CallbackStep
        <5>2. QED BY <2>1, <2>2, <3>1, <5>1 DEF NotStale, Detected, Called, Idle, InCallback
      <4>3. QED BY <4>1, <4>2
    <3>6. CASE StatNote
      <4>1. pc = "stat" /\ pc' = "store" /\ rows' = rows
        BY <3>6 DEF StatNote, CallbackStep, storeVars
      <4>2. note'.content = note.content
        BY <3>6 DEF StatNote, TypeInv, Row
      <4>3. QED BY <2>1, <2>2, <3>1, <4>1, <4>2 DEF NotStale, Detected, Called, Idle, InCallback
    <3>7. CASE StoreNote
      <4>1. pc = "store" /\ pc' = "source"
        BY <3>7 DEF StoreNote, CallbackStep
      <4>2. CASE StoreFails(p)
        BY <3>3, <4>1, <4>2
      <4>3. CASE rows'[p] = note
        BY <2>1, <3>1, <4>1, <4>3 DEF NotStale, Detected
      <4>4. CASE rows' = rows /\ ~Storable
        <5>1. change.kind = "added" \/ rows[p] = None
          BY <4>4 DEF Storable
        <5>2. QED BY <3>2, <4>1, <4>4, <5>1
      <4>5. ~StoreHalf
        BY <2>5 DEF StoreHalf
      <4>6. QED BY <2>1, <3>7, <4>2, <4>3, <4>4, <4>5 DEF StoreNote, TypeInv
    <3>8. QED BY <3>4, <3>5, <3>6, <3>7
  <2>6. QED
    <3>1. ASSUME NEW q \in Path \ overlooked' PROVE NotStale(q)'
      <4>1. CASE q = p
        BY <2>1, <2>5, <4>1 DEF NotStale, Detected, TargetPending, Called
      <4>2. CASE q # p
        BY <2>4, <4>2
      <4>3. QED BY <4>1, <4>2
    <3>2. needsReindexing' => force'
      BY <2>1 DEF StaleInv, Idle, InCallback
    <3>3. QED BY <3>1, <3>2 DEF StaleInv
<1>6. ASSUME Commit \/ CommitFails \/ Rollback \/ Crash PROVE StaleInv'
  <2> USE <1>6
  <2>1. pc' = "idle" /\ UNCHANGED <<disk, overlooked>>
    BY DEF Commit, CommitFails, Rollback, Crash, EndRun, userVars
  <2>2. ASSUME NEW q \in Path \ overlooked, ~needsReindexing', db'[q] # None
        PROVE  Detected(db[q], q)'
    <3>1. CASE Commit
      <4>1. pc = "done" /\ db' = rows
        BY <3>1 DEF Commit
      <4>2. target = {} /\ pair.target = None
        BY <4>1 DEF TargetLoopInv, Idle
      <4>3. ~TargetPending(q) /\ ~Called(q)
        BY <4>1, <4>2 DEF TargetPending, Targets, Left, PathsOf, Called, InCallback
      <4>4. QED BY <2>1, <2>2, <4>1, <4>3 DEF StaleInv, NotStale, Detected, Idle
    <3>2. CASE UNCHANGED <<db, needsReindexing>>
      BY <2>1, <2>2, <3>2 DEF StaleInv, NotStale, Detected
    <3>3. QED BY <3>1, <3>2 DEF CommitFails, Rollback, Crash
  <2>3. QED BY <2>1, <2>2 DEF StaleInv, NotStale, Idle
<1>7. CASE WalkStep \/ UNCHANGED vars
  <2>1. UNCHANGED <<target, pair, pc, change, force, needsReindexing, rows, db, note, disk,
                    overlooked>>
    BY <1>7 DEF WalkStep, loopVars, userVars, dbVars, runVars, histVars, vars
  <2>2. QED BY <2>1, <1>1 DEF StaleInv, Idle
<1>8. QED
  BY <1>7, <1>2, <1>3, <1>4, <1>5, <1>6 DEF Next, Run

(* Whatever the user writes and deletes, and wherever an indexing stops, a *)
(* row of the index whose content is not the file's differs from it in its *)
(* date, or a reindexing is required (note_parse.go:43 and :95,            *)
(* note_index.go): the next indexing reads the note again.                 *)
THEOREM StaleIsDetectedTheorem == Spec => []StaleIsDetected
<1>1. Init => DetectInv
  <2> SUFFICES ASSUME Init PROVE DetectInv
    OBVIOUS
  <2>1. TargetLoopInv /\ VersionInv
    BY SMT DEF Init, TargetLoopInv, VersionInv, Idle
  <2>2. StaleInv
    BY DEF Init, StaleInv, NotStale, Idle
  <2>3. QED BY <2>1, <2>2, TypeInit DEF DetectInv
<1>2. DetectInv /\ [Next]_vars => DetectInv'
  BY TypeStep, TargetLoopStep, VersionStep, StaleStep DEF DetectInv
<1>3. DetectInv => StaleIsDetected
  <2>1. SUFFICES ASSUME DetectInv, Idle, ~needsReindexing, NEW p \in Path \ overlooked,
                        Visible(p), db[p] # None, db[p].content # disk[p]
                 PROVE  db[p].modified # disk[p]
    BY DEF StaleIsDetected
  <2>2. disk[p] # 0 /\ Detected(db[p], p)
    BY <2>1 DEF DetectInv, StaleInv, NotStale, Visible
  <2>3. QED BY <2>1, <2>2 DEF Detected
<1>4. QED BY <1>1, <1>2, <1>3, PTL DEF Spec
-----------------------------------------------------------------------------
(* The directories above an entry.                                         *)

\* A set with the directory of each of its members.
Closed(S) == S \subseteq Entry /\ \A x \in S \ {Root} : Parent[x] \in S

\* An entry but the root is in a directory, which the walk visits before it.
LEMMA ParentType ==
  ASSUME NEW e \in Entry, e # Root
  PROVE  Parent[e] \in Dir /\ Parent[e] \in Entry /\ Rank(Parent[e]) < Rank(e)
BY WalkAssumption DEF Entry

\* The place of an entry in the order of the walk is a number.
LEMMA RankType == ASSUME NEW e \in Entry PROVE Rank(e) \in Nat
BY WalkAssumption, DiffAssumption DEF Entry, Rank

\* A note is an entry and not a directory.
LEMMA PathEntry ==
  ASSUME NEW p \in Path
  PROVE  p \in Entry /\ p \notin Dir /\ p # Root /\ Rank(p) = WalkRank[p]
BY WalkAssumption, SMT DEF Entry, Rank

\* What is above an entry are entries.
LEMMA AncestorsIn == ASSUME NEW e \in Entry PROVE Ancestors[e] \subseteq Entry
BY DEF Ancestors, Entry

\* What is above an entry is in every set closed under the directory that has it.
LEMMA AncestorsLeast ==
  ASSUME NEW e \in Entry, NEW S, Closed(S), e \in S
  PROVE  Ancestors[e] \subseteq S
BY DEF Ancestors, Entry, Closed

\* An entry counts among those above it.
LEMMA AncestorsSelf == ASSUME NEW e \in Entry PROVE e \in Ancestors[e]
BY DEF Ancestors, Entry

\* With an entry above e, its directory is above e.
LEMMA AncestorsClosed == ASSUME NEW e \in Entry PROVE Closed(Ancestors[e])
<1>1. SUFFICES ASSUME NEW x \in Ancestors[e], x # Root
               PROVE  Parent[x] \in Ancestors[e]
  BY AncestorsIn DEF Closed
<1>2. x \in Entry /\ Parent[x] \in Entry
  BY <1>1, AncestorsIn, ParentType
<1>3. ASSUME NEW S \in SUBSET Entry, e \in S, \A y \in S \ {Root} : Parent[y] \in S
      PROVE  Parent[x] \in S
  <2>1. x \in S
    BY <1>3, AncestorsLeast DEF Closed
  <2>2. QED BY <2>1, <1>1, <1>3
<1>4. QED BY <1>2, <1>3 DEF Ancestors, Entry

\* What is properly above an entry are directories.
LEMMA AncestorsDir ==
  ASSUME NEW e \in Entry, NEW a \in Ancestors[e], a # e
  PROVE  a \in Dir
<1>1. Closed({e} \cup Dir)
  BY ParentType DEF Closed, Entry
<1>2. Ancestors[e] \subseteq {e} \cup Dir
  BY <1>1, AncestorsLeast
<1>3. QED BY <1>2

\* What is above an entry is visited before it.
LEMMA AncestorsRank ==
  ASSUME NEW e \in Entry, NEW a \in Ancestors[e]
  PROVE  Rank(a) <= Rank(e)
<1> DEFINE S == {x \in Entry : Rank(x) <= Rank(e)}
<1>1. Closed(S)
  <2>1. SUFFICES ASSUME NEW x \in S, x # Root PROVE Parent[x] \in S
    BY DEF Closed
  <2>2. Parent[x] \in Entry /\ Rank(Parent[x]) < Rank(x)
    BY <2>1, ParentType
  <2>3. Rank(e) \in Nat /\ Rank(x) \in Nat /\ Rank(Parent[x]) \in Nat
    BY <2>2, RankType
  <2>4. QED BY <2>2, <2>3, SMT
<1>2. e \in S
  BY RankType, SMT
<1>3. Ancestors[e] \subseteq S
  BY <1>1, <1>2, AncestorsLeast
<1>4. QED BY <1>3

\* A directory above e has an entry that is e or above it.
LEMMA AncestorsChild ==
  ASSUME NEW e \in Entry, NEW d \in Ancestors[e], d # e
  PROVE  \E c \in Ancestors[e] \ {Root} : Parent[c] = d
<1> DEFINE S == Ancestors[e] \ {d}
<1>1. SUFFICES ASSUME \A c \in Ancestors[e] \ {Root} : Parent[c] # d PROVE FALSE
  OBVIOUS
<1>2. Closed(S)
  BY <1>1, AncestorsClosed DEF Closed
<1>3. Ancestors[e] \subseteq S
  <2>1. e \in S
    BY AncestorsSelf
  <2> QED BY <1>2, <2>1, AncestorsLeast
<1>4. QED BY <1>3

\* The root of the notebook is above every entry.
LEMMA AncestorsRoot == ASSUME NEW e \in Entry PROVE Root \in Ancestors[e]
<1>1. Ancestors[e] \in SUBSET (Path \cup Dir) /\ Ancestors[e] # {}
  BY AncestorsIn, AncestorsSelf DEF Entry
<1>2. \A x \in Ancestors[e] \ {Root} : Parent[x] \in Ancestors[e]
  BY AncestorsClosed DEF Closed
<1>3. QED BY <1>1, <1>2, WalkAssumption

\* The walk starts at the root, whatever its name (walk.go:25).
LEMMA RootInWalk == Root \in Entry /\ InWalk(Root)
<1>1. Root \in Entry /\ Root \in RootNamed
  BY WalkAssumption DEF Entry
<1>2. Closed({Root})
  BY <1>1 DEF Closed
<1>3. Ancestors[Root] \subseteq {Root}
  BY <1>1, <1>2, AncestorsLeast
<1>4. QED BY <1>1, <1>3 DEF InWalk

\* The walk comes to the entries of a directory it comes to, unless they are hidden.
LEMMA WalkDown ==
  ASSUME NEW e \in Entry, e # Root, InWalk(Parent[e]), e \notin Hidden \ RootNamed
  PROVE  InWalk(e)
<1> DEFINE S == {e} \cup Ancestors[Parent[e]]
<1>1. Parent[e] \in Entry
  BY ParentType
<1>2. Closed(S)
  BY <1>1, AncestorsClosed, AncestorsSelf DEF Closed
<1>3. Ancestors[e] \subseteq S
  BY <1>2, AncestorsLeast
<1>4. QED BY <1>3 DEF InWalk
-----------------------------------------------------------------------------
(* What is left of the stream of files, and the agenda of the walk.        *)

Sources == Left(source, pair.source)

\* The source side of the pair is empty only when the walk is over and the
\* channel is empty.
Drained == source = {} /\ todo = {} /\ walker = "closed"
SourceLoopInv ==
  /\ walker = "closed" => todo = {}
  /\ ~Idle /\ pc \in {"target", "diff"} /\ pair.source = None => Drained
  /\ ~Idle /\ "source" \notin opened => Drained /\ pair.source = None

\* Every step keeps what the loop knows about the end of the walk's channel.
LEMMA SourceLoopStep == ASSUME TypeInv, TargetLoopInv, SourceLoopInv, [Next]_vars PROVE SourceLoopInv'
<1> USE DEF SourceLoopInv, Drained
<1>1. CASE UNCHANGED <<source, todo, walker, loopVars>>
  BY <1>1 DEF loopVars, Idle
<1>2. ASSUME User \/ UNCHANGED vars PROVE UNCHANGED <<source, todo, walker, loopVars>>
  BY <1>2 DEF User, WriteFile, DeleteFile, Reconfigure, Chmod, Upgrade, vars, walkVars
<1>3. CASE StartIndexing
  BY <1>3 DEF StartIndexing, LoopStart, WalkStart
<1>4. CASE WalkStep
  <2>1. walker = "walking" /\ UNCHANGED loopVars
    BY <1>4 DEF WalkStep, VisitDir, VisitFile, CloseChannel, IsNext
  <2>2. walker' = "closed" => todo' = {}
    BY <1>4, <2>1 DEF WalkStep, VisitDir, VisitFile, CloseChannel
  <2>3. QED BY <2>1, <2>2 DEF loopVars, Idle
<1>5. CASE DiffStep
  <2>1. UNCHANGED <<todo, walker>>
    BY <1>5 DEF DiffStep
  <2>2. CASE ReceiveSource /\ (pair.source = None /\ source = {} => walker = "closed")
    <3>1. pc' = "target" /\ ~Idle
      BY <2>2 DEF ReceiveSource, Idle
    <3>2. \/ pair.source # None /\ UNCHANGED <<source, pair, opened>>
          \/ source # {} /\ (\E m \in source : pair'.source = m) /\ opened' = opened
          \/ pair.source = None /\ source = {} /\ UNCHANGED <<source, pair>>
      BY <2>2 DEF ReceiveSource, TypeInv
    <3>3. \A m \in source : m # None
      BY DiffAssumption DEF TypeInv
    <3>4. QED BY <2>1, <2>2, <3>1, <3>2, <3>3
  <2>3. CASE ReceiveTarget
    <3>1. pc' = "diff" /\ pc = "target" /\ source' = source /\ pair'.source = pair.source
          /\ ("source" \in opened => "source" \in opened')
      BY <2>3 DEF ReceiveTarget, TypeInv
    <3>2. QED BY <2>1, <3>1 DEF Idle
  <2>4. CASE Compare
    <3>1. pc' \in {"source", "callback"} /\ UNCHANGED <<source, opened>> /\ ~Idle
      BY <2>4 DEF Compare, DiffNothing, DiffRemoved, DiffAdded, DiffSame, Report, Idle
    <3>2. pair'.source \in {pair.source, None}
      BY <2>4, SMT DEF Compare, DiffNothing, DiffRemoved, DiffAdded, DiffSame, TypeInv
    <3>3. QED BY <2>1, <3>1, <3>2
  <2>5. CASE Return
    BY <2>1, <2>5 DEF Return, Idle
  <2>6. QED BY <1>5, <2>2, <2>3, <2>4, <2>5 DEF DiffStep
<1>6. CASE Callback \/ ReadNote \/ StatNote \/ StoreNote
  <2>1. /\ UNCHANGED <<source, todo, walker, pair, opened>> /\ ~Idle
        /\ pc' \in {"source", "read", "stat", "store"}
    BY <1>6 DEF Callback, ReadNote, StatNote, StoreNote, CallbackStep, Idle
  <2>2. QED BY <2>1
<1>7. CASE Commit \/ CommitFails \/ Rollback \/ Crash
  <2>1. pc' = "idle" /\ todo' = {}
    BY <1>7 DEF Commit, CommitFails, Rollback, Crash, EndRun
  <2>2. QED BY <2>1 DEF Idle
<1>8. QED
  BY <1>1, <1>2, <1>3, <1>4, <1>5, <1>6, <1>7 DEF Next, Run
-----------------------------------------------------------------------------
(* The order of the streams.                                               *)

\* A stream whose first file is in the pair and the others in the channel.
Queue(channel, file) ==
  /\ IsStream(Left(channel, file))
  /\ file # None => file \notin channel /\ IsHead(file, Left(channel, file))

\* The order of the streams, and of the agenda of the walk after them.
OrderInv ==
  /\ Queue(source, pair.source) /\ Queue(target, pair.target)
  /\ \A m \in Sources, e \in todo : WalkRank[m.path] < Rank(e)
  /\ \A e \in todo : e = Root \/ InWalk(Parent[e])

\* A file in a stream is a note with a place in the order of the walk.
LEMMA MetadataType ==
  ASSUME NEW m \in Metadata
  PROVE  m # None /\ m.path \in Path /\ WalkRank[m.path] \in Nat
BY DiffAssumption DEF Metadata

\* A closed and drained channel is in order.
LEMMA QueueEmpty == Queue({}, None) /\ Left({}, None) = {}
BY DEF Queue, Left, IsStream

\* The first value of the channel is received.
LEMMA QueueReceive ==
  ASSUME NEW c \in SUBSET Metadata, Queue(c, None), NEW m \in c, IsHead(m, c)
  PROVE  Queue(c \ {m}, m) /\ Left(c \ {m}, m) = Left(c, None)
<1>1. m # None
  BY MetadataType
<1>2. Left(c, None) = c /\ Left(c \ {m}, m) = c
  BY <1>1 DEF Left
<1>3. QED BY <1>2 DEF Queue

\* The file in the pair is dropped: nothing more comes for its path.
LEMMA QueueDrop ==
  ASSUME NEW c \in SUBSET Metadata, NEW x \in Metadata, Queue(c, x)
  PROVE  /\ Queue(c, None) /\ Left(c, None) = c
         /\ Left(c, x) = c \cup {x}
         /\ \A n \in c : n.path # x.path /\ WalkRank[x.path] < WalkRank[n.path]
<1>1. x # None
  BY MetadataType
<1>2. Left(c, None) = c /\ Left(c, x) = c \cup {x}
  BY <1>1 DEF Left
<1>3. x \notin c /\ IsStream(c \cup {x}) /\ IsHead(x, c \cup {x})
  BY <1>1, <1>2 DEF Queue
<1>4. Queue(c, None)
  BY <1>2, <1>3 DEF Queue, IsStream
<1>5. ASSUME NEW n \in c PROVE n.path # x.path /\ WalkRank[x.path] < WalkRank[n.path]
  <2>1. n.path # x.path
    BY <1>3 DEF IsStream
  <2>2. WalkRank[x.path] <= WalkRank[n.path]
    BY <1>3 DEF IsHead
  <2>3. n.path \in Path /\ x.path \in Path /\ WalkRank[n.path] \in Nat /\ WalkRank[x.path] \in Nat
    BY MetadataType
  <2>4. WalkRank[x.path] # WalkRank[n.path]
    BY <2>1, <2>3, DiffAssumption
  <2>5. QED BY <2>2, <2>3, <2>4, SMT
<1>6. QED BY <1>2, <1>4, <1>5

\* A file that comes after all others is sent.
LEMMA QueueSend ==
  ASSUME NEW c \in SUBSET Metadata, NEW x \in Metadata \cup {None}, Queue(c, x),
         NEW m \in Metadata, \A n \in Left(c, x) : WalkRank[n.path] < WalkRank[m.path]
  PROVE  Queue(c \cup {m}, x) /\ Left(c \cup {m}, x) = Left(c, x) \cup {m}
<1>1. Left(c \cup {m}, x) = Left(c, x) \cup {m}
  BY DEF Left
<1>2. Left(c, x) \subseteq Metadata
  BY DEF Left
<1>3. ASSUME NEW n \in Left(c, x) PROVE n.path # m.path /\ WalkRank[n.path] <= WalkRank[m.path]
  BY <1>2, <1>3, MetadataType, SMT
<1>4. IsStream(Left(c, x) \cup {m})
  BY <1>3 DEF Queue, IsStream
<1>5. ASSUME x # None PROVE x \notin c \cup {m} /\ IsHead(x, Left(c, x) \cup {m})
  <2>1. x \in Left(c, x) /\ x \notin c /\ IsHead(x, Left(c, x))
    BY <1>5 DEF Queue, IsHead
  <2>2. x # m
    BY <1>3, <2>1
  <2>3. QED BY <1>3, <2>1, <2>2 DEF IsHead
<1>6. QED BY <1>1, <1>4, <1>5 DEF Queue

\* Every step keeps both streams in the order of the walk.
LEMMA OrderStep == ASSUME TypeInv, OrderInv, [Next]_vars PROVE OrderInv'
<1>1. ASSUME UNCHANGED <<source, target, pair, todo>> PROVE OrderInv'
  BY <1>1 DEF OrderInv, Sources, Queue, Left, InWalk
<1>2. ASSUME StartIndexing PROVE OrderInv'
  <2> USE <1>2
  <2>1. source' = {} /\ pair'.source = None /\ pair'.target = None /\ todo' = {Root}
    BY DEF StartIndexing, WalkStart, LoopStart
  <2>2. Queue(source, pair.source)' /\ Sources' = {}
    BY <2>1, QueueEmpty DEF Sources, Queue, Left
  <2>3. IsStream(target')
    BY SMT DEF StartIndexing, IsStream
  <2>4. Queue(target, pair.target)'
    <3>1. Left(target', None) = target'
      BY DEF Left
    <3>2. QED BY <2>1, <2>3, <3>1 DEF Queue
  <2>5. QED BY <2>1, <2>2, <2>4 DEF OrderInv
<1>3. ASSUME NEW d \in Dir, VisitDir(d), UNCHANGED <<target, pair>> PROVE OrderInv'
  <2> USE <1>3
  <2>1. d \in todo /\ d \in Entry /\ source' = source /\ Sources' = Sources /\ Sources \subseteq Metadata
    BY DEF VisitDir, IsNext, Entry, Sources, Left, TypeInv
  <2>2. Queue(source, pair.source)' /\ Queue(target, pair.target)'
    BY <2>1 DEF OrderInv, Queue, Left
  <2>3. ASSUME NEW e \in todo' PROVE e \in todo \/ (e \in Children(d) /\ d \notin Hidden \ RootNamed)
    BY <2>3 DEF VisitDir, AbortWalk
  <2>4. ASSUME NEW e \in todo', NEW m \in Sources PROVE WalkRank[m.path] < Rank(e)
    <3>1. CASE e \in todo
      BY <3>1 DEF OrderInv
    <3>2. CASE e \in Children(d)
      <4>1. e \in Entry /\ e # Root /\ Parent[e] = d
        BY <3>2 DEF Children, Entry
      <4>2. Rank(d) < Rank(e) /\ Rank(d) \in Nat /\ Rank(e) \in Nat
        BY <2>1, <4>1, ParentType, RankType
      <4>3. WalkRank[m.path] < Rank(d) /\ WalkRank[m.path] \in Nat
        BY <2>1, MetadataType DEF OrderInv
      <4>4. QED BY <4>2, <4>3, SMT
    <3>3. QED BY <2>3, <3>1, <3>2
  <2>5. ASSUME NEW e \in todo' PROVE e = Root \/ InWalk(Parent[e])
    <3>1. CASE e \in todo
      BY <3>1 DEF OrderInv
    <3>2. CASE e \in Children(d) /\ d \notin Hidden \ RootNamed
      <4>1. InWalk(d)
        BY <2>1, <3>2, RootInWalk, WalkDown DEF OrderInv
      <4>2. QED BY <3>2, <4>1 DEF Children
    <3>3. QED BY <2>3, <3>1, <3>2
  <2>6. QED BY <2>1, <2>2, <2>4, <2>5 DEF OrderInv, InWalk
<1>4. ASSUME NEW p \in Path, VisitFile(p, ShouldIgnorePath(p)), UNCHANGED <<target, pair>>
      PROVE  OrderInv'
  <2> USE <1>4
  <2>1. /\ p \in todo /\ todo' \subseteq todo \ {p} /\ Sources \subseteq Metadata
        /\ \A e \in todo : Rank(p) <= Rank(e)
    BY DEF VisitFile, IsNext, AbortWalk, Sources, Left, TypeInv
  <2>2. Queue(target, pair.target)'
    BY DEF OrderInv, Queue, Left
  <2>3. \A e \in todo' : e = Root \/ InWalk(Parent[e])
    BY <2>1 DEF OrderInv
  <2>4. CASE source' = source
    BY <2>1, <2>2, <2>3, <2>4 DEF OrderInv, Sources, Queue, Left, InWalk
  <2>5. ASSUME NEW m, m = [path |-> p, modified |-> disk[p]], source' = source \cup {m}
        PROVE  OrderInv'
    <3>1. m \in Metadata /\ m.path = p
      BY <2>5 DEF Metadata, TypeInv
    <3>2. Rank(p) = WalkRank[p] /\ Rank(p) \in Nat
      BY PathEntry, RankType
    <3>3. \A n \in Left(source, pair.source) : WalkRank[n.path] < WalkRank[m.path]
      BY <2>1, <3>1, <3>2 DEF OrderInv, Sources
    <3>4. /\ Queue(source \cup {m}, pair.source)
          /\ Left(source \cup {m}, pair.source) = Left(source, pair.source) \cup {m}
      <4>1. /\ source \in SUBSET Metadata /\ pair.source \in Metadata \cup {None}
            /\ Queue(source, pair.source)
        BY SMT DEF OrderInv, TypeInv
      <4>2. m \in Metadata
        BY <3>1
      <4>3. QED BY <3>3, <4>1, <4>2, QueueSend
    <3>5. Queue(source, pair.source)' /\ Sources' = Sources \cup {m}
      BY <2>5, <3>4 DEF Sources, Queue, Left
    <3>6. ASSUME NEW e \in todo', NEW n \in Sources' PROVE WalkRank[n.path] < Rank(e)
      <4>1. e \in todo /\ e # p /\ e \in Entry /\ Rank(e) \in Nat
        BY <2>1, RankType DEF TypeInv
      <4>2. CASE n \in Sources
        BY <4>1, <4>2 DEF OrderInv
      <4>3. CASE n = m
        <5>1. Rank(p) <= Rank(e) /\ Rank(p) # Rank(e)
          BY <2>1, <4>1, PathEntry, WalkAssumption DEF Entry
        <5>2. QED BY <3>1, <3>2, <4>1, <4>3, <5>1, SMT
      <4>4. QED BY <3>5, <4>2, <4>3
    <3>7. QED BY <2>2, <2>3, <3>5, <3>6 DEF OrderInv, InWalk
  <2>6. QED BY <2>4, <2>5 DEF VisitFile
<1>5. ASSUME DiffStep PROVE OrderInv'
  <2> USE <1>5
  <2>1. UNCHANGED todo
    BY DEF DiffStep
  <2>2. SUFFICES /\ Queue(source, pair.source)' /\ Queue(target, pair.target)'
                 /\ Sources' \subseteq Sources
    BY <2>1 DEF OrderInv, InWalk
  <2>3. /\ Queue(source, pair.source) /\ Queue(target, pair.target)
        /\ source \subseteq Metadata /\ target \subseteq Metadata
        /\ pair.source \in Metadata \cup {None} /\ pair.target \in Metadata \cup {None}
    BY DEF OrderInv, TypeInv
  <2>4. CASE UNCHANGED <<source, pair.source>> /\ UNCHANGED <<target, pair.target>>
    BY <2>3, <2>4 DEF Sources, Queue, Left
  <2>5. CASE ReceiveSource
    <3>1. UNCHANGED <<target, pair.target>>
      BY <2>5 DEF ReceiveSource, TypeInv
    <3>2. CASE UNCHANGED <<source, pair>>
      BY <2>4, <3>1, <3>2
    <3>3. ASSUME NEW m \in source, pair.source = None, IsHead(m, source), source' = source \ {m},
                 pair'.source = m
          PROVE  Queue(source, pair.source)' /\ Sources' = Sources
      BY <2>3, <3>3, QueueReceive DEF Sources, Queue, Left
    <3>4. Queue(target, pair.target)'
      BY <2>3, <3>1 DEF Queue, Left
    <3>5. QED BY <2>5, <3>2, <3>3, <3>4 DEF ReceiveSource, TypeInv
  <2>6. CASE ReceiveTarget
    <3>1. UNCHANGED <<source, pair.source>>
      BY <2>6 DEF ReceiveTarget, TypeInv
    <3>2. CASE UNCHANGED <<target, pair>>
      BY <2>4, <3>1, <3>2
    <3>3. ASSUME NEW m \in target, pair.target = None, IsHead(m, target), target' = target \ {m},
                 pair'.target = m
          PROVE  Queue(target, pair.target)'
      BY <2>3, <3>3, QueueReceive DEF Queue, Left
    <3>4. Queue(source, pair.source)' /\ Sources' = Sources
      BY <2>3, <3>1 DEF Sources, Queue, Left
    <3>5. QED BY <2>6, <3>2, <3>3, <3>4 DEF ReceiveTarget, TypeInv
  <2>7. CASE Compare
    <3>1. /\ UNCHANGED <<source, target>>
          /\ pair'.source \in {pair.source, None} /\ pair'.target \in {pair.target, None}
      BY <2>7, SMT DEF Compare, DiffNothing, DiffRemoved, DiffAdded, DiffSame, TypeInv
    <3>2. Queue(source, None) /\ Queue(target, None)
      BY <2>3, QueueDrop
    <3>3. Queue(source, pair.source)' /\ Sources' \subseteq Sources
      <4>1. CASE pair'.source = pair.source
        BY <2>3, <3>1, <4>1 DEF Queue, Sources, Left
      <4>2. CASE pair'.source = None
        BY <3>1, <3>2, <4>2 DEF Queue, Sources, Left
      <4>3. QED BY <3>1, <4>1, <4>2
    <3>4. Queue(target, pair.target)'
      BY <2>3, <3>1, <3>2 DEF Queue, Left
    <3>5. QED BY <3>3, <3>4
  <2>8. CASE Return
    BY <2>4, <2>8 DEF Return
  <2>9. QED BY <2>5, <2>6, <2>7, <2>8 DEF DiffStep
<1>6. ASSUME User \/ UNCHANGED vars \/ Callback \/ ReadNote \/ StatNote \/ StoreNote
      PROVE  UNCHANGED <<source, target, pair, todo>>
  <2>1. CASE User
    <3>1. UNCHANGED <<source, target, loopVars, walkVars>>
      BY <2>1 DEF User, WriteFile, DeleteFile, Reconfigure, Chmod, Upgrade
    <3>2. QED BY <3>1 DEF loopVars, walkVars
  <2>2. CASE UNCHANGED vars
    BY <2>2 DEF vars, loopVars
  <2>3. CASE Callback \/ ReadNote \/ StatNote \/ StoreNote
    BY <2>3 DEF Callback, ReadNote, StatNote, StoreNote, CallbackStep
  <2>4. QED BY <1>6, <2>1, <2>2, <2>3
<1>7. CASE WalkStep
  <2>1. UNCHANGED <<target, pair>>
    BY <1>7 DEF WalkStep, loopVars
  <2>2. CASE CloseChannel
    BY <2>1, <2>2, <1>1 DEF CloseChannel
  <2>3. QED BY <1>7, <2>1, <2>2, <1>3, <1>4 DEF WalkStep
<1>8. CASE Commit \/ CommitFails \/ Rollback \/ Crash
  <2>1. source' = {} /\ target' = {} /\ todo' = {} /\ pair'.source = None /\ pair'.target = None
    BY <1>8, SMT DEF Commit, CommitFails, Rollback, Crash, EndRun
  <2>2. QED BY <2>1, QueueEmpty DEF OrderInv, Sources, Queue, Left
<1>9. QED
  BY <1>6, <1>7, <1>8, <1>1, <1>2, <1>5 DEF Next, Run
-----------------------------------------------------------------------------
(* The streams of a run and the rows it started from.                      *)

TargetInv == \A m \in Targets : db[m.path] # None /\ m.modified = db[m.path].modified

\* A step of the loop takes nothing from a stream but what it reports.
LEMMA DiffTargets ==
  ASSUME TypeInv, DiffStep
  PROVE  /\ Targets' \subseteq Targets
         /\ ~Compare => Targets' = Targets /\ Sources' = Sources
<1>1. /\ source \subseteq Metadata /\ target \subseteq Metadata
      /\ pair.source \in Metadata \cup {None} /\ pair.target \in Metadata \cup {None}
  BY DEF TypeInv
<1>2. CASE ReceiveSource
  <2>1. UNCHANGED <<target, pair.target>>
    BY <1>2 DEF ReceiveSource, TypeInv
  <2>2. CASE UNCHANGED <<source, pair>>
    BY <2>1, <2>2 DEF Sources, Targets, Left
  <2>3. ASSUME NEW m \in source, pair.source = None, source' = source \ {m}, pair'.source = m
        PROVE  Sources' = Sources
    BY <1>1, <2>3, MetadataType DEF Sources, Left
  <2>4. QED BY <1>2, <2>1, <2>2, <2>3 DEF ReceiveSource, TypeInv, Targets, Left
<1>3. CASE ReceiveTarget
  <2>1. UNCHANGED <<source, pair.source>>
    BY <1>3 DEF ReceiveTarget, TypeInv
  <2>2. CASE UNCHANGED <<target, pair>>
    BY <2>1, <2>2 DEF Sources, Targets, Left
  <2>3. ASSUME NEW m \in target, pair.target = None, target' = target \ {m}, pair'.target = m
        PROVE  Targets' = Targets
    BY <1>1, <2>3, MetadataType DEF Targets, Left
  <2>4. QED BY <1>3, <2>1, <2>2, <2>3 DEF ReceiveTarget, TypeInv, Sources, Left
<1>4. CASE Compare
  <2>1. target' = target /\ pair'.target \in {pair.target, None}
    BY <1>4, SMT DEF Compare, DiffNothing, DiffRemoved, DiffAdded, DiffSame, TypeInv
  <2>2. QED BY <1>4, <2>1 DEF Targets, Left
<1>5. CASE Return
  BY <1>5 DEF Return, Sources, Targets, Left
<1>6. QED BY <1>2, <1>3, <1>4, <1>5 DEF DiffStep

\* Every step keeps the dates of the rows to come those of the database.
LEMMA TargetStep == ASSUME TypeInv, TargetInv, [Next]_vars PROVE TargetInv'
<1>1. ASSUME Targets' \subseteq Targets, db' = db PROVE TargetInv'
  BY <1>1 DEF TargetInv
<1>2. ASSUME UNCHANGED <<target, pair, db>> PROVE TargetInv'
  BY <1>1, <1>2, PendingFrame
<1>3. ASSUME NEW p, WriteFile(p) \/ DeleteFile(p) \/ Reconfigure(p) \/ Chmod(p)
      PROVE  UNCHANGED <<target, pair, db>>
  <2>1. UNCHANGED <<target, loopVars, dbVars>>
    BY <1>3 DEF WriteFile, DeleteFile, Reconfigure, Chmod
  <2>2. QED BY <2>1 DEF loopVars, dbVars
<1>4. CASE Upgrade
  <2>1. UNCHANGED <<target, pair>>
    BY <1>4 DEF Upgrade, loopVars
  <2>2. ASSUME NEW p \in Path, db[p] # None PROVE db'[p] # None /\ db'[p].modified = db[p].modified
    <3>1. db[p] \in Row /\ db'[p] = [db[p] EXCEPT !.content = 0]
      BY <1>4, <2>2 DEF Upgrade, TypeInv
    <3>2. [db[p] EXCEPT !.content = 0] \in Row /\ [db[p] EXCEPT !.content = 0].modified = db[p].modified
      BY <3>1, TimeType DEF Row
    <3>3. QED BY <3>1, <3>2, TimeType
  <2>3. \A m \in Targets : m.path \in Path
    BY MetadataType DEF Targets, Left, TypeInv
  <2>4. Targets' = Targets
    BY <2>1, PendingFrame
  <2>5. QED BY <2>2, <2>3, <2>4 DEF TargetInv
<1>5. CASE StartIndexing
  <2>1. Targets' = target' /\ db' = db
    BY <1>5 DEF StartIndexing, LoopStart, Targets, Left, dbVars
  <2>2. QED BY <1>5, <2>1, SMT DEF StartIndexing, TargetInv
<1>6. CASE WalkStep \/ UNCHANGED vars \/ Callback \/ ReadNote \/ StatNote \/ StoreNote
  <2>1. UNCHANGED <<target, pair, db>>
    BY <1>6 DEF WalkStep, vars, Callback, ReadNote, StatNote, StoreNote, CallbackStep, loopVars, dbVars
  <2>2. QED BY <1>2, <2>1
<1>7. CASE DiffStep
  <2>1. db' = db
    BY <1>7 DEF DiffStep, dbVars
  <2>2. Targets' \subseteq Targets
    BY <1>7, DiffTargets
  <2>3. QED BY <1>1, <2>1, <2>2
<1>8. CASE Commit \/ CommitFails \/ Rollback \/ Crash
  <2>1. target' = {} /\ pair'.target = None
    BY <1>8, SMT DEF Commit, CommitFails, Rollback, Crash, EndRun
  <2>2. QED BY <2>1 DEF TargetInv, Targets, Left
<1>9. QED
  BY <1>2, <1>3, <1>4, <1>5, <1>6, <1>7, <1>8 DEF Next, Run, User
-----------------------------------------------------------------------------
(* A path that nobody touches, step by step.                               *)

\* The file is still to come: from the channel, or from the walk.
SourcePending(p) ==
  \/ p \in PathsOf(Sources)
  \/ Visible(p) /\ Ancestors[p] \cap todo # {}

UpToDate(row, p) ==
  /\ Visible(p) /\ Readable(p) => row # None /\ row.modified = disk[p]
  /\ ~Visible(p) => row = None

\* What the run knows about a path that nobody has touched.
PathInv(p) ==
  /\ ~SourcePending(p) /\ ~TargetPending(p) /\ ~Called(p) => UpToDate(rows[p], p)
  /\ SourcePending(p) \/ TargetPending(p) => rows[p] = db[p] /\ ~Called(p)
  /\ \A m \in Sources : m.path = p => Visible(p) /\ m.modified = disk[p]
  /\ Visible(p) /\ db[p] # None => (SourcePending(p) <=> TargetPending(p))
  /\ Called(p) =>
       /\ change.kind = "added" => Visible(p) /\ rows[p] = None
       /\ change.kind = "modified" => Visible(p) /\ rows[p] # None
       /\ change.kind = "removed" => ~Visible(p)
       /\ change.kind = "unchanged" => UpToDate(rows[p], p)
       /\ pc = "store" => note.modified = disk[p]

RunInv ==
  ~Idle /\ walkErr = "nil" => \A p \in Path \ disturbed : Unshadowed(p) => PathInv(p)

\* The file and what the configuration and the permissions say about it.
Settled(p) ==
  disk'[p] = disk[p] /\ excluded' = excluded /\ (p \in unreadable' <=> p \in unreadable)

\* What the walk sees of a note changes only with the file and the configuration.
LEMMA VisibleFrame ==
  ASSUME NEW p, Settled(p)
  PROVE  /\ Visible(p)' <=> Visible(p)
         /\ Readable(p)' <=> Readable(p)
         /\ \A r : UpToDate(r, p)' <=> UpToDate(r, p)
BY DEF Settled, Visible, InWalk, Readable, UpToDate

\* The step changes nothing for p but what is in the channels.
LEMMA PathFrame ==
  ASSUME NEW p \in Path, PathInv(p), Settled(p),
         rows'[p] = rows[p], db'[p] = db[p],
         SourcePending(p)' <=> SourcePending(p), TargetPending(p)' <=> TargetPending(p),
         \A m \in Sources' : m.path = p => m \in Sources \/ (Visible(p) /\ m.modified = disk[p]),
         Called(p)' <=> Called(p),
         Called(p) => UNCHANGED <<pc, change, note>>
  PROVE  PathInv(p)'
<1>1. /\ Visible(p)' <=> Visible(p)
      /\ UpToDate(rows[p], p)' <=> UpToDate(rows[p], p)
  BY DEF Settled, Visible, InWalk, Readable, UpToDate
<1>2. ASSUME NEW m \in Sources', m.path = p PROVE Visible(p)' /\ m.modified = disk'[p]
  BY <1>1, <1>2 DEF PathInv, Settled
<1>3. ASSUME Called(p)'
      PROVE  /\ change'.kind = "added" => Visible(p)' /\ rows'[p] = None
             /\ change'.kind = "modified" => Visible(p)' /\ rows'[p] # None
             /\ change'.kind = "removed" => ~Visible(p)'
             /\ change'.kind = "unchanged" => UpToDate(rows[p], p)'
             /\ pc' = "store" => note'.modified = disk'[p]
  BY <1>1, <1>3 DEF PathInv, Settled
<1>4. /\ ~SourcePending(p)' /\ ~TargetPending(p)' /\ ~Called(p)' => UpToDate(rows[p], p)'
      /\ SourcePending(p)' \/ TargetPending(p)' => rows'[p] = db'[p] /\ ~Called(p)'
      /\ Visible(p)' /\ db'[p] # None => (SourcePending(p)' <=> TargetPending(p)')
  BY <1>1 DEF PathInv
<1>5. QED BY <1>2, <1>3, <1>4 DEF PathInv

\* A file stays to come as long as walk and channel stand still.
LEMMA SourceFrame ==
  ASSUME NEW p, Settled(p), todo' = todo, Sources' = Sources
  PROVE  SourcePending(p)' <=> SourcePending(p)
BY VisibleFrame DEF SourcePending, PathsOf

\* A step that touches neither the notebook nor the transaction keeps RunInv.
LEMMA RunFrame ==
  ASSUME RunInv, UNCHANGED <<source, target, pair, change, pc, todo, walkErr, disk, excluded,
                             unreadable, db, rows, note, disturbed>>
  PROVE  RunInv'
<1>1. Sources' = Sources /\ Targets' = Targets
  BY DEF Sources, Targets, Left
<1>2. ASSUME NEW p \in Path, PathInv(p) PROVE PathInv(p)'
  <2> Settled(p)
    BY DEF Settled
  <2>1. SourcePending(p)' <=> SourcePending(p)
    BY <1>1, SourceFrame
  <2>2. (TargetPending(p)' <=> TargetPending(p)) /\ (Called(p)' <=> Called(p))
    BY <1>1 DEF TargetPending, Called
  <2>3. QED BY <1>1, <1>2, <2>1, <2>2, PathFrame
<1>3. QED BY <1>2 DEF RunInv, Idle

\* The user keeps RunInv: whatever they touch is disturbed.
LEMMA RunUser == ASSUME TypeInv, RunInv, User PROVE RunInv'
<1>1. ASSUME NEW q, WriteFile(q) \/ DeleteFile(q) PROVE RunInv'
  <2>1. UNCHANGED <<source, target, loopVars, walkVars, excluded, unreadable, dbVars, runVars>>
    BY <1>1 DEF WriteFile, DeleteFile
  <2>2. UNCHANGED <<source, target, pair, change, pc, todo, walkErr, excluded, unreadable, db, rows,
                    note>>
    BY <2>1 DEF loopVars, walkVars, dbVars, runVars
  <2>3. disturbed' = disturbed \cup {q}
    BY <1>1 DEF WriteFile, DeleteFile, Touch
  <2>4. ASSUME NEW p \in Path, p # q PROVE disk'[p] = disk[p]
    <3>1. CASE WriteFile(q)
      BY <2>4, <3>1 DEF WriteFile, TypeInv
    <3>2. CASE DeleteFile(q)
      BY <2>4, <3>2 DEF DeleteFile, TypeInv
    <3>3. QED BY <1>1, <3>1, <3>2
  <2>5. Sources' = Sources /\ Targets' = Targets
    BY <2>2 DEF Sources, Targets, Left
  <2>6. ASSUME NEW p \in Path \ disturbed', PathInv(p) PROVE PathInv(p)'
    <3>1. Settled(p)
      BY <2>2, <2>3, <2>4 DEF Settled
    <3>2. SourcePending(p)' <=> SourcePending(p)
      BY <2>2, <2>5, <3>1, SourceFrame
    <3>3. TargetPending(p)' <=> TargetPending(p)
      BY <2>5 DEF TargetPending
    <3>4. Called(p)' <=> Called(p)
      BY <2>2 DEF Called
    <3>5. QED BY <2>2, <2>5, <2>6, <3>1, <3>2, <3>3, <3>4, PathFrame
  <2>7. QED BY <2>2, <2>6, <2>3 DEF RunInv, Idle
<1>2. ASSUME NEW q, Chmod(q) PROVE RunInv'
  <2>1. UNCHANGED <<source, target, pair, change, pc, todo, walkErr, disk, excluded, db, rows, note>>
    BY <1>2 DEF Chmod, loopVars, walkVars, dbVars, runVars
  <2>2. /\ disturbed' = disturbed \cup ({q} \cap Path)
        /\ unreadable' = unreadable \ {q} \/ unreadable' = unreadable \cup {q}
    BY <1>2 DEF Chmod
  <2>3. Sources' = Sources /\ Targets' = Targets
    BY <2>1 DEF Sources, Targets, Left
  <2>4. ASSUME NEW p \in Path \ disturbed', PathInv(p) PROVE PathInv(p)'
    <3>1. Settled(p)
      BY <2>1, <2>2 DEF Settled
    <3>2. SourcePending(p)' <=> SourcePending(p)
      BY <2>1, <2>3, <3>1, SourceFrame
    <3>3. (TargetPending(p)' <=> TargetPending(p)) /\ (Called(p)' <=> Called(p))
      BY <2>1, <2>3 DEF TargetPending, Called
    <3>4. QED BY <2>1, <2>3, <2>4, <3>1, <3>2, <3>3, PathFrame
  <2>5. QED BY <2>1, <2>2, <2>4 DEF RunInv, Idle
<1>3. ASSUME NEW q, Reconfigure(q) \/ Upgrade PROVE RunInv'
  <2>1. Idle /\ UNCHANGED loopVars
    BY <1>3 DEF Reconfigure, Upgrade
  <2>2. QED BY <2>1 DEF RunInv, Idle, loopVars
<1>4. QED BY <1>1, <1>2, <1>3 DEF User

\* An indexing starts with all files and all rows still to come.
LEMMA RunStart == ASSUME TypeInv, StartIndexing PROVE RunInv'
<1>1. /\ pc' = "source" /\ rows' = db /\ UNCHANGED <<disk, excluded, db>>
      /\ source' = {} /\ todo' = {Root} /\ pair'.source = None /\ pair'.target = None
  BY DEF StartIndexing, WalkStart, LoopStart, userVars, dbVars
<1>2. Sources' = {} /\ Targets' = target'
  BY <1>1 DEF Sources, Targets, Left
<1>3. ASSUME NEW p \in Path PROVE PathInv(p)'
  <2>1. Visible(p)' <=> Visible(p)
    BY <1>1 DEF Visible, InWalk
  <2>2. SourcePending(p)' <=> Visible(p)
    BY <1>1, <1>2, <2>1, PathEntry, AncestorsRoot DEF SourcePending, PathsOf
  <2>3. TargetPending(p)' <=> db[p] # None
    <3>1. target' = {[path |-> q, modified |-> db[q].modified] : q \in {r \in Path : db[r] # None}}
      BY DEF StartIndexing
    <3>2. CASE db[p] # None
      <4>1. [path |-> p, modified |-> db[p].modified] \in Targets'
        BY <1>2, <3>1, <3>2
      <4>2. QED BY <3>2, <4>1, SMT DEF TargetPending, PathsOf
    <3>3. ASSUME TargetPending(p)' PROVE db[p] # None
      <4>1. PICK m \in target' : m.path = p
        BY <1>2, <3>3 DEF TargetPending, PathsOf
      <4>2. QED BY <3>1, <4>1, SMT
    <3>4. QED BY <3>2, <3>3
  <2>4. ~Called(p)'
    BY <1>1 DEF Called, InCallback
  <2>5. ~Visible(p) /\ db[p] = None => UpToDate(rows[p], p)'
    BY <1>1, <2>1 DEF UpToDate
  <2>6. QED BY <1>1, <1>2, <2>1, <2>2, <2>3, <2>4, <2>5 DEF PathInv
<1>4. QED BY <1>3 DEF RunInv

\* The walk enters a directory: what it has still to visit is the same.
LEMMA RunVisitDir ==
  ASSUME TypeInv, RunInv, NEW d \in Dir, VisitDir(d),
         UNCHANGED <<target, force, loopVars, userVars, dbVars, runVars, histVars>>
  PROVE  RunInv'
<1>1. /\ UNCHANGED <<source, target, pair, change, pc, disk, excluded, unreadable, db, rows, note,
                  disturbed>>
      /\ d \in todo /\ d \in Entry
  BY DEF VisitDir, IsNext, Entry, loopVars, userVars, dbVars, runVars, histVars
<1>2. Sources' = Sources /\ Targets' = Targets
  BY <1>1 DEF Sources, Targets, Left
<1>3. SUFFICES ASSUME ~Idle', walkErr' = "nil", NEW p \in Path \ disturbed, PathInv(p)
               PROVE  PathInv(p)'
  <2>1. walkErr' = "nil" => walkErr = "nil"
    BY DEF VisitDir, AbortWalk
  <2>2. QED BY <1>1, <1>3, <2>1 DEF RunInv, Idle
<1>4. todo' = (todo \ {d}) \cup (IF d \in Hidden \ RootNamed THEN {} ELSE Children(d))
  BY <1>3 DEF VisitDir, AbortWalk
<1>5. p \in Entry /\ p # d
  BY PathEntry
<1>6. ASSUME Visible(p) PROVE Ancestors[p] \cap todo' # {} <=> Ancestors[p] \cap todo # {}
  <2>1. CASE d \in Ancestors[p]
    <3>1. d \notin Hidden \ RootNamed
      BY <1>6, <2>1 DEF Visible, InWalk
    <3>2. PICK c \in Ancestors[p] \ {Root} : Parent[c] = d
      BY <1>5, <2>1, AncestorsChild
    <3>3. c \in Entry /\ (c \in Path => disk[c] # 0)
      <4>1. c \in Entry
        BY <1>5, AncestorsIn
      <4>2. CASE c = p
        BY <1>6, <4>1, <4>2 DEF Visible
      <4>3. CASE c # p
        BY <1>5, <4>1, <4>3, AncestorsDir, PathEntry
      <4>4. QED BY <4>2, <4>3, <4>1
    <3>4. c \in todo'
      BY <1>4, <3>1, <3>2, <3>3 DEF Children, Entry
    <3>5. QED BY <1>1, <2>1, <3>2, <3>4
  <2>2. CASE d \notin Ancestors[p]
    <3>1. ASSUME NEW c \in Ancestors[p], c \in Children(d) PROVE FALSE
      BY <1>5, <2>2, <3>1, AncestorsClosed, SMT DEF Children, Closed
    <3>2. QED BY <1>4, <2>2, <3>1
  <2>3. QED BY <2>1, <2>2
<1>7. Settled(p) /\ (Visible(p)' <=> Visible(p))
  BY <1>1, VisibleFrame DEF Settled
<1>8. SourcePending(p)' <=> SourcePending(p)
  BY <1>2, <1>6, <1>7 DEF SourcePending, PathsOf
<1>9. (TargetPending(p)' <=> TargetPending(p)) /\ (Called(p)' <=> Called(p))
  BY <1>1, <1>2 DEF TargetPending, Called
<1>10. QED BY <1>1, <1>2, <1>3, <1>7, <1>8, <1>9, PathFrame

\* The walk visits a file: a visible note goes from the agenda to the channel.
LEMMA RunVisitFile ==
  ASSUME TypeInv, OrderInv, RunInv, NEW q \in Path, VisitFile(q, ShouldIgnorePath(q)),
         UNCHANGED <<target, force, loopVars, userVars, dbVars, runVars, histVars>>
  PROVE  RunInv'
<1> DEFINE m == [path |-> q, modified |-> disk[q]]
<1>1. /\ UNCHANGED <<target, pair, change, pc, disk, excluded, unreadable, db, rows, note, disturbed>>
      /\ q \in todo
  BY DEF VisitFile, IsNext, loopVars, userVars, dbVars, runVars, histVars
<1>2. Targets' = Targets
  BY <1>1 DEF Targets, Left
<1>3. SUFFICES ASSUME ~Idle', walkErr' = "nil", NEW p \in Path \ disturbed, PathInv(p)
               PROVE  PathInv(p)'
  <2>1. walkErr' = "nil" => walkErr = "nil"
    BY DEF VisitFile, AbortWalk
  <2>2. QED BY <1>1, <1>3, <2>1 DEF RunInv, Idle
<1>4. /\ disk[q] # 0 /\ todo' = todo \ {q}
      /\ \/ (q \in Hidden \/ q \in excluded) /\ source' = source
         \/ ~(q \in Hidden \/ q \in excluded) /\ source' = source \cup {m}
  BY <1>3 DEF VisitFile, AbortWalk, ShouldIgnorePath
<1>5. p \in Entry /\ q \in Entry /\ q # Root /\ q \notin RootNamed
  BY PathEntry, WalkAssumption
<1>6. \/ (q \in Hidden \/ q \in excluded) /\ Sources' = Sources
      \/ ~(q \in Hidden \/ q \in excluded) /\ Sources' = Sources \cup {m}
  BY <1>1, <1>4 DEF Sources, Left
<1>7. Visible(q) <=> ~(q \in Hidden \/ q \in excluded)
  <2>1. q \in Hidden => ~InWalk(q)
    BY <1>5, AncestorsSelf DEF InWalk
  <2>2. InWalk(Parent[q])
    BY <1>1, <1>5 DEF OrderInv
  <2>3. q \notin Hidden => InWalk(q)
    BY <1>5, <2>2, WalkDown
  <2>4. QED BY <1>4, <2>1, <2>3 DEF Visible
<1>8. Settled(p) /\ (Visible(p)' <=> Visible(p))
  BY <1>1, VisibleFrame DEF Settled
<1>9. SourcePending(p)' <=> SourcePending(p)
  <2>1. CASE p = q
    <3>1. Visible(p) => SourcePending(p)
      BY <1>1, <1>5, <2>1, AncestorsSelf DEF SourcePending
    <3>2. CASE Visible(p)
      <4>1. m \in Sources' /\ m.path = p
        BY <1>6, <1>7, <2>1, <3>2
      <4>2. SourcePending(p)'
        BY <4>1 DEF SourcePending, PathsOf
      <4>3. QED BY <3>1, <3>2, <4>2
    <3>3. CASE ~Visible(p)
      BY <1>6, <1>7, <1>8, <2>1, <3>3 DEF SourcePending, PathsOf
    <3>4. QED BY <3>2, <3>3
  <2>2. CASE p # q
    <3>1. q \notin Ancestors[p]
      BY <1>5, <2>2, AncestorsDir, PathEntry
    <3>2. Ancestors[p] \cap todo' = Ancestors[p] \cap todo
      BY <1>4, <3>1
    <3>3. p \in PathsOf(Sources)' <=> p \in PathsOf(Sources)
      BY <1>6, <2>2, SMT DEF PathsOf
    <3>4. QED BY <1>8, <3>2, <3>3 DEF SourcePending
  <2>3. QED BY <2>1, <2>2
<1>10. ASSUME NEW n \in Sources', n.path = p PROVE n \in Sources \/ (Visible(p) /\ n.modified = disk[p])
  BY <1>6, <1>7, <1>10, SMT
<1>11. (TargetPending(p)' <=> TargetPending(p)) /\ (Called(p)' <=> Called(p))
  BY <1>1, <1>2 DEF TargetPending, Called
<1> HIDE DEF m
<1>12. QED BY <1>1, <1>3, <1>8, <1>9, <1>10, <1>11, PathFrame

\* The loop receives from the channels, or returns: nothing is reported.
LEMMA RunReceive ==
  ASSUME TypeInv, RunInv, DiffStep, ~Compare \/ DiffNothing
  PROVE  RunInv'
<1>1. /\ UNCHANGED <<todo, walkErr, disk, excluded, unreadable, db, rows, note, disturbed>>
      /\ pc \in {"source", "target", "diff"}
  BY DEF DiffStep, ReceiveSource, ReceiveTarget, Compare, Return, userVars, dbVars, runVars, histVars
<1>2. pc' \in {"source", "target", "diff", "done"}
  BY DEF DiffStep, ReceiveSource, ReceiveTarget, Compare, Return, DiffNothing
<1>3. Sources' = Sources /\ Targets' = Targets
  <2>1. CASE ~Compare
    BY <2>1, DiffTargets
  <2>2. CASE Compare /\ DiffNothing
    BY <2>2 DEF Compare, DiffNothing, Sources, Targets, Left
  <2>3. QED BY <2>1, <2>2
<1>4. ASSUME NEW p \in Path \ disturbed, PathInv(p) PROVE PathInv(p)'
  <2> Settled(p)
    BY <1>1 DEF Settled
  <2>1. SourcePending(p)' <=> SourcePending(p)
    BY <1>1, <1>3, SourceFrame
  <2>2. (TargetPending(p)' <=> TargetPending(p)) /\ ~Called(p) /\ ~Called(p)'
    BY <1>1, <1>2, <1>3 DEF TargetPending, Called, InCallback
  <2>3. QED BY <1>1, <1>3, <1>4, <2>1, <2>2, PathFrame
<1>5. QED BY <1>1, <1>4 DEF RunInv, Idle

\* A pending note comes after the file in the pair.
LEMMA PendingAfter ==
  ASSUME TypeInv, OrderInv, NEW p \in Path, SourcePending(p), pair.source # None,
         pair.source.path # p
  PROVE  WalkRank[pair.source.path] < WalkRank[p]
<1>1. pair.source \in Metadata /\ pair.source \in Sources
  BY DEF TypeInv, Sources, Left
<1>2. /\ Sources = source \cup {pair.source}
      /\ \A n \in source : WalkRank[pair.source.path] < WalkRank[n.path]
  <2>1. source \in SUBSET Metadata /\ Queue(source, pair.source)
    BY DEF OrderInv, TypeInv
  <2>2. QED BY <1>1, <2>1, QueueDrop DEF Sources
<1>3. CASE p \in PathsOf(Sources)
  <2>1. PICK n \in Sources : n.path = p
    BY <1>3 DEF PathsOf
  <2>2. QED BY <1>2, <2>1
<1>4. ASSUME NEW a \in Ancestors[p], a \in todo PROVE WalkRank[pair.source.path] < WalkRank[p]
  <2>1. Rank(a) <= Rank(p) /\ Rank(p) = WalkRank[p] /\ Rank(a) \in Nat /\ Rank(p) \in Nat
    BY PathEntry, AncestorsIn, AncestorsRank, RankType
  <2>2. WalkRank[pair.source.path] < Rank(a) /\ WalkRank[pair.source.path] \in Nat
    BY <1>1, <1>4, MetadataType DEF OrderInv
  <2>3. QED BY <2>1, <2>2, SMT
<1>5. QED BY <1>3, <1>4 DEF SourcePending

\* A row still to come is after the one in the pair.
LEMMA PendingAfterTarget ==
  ASSUME TypeInv, OrderInv, NEW p \in Path, TargetPending(p), pair.target # None,
         pair.target.path # p
  PROVE  WalkRank[pair.target.path] < WalkRank[p]
<1>1. pair.target \in Metadata
  BY DEF TypeInv
<1>2. /\ Targets = target \cup {pair.target}
      /\ \A n \in target : WalkRank[pair.target.path] < WalkRank[n.path]
  <2>1. target \in SUBSET Metadata /\ Queue(target, pair.target)
    BY DEF OrderInv, TypeInv
  <2>2. QED BY <1>1, <2>1, QueueDrop DEF Targets
<1>3. PICK n \in Targets : n.path = p
  BY DEF TargetPending, PathsOf
<1>4. QED BY <1>2, <1>3

\* The file in the pair is reported: it was all that was pending for its path.
LEMMA SourceDropped ==
  ASSUME TypeInv, OrderInv, pair.source # None, pair'.source = None,
         UNCHANGED <<source, todo>>, NEW p \in Path, Settled(p)
  PROVE  /\ Sources' \subseteq Sources
         /\ p = pair.source.path => ~SourcePending(p)'
         /\ p # pair.source.path => (SourcePending(p)' <=> SourcePending(p))
<1>1. pair.source \in Metadata /\ source \in SUBSET Metadata /\ Queue(source, pair.source)
  BY DEF OrderInv, TypeInv
<1>2. /\ Sources = source \cup {pair.source} /\ Left(source, None) = source
      /\ \A n \in source : n.path # pair.source.path
  BY <1>1, QueueDrop DEF Sources
<1>3. Sources' = source
  BY <1>2 DEF Sources, Left
<1>4. ASSUME p = pair.source.path, SourcePending(p)' PROVE FALSE
  <2>1. PICK a \in Ancestors[p] : a \in todo
    BY <1>2, <1>3, <1>4 DEF SourcePending, PathsOf
  <2>2. Rank(a) <= Rank(p) /\ Rank(p) = WalkRank[p] /\ Rank(a) \in Nat /\ Rank(p) \in Nat
    BY PathEntry, AncestorsIn, AncestorsRank, RankType
  <2>3. WalkRank[p] < Rank(a)
    BY <1>2, <1>4, <2>1 DEF OrderInv
  <2>4. QED BY <2>2, <2>3, SMT
<1>5. ASSUME p # pair.source.path PROVE SourcePending(p)' <=> SourcePending(p)
  <2>1. Visible(p)' <=> Visible(p)
    BY VisibleFrame
  <2>2. p \in PathsOf(Sources)' <=> p \in PathsOf(Sources)
    BY <1>2, <1>3, <1>5 DEF PathsOf
  <2>3. QED BY <2>1, <2>2 DEF SourcePending
<1>6. QED BY <1>2, <1>3, <1>4, <1>5

\* Once the pair has dropped a row, it does not come again, and the others still do.
LEMMA TargetDropped ==
  ASSUME TypeInv, OrderInv, pair.target # None, pair'.target = None, target' = target,
         NEW p \in Path
  PROVE  /\ p = pair.target.path => ~TargetPending(p)'
         /\ p # pair.target.path => (TargetPending(p)' <=> TargetPending(p))
<1>1. pair.target \in Metadata /\ target \in SUBSET Metadata /\ Queue(target, pair.target)
  BY DEF OrderInv, TypeInv
<1>2. /\ Targets = target \cup {pair.target} /\ Left(target, None) = target
      /\ \A n \in target : n.path # pair.target.path
  BY <1>1, QueueDrop DEF Targets
<1>3. Targets' = target
  BY <1>2 DEF Targets, Left
<1>4. QED BY <1>2, <1>3 DEF TargetPending, PathsOf

\* A note is reported as removed only if it is not in the notebook: a note
\* that is would be pending in the walk, ahead of the file in the pair.
LEMMA RemovedIsGone ==
  ASSUME TypeInv, SourceLoopInv, OrderInv, TargetInv, pc = "diff", DiffRemoved,
         Unshadowed(pair.target.path), PathInv(pair.target.path)
  PROVE  ~Visible(pair.target.path)
<1> DEFINE p == pair.target.path
<1>1. SUFFICES ASSUME Visible(p) PROVE FALSE
  OBVIOUS
<1>2. pair.target \in Targets /\ pair.target \in Metadata /\ p \in Path
  BY MetadataType DEF DiffRemoved, Targets, Left, TypeInv
<1>3. TargetPending(p) /\ db[p] # None
  BY <1>2 DEF TargetInv, TargetPending, PathsOf
<1>4. SourcePending(p)
  BY <1>1, <1>3 DEF PathInv
<1>5. CASE pair.source = None
  <2>1. source = {} /\ todo = {}
    BY <1>5 DEF SourceLoopInv, Drained, Idle
  <2>2. QED BY <1>4, <1>5, <2>1 DEF SourcePending, Sources, Left, PathsOf
<1>6. CASE pair.source # None
  <2>1. pair.source.path # p /\ ~(ByteRank[pair.source.path] < ByteRank[p])
    BY <1>6 DEF DiffRemoved
  <2>2. WalkRank[pair.source.path] < WalkRank[p]
    BY <1>2, <1>4, <1>6, <2>1, PendingAfter
  <2>3. pair.source.path \in Path
    BY <1>6, MetadataType DEF TypeInv
  <2>4. ~(ByteRank[p] < ByteRank[pair.source.path]) /\ ByteRank[p] # ByteRank[pair.source.path]
    <3>1. WalkRank[p] \in Nat /\ WalkRank[pair.source.path] \in Nat
      BY <1>2, <2>3, DiffAssumption
    <3>2. ~(WalkRank[p] < WalkRank[pair.source.path])
      BY <2>2, <3>1, SMT
    <3>3. QED BY <1>2, <2>1, <2>3, <3>2, DiffAssumption DEF Unshadowed
  <2>5. ByteRank[p] \in Nat /\ ByteRank[pair.source.path] \in Nat
    BY <1>2, <2>3, DiffAssumption
  <2>6. QED BY <2>1, <2>4, <2>5, SMT
<1>7. QED BY <1>5, <1>6

\* A note is reported as added only if the index has no row for it.
LEMMA AddedIsNew ==
  ASSUME TypeInv, TargetLoopInv, OrderInv, pc = "diff", DiffAdded,
         Unshadowed(pair.source.path), PathInv(pair.source.path)
  PROVE  Visible(pair.source.path) /\ rows[pair.source.path] = None /\ db[pair.source.path] = None
<1> DEFINE p == pair.source.path
<1>1. pair.source \in Sources /\ pair.source \in Metadata /\ p \in Path
  BY MetadataType DEF DiffAdded, Sources, Left, TypeInv
<1>2. Visible(p) /\ SourcePending(p) /\ rows[p] = db[p]
  BY <1>1 DEF PathInv, SourcePending, PathsOf
<1>3. ASSUME db[p] # None PROVE FALSE
  <2>1. TargetPending(p)
    BY <1>2, <1>3 DEF PathInv
  <2>2. CASE pair.target = None
    <3>1. target = {}
      BY <2>2 DEF TargetLoopInv, Idle
    <3>2. QED BY <2>1, <2>2, <3>1 DEF TargetPending, Targets, Left, PathsOf
  <2>3. CASE pair.target # None
    <3>1. pair.target.path # p /\ ByteRank[p] < ByteRank[pair.target.path]
      BY <2>3 DEF DiffAdded
    <3>2. WalkRank[pair.target.path] < WalkRank[p]
      BY <1>1, <2>1, <2>3, <3>1, PendingAfterTarget
    <3>3. /\ pair.target.path \in Path
          /\ WalkRank[p] \in Nat /\ WalkRank[pair.target.path] \in Nat
      BY <1>1, <2>3, MetadataType DEF TypeInv
    <3>4. WalkRank[p] < WalkRank[pair.target.path]
      BY <1>1, <3>1, <3>3 DEF Unshadowed
    <3>5. QED BY <3>2, <3>3, <3>4, SMT
  <2>4. QED BY <2>2, <2>3
<1>4. QED BY <1>2, <1>3

\* Diff reports p, and p is as the report says.
LEMMA PathReported ==
  ASSUME NEW p \in Path, PathInv(p), Settled(p), UNCHANGED <<db, rows>>,
         Sources' \subseteq Sources, ~SourcePending(p)', ~TargetPending(p)', pc' = "callback",
         change' \in Change, change'.path = p,
         change'.kind = "added" => Visible(p) /\ rows[p] = None,
         change'.kind = "modified" => Visible(p) /\ rows[p] # None,
         change'.kind = "removed" => ~Visible(p),
         change'.kind = "unchanged" => UpToDate(rows[p], p),
         Visible(p) /\ db[p] # None => change'.kind \in {"modified", "unchanged"}
  PROVE  PathInv(p)'
<1>1. /\ Visible(p)' <=> Visible(p)
      /\ UpToDate(rows[p], p)' <=> UpToDate(rows[p], p)
  BY DEF Settled, Visible, InWalk, Readable, UpToDate
<1>2. Called(p)'
  BY DEF Called, InCallback
<1>3. \A m \in Sources' : m.path = p => Visible(p)' /\ m.modified = disk'[p]
  BY <1>1 DEF PathInv, Settled
<1>4. QED BY <1>1, <1>2, <1>3 DEF PathInv

\* A comparison of diffPair.diff (diff.go:106) says of a path what is true of it.
LEMMA RunCompare ==
  ASSUME TypeInv, TargetLoopInv, SourceLoopInv, OrderInv, TargetInv, RunInv,
         DiffStep, Compare, ~DiffNothing
  PROVE  RunInv'
<1>1. UNCHANGED <<source, target, todo, walkErr, disk, excluded, unreadable, db, rows, note,
                  disturbed>>
  BY DEF DiffStep, Compare, ReceiveSource, ReceiveTarget, Return, userVars, dbVars, runVars, histVars
<1>2. pc = "diff" /\ pc' = "callback" /\ change' \in Change
  <2>1. pair.source \in Metadata \cup {None} /\ pair.target \in Metadata \cup {None}
    BY DEF TypeInv
  <2>2. QED BY <2>1, MetadataType, SMT DEF Compare, DiffRemoved, DiffAdded, DiffSame, Report, Change, Kind
<1>3. SUFFICES ASSUME NEW p \in Path, Unshadowed(p), PathInv(p) PROVE PathInv(p)'
  BY <1>1, <1>2 DEF RunInv, Idle
<1> Settled(p)
  BY <1>1 DEF Settled
<1>4. ~Called(p) /\ (Called(p)' <=> change'.path = p)
  BY <1>2 DEF Called, InCallback
<1>5. CASE DiffRemoved
  <2>1. /\ pair.target # None /\ pair'.target = None /\ pair'.source = pair.source
        /\ change'.path = pair.target.path /\ change'.kind = "removed"
    BY <1>5 DEF DiffRemoved, Report, TypeInv
  <2>2. Sources' = Sources
    BY <1>1, <2>1 DEF Sources
  <2>3. SourcePending(p)' <=> SourcePending(p)
    BY <1>1, <2>2, SourceFrame
  <2>4. CASE p = pair.target.path
    <3>1. ~Visible(p)
      BY <1>2, <1>3, <1>5, <2>4, RemovedIsGone
    <3>2. ~SourcePending(p)'
      BY <1>3, <2>3, <3>1 DEF SourcePending, PathsOf, PathInv
    <3>3. ~TargetPending(p)'
      BY <1>1, <2>1, <2>4, TargetDropped
    <3>4. QED BY <1>1, <1>2, <1>3, <2>1, <2>2, <2>4, <3>1, <3>2, <3>3, PathReported
  <2>5. CASE p # pair.target.path
    <3>1. TargetPending(p)' <=> TargetPending(p)
      BY <1>1, <2>1, <2>5, TargetDropped
    <3>2. QED BY <1>1, <1>3, <1>4, <2>1, <2>2, <2>3, <2>5, <3>1, PathFrame
  <2>6. QED BY <2>4, <2>5
<1>6. CASE DiffAdded
  <2>1. /\ pair.source # None /\ pair'.source = None /\ pair'.target = pair.target
        /\ change'.path = pair.source.path /\ change'.kind = "added"
    BY <1>6 DEF DiffAdded, Report, TypeInv
  <2>2. Targets' = Targets /\ (TargetPending(p)' <=> TargetPending(p))
    BY <1>1, <2>1 DEF Targets, TargetPending
  <2>3. /\ Sources' \subseteq Sources
        /\ p = pair.source.path => ~SourcePending(p)'
        /\ p # pair.source.path => (SourcePending(p)' <=> SourcePending(p))
    BY <1>1, <2>1, SourceDropped
  <2>4. CASE p = pair.source.path
    <3>1. Visible(p) /\ rows[p] = None /\ db[p] = None
      BY <1>2, <1>3, <1>6, <2>4, AddedIsNew
    <3>2. ~TargetPending(p)'
      BY <2>2, <3>1 DEF TargetInv, TargetPending, PathsOf
    <3>3. QED BY <1>1, <1>2, <1>3, <2>1, <2>3, <2>4, <3>1, <3>2, PathReported
  <2>5. CASE p # pair.source.path
    BY <1>1, <1>3, <1>4, <2>1, <2>2, <2>3, <2>5, PathFrame
  <2>6. QED BY <2>4, <2>5
<1>7. CASE DiffSame
  <2>1. /\ pair.source # None /\ pair'.source = None
        /\ pair.target # None /\ pair'.target = None
        /\ pair.source.path = pair.target.path
        /\ change'.path = pair.source.path /\ change'.kind \in {"modified", "unchanged"}
    BY <1>7 DEF DiffSame, Report, TypeInv
  <2>2. change'.kind = "unchanged" => pair.source.modified = pair.target.modified
    BY <1>7 DEF DiffSame, Report
  <2>3. /\ Sources' \subseteq Sources
        /\ p = pair.source.path => ~SourcePending(p)'
        /\ p # pair.source.path => (SourcePending(p)' <=> SourcePending(p))
    BY <1>1, <2>1, SourceDropped
  <2>4. /\ p = pair.source.path => ~TargetPending(p)'
        /\ p # pair.source.path => (TargetPending(p)' <=> TargetPending(p))
    BY <1>1, <2>1, TargetDropped
  <2>5. CASE p = pair.source.path
    <3>1. pair.source \in Sources /\ pair.target \in Targets
      BY <2>1 DEF Sources, Targets, Left
    <3>2. db[p] # None /\ pair.target.modified = db[p].modified
      BY <2>1, <2>5, <3>1 DEF TargetInv
    <3>3. Visible(p) /\ pair.source.modified = disk[p] /\ rows[p] = db[p]
      BY <1>3, <2>5, <3>1 DEF PathInv, SourcePending, PathsOf
    <3>4. change'.kind = "unchanged" => UpToDate(rows[p], p)
      BY <2>2, <3>2, <3>3 DEF UpToDate
    <3>5. QED BY <1>1, <1>2, <1>3, <2>1, <2>3, <2>4, <2>5, <3>2, <3>3, <3>4, PathReported
  <2>6. CASE p # pair.source.path
    BY <1>1, <1>3, <1>4, <2>1, <2>3, <2>4, <2>6, PathFrame
  <2>7. QED BY <2>5, <2>6
<1>8. QED BY <1>5, <1>6, <1>7 DEF Compare

\* The callback goes on with p, or leaves it with a row that is up to date.
LEMMA PathCalled ==
  ASSUME NEW p \in Path, PathInv(p), Called(p),
         UNCHANGED <<source, target, pair, todo, db, change>>, Settled(p),
         \/ /\ Called(p)' /\ UNCHANGED rows
            /\ pc' = "store" => note'.modified = disk[p]
         \/ ~Called(p)' /\ UpToDate(rows'[p], p)
  PROVE  PathInv(p)'
<1>1. /\ Visible(p)' <=> Visible(p)
      /\ UpToDate(rows[p], p)' <=> UpToDate(rows'[p], p)
  BY DEF Settled, Visible, InWalk, Readable, UpToDate
<1>2. Sources' = Sources /\ Targets' = Targets
  BY DEF Sources, Targets, Left
<1>3. ~SourcePending(p) /\ ~TargetPending(p)
  BY DEF PathInv
<1>4. ~SourcePending(p)' /\ ~TargetPending(p)'
  BY <1>2, <1>3, SourceFrame DEF TargetPending
<1>5. \A m \in Sources' : m.path = p => Visible(p)' /\ m.modified = disk'[p]
  BY <1>1, <1>2 DEF PathInv, Settled
<1>6. CASE Called(p)' /\ UNCHANGED rows /\ (pc' = "store" => note'.modified = disk[p])
  BY <1>1, <1>3, <1>4, <1>5, <1>6 DEF PathInv, Settled
<1>7. CASE ~Called(p)' /\ UpToDate(rows'[p], p)
  BY <1>1, <1>3, <1>4, <1>5, <1>7 DEF PathInv
<1>8. QED BY <1>6, <1>7

\* The callback of indexTask.execute does to the row what the change says.
LEMMA RunCallback ==
  ASSUME TypeInv, RunInv, Callback \/ ReadNote \/ StatNote \/ StoreNote
  PROVE  RunInv'
<1> DEFINE q == change.path
<1>1. /\ pc \in InCallback /\ q \in Path /\ change \in Change /\ disturbed \subseteq disturbed'
      /\ UNCHANGED <<source, target, pair, todo, walkErr, disk, excluded, unreadable, db, change>>
  <2>1. /\ pc \in InCallback
        /\ UNCHANGED <<source, target, pair, todo, walkErr, userVars, dbVars, change>>
    BY DEF Callback, ReadNote, StatNote, StoreNote, CallbackStep, InCallback
  <2>2. change \in Change /\ q \in Path
    BY <2>1 DEF TypeInv, Change
  <2>3. disturbed \subseteq disturbed'
    BY DEF Callback, ReadNote, StatNote, StoreNote, StoreFails, StoreHalf, storeVars
  <2>4. QED BY <2>1, <2>2, <2>3 DEF userVars, dbVars
<1>2. SUFFICES ASSUME NEW p \in Path \ disturbed', PathInv(p) PROVE PathInv(p)'
  BY <1>1 DEF RunInv, Idle, InCallback
<1> Settled(p)
  BY <1>1 DEF Settled
<1>3. CASE p # q
  <2>1. rows'[p] = rows[p]
    <3>1. \/ rows' = rows
          \/ \E r : rows' = [rows EXCEPT ![q] = r]
      BY DEF Callback, ReadNote, StatNote, StoreNote, StoreFails, StoreHalf, storeVars
    <3>2. QED BY <1>3, <3>1 DEF TypeInv
  <2>2. Sources' = Sources /\ Targets' = Targets
    BY <1>1 DEF Sources, Targets, Left
  <2>3. SourcePending(p)' <=> SourcePending(p)
    BY <1>1, <2>2, SourceFrame
  <2>4. (TargetPending(p)' <=> TargetPending(p)) /\ ~Called(p) /\ ~Called(p)'
    BY <1>1, <1>3, <2>2 DEF TargetPending, Called
  <2>5. QED BY <1>1, <1>2, <2>1, <2>2, <2>3, <2>4, PathFrame
<1>4. CASE p = q
  <2>1. Called(p) /\ (Called(p)' <=> pc' \in InCallback)
    BY <1>1, <1>4 DEF Called
  <2>2. /\ change.kind = "added" => Visible(p) /\ rows[p] = None
        /\ change.kind = "modified" => Visible(p) /\ rows[p] # None
        /\ change.kind = "removed" => ~Visible(p)
        /\ change.kind = "unchanged" => UpToDate(rows[p], p)
        /\ pc = "store" => note.modified = disk[p]
    BY <1>2, <2>1 DEF PathInv
  <2>3. ~StoreFails(q) /\ ~StoreHalf
    BY <1>2, <1>4 DEF StoreFails, StoreHalf
  <2>4. rows \in [Path -> Row \cup {None}]
    BY DEF TypeInv
  <2>5. CASE Callback
    <3>1. CASE change.kind = "unchanged" /\ pc' = "source" /\ rows' = rows
      <4>1. ~Called(p)' /\ UpToDate(rows'[p], p)
        BY <2>1, <2>2, <3>1 DEF InCallback
      <4>2. QED BY <1>1, <1>2, <2>1, <4>1, PathCalled
    <3>2. CASE change.kind = "removed" /\ pc' = "source" /\ rows' = [rows EXCEPT ![q] = None]
      <4>1. ~Called(p)' /\ UpToDate(rows'[p], p)
        BY <1>4, <2>1, <2>2, <2>4, <3>2 DEF InCallback, UpToDate
      <4>2. QED BY <1>1, <1>2, <2>1, <4>1, PathCalled
    <3>3. CASE pc' = "read" /\ rows' = rows
      <4>1. Called(p)'
        BY <2>1, <3>3 DEF InCallback
      <4>2. QED BY <1>1, <1>2, <2>1, <3>3, <4>1, PathCalled
    <3>4. QED BY <2>3, <2>5, <3>1, <3>2, <3>3 DEF Callback, CallbackStep, storeVars
  <2>6. CASE ReadNote
    <3>1. change.kind \in {"added", "modified"}
      BY <2>6 DEF ReadNote, TypeInv
    <3>2. Visible(p) /\ disk[p] # 0
      BY <2>2, <3>1 DEF Visible
    <3>3. CASE Readable(p)
      <4>1. pc' = "stat" /\ rows' = rows
        BY <1>4, <2>6, <3>2, <3>3 DEF ReadNote, CallbackStep
      <4>2. Called(p)'
        BY <2>1, <4>1 DEF InCallback
      <4>3. QED BY <1>1, <1>2, <2>1, <4>1, <4>2, PathCalled
    <3>4. CASE ~Readable(p)
      <4>1. pc' = "source" /\ rows' = rows
        BY <1>4, <2>6, <3>4 DEF ReadNote, CallbackStep
      <4>2. ~Called(p)' /\ UpToDate(rows'[p], p)
        BY <2>1, <3>2, <3>4, <4>1 DEF InCallback, UpToDate
      <4>3. QED BY <1>1, <1>2, <2>1, <4>2, PathCalled
    <3>5. QED BY <3>3, <3>4
  <2>7. CASE StatNote
    <3>1. pc' = "store" /\ rows' = rows /\ note' = [note EXCEPT !.modified = disk[q]] /\ note \in Row
      BY <2>7 DEF StatNote, CallbackStep, storeVars, TypeInv
    <3>2. Called(p)' /\ note'.modified = disk[p]
      BY <1>4, <2>1, <3>1 DEF InCallback, Row
    <3>3. QED BY <1>1, <1>2, <2>1, <3>1, <3>2, PathCalled
  <2>8. CASE StoreNote
    <3>1. change.kind \in {"added", "modified"} /\ note \in Row /\ pc = "store" /\ pc' = "source"
      BY <2>8 DEF StoreNote, CallbackStep, TypeInv
    <3>2. rows' = [rows EXCEPT ![q] = note]
      BY <1>4, <2>2, <2>3, <2>8, <3>1 DEF StoreNote, Storable
    <3>3. rows'[p] = note /\ note # None
      BY <1>4, <2>4, <3>1, <3>2, IndexingAssumption
    <3>4. ~Called(p)' /\ UpToDate(rows'[p], p)
      BY <2>1, <2>2, <3>1, <3>3 DEF InCallback, UpToDate
    <3>5. QED BY <1>1, <1>2, <2>1, <3>4, PathCalled
  <2>9. QED BY <2>5, <2>6, <2>7, <2>8
<1>5. QED BY <1>3, <1>4

\* Every step keeps RunInv.
LEMMA RunStep ==
  ASSUME TypeInv, TargetLoopInv, SourceLoopInv, OrderInv, TargetInv, RunInv,
         [Next]_vars
  PROVE  RunInv'
<1>1. CASE WalkStep
  <2>1. UNCHANGED <<target, force, loopVars, userVars, dbVars, runVars, histVars>>
    BY <1>1 DEF WalkStep
  <2>2. CASE CloseChannel
    <3>1. UNCHANGED <<source, target, pair, change, pc, todo, walkErr, disk, excluded, unreadable,
                      db, rows, note, disturbed>>
      BY <2>1, <2>2 DEF CloseChannel, loopVars, userVars, dbVars, runVars, histVars
    <3>2. QED BY <3>1, RunFrame
  <2>3. QED BY <1>1, <2>1, <2>2, RunVisitDir, RunVisitFile DEF WalkStep
<1>2. CASE DiffStep
  BY <1>2, RunReceive, RunCompare
<1>3. CASE Commit \/ CommitFails \/ Rollback \/ Crash
  <2>1. pc' = "idle"
    BY <1>3 DEF Commit, CommitFails, Rollback, Crash, EndRun
  <2>2. QED BY <2>1 DEF RunInv, Idle
<1>4. CASE UNCHANGED vars
  <2>1. UNCHANGED <<source, target, pair, change, pc, todo, walkErr, disk, excluded, unreadable,
                    db, rows, note, disturbed>>
    BY <1>4 DEF vars, loopVars, userVars, dbVars, runVars, histVars
  <2>2. QED BY <2>1, RunFrame
<1>5. QED
  BY <1>1, <1>2, <1>3, <1>4, RunUser, RunStart, RunCallback DEF Next, Run
-----------------------------------------------------------------------------
(* The index after an indexing.                                            *)

MatchInv ==
  /\ TypeInv /\ TargetLoopInv /\ SourceLoopInv /\ OrderInv
  /\ TargetInv /\ RunInv /\ IndexMatchesDisk

\* An indexing is committed when both streams are empty and the walk is over.
LEMMA CommitMatches ==
  ASSUME TargetLoopInv, SourceLoopInv, RunInv, Commit PROVE IndexMatchesDisk'
<1>1. pc = "done" /\ db' = rows /\ UNCHANGED <<walkErr, disturbed, disk, excluded, unreadable>>
  BY DEF Commit, EndRun, userVars
<1>2. opened = {} /\ ~Idle
  BY <1>1 DEF TargetLoopInv, Idle
<1>3. source = {} /\ target = {} /\ todo = {} /\ pair.source = None /\ pair.target = None
  BY <1>2 DEF TargetLoopInv, SourceLoopInv, Drained
<1>4. ASSUME NEW p \in Path \ disturbed, Unshadowed(p), walkErr = "nil" PROVE InSync(p)'
  <2>1. ~SourcePending(p) /\ ~TargetPending(p) /\ ~Called(p)
    BY <1>1, <1>3 DEF SourcePending, TargetPending, Called, InCallback, PathsOf, Sources, Targets,
                      Left
  <2>2. UpToDate(rows[p], p)
    BY <1>2, <1>4, <2>1 DEF RunInv, PathInv
  <2>3. Settled(p)
    BY <1>1 DEF Settled
  <2>4. QED BY <1>1, <2>2, <2>3, VisibleFrame DEF InSync, UpToDate
<1>5. QED BY <1>1, <1>4 DEF IndexMatchesDisk, Unshadowed

\* An indexing ends, or a later step of the user comes, with the index in line.
LEMMA MatchesStep ==
  ASSUME TypeInv, TargetLoopInv, SourceLoopInv, RunInv, IndexMatchesDisk, [Next]_vars
  PROVE  IndexMatchesDisk'
<1>1. ASSUME UNCHANGED <<pc, outcome, walkErr>>, disturbed \subseteq disturbed',
             \A p \in Path \ disturbed' :
                /\ disk'[p] = disk[p] /\ (p \in excluded' <=> p \in excluded)
                /\ p \in unreadable' <=> p \in unreadable
                /\ db'[p] = None <=> db[p] = None
                /\ db[p] # None => db'[p].modified = db[p].modified
      PROVE  IndexMatchesDisk'
  <2> USE <1>1
  <2>1. SUFFICES ASSUME NEW p \in Path \ disturbed', InSync(p) PROVE InSync(p)'
    BY DEF IndexMatchesDisk, Idle, Unshadowed
  <2>2. (Visible(p)' <=> Visible(p)) /\ (Readable(p)' <=> Readable(p))
    BY DEF Visible, InWalk, Readable
  <2>3. QED BY <2>1, <2>2 DEF InSync
<1>2. ASSUME User PROVE IndexMatchesDisk'
  <2> USE <1>2
  <2>1. ASSUME NEW q, WriteFile(q) \/ DeleteFile(q) PROVE IndexMatchesDisk'
    <3>1. UNCHANGED <<loopVars, walkVars, excluded, unreadable, dbVars>>
      BY <2>1 DEF WriteFile, DeleteFile
    <3>2. disturbed' = disturbed \cup {q} /\ outcome' = outcome
      BY <2>1 DEF WriteFile, DeleteFile, Touch
    <3>3. ASSUME NEW p \in Path, p # q PROVE disk'[p] = disk[p]
      <4>1. CASE WriteFile(q)
        BY <3>3, <4>1 DEF WriteFile, TypeInv
      <4>2. CASE DeleteFile(q)
        BY <3>3, <4>2 DEF DeleteFile, TypeInv
      <4>3. QED BY <2>1, <4>1, <4>2
    <3>4. UNCHANGED <<pc, walkErr, db>>
      BY <3>1 DEF loopVars, walkVars, dbVars
    <3>5. QED BY <3>1, <3>2, <3>3, <3>4, <1>1
  <2>2. ASSUME NEW q, Reconfigure(q) PROVE IndexMatchesDisk'
    <3>1. UNCHANGED <<pc, walkErr, outcome, disk, unreadable, db>> /\ disturbed' = disturbed \cup {q}
      BY <2>2 DEF Reconfigure, Touch, loopVars, walkVars, dbVars
    <3>2. excluded' = excluded \ {q} \/ excluded' = excluded \cup {q}
      BY <2>2 DEF Reconfigure
    <3>3. QED BY <3>1, <3>2, <1>1
  <2>3. ASSUME NEW q, Chmod(q) PROVE IndexMatchesDisk'
    <3>1. UNCHANGED <<pc, walkErr, outcome, disk, db, excluded>>
      BY <2>3 DEF Chmod, loopVars, walkVars, dbVars
    <3>2. /\ disturbed' = disturbed \cup ({q} \cap Path)
          /\ unreadable' = unreadable \ {q} \/ unreadable' = unreadable \cup {q}
      BY <2>3 DEF Chmod
    <3>3. QED BY <3>1, <3>2, <1>1
  <2>4. CASE Upgrade
    <3>1. UNCHANGED <<pc, walkErr, outcome, disk, excluded, unreadable, disturbed>>
      BY <2>4 DEF Upgrade, loopVars, walkVars, userVars, histVars
    <3>2. ASSUME NEW p \in Path
          PROVE  /\ db'[p] = None <=> db[p] = None
                 /\ db[p] # None => db'[p].modified = db[p].modified
      <4>1. db'[p] = IF db[p] = None THEN None ELSE [db[p] EXCEPT !.content = 0]
        BY <2>4 DEF Upgrade
      <4>2. ASSUME db[p] # None PROVE [db[p] EXCEPT !.content = 0] \in Row
        BY <4>2, TimeType DEF TypeInv, Row
      <4>3. QED BY <4>1, <4>2, IndexingAssumption DEF TypeInv, Row
    <3>3. QED BY <3>1, <3>2, <1>1
  <2>5. QED BY <2>1, <2>2, <2>3, <2>4 DEF User
<1>3. CASE StartIndexing
  <2>1. pc' = "source"
    BY <1>3 DEF StartIndexing, LoopStart
  <2>2. QED BY <2>1 DEF IndexMatchesDisk, Idle
<1>4. CASE WalkStep
  <2>1. UNCHANGED <<pc, outcome, disk, db, excluded, unreadable, disturbed>>
    BY <1>4 DEF WalkStep, loopVars, userVars, dbVars, histVars
  <2>2. walkErr' = "nil" => walkErr = "nil"
    BY <1>4 DEF WalkStep, VisitDir, VisitFile, AbortWalk, CloseChannel
  <2>3. ASSUME NEW p \in Path, InSync(p) PROVE InSync(p)'
    BY <2>1, <2>3, VisibleFrame DEF InSync, Settled
  <2>4. QED BY <2>1, <2>2, <2>3 DEF IndexMatchesDisk, Idle, Unshadowed
<1>5. CASE DiffStep \/ Callback \/ ReadNote \/ StatNote \/ StoreNote
  <2>1. pc' # "idle"
    BY <1>5 DEF DiffStep, ReceiveSource, ReceiveTarget, Compare, Return, DiffNothing, DiffRemoved,
                DiffAdded, DiffSame, Report, Callback, ReadNote, StatNote, StoreNote, CallbackStep
  <2>2. QED BY <2>1 DEF IndexMatchesDisk, Idle
<1>6. CASE CommitFails \/ Rollback \/ Crash
  <2>1. outcome' # "ok"
    BY <1>6 DEF CommitFails, Rollback, Crash
  <2>2. QED BY <2>1 DEF IndexMatchesDisk
<1>7. CASE UNCHANGED vars
  <2>1. UNCHANGED <<pc, walkErr, outcome, disk, db, excluded, unreadable, disturbed>>
    BY <1>7 DEF vars, loopVars, userVars, dbVars, histVars
  <2>2. QED BY <2>1, <1>1
<1>8. QED
  BY <1>3, <1>4, <1>5, <1>6, <1>7, <1>2, CommitMatches DEF Next, Run

(* An indexing whose walk was not cut short leaves an index that matches   *)
(* the notebook, for the paths that nobody touched meanwhile and that the  *)
(* database accepted (indexTask.execute, note_index.go): whatever the      *)
(* interleaving of the walker, Diff and the user, after any number of      *)
(* crashes, lost commits and upgrades, with files that cannot be read or   *)
(* parsed among them, and however the two orders differ on other paths.    *)
THEOREM IndexMatchesDiskTheorem == Spec => []IndexMatchesDisk
<1>1. Init => MatchInv
  <2> SUFFICES ASSUME Init PROVE MatchInv
    OBVIOUS
  <2>1. /\ source = {} /\ target = {} /\ todo = {} /\ pair.source = None /\ pair.target = None
        /\ Idle /\ walker = "idle" /\ outcome = "none"
    BY DEF Init, Idle
  <2>2. TargetLoopInv /\ SourceLoopInv /\ RunInv /\ IndexMatchesDisk
    BY <2>1 DEF TargetLoopInv, SourceLoopInv, RunInv, IndexMatchesDisk
  <2>3. OrderInv /\ TargetInv
    BY <2>1, QueueEmpty DEF OrderInv, TargetInv, Sources, Targets, Queue, Left
  <2>4. QED BY <2>2, <2>3, TypeInit DEF MatchInv
<1>2. MatchInv /\ [Next]_vars => MatchInv'
  BY TypeStep, TargetLoopStep, SourceLoopStep, OrderStep, TargetStep, RunStep, MatchesStep
     DEF MatchInv
<1>3. MatchInv => IndexMatchesDisk
  BY DEF MatchInv
<1>4. QED BY <1>1, <1>2, <1>3, PTL DEF Spec
=============================================================================
