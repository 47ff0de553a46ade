------------------------------ MODULE Indexing ------------------------------
(***************************************************************************)
(* An indexing of the notebook (internal/core/note_index.go, notebook.go,  *)
(* note_parse.go): one database transaction in which the walk of the files *)
(* is compared with the rows of the index, and every change is applied.    *)
(*                                                                         *)
(* Around it, the user writes and deletes notes and edits the              *)
(* configuration, zk is upgraded, and the process may crash.               *)
(*                                                                         *)
(* Each write of a file is a new version of it.  The version stands for    *)
(* the content of the file and for its modification date, which has a      *)
(* precision of nanoseconds.  A row of the index keeps the version it was  *)
(* parsed from (content) and the modification date it was given; a row of  *)
(* which something is missing has the content 0.                           *)
(***************************************************************************)
EXTENDS DiffLoop, Walk

CONSTANTS
  MaxVersion,         \* bound on the changes the user makes
  MaxFaults,          \* bound on crashes and failures of the database
  MaxSchema,          \* bound on the upgrades of zk
  StoreMayFail,       \* whether the statements that store a note may fail
  Excludable,         \* files that the configuration may exclude
  Lockable,           \* files and directories whose permissions may change
  Malformed,          \* the versions of each file that cannot be parsed
  EditsDuringIndexing \* whether the user writes while zk indexes

\* A row of the index: the versions of its content and of its date.
Row == [content : Time, modified : Time]

ASSUME IndexingAssumption ==
  /\ MaxVersion \in Nat \ {0} /\ MaxFaults \in Nat /\ MaxSchema \in Nat \ {0}
  /\ Time = 0 .. MaxVersion /\ None \notin Row
  /\ Excludable \subseteq Path /\ Lockable \subseteq Path \cup Dir
  /\ Malformed \in [Path -> SUBSET Time]
  /\ {EditsDuringIndexing, StoreMayFail} \subseteq BOOLEAN

VARIABLES
  clock,             \* version of the last write
  excluded,          \* files ignored by the configuration
  schema,            \* version of the database's schema
  db,                \* the committed rows, by path, or None
  needsReindexing,   \* the committed flag zk.reindexing_required
  rows,              \* the rows as the open transaction sees them
  note,              \* the note being parsed, or None
  outcome,           \* how the last indexing ended
  faults,            \* number of failures so far
  disturbed,         \* history: paths written, deleted or reconfigured since
                     \* the indexing started, or whose row could not be stored
  overlooked         \* history: paths, not written since, that were written
                     \* between the reading of their content and of their
                     \* date, that a required reindexing could not read or
                     \* store, or that were stored in part

userVars == <<disk, unreadable, clock, excluded>>
dbVars == <<schema, db, needsReindexing>>
runVars == <<rows, note>>
histVars == <<outcome, faults, disturbed, overlooked>>
storeVars == <<rows, faults, disturbed, overlooked>>
vars == <<source, target, force, loopVars, todo, walker, walkErr, userVars,
          dbVars, runVars, histVars>>

Idle == pc = "idle"
-----------------------------------------------------------------------------
(* The user.                                                               *)

MayEdit == (Idle \/ EditsDuringIndexing) /\ clock < MaxVersion

Touch(p) == disturbed' = disturbed \cup {p} /\ UNCHANGED <<outcome, faults>>

Overlook(p, cond) ==
  overlooked' = IF cond THEN overlooked \cup {p} ELSE overlooked \ {p}

WriteFile(p) ==
  /\ MayEdit
  /\ clock' = clock + 1
  /\ disk' = [disk EXCEPT ![p] = clock + 1]
  /\ Touch(p)
  /\ Overlook(p, pc = "stat" /\ change.path = p)
  /\ UNCHANGED <<source, target, force, loopVars, walkVars, unreadable, excluded,
                 dbVars, runVars>>

DeleteFile(p) ==
  /\ MayEdit /\ disk[p] # 0
  /\ clock' = clock + 1
  /\ disk' = [disk EXCEPT ![p] = 0]
  /\ Touch(p) /\ Overlook(p, FALSE)
  /\ UNCHANGED <<source, target, force, loopVars, walkVars, unreadable, excluded,
                 dbVars, runVars>>

\* The configuration is read when the notebook is opened, before an indexing.
Reconfigure(p) ==
  /\ Idle /\ clock < MaxVersion
  /\ clock' = clock + 1
  /\ excluded' = IF p \in excluded THEN excluded \ {p} ELSE excluded \cup {p}
  /\ Touch(p) /\ UNCHANGED overlooked
  /\ UNCHANGED <<source, target, force, loopVars, walkVars, disk, unreadable,
                 dbVars, runVars>>

\* The permission to list a directory or to read a file is taken away or given
\* back.
Chmod(e) ==
  /\ MayEdit
  /\ clock' = clock + 1
  /\ unreadable' = IF e \in unreadable THEN unreadable \ {e} ELSE unreadable \cup {e}
  /\ disturbed' = disturbed \cup ({e} \cap Path)
  /\ UNCHANGED <<source, target, force, loopVars, walkVars, disk, excluded, dbVars,
                 runVars, outcome, faults, overlooked>>

\* DB.migrate, on the first opening by a newer zk: one transaction that adds
\* columns, which are empty in the existing rows, and requires a reindexing.
Upgrade ==
  /\ Idle /\ schema < MaxSchema
  /\ schema' = schema + 1
  /\ needsReindexing' = TRUE
  /\ db' = [p \in Path |-> IF db[p] = None THEN None ELSE [db[p] EXCEPT !.content = 0]]
  /\ UNCHANGED <<source, target, force, loopVars, walkVars, userVars, runVars, histVars>>
-----------------------------------------------------------------------------
(* indexTask.execute.                                                      *)

\* Mutant of StartIndexing: the flag zk.reindexing_required is not consulted.
StartIndexingIgnoresFlag ==
  /\ Idle
  /\ \E opt \in BOOLEAN : force' = opt
  /\ rows' = db
  /\ WalkStart
  /\ target' = {[path |-> p, modified |-> db[p].modified] : p \in {q \in Path : db[q] # None}}
  /\ LoopStart
  /\ note' = None
  /\ disturbed' = {} /\ outcome' = "running"
  /\ UNCHANGED <<userVars, dbVars, faults, overlooked>>

\* The transaction begins; NeedsReindexing; Walk; IndexedPaths; Diff is called.
StartIndexing ==
  /\ Idle
  /\ \E opt \in BOOLEAN : force' = (opt \/ needsReindexing)
  /\ rows' = db
  /\ WalkStart
  /\ target' = {[path |-> p, modified |-> db[p].modified] : p \in {q \in Path : db[q] # None}}
  /\ LoopStart
  /\ note' = None
  /\ disturbed' = {} /\ outcome' = "running"
  /\ UNCHANGED <<userVars, dbVars, faults, overlooked>>

ShouldIgnorePath(p) == p \in excluded

WalkStep ==
  /\ \/ \E d \in Dir : VisitDir(d)
     \/ \E p \in Path : VisitFile(p, ShouldIgnorePath(p))
     \/ CloseChannel
  /\ UNCHANGED <<target, force, loopVars, userVars, dbVars, runVars, histVars>>

\* Receiving waits for the walker: an empty channel that is not closed blocks.
DiffStep ==
  /\ \/ ReceiveSource /\ (pair.source = None /\ source = {} => walker = "closed")
     \/ ReceiveTarget
     \/ Compare
     \/ Return
  /\ UNCHANGED <<force, todo, walker, walkErr, userVars, dbVars, runVars, histVars>>

\* The statements of the callback.  None of them returns an error to Diff.
CallbackStep(next) ==
  /\ pc' = next
  /\ UNCHANGED <<source, target, force, pair, opened, sourceCount, change, err,
                 todo, walker, walkErr, userVars, dbVars, outcome>>

\* The flag of a required reindexing is cleared whatever became of p.
PassOver(p) == overlooked' = IF needsReindexing THEN overlooked \cup {p} ELSE overlooked

\* The first statement of an operation fails: the error is logged.
StoreFails(p) ==
  /\ StoreMayFail /\ faults < MaxFaults /\ faults' = faults + 1
  /\ disturbed' = disturbed \cup {p}
  /\ PassOver(p)
  /\ rows' = rows

\* The operation matches the rows: NoteIndex.Add fails on the UNIQUE path of a
\* row that is already there, NoteIndex.Update on a note that is not.
Storable == (rows[change.path] = None) <=> (change.kind = "added")

\* A later statement of Add or Update fails, about the links or the tags: the
\* error is logged, and the row, with its new date, stays in the transaction.
StoreHalf ==
  /\ StoreMayFail /\ faults < MaxFaults /\ faults' = faults + 1
  /\ Storable
  /\ rows' = [rows EXCEPT ![change.path] = [note EXCEPT !.content = 0]]
  /\ disturbed' = disturbed \cup {change.path}
  /\ overlooked' = overlooked \cup {change.path}

\* Mutant of Callback: a removed note is left in the index.
CallbackKeepsRemoved ==
  /\ pc = "callback"
  /\ \/ /\ change.kind \in {"unchanged", "removed"}
        /\ CallbackStep("source")
        /\ UNCHANGED storeVars
     \/ /\ change.kind \in {"added", "modified"}
        /\ CallbackStep("read")
        /\ UNCHANGED storeVars
  /\ UNCHANGED note

Callback ==
  /\ pc = "callback"
  /\ \/ /\ change.kind = "unchanged"
        /\ CallbackStep("source")
        /\ UNCHANGED storeVars
     \/ /\ change.kind = "removed"
        /\ CallbackStep("source")
        /\ \/ StoreFails(change.path)
           \/ rows' = [rows EXCEPT ![change.path] = None] /\ UNCHANGED <<faults, disturbed, overlooked>>
     \/ /\ change.kind \in {"added", "modified"}
        /\ CallbackStep("read")
        /\ UNCHANGED storeVars
  /\ UNCHANGED note

\* fs.Read and the parser succeed.
Readable(p) == p \notin unreadable /\ disk[p] \notin Malformed[p]

\* ParseNoteAt: the file is read and parsed.  A file that has gone, that cannot
\* be read or that cannot be parsed is logged and passed over.
ReadNote ==
  /\ pc = "read"
  /\ \/ /\ disk[change.path] = 0 \/ ~Readable(change.path)
        /\ CallbackStep("source")
        /\ PassOver(change.path)
        /\ UNCHANGED note
     \/ /\ disk[change.path] # 0 /\ Readable(change.path)
        /\ CallbackStep("stat")
        /\ note' = [content |-> disk[change.path], modified |-> 0]
        /\ UNCHANGED overlooked
  /\ UNCHANGED <<rows, faults, disturbed>>

\* ParseNoteWithContent: times.Stat.  Without a file the date stays zero.
StatNote ==
  /\ pc = "stat"
  /\ CallbackStep("store")
  /\ note' = [note EXCEPT !.modified = disk[change.path]]
  /\ UNCHANGED storeVars

\* Mutant of StoreNote: every change is stored with Add.
StoreNoteOnlyAdds ==
  /\ pc = "store"
  /\ CallbackStep("source")
  /\ \/ StoreFails(change.path)
     \/ /\ rows[change.path] = None
        /\ rows' = [rows EXCEPT ![change.path] = note]
        /\ UNCHANGED <<faults, disturbed, overlooked>>
     \/ /\ rows[change.path] # None
        /\ UNCHANGED storeVars
  /\ note' = None

\* NoteIndex.Add or NoteIndex.Update.
StoreNote ==
  /\ pc = "store"
  /\ CallbackStep("source")
  /\ \/ StoreFails(change.path)
     \/ StoreHalf
     \/ /\ rows' = IF Storable THEN [rows EXCEPT ![change.path] = note] ELSE rows
        /\ UNCHANGED <<faults, disturbed, overlooked>>
  /\ note' = None

\* The run is over: nothing of it stays in memory.
EndRun ==
  /\ pc' = "idle"
  /\ rows' = db' /\ note' = None
  /\ pair' = [source |-> None, target |-> None]
  /\ source' = {} /\ target' = {} /\ todo' = {} /\ walker' = "idle"
  /\ change' = None
  /\ UNCHANGED <<force, opened, sourceCount, err, userVars, schema, overlooked>>

\* SetNeedsReindexing(false) and the commit of the transaction.
Commit ==
  /\ pc = "done"
  /\ db' = rows
  /\ needsReindexing' = FALSE
  /\ outcome' = "ok"
  /\ EndRun
  /\ UNCHANGED <<walkErr, faults, disturbed>>

\* tx.Commit fails, and WithTransaction returns nil: the run is reported as
\* successful, and lost.
CommitFails ==
  /\ pc = "done"
  /\ faults < MaxFaults /\ faults' = faults + 1
  /\ outcome' = "lost"
  /\ UNCHANGED <<db, needsReindexing, walkErr, disturbed>>
  /\ EndRun

\* SetNeedsReindexing fails: the transaction is rolled back.
Rollback ==
  /\ pc = "done" /\ needsReindexing
  /\ faults < MaxFaults /\ faults' = faults + 1
  /\ outcome' = "error"
  /\ UNCHANGED <<db, needsReindexing, walkErr, disturbed>>
  /\ EndRun

\* The process ends at any point: SQLite forgets the transaction.
Crash ==
  /\ ~Idle
  /\ faults < MaxFaults /\ faults' = faults + 1
  /\ outcome' = "crashed"
  /\ UNCHANGED <<db, needsReindexing, walkErr, disturbed>>
  /\ EndRun
-----------------------------------------------------------------------------
Init ==
  /\ disk \in [Path -> {0, 1}] /\ unreadable = {} /\ clock = 1 /\ excluded = {}
  /\ schema = 1 /\ needsReindexing = FALSE
  /\ db = [p \in Path |-> None] /\ rows = db /\ note = None
  /\ source = {} /\ target = {} /\ todo = {} /\ walker = "idle" /\ walkErr = "nil"
  /\ force = FALSE
  /\ pair = [source |-> None, target |-> None] /\ opened = {"source", "target"}
  /\ sourceCount = 0 /\ change = None /\ err = "nil" /\ pc = "idle"
  /\ outcome = "none" /\ faults = 0 /\ disturbed = {} /\ overlooked = {}

User ==
  \/ \E p \in Path : WriteFile(p) \/ DeleteFile(p)
  \/ \E p \in Excludable : Reconfigure(p)
  \/ \E e \in Lockable : Chmod(e)
  \/ Upgrade

Run ==
  \/ WalkStep \/ DiffStep \/ Callback \/ ReadNote \/ StatNote \/ StoreNote
  \/ Commit

Next == User \/ StartIndexing \/ Run \/ CommitFails \/ Rollback \/ Crash

Spec == Init /\ [][Next]_vars

\* zk goes on once it runs, and is run again and again.
FairSpec == Spec /\ WF_vars(Run) /\ WF_vars(StartIndexing)
-----------------------------------------------------------------------------
\* An entry, its directory, the directory of that, and so on: the least set
\* with the entry and the directory of each member.
Ancestors ==
  [e \in Path \cup Dir |->
     {a \in Path \cup Dir : \A S \in SUBSET (Path \cup Dir) :
        e \in S /\ (\A x \in S \ {Root} : Parent[x] \in S) => a \in S}]

\* Whether an entry and all its directories are walked.
InWalk(e) == Ancestors[e] \cap (Hidden \ RootNamed) = {}

\* What the notebook consists of.
Visible(p) == disk[p] # 0 /\ p \notin excluded /\ InWalk(p)

\* The order in which Diff compares p with the other paths is the order of its
\* two streams.
Unshadowed(p) ==
  \A q \in Path : WalkRank[p] < WalkRank[q] <=> ByteRank[p] < ByteRank[q]

InSync(p) ==
  /\ Visible(p) /\ Readable(p) => db[p] # None /\ db[p].modified = disk[p]
  /\ ~Visible(p) => db[p] = None

(* After an indexing whose walk was not cut short, the index has a row for *)
(* each note of the notebook that can be read and parsed, and each row is  *)
(* that of a note and, if this can be read, has its date: for every path   *)
(* that nobody touched meanwhile and that the database accepted, whatever  *)
(* happened to the other paths.  The exception is a path that stands in    *)
(* the walk and in Go's order of strings on different sides of another     *)
(* one (diff.go:131), as foo/a.md and foo.md do.                           *)
IndexMatchesDisk ==
  Idle /\ outcome = "ok" /\ walkErr = "nil" =>
    \A p \in Path \ disturbed : Unshadowed(p) => InSync(p)

(* A row that does not have the content of its file is going to be read    *)
(* again: its date differs from the file's, or a reindexing is required.   *)
(* The exceptions, until the note is written again: a note written between *)
(* the reading of its content and of its date (note_parse.go:47 and :95),  *)
(* whose old content stays; a note that a required reindexing could not    *)
(* read or store, since the flag is cleared all the same; and a note whose *)
(* row was stored with its date but without all of its links or tags,      *)
(* since the error is only logged (note_index.go:178).                     *)
StaleIsDetected ==
  Idle /\ ~needsReindexing =>
    \A p \in Path \ overlooked : Visible(p) /\ db[p] # None /\ db[p].content # disk[p]
                      => db[p].modified # disk[p]

(* An indexing ends: the walker and Diff never wait for each other for     *)
(* ever, whatever the capacity of the channel.                             *)
EveryRunEnds == ~Idle ~> Idle

\* The notes that the walk gets to: it ends at a directory that cannot be
\* listed.
Reached(p) ==
  /\ Visible(p)
  /\ \A d \in unreadable \cap Dir : d = Root \/ InWalk(Parent[d]) => Rank(p) < Rank(d)

(* The index catches up: once the user and the failures have stopped, the  *)
(* indexings that follow bring the index in line with the notebook for     *)
(* good, also after crashes and lost commits and for paths that Diff       *)
(* compares in another order than that of its streams.  A file that cannot *)
(* be read or parsed may keep the row of an earlier version of it or have  *)
(* none; all the notes that the walk visits after a directory that cannot  *)
(* be listed are lost from the index as long as it stays so (walk.go:19).  *)
EventuallyInSync ==
  <>[](\A p \in Path :
         IF Reached(p) THEN Readable(p) => db[p] # None /\ db[p].modified = disk[p]
         ELSE db[p] = None)
=============================================================================
