------------------------------ MODULE NewNote -------------------------------
(***************************************************************************)
(* The creation of notes: Notebook.NewNote and newNoteTask                 *)
(* (internal/core/notebook.go, note_new.go), called by zk new and by the   *)
(* command zk.new of the language server, with FileStorage.Write           *)
(* (internal/adapter/fs/fs.go) and NoteIndex.Add.                          *)
(*                                                                         *)
(* Several processes work on the same notebook: they create notes, index   *)
(* it, and may end at any moment, and the user edits and deletes files.    *)
(* Between two system calls of a creation anything of this can happen.     *)
(*                                                                         *)
(* A content is the number of the call that wrote it and the value of the  *)
(* extra variable that its template expanded.  A date is the time of the   *)
(* last write, an inode the time of the creation of the file.              *)
(***************************************************************************)
EXTENDS Naturals, FiniteSets

CONSTANTS
  Path,         \* paths that the template of filenames can give
  Process,      \* processes of zk
  Server,       \* those that are language servers: they outlive a call
  Extra,        \* values of an extra variable
  MaxAttempts,  \* 50 in generatePath
  MaxClock,     \* bound on the writes to the disk
  MaxCalls,     \* bound on the notes created
  None

ASSUME NewNoteAssumption ==
  /\ Server \subseteq Process /\ None \notin Path \cup Extra \cup Process
  /\ MaxAttempts \in Nat \ {0} /\ MaxClock \in Nat \ {0} /\ MaxCalls \in Nat

VARIABLES
  disk,    \* the files of the notebook
  rows,    \* the rows of the index
  extra,   \* config.Extra in the memory of each process
  call,    \* the call of NewNote under way in each process
  clock,
  calls,   \* counts the calls
  touched, \* history: processes for whose call somebody else wrote or deleted
           \* the path since it was chosen
  raced    \* history: paths added to the index by a call in touched

vars == <<disk, rows, extra, call, clock, calls, touched, raced>>

Content == [no: 0..MaxCalls + 1, extra: Extra \cup {None}]
Empty == [no |-> 0, extra |-> None]
ByUser == [no |-> MaxCalls + 1, extra |-> None]
File == [content: Content, date: 1..MaxClock, inode: 1..MaxClock]
Row == [content: Content, date: 0..MaxClock]

ASSUME NoneAssumption == None \notin File /\ None \notin Row

\* What became of the last call: there was none (or its process has ended), it
\* returned a note, returned one whose row was lost with the commit, returned
\* one with DryRun, or returned an error.
Over == {"idle", "note", "unsaved", "preview", "error"}

Call == [pc: Over \cup {"generate", "create", "write", "stat", "add"},
         no: 0..MaxCalls, want: Extra \cup {None}, tries: 0..MaxAttempts,
         path: Path \cup {None}, tested: 0..MaxClock, inode: 0..MaxClock,
         date: 0..MaxClock]
Idle == [pc |-> "idle", no |-> 0, want |-> None, tries |-> 0, path |-> None,
         tested |-> 0, inode |-> 0, date |-> 0]

\* The variables have their types, and no name is tried more than MaxAttempts
\* times.
TypeOK ==
  /\ disk \in [Path -> File \cup {None}]
  /\ rows \in [Path -> Row \cup {None}]
  /\ extra \in [Process -> Extra \cup {None}]
  /\ clock \in 0..MaxClock /\ calls \in 0..MaxCalls
  /\ call \in [Process -> Call]
  /\ \A p \in Process : call[p].pc \notin Over \cup {"generate"} => call[p].path \in Path
  /\ touched \subseteq Process /\ raced \subseteq Path

Init ==
  /\ disk \in [Path -> {None, [content |-> ByUser, date |-> 1, inode |-> 1]}]
  /\ rows = [q \in Path |-> None]
  /\ extra = [p \in Process |-> None]
  /\ call = [p \in Process |-> Idle]
  /\ clock = 1 /\ calls = 0 /\ touched = {} /\ raced = {}

-----------------------------------------------------------------------------
\* What an indexing that nothing disturbs makes of the rows.
Indexed ==
  [q \in Path |->
     CASE disk[q] = None -> None
       [] disk[q] # None /\ rows[q] # None /\ rows[q].date = disk[q].date -> rows[q]
       [] OTHER -> [content |-> disk[q].content, date |-> disk[q].date]]

\* p writes or deletes the file at q, which disturbs the other calls for q.
Touch(q, p) == touched' = touched \cup {r \in Process \ {p} : call[r].path = q}

At(p, pc) == call[p].pc = pc

\* The call is over.  Its callers print the path of the note or open it in an
\* editor.
Return(p, result) ==
  call' = [call EXCEPT ![p] = [Idle EXCEPT !.pc = result]] /\ touched' = touched \ {p}

\* NewNote until newNoteTask.execute: opts.Extra (x) is copied into the map of
\* the configuration.  A process of zk new has just started and indexes first.
Invoke(p, x) ==
  /\ call[p].pc \in Over /\ calls < MaxCalls
  /\ calls' = calls + 1
  /\ rows' = IF p \in Server THEN rows ELSE Indexed
  /\ extra' = [extra EXCEPT ![p] = IF x # None THEN x
                                   ELSE IF p \in Server THEN @ ELSE None]
  /\ call' = [call EXCEPT ![p] =
                [Idle EXCEPT !.pc = "generate", !.no = calls + 1, !.want = x]]
  /\ UNCHANGED <<disk, clock, touched, raced>>

\* Mutant of Generate: after the last attempt the path is used anyway.
GenerateLastResort(p, q) ==
  /\ At(p, "generate") /\ call[p].tries < MaxAttempts
  /\ \/ /\ disk[q] # None /\ call[p].tries + 1 < MaxAttempts
        /\ call' = [call EXCEPT ![p].tries = @ + 1]
     \/ /\ disk[q] = None \/ call[p].tries + 1 = MaxAttempts
        /\ call' = [call EXCEPT ![p].pc = "create", ![p].path = q, ![p].tested = clock]
  /\ UNCHANGED <<disk, rows, extra, clock, calls, touched, raced>>

\* An iteration of generatePath whose template gives the path q.
Generate(p, q) ==
  /\ At(p, "generate") /\ call[p].tries < MaxAttempts
  /\ \/ disk[q] # None /\ call' = [call EXCEPT ![p].tries = @ + 1]
     \/ /\ disk[q] = None
        /\ call' = [call EXCEPT ![p].pc = "create", ![p].path = q, ![p].tested = clock]
  /\ UNCHANGED <<disk, rows, extra, clock, calls, touched, raced>>

\* ErrNoteExists; the callers then open or look up the existing note.
NoteExists(p) ==
  /\ At(p, "generate") /\ call[p].tries = MaxAttempts
  /\ Return(p, "error")
  /\ UNCHANGED <<disk, rows, extra, clock, calls, raced>>

\* With opts.DryRun, execute returns without writing.
DryRun(p) ==
  /\ At(p, "create")
  /\ Return(p, "preview")
  /\ UNCHANGED <<disk, rows, extra, clock, calls, raced>>

\* os.Create in FileStorage.Write: makes the file, or truncates it.
CreateFile(p) ==
  /\ At(p, "create") /\ clock < MaxClock
  /\ clock' = clock + 1
  /\ LET q == call[p].path
         i == IF disk[q] = None THEN clock + 1 ELSE disk[q].inode
     IN  /\ disk' = [disk EXCEPT ![q] = [content |-> Empty, date |-> clock + 1, inode |-> i]]
         /\ call' = [call EXCEPT ![p].pc = "write", ![p].inode = i]
         /\ Touch(q, p)
  /\ UNCHANGED <<rows, extra, calls, raced>>

Rendered(p) == [no |-> call[p].no, extra |-> extra[p]]

\* f.Write: goes to the file opened, which may have been deleted or replaced.
WriteContent(p) ==
  /\ At(p, "write") /\ clock < MaxClock
  /\ clock' = clock + 1
  /\ LET q == call[p].path
         linked == disk[q] # None /\ disk[q].inode = call[p].inode
     IN  /\ call' = [call EXCEPT ![p].pc = "stat"]
         /\ \/ /\ linked
               /\ disk' = [disk EXCEPT ![q].content = Rendered(p), ![q].date = clock + 1]
               /\ Touch(q, p)
            \/ ~linked /\ UNCHANGED <<disk, touched>>
  /\ UNCHANGED <<rows, extra, calls, raced>>

\* A template, FileExists, os.Create, f.Write or the parser returns an error.
Fails(p) ==
  /\ call[p].pc \in {"generate", "create", "write", "stat"}
  /\ Return(p, "error")
  /\ UNCHANGED <<disk, rows, extra, clock, calls, raced>>

\* Mutant of StatFile: the date is the current time.
StatFileNow(p) ==
  /\ At(p, "stat")
  /\ call' = [call EXCEPT ![p].pc = "add", ![p].date = clock]
  /\ UNCHANGED <<disk, rows, extra, clock, calls, touched, raced>>

\* times.Stat in ParseNoteWithContent; its error leaves the date at zero.
StatFile(p) ==
  /\ At(p, "stat")
  /\ LET q == call[p].path
     IN  call' = [call EXCEPT ![p].pc = "add",
                              ![p].date = IF disk[q] = None THEN 0 ELSE disk[q].date]
  /\ UNCHANGED <<disk, rows, extra, clock, calls, touched, raced>>

\* Mutant of AddNote: a row that is there already gets the new date.
AddNoteUpsertsDate(p) ==
  /\ At(p, "add")
  /\ LET q == call[p].path IN
       /\ rows' = [rows EXCEPT ![q] = [content |-> IF @ = None THEN Rendered(p) ELSE @.content,
                                      date |-> call[p].date]]
       /\ raced' = IF p \in touched THEN raced \cup {q} ELSE raced
  /\ Return(p, "note")
  /\ UNCHANGED <<disk, extra, clock, calls>>

\* n.index.Add: the path is unique in the table.
AddNote(p) ==
  /\ At(p, "add")
  /\ LET q == call[p].path IN
       /\ rows[q] = None
       /\ rows' = [rows EXCEPT ![q] = [content |-> Rendered(p), date |-> call[p].date]]
       /\ raced' = IF p \in touched THEN raced \cup {q} ELSE raced
  /\ Return(p, "note")
  /\ UNCHANGED <<disk, extra, clock, calls>>

\* n.index.Add whose commit fails: WithTransaction drops the error, the row is
\* lost and the note is returned all the same.
AddLost(p) ==
  /\ At(p, "add") /\ rows[call[p].path] = None
  /\ Return(p, "unsaved")
  /\ UNCHANGED <<disk, rows, extra, clock, calls, raced>>

\* n.index.Add returns an error: the path is in the table, or the database is locked.
AddFails(p) ==
  /\ At(p, "add")
  /\ Return(p, "error")
  /\ UNCHANGED <<disk, rows, extra, clock, calls, raced>>

Crash(p) ==
  /\ call[p] # Idle \/ extra[p] # None
  /\ Return(p, "idle")
  /\ extra' = [extra EXCEPT ![p] = None]
  /\ UNCHANGED <<disk, rows, clock, calls, raced>>

\* Another process of zk indexes the notebook.
Index ==
  /\ rows' = Indexed
  /\ UNCHANGED <<disk, extra, call, clock, calls, touched, raced>>

\* The user saves a file, in place or by replacing it.
UserSaves(q) ==
  /\ clock < MaxClock
  /\ clock' = clock + 1
  /\ \E i \in {clock + 1} \cup (IF disk[q] = None THEN {} ELSE {disk[q].inode}) :
       disk' = [disk EXCEPT ![q] = [content |-> ByUser, date |-> clock + 1, inode |-> i]]
  /\ Touch(q, None)
  /\ UNCHANGED <<rows, extra, call, calls, raced>>

UserDeletes(q) ==
  /\ disk[q] # None
  /\ disk' = [disk EXCEPT ![q] = None]
  /\ Touch(q, None)
  /\ UNCHANGED <<rows, extra, call, clock, calls, raced>>

Step(p) ==
  \/ \E x \in Extra \cup {None} : Invoke(p, x)
  \/ \E q \in Path : Generate(p, q)
  \/ NoteExists(p) \/ DryRun(p) \/ CreateFile(p) \/ WriteContent(p) \/ Fails(p)
  \/ StatFile(p) \/ AddNote(p) \/ AddLost(p) \/ AddFails(p) \/ Crash(p)

Next ==
  \/ \E p \in Process : Step(p)
  \/ \E q \in Path : UserSaves(q) \/ UserDeletes(q)
  \/ Index

Spec == Init /\ [][Next]_vars

-----------------------------------------------------------------------------
\* A call of NewNote writes over no file that was there when it looked for a
\* free filename: the file it truncates, if any, is younger than the test.
KeepsExistingNotes ==
  [][\A p \in Process : At(p, "create") /\ call'[p].pc = "write" =>
       LET q == call[p].path IN disk[q] # None => disk[q].inode > call[p].tested]_vars

\* When NewNote returns a note, the disk has the file of this call, and the
\* index its content and date as they are on the disk.  Two exceptions:
\* somebody else wrote or deleted this path since the name was chosen, and a
\* commit that fails (transaction.go:62), after which NewNote returns the note
\* with no row for it: then the file is there and the next indexing adds it.
ReturnedNoteIsIndexed ==
  [][\A p \in Process : At(p, "add") /\ call'[p].pc \in {"note", "unsaved"} =>
       LET q == call[p].path IN
         \/ p \in touched
         \/ /\ disk'[q] # None /\ disk'[q].content.no = call[p].no
            /\ IF call'[p].pc = "unsaved" THEN rows'[q] = None
               ELSE rows'[q] = [content |-> disk'[q].content, date |-> disk'[q].date]]_vars

\* Whatever calls fail or processes end half-way, the next indexing repairs
\* the index: a row with the date of its file has the content of its file.
\* The exception is a path that two writers raced for, where NewNote may pair
\* its own content with the date of the other write.
NextIndexingRepairs ==
  \A q \in Path :
    disk[q] # None /\ rows[q] # None /\ rows[q].date = disk[q].date /\ q \notin raced =>
      rows[q].content = disk[q].content

\* A note expands the extra variables given for it, or those of the
\* configuration (here none): not those given for an earlier note.
ExtraIsOwn ==
  \A p \in Process : At(p, "write") => Rendered(p).extra = call[p].want
=============================================================================
