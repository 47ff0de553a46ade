----------------------------- MODULE NoteIndex ------------------------------
(***************************************************************************)
(* The SQLite index of the notes (internal/adapter/sqlite): NoteIndex and  *)
(* its DAOs on the tables notes, links, collections and notes_collections. *)
(*                                                                         *)
(* NoteIndex.Add, Update and Remove are sequences of SQL statements.  They *)
(* run in the transaction of NoteIndex.Commit ("batch": an indexing) or,   *)
(* for the Add of a new note, in one of their own ("single").  A failing   *)
(* operation of a batch is logged by its caller and the batch goes on.     *)
(*                                                                         *)
(* A link is known by its href.  The regular expressions that match an     *)
(* href with the paths of notes are constant relations, since an href and  *)
(* a path never change.                                                    *)
(***************************************************************************)
EXTENDS Naturals, FiniteSets

CONSTANTS
  Path,          \* paths of notes
  ByteLen,       \* len(path) in Go
  CharLen,       \* LENGTH(path) in SQLite
  Href,          \* hrefs of links
  External,      \* hrefs that are URLs
  WikiLink,      \* hrefs of wiki links, which match a part of a path
  Anchor,        \* hrefs that are only an anchor, empty before "#"
  RelMatch,      \* paths that match relNotebookPath("", href): ^(href[^/]*|href/.+)$
  NameMatch,     \* paths that match ^(.*/)?[^/]*href[^/]*$
  PartMatch,     \* paths that match .*href.*
  PathMatch,     \* paths that match ^(href[^/]*|href/.+)$
  Tag,           \* names of tags
  Content,       \* the notes: their hrefs and tags
  MaxId,         \* bound on the ids given to notes
  ForeignKeys,   \* values of PRAGMA foreign_keys on the pooled connections
  SwallowErrors, \* whether statements fail whose error the code only logs or drops
  None

\* Calls of Add, Update and Remove.
Operation ==
  [kind : {"add", "update"}, path : Path, content : Content]
    \cup [kind : {"remove"}, path : Path]

ASSUME NoteIndexAssumption ==
  /\ ByteLen \in [Path -> Nat] /\ CharLen \in [Path -> Nat]
  /\ External \subseteq Href /\ WikiLink \subseteq Href /\ Anchor \subseteq Href
  /\ \A M \in {RelMatch, NameMatch, PartMatch, PathMatch} : M \in [Href -> SUBSET Path]
  /\ \A h \in Href : NameMatch[h] \cup PathMatch[h] \subseteq PartMatch[h]
  /\ Content \subseteq [hrefs : SUBSET Href, tags : SUBSET Tag]
  /\ MaxId \in Nat /\ ForeignKeys \subseteq {"on", "off"}
  /\ SwallowErrors \in BOOLEAN
  /\ None \notin [hrefs : SUBSET Href, tags : SUBSET Tag] /\ None \notin Operation

VARIABLES
  notes,        \* the table notes: id and path
  links,        \* the table links: source_id, target_id (0 is NULL) and href
  collections,  \* the table collections: the tags ever used
  assocs,       \* the table notes_collections: note_id and tag
  nextId,       \* AUTOINCREMENT of notes
  saved,        \* the tables as last committed
  tx,           \* the open transaction: "none", "batch" or "single"
  fk,           \* PRAGMA foreign_keys of its connection
  op,           \* the operation being run, or None
  stage,        \* its next statement
  before,       \* history: the notes when the operation started, or None
  orphans       \* history: the links whose target has been removed

tables == <<notes, links, collections, assocs, nextId>>
vars == <<tables, saved, tx, fk, op, stage, before, orphans>>

Ids == {n.id : n \in notes}
IdsAt(P) == {n.id : n \in {m \in notes : m.path \in P}}
PathOf(i) == (CHOOSE n \in notes : n.id = i).path
-----------------------------------------------------------------------------
(* Resolution of links.                                                    *)

\* findIdsByPathRegex, ORDER BY LENGTH(path): the possible first rows.
Shortest(P) ==
  {i \in IdsAt(P) : \A j \in IdsAt(P) : CharLen[PathOf(i)] <= CharLen[PathOf(j)]}

\* NoteDAO.FindIdByHref: the first regular expression that has a match.  The
\* empty href of an anchor is not excluded: it matches as a part of every path.
FindIdByHref(h, allowPartialHref) ==
  LET tries == IF allowPartialHref THEN << NameMatch[h], PartMatch[h], PathMatch[h] >>
               ELSE << PathMatch[h], {}, {} >>
  IN  IF IdsAt(tries[1]) # {} THEN Shortest(tries[1])
      ELSE IF IdsAt(tries[2]) # {} THEN Shortest(tries[2])
      ELSE IF IdsAt(tries[3]) # {} THEN Shortest(tries[3])
      ELSE {0}

\* NoteIndex.findLinkMatch with no base directory.  A relative path cannot be
\* made relative to the notebook's absolute path: only the NoteIndex that
\* Commit hands out, which has no notebookPath, tries the exact path first.
FindLinkMatch(h) ==
  IF h \in External THEN {0}
  ELSE IF tx = "batch" /\ IdsAt(RelMatch[h]) # {} THEN Shortest(RelMatch[h])
  ELSE FindIdByHref(h, h \in WikiLink)

\* NoteIndex.linkMatchesPath.  relNotebookPath is consulted only when it has
\* failed and returned "", which matches nothing.
LinkMatchesPath(h, p) ==
  /\ h \notin Anchor
  /\ IF h \in WikiLink THEN p \in NameMatch[h] \cup PartMatch[h] \cup PathMatch[h]
     ELSE p \in PathMatch[h]

\* Mutant of Fixable: link.TargetPath != "" is dropped, and the empty path of
\* an unresolved link is always the shorter one.
FixableOnlyResolved(p) ==
  {l \in links :
     /\ l.source \in Ids /\ l.href \notin External
     /\ l.target \in Ids /\ ~(ByteLen[PathOf(l.target)] < ByteLen[p])
     /\ LinkMatchesPath(l.href, p)}

\* The links that fixExistingLinks gives to the new note at p.
Fixable(p) ==
  {l \in links :
     /\ l.source \in Ids /\ l.href \notin External
     /\ l.target \in Ids => ~(ByteLen[PathOf(l.target)] < ByteLen[p])
     /\ LinkMatchesPath(l.href, p)}

Retarget(S, i) == (links \ S) \cup {[l EXCEPT !.target = i] : l \in S}
-----------------------------------------------------------------------------
(* The tables as a map from paths to notes.                                *)

NotesOf(T) ==
  [p \in Path |->
     LET ids == {n.id : n \in {m \in T.notes : m.path = p}}
     IN  IF ids = {} THEN None
         ELSE [hrefs |-> {l.href : l \in {k \in T.links : k.source \in ids}},
               tags  |-> {a.tag : a \in {b \in T.assocs : b.note \in ids}}]]

Tables == [notes |-> notes, links |-> links, collections |-> collections,
           assocs |-> assocs, nextId |-> nextId, orphans |-> orphans]

Restore(T) ==
  /\ notes' = T.notes /\ links' = T.links /\ collections' = T.collections
  /\ assocs' = T.assocs /\ nextId' = T.nextId /\ orphans' = T.orphans
-----------------------------------------------------------------------------
(* Transactions and operations.                                            *)

\* NoteIndex.Commit: the indexing begins its transaction.
BeginBatch ==
  /\ tx = "none"
  /\ tx' = "batch" /\ fk' \in ForeignKeys
  /\ UNCHANGED <<tables, saved, op, stage, before, orphans>>

StartOperation(o) ==
  /\ op' = o /\ stage' = "note"
  /\ before' = NotesOf(Tables)
  /\ UNCHANGED <<tables, saved, orphans>>

\* NoteIndex.commit outside of a batch: Notebook.NewNote adds its note.
AddSingle ==
  /\ tx = "none"
  /\ tx' = "single" /\ fk' \in ForeignKeys
  /\ \E o \in Operation : o.kind = "add" /\ StartOperation(o)

OperationOfBatch ==
  /\ tx = "batch" /\ op = None
  /\ \E o \in Operation : StartOperation(o)
  /\ UNCHANGED <<tx, fk>>

At(s) == op # None /\ stage = s

Continue(s) == stage' = s /\ UNCHANGED <<saved, tx, fk, op, before>>

Done ==
  /\ op' = None /\ stage' = "idle" /\ before' = None
  /\ UNCHANGED <<saved, tx, fk>>

\* The operation returns an error: rolled back if it is the transaction,
\* logged by the caller if it is a part of a batch.
Fail ==
  /\ op' = None /\ stage' = "idle" /\ before' = None
  /\ \/ tx = "single" /\ Restore(saved) /\ tx' = "none"
     \/ tx = "batch" /\ UNCHANGED <<tables, orphans, tx>>
  /\ UNCHANGED <<saved, fk>>

MayFail == tx = "single" \/ SwallowErrors

OpIds == IdsAt({op.path})

\* Mutant of InsertNote: without AUTOINCREMENT, SQLite gives a new row the
\* largest id of the table plus one.
InsertNoteReusesId ==
  /\ At("note") /\ op.kind = "add"
  /\ \/ OpIds # {} /\ Fail
     \/ /\ OpIds = {}
        /\ \E id \in 1 .. MaxId :
             /\ \A i \in Ids : i < id
             /\ \A j \in 1 .. id - 1 : \E i \in Ids : j <= i
             /\ notes' = notes \cup {[id |-> id, path |-> op.path]}
        /\ nextId' = nextId
        /\ Continue("links")
        /\ UNCHANGED <<links, collections, assocs, orphans>>

\* NoteDAO.Add: INSERT INTO notes, whose path is UNIQUE.
InsertNote ==
  /\ At("note") /\ op.kind = "add"
  /\ \/ OpIds # {} /\ Fail
     \/ /\ OpIds = {} /\ nextId <= MaxId
        /\ notes' = notes \cup {[id |-> nextId, path |-> op.path]}
        /\ nextId' = nextId + 1
        /\ Continue("links")
        /\ UNCHANGED <<links, collections, assocs, orphans>>

\* NoteDAO.Update and LinkDAO.RemoveAll.
UpdateNote ==
  /\ At("note") /\ op.kind = "update"
  /\ \/ OpIds = {} /\ Fail
     \/ OpIds # {} /\ Continue("unlink") /\ UNCHANGED <<tables, orphans>>

\* Mutant of RemoveLinks: the links of the previous content are kept.
RemoveLinksForgotten ==
  /\ At("unlink")
  /\ Continue("links")
  /\ UNCHANGED <<tables, orphans>>

RemoveLinks ==
  /\ At("unlink")
  /\ links' = {l \in links : l.source \notin OpIds}
  /\ orphans' = {o \in orphans : o.source \notin OpIds}
  /\ Continue("links")
  /\ UNCHANGED <<notes, collections, assocs, nextId>>

\* Each href is resolved before the first is inserted.
InsertLinks(H) ==
  \E id \in OpIds, target \in [op.content.hrefs -> Ids \cup {0}] :
    /\ \A h \in op.content.hrefs : target[h] \in FindLinkMatch(h)
    /\ links' = links \cup {[source |-> id, target |-> target[h], href |-> h] : h \in H}

\* NoteIndex.addLinks.
AddLinks ==
  /\ At("links")
  /\ InsertLinks(op.content.hrefs)
  /\ Continue(IF op.kind = "add" THEN "fix" ELSE "untag")
  /\ UNCHANGED <<notes, collections, assocs, nextId, orphans>>

\* NoteIndex.fixExistingLinks.  An error of SetTargetID is assigned to a
\* variable of the if statement, and dropped.
FixExistingLinks ==
  /\ At("fix")
  /\ \E id \in OpIds, S \in SUBSET Fixable(op.path) :
       /\ SwallowErrors \/ S = Fixable(op.path)
       /\ links' = Retarget(S, id)
       /\ orphans' = orphans \ {[source |-> l.source, href |-> l.href] : l \in S}
  /\ Continue("tags")
  /\ UNCHANGED <<notes, collections, assocs, nextId>>

RemoveAssociations ==
  /\ At("untag")
  /\ assocs' = {a \in assocs : a.note \notin OpIds}
  /\ Continue("tags")
  /\ UNCHANGED <<notes, links, collections, nextId, orphans>>

\* FindOrCreate and Associate for each tag.
InsertTags(S) ==
  /\ collections' = collections \cup S
  /\ assocs' = assocs \cup {[note |-> id, tag |-> t] : id \in OpIds, t \in S}

\* NoteIndex.associateTags.
AssociateTags ==
  /\ At("tags")
  /\ InsertTags(op.content.tags)
  /\ Done
  /\ UNCHANGED <<notes, links, nextId, orphans>>

\* Mutant of RemoveNote: notes_collections has no ON DELETE CASCADE.
RemoveNoteKeepsTags ==
  /\ At("note") /\ op.kind = "remove"
  /\ \/ OpIds = {} /\ Fail
     \/ /\ OpIds # {}
        /\ notes' = {n \in notes : n.path # op.path}
        /\ links' = {[l EXCEPT !.target = IF l.target \in OpIds THEN 0 ELSE l.target] :
                       l \in {k \in links : k.source \notin OpIds}}
        /\ Done
        /\ UNCHANGED <<assocs, orphans, collections, nextId>>

\* NoteDAO.Remove, and the actions of the foreign keys: ON DELETE CASCADE for
\* the links and the tags of the note, ON DELETE SET NULL for links to it.
RemoveNote ==
  /\ At("note") /\ op.kind = "remove"
  /\ \/ OpIds = {} /\ Fail
     \/ /\ OpIds # {}
        /\ notes' = {n \in notes : n.path # op.path}
        /\ \/ /\ fk = "on"
              /\ links' = {[l EXCEPT !.target = IF l.target \in OpIds THEN 0 ELSE l.target] :
                             l \in {k \in links : k.source \notin OpIds}}
              /\ assocs' = {a \in assocs : a.note \notin OpIds}
              /\ orphans' = {o \in orphans : o.source \notin OpIds} \cup
                   {[source |-> l.source, href |-> l.href] :
                      l \in {k \in links : k.target \in OpIds /\ k.source \notin OpIds}}
           \/ fk = "off" /\ UNCHANGED <<links, assocs, orphans>>
        /\ Done
        /\ UNCHANGED <<collections, nextId>>

\* A statement of the operation fails.  In a batch, the rows that it has
\* inserted before stay.
StatementFails ==
  /\ op # None /\ MayFail
  /\ \/ Fail
     \/ /\ tx = "batch" /\ At("links")
        /\ \E H \in SUBSET op.content.hrefs : InsertLinks(H)
        /\ Done
        /\ UNCHANGED <<notes, collections, assocs, nextId, orphans>>
     \/ /\ tx = "batch" /\ At("tags")
        /\ \E S \in SUBSET op.content.tags : InsertTags(S)
        /\ Done
        /\ UNCHANGED <<notes, links, nextId, orphans>>

\* WithTransaction commits.
Commit ==
  /\ tx # "none" /\ op = None
  /\ saved' = Tables /\ tx' = "none"
  /\ UNCHANGED <<tables, fk, op, stage, before, orphans>>

\* WithTransaction rolls back, or the process crashes.
Rollback ==
  /\ tx # "none"
  /\ Restore(saved) /\ tx' = "none"
  /\ op' = None /\ stage' = "idle" /\ before' = None
  /\ UNCHANGED <<saved, fk>>

Init ==
  /\ notes = {} /\ links = {} /\ collections = {} /\ assocs = {} /\ nextId = 1
  /\ orphans = {}
  /\ saved = Tables
  /\ tx = "none" /\ fk = "on" /\ op = None /\ stage = "idle"
  /\ before = None

Next ==
  \/ BeginBatch \/ AddSingle \/ OperationOfBatch
  \/ InsertNote \/ UpdateNote \/ RemoveLinks \/ AddLinks \/ FixExistingLinks
  \/ RemoveAssociations \/ AssociateTags \/ RemoveNote \/ StatementFails
  \/ Commit \/ Rollback

Spec == Init /\ [][Next]_vars
-----------------------------------------------------------------------------
LinkRow == [source : 1 .. MaxId, target : 0 .. MaxId, href : Href]

\* The rows of the tables and the state of the transaction have their types.
TypeOK ==
  /\ notes \subseteq [id : 1 .. MaxId, path : Path]
  /\ links \subseteq LinkRow
  /\ collections \subseteq Tag
  /\ assocs \subseteq [note : 1 .. MaxId, tag : Tag]
  /\ nextId \in 1 .. MaxId + 1
  /\ orphans \subseteq [source : 1 .. MaxId, href : Href]
  /\ tx \in {"none", "batch", "single"} /\ fk \in {"on", "off"}
  /\ op \in Operation \cup {None}
  /\ stage \in {"idle", "note", "unlink", "links", "fix", "untag", "tags"}
  /\ saved \in [notes : SUBSET [id : 1 .. MaxId, path : Path],
                links : SUBSET LinkRow,
                collections : SUBSET Tag,
                assocs : SUBSET [note : 1 .. MaxId, tag : Tag],
                nextId : 1 .. MaxId + 1,
                orphans : SUBSET [source : 1 .. MaxId, href : Href]]

\* The ids of table notes.
IdsOf(T) == {n.id : n \in T.notes}

Integrity(T) ==
  /\ \A m, n \in T.notes : m.id = n.id \/ m.path = n.path => m = n
  /\ \A l \in T.links : l.source \in IdsOf(T) /\ l.target \in IdsOf(T) \cup {0}
  /\ \A a \in T.assocs : a.note \in IdsOf(T) /\ a.tag \in T.collections

(* The tables refer to each other soundly, also in the middle of an        *)
(* operation: a path and an id belong to one note, every link and every    *)
(* tag to a note that exists, and the target of a link exists.             *)
ReferentialIntegrity == Integrity(Tables)

(* A link never leads to a note that its href does not match, however      *)
(* often notes have been added, updated and removed since it was resolved. *)
(* The exception is a link that is only an anchor, as [[#heading]]: it is  *)
(* meant for the note it stands in, but FindIdsByHref (note_dao.go:281)    *)
(* finds notes for the empty href, which linkMatchesPath refuses           *)
(* (note_index.go:182).                                                    *)
TargetsMatch ==
  \A l \in links, n \in notes :
    l.target = n.id /\ l.href \notin Anchor
      => n.path \in RelMatch[l.href] \/ LinkMatchesPath(l.href, n.path)

(* A link without a target matches no note of the index, unless it had a   *)
(* target that was removed: links are resolved in whatever order the notes *)
(* are indexed.                                                            *)
UnresolvedMeansNoMatch ==
  op = None =>
    \A l \in links :
      /\ l.target = 0 /\ l.href \notin External
      /\ [source |-> l.source, href |-> l.href] \notin orphans
      => \A n \in notes : ~LinkMatchesPath(l.href, n.path)

(* The statements of Add, Update and Remove implement the operations that  *)
(* core.NoteIndex promises: each takes effect as a whole or not at all, on *)
(* its own path only, and a transaction does as well.                      *)
Contract == INSTANCE NoteIndexContract WITH
  Absent <- None,
  committed <- NotesOf(saved),
  working <- IF op = None THEN NotesOf(Tables) ELSE before

\* NoteIndex.Add, Update, Remove and Commit refine the contract of the port.
ImplementsContract == Contract!Spec
=============================================================================
