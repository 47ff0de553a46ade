-------------------------- MODULE NoteIndexProofs ---------------------------
(***************************************************************************)
(* The tables of the index stay sound, for every set of notes, links and   *)
(* tags, and every relation between hrefs and paths; and the statements of *)
(* NoteIndex.Add, Update and Remove implement the contract of the port     *)
(* core.NoteIndex, as long as foreign keys are enforced and no error is    *)
(* dropped.                                                                *)
(***************************************************************************)
EXTENDS NoteIndex, TLAPS

\* The prover of the steps that do not name one.
USE ZenonT(30)

\* An operation with content is an Add or an Update.
OpInv ==
  /\ op = None => stage = "idle"
  /\ stage \in {"unlink", "links", "fix", "untag", "tags"} =>
       op # None /\ op.kind \in {"add", "update"}

TInv == TypeOK /\ OpInv
-----------------------------------------------------------------------------
(* The operations.                                                         *)
LEMMA OperationType ==
  ASSUME op \in Operation \cup {None}, op # None
  PROVE  /\ op.path \in Path /\ op.kind \in {"add", "update", "remove"}
         /\ op.kind \in {"add", "update"} =>
              op.content \in Content /\ op.content.hrefs \subseteq Href /\ op.content.tags \subseteq Tag
BY NoteIndexAssumption DEF Operation

(* An operation that fails leaves well-typed tables.                       *)
LEMMA FailType == ASSUME TInv, Fail PROVE TInv'
BY DEF TInv, TypeOK, OpInv, Fail, Restore, tables

(* The rows that addLinks and associateTags insert are well typed.         *)
LEMMA InsertLinksType ==
  ASSUME TInv, At("links"), NEW H \in SUBSET op.content.hrefs, InsertLinks(H)
  PROVE  links' \subseteq LinkRow
<1>1. op.content.hrefs \subseteq Href
  BY OperationType DEF At, TInv, TypeOK, OpInv
<1>2. PICK id \in OpIds, target \in [op.content.hrefs -> Ids \cup {0}] :
        links' = links \cup {[source |-> id, target |-> target[h], href |-> h] : h \in H}
  BY DEF InsertLinks
<1>3. id \in 1 .. MaxId /\ Ids \subseteq 1 .. MaxId
  BY SMT DEF OpIds, IdsAt, Ids, TInv, TypeOK
<1> MaxId \in Nat
  BY NoteIndexAssumption
<1>4. \A h \in H : h \in Href /\ target[h] \in 0 .. MaxId
  <2>1. Ids \cup {0} \subseteq 0 .. MaxId
    BY <1>3, SMT
  <2>2. QED
    BY <1>1, <2>1
<1>5. QED
  BY <1>2, <1>3, <1>4, SMT DEF TInv, TypeOK, LinkRow

\* Associating tags keeps the types of the collections.
LEMMA InsertTagsType ==
  ASSUME TInv, At("tags"), NEW S \in SUBSET op.content.tags, InsertTags(S)
  PROVE  collections' \subseteq Tag /\ assocs' \subseteq [note : 1 .. MaxId, tag : Tag]
<1>1. op.content.tags \subseteq Tag
  BY OperationType DEF At, TInv, TypeOK, OpInv
<1>2. OpIds \subseteq 1 .. MaxId
  BY SMT DEF OpIds, IdsAt, TInv, TypeOK
<1>3. QED
  BY <1>1, <1>2, SMT DEF InsertTags, TInv, TypeOK

(* The tables are of their types, in memory and as committed.              *)
LEMMA TypeStep == TInv /\ [Next]_vars => TInv'
<1> SUFFICES ASSUME TInv, [Next]_vars PROVE TInv'
  OBVIOUS
<1> USE NoteIndexAssumption
<1>1. CASE BeginBatch
  BY <1>1 DEF BeginBatch, TInv, TypeOK, OpInv, tables
<1>2. CASE AddSingle
  BY <1>2 DEF AddSingle, StartOperation, TInv, TypeOK, OpInv, tables
<1>3. CASE OperationOfBatch
  BY <1>3, SMT DEF OperationOfBatch, StartOperation, TInv, TypeOK, OpInv, tables
<1>4. CASE InsertNote
  <2>1. CASE OpIds # {} /\ Fail
    BY <2>1, FailType
  <2>2. CASE OpIds = {}
    <3>1. op.path \in Path /\ op.kind \in {"add", "update"} /\ op # None
      BY <1>4, OperationType DEF InsertNote, At, TInv, TypeOK
    <3>2. nextId \in 1 .. MaxId /\ nextId + 1 \in 1 .. MaxId + 1
      BY <1>4, <2>2, SMT DEF InsertNote, TInv, TypeOK
    <3>3. [id |-> nextId, path |-> op.path] \in [id : 1 .. MaxId, path : Path]
      BY <3>1, <3>2
    <3>4. QED
      BY <1>4, <2>2, <3>1, <3>2, <3>3 DEF InsertNote, Continue, TInv, TypeOK, OpInv
  <2>3. QED
    BY <1>4, <2>1, <2>2 DEF InsertNote
<1>5. CASE UpdateNote
  BY <1>5, FailType DEF UpdateNote, At, Continue, TInv, TypeOK, OpInv, tables
<1>6. CASE RemoveLinks
  BY <1>6 DEF RemoveLinks, At, Continue, TInv, TypeOK, OpInv
<1>7. CASE AddLinks
  BY <1>7, InsertLinksType DEF AddLinks, At, Continue, TInv, TypeOK, OpInv
<1>8. CASE FixExistingLinks
  <2>1. PICK id \in OpIds, S \in SUBSET Fixable(op.path) :
          /\ links' = Retarget(S, id)
          /\ orphans' = orphans \ {[source |-> l.source, href |-> l.href] : l \in S}
    BY <1>8 DEF FixExistingLinks
  <2>2. S \subseteq links
    BY DEF Fixable
  <2>3. links' \subseteq LinkRow
    BY <2>1, <2>2, SMT DEF Retarget, TInv, TypeOK, LinkRow, OpIds, IdsAt
  <2>4. QED
    BY <1>8, <2>1, <2>3 DEF FixExistingLinks, At, Continue, TInv, TypeOK, OpInv
<1>9. CASE RemoveAssociations
  BY <1>9 DEF RemoveAssociations, At, Continue, TInv, TypeOK, OpInv
<1>10. CASE AssociateTags
  BY <1>10, InsertTagsType DEF AssociateTags, At, Done, TInv, TypeOK, OpInv
<1>11. CASE RemoveNote
  <2>1. CASE OpIds = {}
    BY <1>11, <2>1, FailType DEF RemoveNote
  <2>2. CASE OpIds # {} /\ fk = "off"
    BY <1>11, <2>2 DEF RemoveNote, Done, TInv, TypeOK, OpInv
  <2>3. CASE OpIds # {} /\ fk = "on"
    <3>1. links' \subseteq LinkRow
      BY <1>11, <2>3, SMT DEF RemoveNote, TInv, TypeOK, LinkRow
    <3>2. orphans' \subseteq [source : 1 .. MaxId, href : Href]
      BY <1>11, <2>3, SMT DEF RemoveNote, TInv, TypeOK, LinkRow
    <3>3. QED
      BY <1>11, <2>3, <3>1, <3>2 DEF RemoveNote, Done, TInv, TypeOK, OpInv
  <2>4. QED
    BY <1>11, <2>1, <2>2, <2>3 DEF RemoveNote
<1>12. CASE StatementFails
  <2>1. CASE Fail
    BY <2>1, FailType
  <2>2. CASE At("links") /\ (\E H \in SUBSET op.content.hrefs : InsertLinks(H)) /\ Done
             /\ UNCHANGED <<notes, collections, assocs, nextId, orphans>>
    BY <2>2, InsertLinksType DEF At, Done, TInv, TypeOK, OpInv
  <2>3. CASE At("tags") /\ (\E S \in SUBSET op.content.tags : InsertTags(S)) /\ Done
             /\ UNCHANGED <<notes, links, nextId, orphans>>
    BY <2>3, InsertTagsType DEF At, Done, TInv, TypeOK, OpInv
  <2>4. QED
    BY <1>12, <2>1, <2>2, <2>3 DEF StatementFails
<1>13. CASE Commit
  BY <1>13 DEF Commit, Tables, TInv, TypeOK, OpInv, tables
<1>14. CASE Rollback
  BY <1>14 DEF Rollback, Restore, TInv, TypeOK, OpInv
<1>15. CASE UNCHANGED vars
  BY <1>15 DEF vars, tables, TInv, TypeOK, OpInv
<1>16. QED
  BY <1>1, <1>2, <1>3, <1>4, <1>5, <1>6, <1>7, <1>8, <1>9, <1>10, <1>11, <1>12,
     <1>13, <1>14, <1>15 DEF Next

(* Type correctness of the tables and of the transactions.                 *)
THEOREM TypeCorrect == Spec => []TypeOK
<1>1. Init => TInv
  BY NoteIndexAssumption, SMT DEF Init, Tables, TInv, TypeOK, OpInv
<1>2. TInv => TypeOK
  BY DEF TInv
<1>3. QED
  BY <1>1, <1>2, TypeStep, PTL DEF Spec
-----------------------------------------------------------------------------
(* Referential integrity, on connections that have foreign keys.           *)

\* AUTOINCREMENT gives out ids that no row refers to.
Fresh(T) == \A n \in T.notes : n.id < T.nextId

\* Integrity and freshness of the tables in memory.
TableInv ==
  /\ \A m, n \in notes : m.id = n.id \/ m.path = n.path => m = n
  /\ \A l \in links : l.source \in Ids /\ l.target \in Ids \cup {0}
  /\ \A a \in assocs : a.note \in Ids /\ a.tag \in collections
  /\ \A n \in notes : n.id < nextId

RInv ==
  /\ TInv /\ fk = "on" /\ TableInv
  /\ Integrity(saved) /\ Fresh(saved)

\* The invariant of the tables, in terms of the record of all tables.
LEMMA TableInvIntegrity == TableInv <=> Integrity(Tables) /\ Fresh(Tables)
BY DEF Tables, IdsOf, Ids, Integrity, Fresh, TableInv

\* A rollback brings back tables that are sound.
LEMMA RestoreIntegrity ==
  ASSUME RInv, Restore(saved)
  PROVE  TableInv'
BY DEF RInv, Restore, Integrity, Fresh, IdsOf, TableInv, Ids

\* Steps that leave the tables alone keep them sound.
LEMMA UnchangedIntegrity ==
  ASSUME TableInv, UNCHANGED tables
  PROVE  TableInv'
BY DEF TableInv, Ids, tables

\* A failing statement rolls back, or keeps what was written so far.
LEMMA FailIntegrity ==
  ASSUME RInv, Fail
  PROVE  TableInv'
BY RestoreIntegrity, UnchangedIntegrity DEF Fail, RInv

\* The links inserted start at the note and lead to a note or nowhere.
LEMMA InsertLinksIntegrity ==
  ASSUME TableInv, NEW H \in SUBSET op.content.hrefs, InsertLinks(H),
         UNCHANGED <<notes, collections, assocs, nextId>>
  PROVE  TableInv'
<1>1. PICK id \in OpIds, target \in [op.content.hrefs -> Ids \cup {0}] :
        links' = links \cup {[source |-> id, target |-> target[h], href |-> h] : h \in H}
  BY DEF InsertLinks
<1>2. Ids' = Ids /\ id \in Ids
  BY DEF Ids, OpIds, IdsAt
<1>3. \A l \in links' : l.source \in Ids /\ l.target \in Ids \cup {0}
  BY <1>1, <1>2, SMT DEF TableInv
<1>4. QED
  BY <1>2, <1>3 DEF TableInv

\* The associations inserted refer to the note and to a collection.
LEMMA InsertTagsIntegrity ==
  ASSUME TableInv, NEW S, InsertTags(S), UNCHANGED <<notes, links, nextId>>
  PROVE  TableInv'
<1>1. Ids' = Ids /\ OpIds \subseteq Ids
  BY DEF Ids, OpIds, IdsAt
<1>2. QED
  BY <1>1, SMT DEF TableInv, InsertTags

\* With foreign keys on, removing a note cascades to what refers to it.
LEMMA RemoveNoteIntegrity ==
  ASSUME RInv, RemoveNote
  PROVE  TableInv'
<1>1. CASE OpIds = {}
  BY <1>1, FailIntegrity DEF RemoveNote
<1>2. CASE OpIds # {}
  <2>1. Ids' = Ids \ OpIds
    BY <1>2, SMT DEF RemoveNote, Ids, OpIds, IdsAt, RInv, TableInv
  <2>2. /\ links' = {[l EXCEPT !.target = IF l.target \in OpIds THEN 0 ELSE l.target] :
                       l \in {k \in links : k.source \notin OpIds}}
        /\ assocs' = {a \in assocs : a.note \notin OpIds}
        /\ notes' \subseteq notes /\ collections' = collections /\ nextId' = nextId
    BY <1>2 DEF RemoveNote, RInv
  <2>3. \A l \in links' : l.source \in Ids' /\ l.target \in Ids' \cup {0}
    BY <2>1, <2>2, SMT DEF RInv, TInv, TypeOK, TableInv, LinkRow
  <2>4. QED
    BY <2>1, <2>2, <2>3 DEF RInv, TableInv
<1>3. QED
  BY <1>1, <1>2

\* Every step keeps the tables and the saved tables sound.
LEMMA IntegrityStep ==
  ASSUME ForeignKeys = {"on"}
  PROVE  RInv /\ [Next]_vars => RInv'
<1> SUFFICES ASSUME RInv, [Next]_vars PROVE RInv'
  OBVIOUS
<1>1. TInv'
  BY TypeStep DEF RInv
<1>2. fk' = "on"
  BY DEF RInv, Next, BeginBatch, AddSingle, OperationOfBatch, InsertNote, UpdateNote,
     RemoveLinks, AddLinks, FixExistingLinks, RemoveAssociations, AssociateTags,
     RemoveNote, StatementFails, Commit, Rollback, Continue, Done, Fail, vars
<1>3. TableInv'
  <2> USE DEF RInv
  <2>1. CASE BeginBatch \/ AddSingle \/ OperationOfBatch \/ Commit \/ UNCHANGED vars
    BY <2>1, UnchangedIntegrity
    DEF BeginBatch, AddSingle, OperationOfBatch, StartOperation, Commit, vars
  <2>2. CASE InsertNote
    <3>1. CASE OpIds # {}
      BY <2>2, <3>1, FailIntegrity DEF InsertNote
    <3>2. CASE OpIds = {}
      <4>1. \A n \in notes : n.path # op.path /\ n.id # nextId
        BY <3>2, SMT DEF OpIds, IdsAt, TableInv, TInv, TypeOK
      <4>2. Ids \subseteq Ids'
        BY <2>2, <3>2 DEF InsertNote, Ids
      <4>3. (\A m, n \in notes : m.id = n.id \/ m.path = n.path => m = n)'
        BY <2>2, <3>2, <4>1, SMT DEF InsertNote, TableInv
      <4>4. (\A n \in notes : n.id < nextId)'
        BY <2>2, <3>2, SMT DEF InsertNote, TableInv, TInv, TypeOK
      <4>5. QED
        BY <2>2, <3>2, <4>2, <4>3, <4>4 DEF InsertNote, TableInv
    <3>3. QED
      BY <3>1, <3>2
  <2>3. CASE UpdateNote
    BY <2>3, FailIntegrity, UnchangedIntegrity DEF UpdateNote
  <2>4. CASE RemoveLinks
    BY <2>4 DEF RemoveLinks, TableInv, Ids
  <2>5. CASE AddLinks
    BY <2>5, InsertLinksIntegrity DEF AddLinks
  <2>6. CASE FixExistingLinks
    <3>1. PICK id \in OpIds, S \in SUBSET Fixable(op.path) : links' = Retarget(S, id)
      BY ZenonT(30), <2>6 DEF FixExistingLinks
    <3>2. Ids' = Ids /\ id \in Ids /\ S \subseteq links
      BY <2>6 DEF FixExistingLinks, Ids, OpIds, IdsAt, Fixable
    <3>3. \A l \in links' : l.source \in Ids /\ l.target \in Ids \cup {0}
      BY <3>1, <3>2, SMT DEF Retarget, TableInv, TInv, TypeOK, LinkRow
    <3>4. QED
      BY <2>6, <3>2, <3>3 DEF FixExistingLinks, TableInv
  <2>7. CASE RemoveAssociations
    BY <2>7 DEF RemoveAssociations, TableInv, Ids
  <2>8. CASE AssociateTags
    BY <2>8, InsertTagsIntegrity DEF AssociateTags
  <2>9. CASE RemoveNote
    BY <2>9, RemoveNoteIntegrity
  <2>10. CASE StatementFails
    BY <2>10, FailIntegrity, InsertLinksIntegrity, InsertTagsIntegrity DEF StatementFails
  <2>11. CASE Rollback
    BY <2>11, RestoreIntegrity DEF Rollback
  <2>12. QED
    BY <2>1, <2>2, <2>3, <2>4, <2>5, <2>6, <2>7, <2>8, <2>9, <2>10, <2>11 DEF Next
<1>4. (Integrity(saved) /\ Fresh(saved))'
  <2>1. CASE Commit
    BY <2>1, TableInvIntegrity DEF Commit, RInv
  <2>2. CASE ~Commit
    BY <2>2 DEF RInv, Next, BeginBatch, AddSingle, OperationOfBatch, StartOperation,
       InsertNote, UpdateNote, RemoveLinks, AddLinks, FixExistingLinks,
       RemoveAssociations, AssociateTags, RemoveNote, StatementFails, Rollback,
       Continue, Done, Fail, vars
  <2>3. QED
    BY <2>1, <2>2
<1>5. QED
  BY <1>1, <1>2, <1>3, <1>4 DEF RInv

\* The empty database is sound.
LEMMA IntegrityInit == Init => RInv
<1> SUFFICES ASSUME Init PROVE RInv
  OBVIOUS
<1>1. TInv
  BY NoteIndexAssumption, SMT DEF Init, Tables, TInv, TypeOK, OpInv
<1>2. TableInv
  BY DEF Init, TableInv
<1>3. QED
  BY <1>1, <1>2, TableInvIntegrity DEF Init, RInv

(* The tables of the index refer to each other soundly at any time, as     *)
(* long as every connection enforces foreign keys.                         *)
THEOREM ReferentialIntegrityTheorem ==
  ASSUME ForeignKeys = {"on"}
  PROVE  Spec => []ReferentialIntegrity
<1>1. RInv => ReferentialIntegrity
  BY TableInvIntegrity DEF RInv, ReferentialIntegrity
<1>2. QED
  BY <1>1, IntegrityInit, IntegrityStep, PTL DEF Spec
-----------------------------------------------------------------------------
(* The targets of links.                                                   *)

(* The id that findLinkMatch returns is of a note that the href matches,   *)
(* if it is not only an anchor, and it returns none only if there is none. *)
LEMMA FindIdByHrefSound ==
  ASSUME NEW h \in Href, NEW i \in FindIdByHref(h, h \in WikiLink), 0 \notin Ids
  PROVE  /\ i # 0 /\ h \notin Anchor => \E n \in notes : n.id = i /\ LinkMatchesPath(h, n.path)
         /\ i = 0 => \A n \in notes : ~LinkMatchesPath(h, n.path)
<1> USE DEF IdsAt, Ids
<1>1. \A P : Shortest(P) \subseteq IdsAt(P)
  BY DEF Shortest
<1>2. CASE h \in WikiLink
  <2>1. \/ i \in IdsAt(NameMatch[h]) \/ i \in IdsAt(PartMatch[h]) \/ i \in IdsAt(PathMatch[h])
        \/ /\ i = 0 /\ IdsAt(NameMatch[h]) = {} /\ IdsAt(PartMatch[h]) = {}
           /\ IdsAt(PathMatch[h]) = {}
    BY <1>1, <1>2, SMT DEF FindIdByHref
  <2>2. QED
    BY <1>2, <2>1 DEF LinkMatchesPath
<1>3. CASE h \notin WikiLink
  <2>1. \/ i \in IdsAt(PathMatch[h])
        \/ i = 0 /\ IdsAt(PathMatch[h]) = {}
    BY <1>1, <1>3, SMT DEF FindIdByHref
  <2>2. QED
    BY <1>3, <2>1 DEF LinkMatchesPath
<1>4. QED
  BY <1>2, <1>3

\* findLinkMatch finds a note that the href matches.
LEMMA FindLinkMatchSound ==
  ASSUME NEW h \in Href, NEW i \in FindLinkMatch(h), 0 \notin Ids
  PROVE  /\ i # 0 /\ h \notin Anchor =>
              \E n \in notes : n.id = i /\ (n.path \in RelMatch[h] \/ LinkMatchesPath(h, n.path))
         /\ i = 0 /\ h \notin External => \A n \in notes : ~LinkMatchesPath(h, n.path)
<1>1. CASE h \in External
  BY <1>1 DEF FindLinkMatch
<1>2. CASE h \notin External /\ i \in FindIdByHref(h, h \in WikiLink)
  BY <1>2, FindIdByHrefSound
<1>3. CASE h \notin External /\ i \in Shortest(RelMatch[h])
  BY <1>3 DEF Shortest, IdsAt, Ids
<1>4. QED
  BY <1>1, <1>2, <1>3 DEF FindLinkMatch

\* The links of tables T lead to notes that they match.
Matched(T) ==
  \A l \in T.links, n \in T.notes :
    l.target = n.id /\ l.href \notin Anchor
      => n.path \in RelMatch[l.href] \/ LinkMatchesPath(l.href, n.path)

\* No id is used twice, and no link waits for an id that is still to come.
IdInv ==
  /\ \A m, n \in notes : m.id = n.id \/ m.path = n.path => m = n
  /\ \A n \in notes : n.id < nextId
  /\ \A l \in links : l.target < nextId

IdsOnce(T) ==
  /\ \A m, n \in T.notes : m.id = n.id \/ m.path = n.path => m = n
  /\ \A n \in T.notes : n.id < T.nextId
  /\ \A l \in T.links : l.target < T.nextId

MInv == TInv /\ IdInv /\ IdsOnce(saved) /\ TargetsMatch /\ Matched(saved)

\* A rollback brings back ids that were given once.
LEMMA FailIds == ASSUME MInv, Fail PROVE IdInv'
BY DEF MInv, Fail, Restore, IdsOnce, IdInv, tables

\* Inserting links gives out no id of a note.
LEMMA InsertLinksIds ==
  ASSUME MInv, At("links"), NEW H \in SUBSET op.content.hrefs, InsertLinks(H),
         UNCHANGED <<notes, nextId>>
  PROVE  IdInv'
<1>1. nextId \in 1 .. MaxId + 1
  BY DEF MInv, TInv, TypeOK
<1>2. \A i \in Ids \cup {0} : i < nextId
  BY <1>1, NoteIndexAssumption, SMT DEF Ids, MInv, IdInv
<1>3. PICK target \in [op.content.hrefs -> Ids \cup {0}], id \in OpIds :
        links' = links \cup {[source |-> id, target |-> target[h], href |-> h] : h \in H}
  BY DEF InsertLinks
<1>4. QED
  BY <1>2, <1>3, SMT DEF MInv, IdInv

\* AUTOINCREMENT starts at 1: zero stands for no target.
LEMMA ZeroIsNoId == TypeOK => 0 \notin Ids
BY SMT DEF TypeOK, Ids

\* A rollback brings back targets that match.
LEMMA FailMatch == ASSUME MInv, Fail PROVE TargetsMatch'
BY DEF MInv, Fail, Restore, Matched, TargetsMatch, tables

\* A new link gets a target that its href matches.
LEMMA InsertLinksMatch ==
  ASSUME MInv, At("links"), NEW H \in SUBSET op.content.hrefs, InsertLinks(H),
         UNCHANGED notes
  PROVE  TargetsMatch'
<1>1. op.content.hrefs \subseteq Href /\ 0 \notin Ids
  BY OperationType, ZeroIsNoId DEF At, MInv, TInv, TypeOK, OpInv
<1>2. PICK id \in OpIds, target \in [op.content.hrefs -> Ids \cup {0}] :
        /\ \A h \in op.content.hrefs : target[h] \in FindLinkMatch(h)
        /\ links' = links \cup {[source |-> id, target |-> target[h], href |-> h] : h \in H}
  BY DEF InsertLinks
<1>3. ASSUME NEW h \in H, NEW n \in notes, target[h] = n.id, h \notin Anchor
      PROVE  n.path \in RelMatch[h] \/ LinkMatchesPath(h, n.path)
  <2>1. target[h] # 0 /\ h \in Href /\ target[h] \in FindLinkMatch(h)
    BY <1>1, <1>2, <1>3 DEF Ids
  <2>2. PICK m \in notes : /\ m.id = target[h]
                           /\ m.path \in RelMatch[h] \/ LinkMatchesPath(h, m.path)
    BY <1>1, <1>3, <2>1, FindLinkMatchSound
  <2>3. m = n
    BY <1>3, <2>2 DEF MInv, IdInv
  <2>4. QED
    BY <2>2, <2>3
<1>4. QED
  BY <1>2, <1>3, SMT DEF MInv, TargetsMatch

\* The ids are numbers.
LEMMA IdNumbers ==
  ASSUME TInv
  PROVE  /\ nextId \in Nat /\ 0 < nextId
         /\ \A n \in notes : n.id \in Nat
         /\ \A l \in links : l.target \in Nat
<1>1. nextId \in Nat /\ 0 < nextId
  <2>1. MaxId \in Nat
    BY NoteIndexAssumption
  <2>2. nextId \in 1 .. MaxId + 1
    BY DEF TInv, TypeOK
  <2>3. QED
    BY <2>1, <2>2, SMT
<1>2. \A n \in notes : n.id \in Nat
  BY SMT DEF TInv, TypeOK
<1>3. \A l \in links : l.target \in Nat
  BY SMT DEF TInv, TypeOK, LinkRow
<1>4. QED
  BY <1>1, <1>2, <1>3

\* No step gives the id of a removed note to another path.
LEMMA IdStep == ASSUME MInv, [Next]_vars PROVE IdInv'
<1>1. CASE \/ BeginBatch \/ AddSingle \/ OperationOfBatch \/ Commit
           \/ RemoveAssociations \/ AssociateTags \/ UNCHANGED vars
  BY <1>1 DEF BeginBatch, AddSingle, OperationOfBatch, StartOperation, Commit,
     RemoveAssociations, AssociateTags, vars, tables, MInv, IdInv
<1>2. CASE InsertNote
  <2>1. CASE OpIds # {}
    BY <1>2, <2>1, FailIds DEF InsertNote
  <2>2. CASE OpIds = {}
    <3>0. /\ notes' = notes \cup {[id |-> nextId, path |-> op.path]}
          /\ nextId' = nextId + 1 /\ links' = links
      BY <1>2, <2>2 DEF InsertNote
    <3>1. /\ nextId \in Nat /\ \A l \in links : l.target \in Nat /\ l.target < nextId
          /\ \A n \in notes : n.id \in Nat /\ n.id < nextId
      BY IdNumbers DEF MInv, IdInv
    <3>2. \A n \in notes : n.path # op.path /\ n.id # nextId
      <4>1. \A n \in notes : n.path # op.path
        BY <2>2 DEF OpIds, IdsAt
      <4>2. QED
        BY <3>1, <4>1, SMT
    <3>3. (\A m, n \in notes : m.id = n.id \/ m.path = n.path => m = n)'
      BY <3>0, <3>2, SMT DEF MInv, IdInv
    <3>4. \A k \in Nat : k < nextId => k < nextId'
      BY <3>0, <3>1, SMT
    <3>5. nextId < nextId'
      BY <3>0, <3>1, SMT
    <3>6. (\A n \in notes : n.id < nextId)'
      <4> SUFFICES ASSUME NEW n \in notes' PROVE n.id < nextId'
        OBVIOUS
      <4>1. CASE n \in notes
        BY <3>1, <3>4, <4>1
      <4>2. CASE n = [id |-> nextId, path |-> op.path]
        BY <3>5, <4>2
      <4>3. QED
        BY <3>0, <4>1, <4>2
    <3>7. (\A l \in links : l.target < nextId)'
      BY <3>0, <3>1, <3>4
    <3>8. QED
      BY <3>3, <3>6, <3>7 DEF IdInv
  <2>3. QED
    BY <2>1, <2>2
<1>3. CASE UpdateNote
  BY <1>3, FailIds DEF UpdateNote, tables, MInv, IdInv
<1>4. CASE RemoveLinks
  BY <1>4 DEF RemoveLinks, MInv, IdInv
<1>5. CASE AddLinks
  BY <1>5, InsertLinksIds DEF AddLinks
<1>6. CASE FixExistingLinks
  <2>1. PICK id \in OpIds, S \in SUBSET Fixable(op.path) : links' = Retarget(S, id)
    BY <1>6 DEF FixExistingLinks
  <2>2. \A l \in S : [l EXCEPT !.target = id].target = id
    BY DEF Fixable, MInv, TInv, TypeOK, LinkRow
  <2>3. id < nextId
    BY DEF OpIds, IdsAt, MInv, IdInv
  <2>4. QED
    BY <1>6, <2>1, <2>2, <2>3 DEF FixExistingLinks, Retarget, MInv, IdInv
<1>7. CASE RemoveNote
  <2>1. CASE OpIds = {}
    BY <1>7, <2>1, FailIds DEF RemoveNote
  <2>2. CASE OpIds # {}
    <3>1. notes' \subseteq notes /\ nextId' = nextId
      BY <1>7, <2>2 DEF RemoveNote
    <3>2. \/ links' = links
          \/ links' = {[l EXCEPT !.target = IF l.target \in OpIds THEN 0 ELSE l.target] :
                         l \in {k \in links : k.source \notin OpIds}}
      BY <1>7, <2>2 DEF RemoveNote
    <3>3. 0 < nextId
      BY IdNumbers DEF MInv
    <3>4. \A l \in links' : l.target < nextId
      <4>1. \A l \in links : l \in LinkRow /\ l.target < nextId
        BY DEF MInv, TInv, TypeOK, IdInv
      <4>2. ASSUME NEW l \in links
            PROVE  [l EXCEPT !.target = IF l.target \in OpIds THEN 0 ELSE l.target].target < nextId
        <5>1. [l EXCEPT !.target = IF l.target \in OpIds THEN 0 ELSE l.target].target
                = IF l.target \in OpIds THEN 0 ELSE l.target
          BY <4>1 DEF LinkRow
        <5>2. QED
          BY <3>3, <4>1, <5>1
      <4>3. CASE links' = links
        BY <4>1, <4>3
      <4>4. CASE links' = {[l EXCEPT !.target = IF l.target \in OpIds THEN 0 ELSE l.target] :
                             l \in {k \in links : k.source \notin OpIds}}
        BY ZenonT(30), <4>2, <4>4
      <4>5. QED
        BY <3>2, <4>3, <4>4
    <3>5. QED
      BY <3>1, <3>4 DEF MInv, IdInv
  <2>3. QED
    BY <2>1, <2>2
<1>8. CASE StatementFails
  BY <1>8, FailIds, InsertLinksIds DEF StatementFails, MInv, IdInv
<1>9. CASE Rollback
  BY <1>9 DEF Rollback, Restore, IdsOnce, IdInv, MInv
<1>10. QED
  BY <1>1, <1>2, <1>3, <1>4, <1>5, <1>6, <1>7, <1>8, <1>9 DEF Next

\* Every step keeps the targets matching, and what that rests on.
LEMMA MatchStep == MInv /\ [Next]_vars => MInv'
<1> SUFFICES ASSUME MInv, [Next]_vars PROVE MInv'
  OBVIOUS
<1>1. TInv' /\ IdInv'
  BY TypeStep, IdStep DEF MInv
<1>2. TargetsMatch'
  <2>1. CASE \/ BeginBatch \/ AddSingle \/ OperationOfBatch \/ Commit
             \/ RemoveAssociations \/ AssociateTags \/ UNCHANGED vars
    BY <2>1 DEF BeginBatch, AddSingle, OperationOfBatch, StartOperation, Commit,
       RemoveAssociations, AssociateTags, vars, tables, MInv, TargetsMatch
  <2>2. CASE InsertNote
    <3>1. CASE OpIds # {}
      BY <2>2, <3>1, FailMatch DEF InsertNote
    <3>2. CASE OpIds = {}
      <4>1. \A l \in links : l.target # nextId
        BY IdNumbers, SMT DEF MInv, IdInv
      <4>2. /\ notes' = notes \cup {[id |-> nextId, path |-> op.path]}
            /\ links' = links
        BY <2>2, <3>2 DEF InsertNote
      <4>3. ASSUME NEW n \in notes', NEW l \in links, n.id = l.target
            PROVE  n \in notes
        BY <4>1, <4>2, <4>3, SMT
      <4>4. QED
        BY <4>2, <4>3 DEF MInv, TargetsMatch
    <3>3. QED
      BY <3>1, <3>2
  <2>3. CASE UpdateNote
    BY <2>3, FailMatch DEF UpdateNote, tables, MInv, TargetsMatch
  <2>4. CASE RemoveLinks
    BY <2>4 DEF RemoveLinks, MInv, TargetsMatch
  <2>5. CASE AddLinks
    BY <2>5, InsertLinksMatch DEF AddLinks
  <2>6. CASE FixExistingLinks
    <3>1. PICK id \in OpIds, S \in SUBSET Fixable(op.path) : links' = Retarget(S, id)
      BY <2>6 DEF FixExistingLinks
    <3>2. \A n \in notes : n.id = id => n.path = op.path
      BY DEF OpIds, IdsAt, MInv, IdInv
    <3>3. \A l \in S : l \in LinkRow /\ LinkMatchesPath(l.href, op.path)
      BY DEF Fixable, MInv, TInv, TypeOK
    <3>4. \A l \in S : /\ [l EXCEPT !.target = id].href = l.href
                       /\ [l EXCEPT !.target = id].target = id
      BY <3>3 DEF LinkRow
    <3>5. notes' = notes
      BY <2>6 DEF FixExistingLinks
    <3>6. ASSUME NEW k \in links', NEW n \in notes, k.target = n.id, k.href \notin Anchor
          PROVE  n.path \in RelMatch[k.href] \/ LinkMatchesPath(k.href, n.path)
      <4>1. CASE k \in links
        BY <3>6, <4>1 DEF MInv, TargetsMatch
      <4>2. ASSUME NEW l \in S, k = [l EXCEPT !.target = id]
            PROVE  LinkMatchesPath(k.href, n.path)
        <5>1. k.href = l.href /\ k.target = id
          BY <3>4, <4>2
        <5>2. n.path = op.path
          BY <3>2, <3>6, <5>1
        <5>3. QED
          BY <3>3, <5>1, <5>2
      <4>3. QED
        BY <3>1, <4>1, <4>2 DEF Retarget
    <3>7. QED
      BY <3>5, <3>6 DEF TargetsMatch
  <2>9. CASE RemoveNote
    <3>1. CASE OpIds = {}
      BY <2>9, <3>1, FailMatch DEF RemoveNote
    <3>2. CASE OpIds # {}
      <4>1. /\ \/ links' = links
               \/ links' = {[l EXCEPT !.target = IF l.target \in OpIds THEN 0 ELSE l.target] :
                              l \in {k \in links : k.source \notin OpIds}}
            /\ notes' \subseteq notes
        BY <2>9, <3>2 DEF RemoveNote
      <4>2. \A n \in notes : n.id # 0
        BY SMT DEF MInv, TInv, TypeOK
      <4>3. QED
        BY <4>1, <4>2, SMT DEF MInv, TInv, TypeOK, LinkRow, TargetsMatch
    <3>3. QED
      BY <3>1, <3>2
  <2>10. CASE StatementFails
    <3>1. CASE Fail
      BY <3>1, FailMatch
    <3>2. CASE ~Fail
      BY <2>10, <3>2, InsertLinksMatch DEF StatementFails, MInv, TargetsMatch
    <3>3. QED
      BY <3>1, <3>2
  <2>11. CASE Rollback
    BY <2>11 DEF Rollback, Restore, Matched, TargetsMatch, MInv
  <2>12. QED
    BY <2>1, <2>2, <2>3, <2>4, <2>5, <2>6, <2>9, <2>10, <2>11 DEF Next
<1>3. Matched(saved)' /\ IdsOnce(saved)'
  <2>1. CASE Commit
    BY <2>1 DEF Commit, MInv, Matched, TargetsMatch, IdInv, IdsOnce, Tables
  <2>2. CASE ~Commit
    <3>1. saved' = saved
      BY <2>2 DEF Next, BeginBatch, AddSingle, OperationOfBatch, StartOperation,
         InsertNote, UpdateNote, RemoveLinks, AddLinks, FixExistingLinks,
         RemoveAssociations, AssociateTags, RemoveNote, StatementFails, Rollback,
         Continue, Done, Fail, vars
    <3>2. QED
      BY <3>1 DEF MInv, Matched, IdsOnce
  <2>3. QED
    BY <2>1, <2>2
<1>4. QED
  BY <1>1, <1>2, <1>3 DEF MInv

(* A resolved link, unless it is only an anchor, leads to a note that its  *)
(* href matches, whatever has happened to the index since it was resolved, *)
(* statements that fail and connections that do not enforce foreign keys   *)
(* included: the target of a link may then dangle, but AUTOINCREMENT never *)
(* gives its id to another note.                                           *)
THEOREM TargetsMatchTheorem == Spec => []TargetsMatch
<1>1. Init => MInv
  <2> SUFFICES ASSUME Init PROVE MInv
    OBVIOUS
  <2>1. TInv
    BY IntegrityInit DEF RInv
  <2>2. QED
    BY <2>1 DEF Init, Tables, MInv, TargetsMatch, Matched, IdInv, IdsOnce
<1>2. MInv => TargetsMatch
  BY DEF MInv
<1>3. QED
  BY <1>1, <1>2, MatchStep, PTL DEF Spec
-----------------------------------------------------------------------------
(* The links without a target.                                             *)

\* A link that findLinkMatch found no target for.
Unresolved(l, O) ==
  /\ l.target = 0 /\ l.href \notin External
  /\ [source |-> l.source, href |-> l.href] \notin O

\* An unresolved link may match the note that is being added, up to
\* fixExistingLinks.
PendingInv ==
  \A l \in links, n \in notes :
    Unresolved(l, orphans) /\ LinkMatchesPath(l.href, n.path) =>
      op # None /\ op.kind = "add" /\ stage \in {"links", "fix"} /\ n.path = op.path

NonePending(T) ==
  \A l \in T.links, n \in T.notes :
    Unresolved(l, T.orphans) => ~LinkMatchesPath(l.href, n.path)

UInv ==
  /\ RInv /\ PendingInv /\ NonePending(saved)
  /\ stage = "fix" => op.kind = "add"
  /\ tx = "none" => op = None

(* A failing operation leaves no link pending, if it fails on its first    *)
(* statement or is rolled back.                                            *)
LEMMA FailPending ==
  ASSUME UInv, Fail, stage = "note" \/ tx = "single"
  PROVE  PendingInv'
<1>1. CASE tx = "single"
  BY <1>1 DEF UInv, Fail, Restore, NonePending, PendingInv, Unresolved
<1>2. CASE tx # "single"
  BY <1>2 DEF UInv, Fail, PendingInv, Unresolved, tables
<1>3. QED
  BY <1>1, <1>2

(* fixExistingLinks resolves every pending link.                           *)
LEMMA FixPending ==
  ASSUME SwallowErrors = FALSE, UInv, FixExistingLinks
  PROVE  PendingInv'
<1>1. PICK id \in OpIds :
        /\ links' = Retarget(Fixable(op.path), id)
        /\ orphans' = orphans \ {[source |-> l.source, href |-> l.href] : l \in Fixable(op.path)}
  BY DEF FixExistingLinks
<1>2. notes' = notes
  BY DEF FixExistingLinks
<1>3. id # 0 /\ 0 \notin Ids
  <2>1. 0 \notin Ids
    BY ZeroIsNoId DEF UInv, RInv, TInv
  <2>2. id \in Ids
    BY DEF OpIds, IdsAt, Ids
  <2>3. QED
    BY <2>1, <2>2
<1>4. \A l \in Fixable(op.path) : [l EXCEPT !.target = id].target = id
  BY DEF Fixable, UInv, RInv, TInv, TypeOK, LinkRow
<1>5. ASSUME NEW k \in links', NEW n \in notes, Unresolved(k, orphans'),
             LinkMatchesPath(k.href, n.path)
      PROVE  FALSE
  <2>1. k \in links \ Fixable(op.path) /\ k.target = 0
    <3>1. k.target = 0
      BY <1>5 DEF Unresolved
    <3>2. k \notin {[l EXCEPT !.target = id] : l \in Fixable(op.path)}
      BY <1>3, <1>4, <3>1
    <3>3. QED
      BY <1>1, <3>1, <3>2 DEF Retarget
  <2>2. k.source \in Ids /\ k.href \notin External
    BY <1>5, <2>1 DEF UInv, RInv, TableInv, Unresolved
  <2>3. ~LinkMatchesPath(k.href, op.path)
    BY <1>3, <2>1, <2>2 DEF Fixable
  <2>4. [source |-> k.source, href |-> k.href]
          \notin {[source |-> l.source, href |-> l.href] : l \in Fixable(op.path)}
    BY <2>3 DEF Fixable
  <2>5. Unresolved(k, orphans)
    BY <1>1, <1>5, <2>4 DEF Unresolved
  <2>6. n.path = op.path
    BY <1>5, <2>1, <2>5 DEF UInv, PendingInv
  <2>7. QED
    BY <1>5, <2>3, <2>6
<1>6. QED
  BY <1>2, <1>5 DEF PendingInv

\* The links that lose their target with a note become orphans.
LEMMA RemoveNotePending ==
  ASSUME UInv, RemoveNote
  PROVE  PendingInv'
<1>1. CASE OpIds = {}
  BY <1>1, FailPending DEF RemoveNote, At
<1>2. CASE OpIds # {}
  <2>1. /\ links' = {[l EXCEPT !.target = IF l.target \in OpIds THEN 0 ELSE l.target] :
                       l \in {k \in links : k.source \notin OpIds}}
        /\ orphans' = {o \in orphans : o.source \notin OpIds} \cup
             {[source |-> l.source, href |-> l.href] :
                l \in {k \in links : k.target \in OpIds /\ k.source \notin OpIds}}
        /\ notes' \subseteq notes
    BY <1>2 DEF RemoveNote, UInv, RInv
  <2>2. stage = "note"
    BY DEF RemoveNote, At
  <2>3. ASSUME NEW k \in links', NEW n \in notes', Unresolved(k, orphans')
        PROVE  ~LinkMatchesPath(k.href, n.path)
    <3>1. PICK l \in links :
            /\ l.source \notin OpIds
            /\ k = [l EXCEPT !.target = IF l.target \in OpIds THEN 0 ELSE l.target]
      BY <2>1
    <3>2. /\ k.source = l.source /\ k.href = l.href
          /\ k.target = IF l.target \in OpIds THEN 0 ELSE l.target
      BY <3>1 DEF UInv, RInv, TInv, TypeOK, LinkRow
    <3>3. l.target \notin OpIds
      BY <2>1, <2>3, <3>1, <3>2 DEF Unresolved
    <3>4. Unresolved(l, orphans)
      BY <2>1, <2>3, <3>1, <3>2, <3>3 DEF Unresolved
    <3>5. QED
      BY <2>1, <2>2, <3>2, <3>4 DEF UInv, PendingInv
  <2>4. QED
    BY <2>3 DEF PendingInv
<1>3. QED
  BY <1>1, <1>2

\* Every step keeps account of the links that are still to resolve.
LEMMA PendingStep ==
  ASSUME ForeignKeys = {"on"}, SwallowErrors = FALSE
  PROVE  UInv /\ [Next]_vars => UInv'
<1> SUFFICES ASSUME UInv, [Next]_vars PROVE UInv'
  OBVIOUS
<1>1. RInv'
  BY IntegrityStep DEF UInv
<1>2. PendingInv'
  <2>1. CASE BeginBatch \/ Commit \/ UNCHANGED vars
    BY <2>1 DEF BeginBatch, Commit, vars, tables, UInv, PendingInv, Unresolved
  <2>2. CASE AddSingle \/ OperationOfBatch
    <3>1. op = None
      BY <2>2 DEF AddSingle, OperationOfBatch, UInv
    <3>2. QED
      BY <2>2, <3>1 DEF AddSingle, OperationOfBatch, StartOperation, tables, UInv,
         PendingInv, Unresolved
  <2>3. CASE InsertNote
    <3>1. CASE OpIds # {}
      BY <2>3, <3>1, FailPending DEF InsertNote, At
    <3>2. CASE OpIds = {}
      <4>1. /\ op # None /\ op.kind = "add" /\ stage = "note"
            /\ op' = op /\ stage' = "links" /\ links' = links /\ orphans' = orphans
            /\ notes' = notes \cup {[id |-> nextId, path |-> op.path]}
        BY <2>3, <3>2 DEF InsertNote, At, Continue
      <4>2. \A n \in notes' : n \in notes \/ n.path = op.path
        BY <4>1, SMT
      <4>3. \A l \in links, n \in notes : Unresolved(l, orphans) => ~LinkMatchesPath(l.href, n.path)
        BY <4>1 DEF UInv, PendingInv
      <4>4. QED
        BY <4>1, <4>2, <4>3 DEF PendingInv, Unresolved
    <3>3. QED
      BY <3>1, <3>2
  <2>4. CASE UpdateNote
    BY ZenonT(30), <2>4, FailPending DEF UpdateNote, At, Continue, tables, UInv, PendingInv, Unresolved
  <2>5. CASE RemoveLinks
    BY <2>5 DEF RemoveLinks, At, Continue, UInv, PendingInv, Unresolved
  <2>6. CASE AddLinks
    <3>1. op.content.hrefs \subseteq Href /\ 0 \notin Ids
      BY ZenonT(30), <2>6, OperationType, ZeroIsNoId DEF AddLinks, At, UInv, RInv, TInv, TypeOK, OpInv
    <3>2. PICK id \in OpIds, target \in [op.content.hrefs -> Ids \cup {0}] :
            /\ \A h \in op.content.hrefs : target[h] \in FindLinkMatch(h)
            /\ links' = links \cup {[source |-> id, target |-> target[h], href |-> h] :
                                     h \in op.content.hrefs}
      BY <2>6 DEF AddLinks, InsertLinks
    <3>3. ASSUME NEW h \in op.content.hrefs, target[h] = 0, h \notin External
          PROVE  \A n \in notes : ~LinkMatchesPath(h, n.path)
      BY <3>1, <3>2, <3>3, FindLinkMatchSound
    <3>4. /\ notes' = notes /\ orphans' = orphans /\ op' = op
          /\ op.kind = "add" => stage' = "fix"
      BY <2>6 DEF AddLinks, Continue
    <3>5. ASSUME NEW l \in links', l \notin links, NEW n \in notes, Unresolved(l, orphans')
          PROVE  ~LinkMatchesPath(l.href, n.path)
      <4>1. PICK h \in op.content.hrefs : l = [source |-> id, target |-> target[h], href |-> h]
        BY <3>2, <3>5
      <4>2. l.href = h /\ target[h] = 0 /\ h \notin External
        BY <3>5, <4>1 DEF Unresolved
      <4>3. QED
        BY <3>3, <4>2
    <3>6. ASSUME NEW l \in links, NEW n \in notes, Unresolved(l, orphans),
                 LinkMatchesPath(l.href, n.path)
          PROVE  op # None /\ op.kind = "add" /\ n.path = op.path
      BY <3>6 DEF UInv, PendingInv
    <3>7. QED
      BY <3>4, <3>5, <3>6 DEF PendingInv, Unresolved
  <2>7. CASE FixExistingLinks
    BY <2>7, FixPending
  <2>8. CASE RemoveAssociations \/ AssociateTags
    BY <2>8 DEF RemoveAssociations, AssociateTags, At, Continue, Done, UInv, PendingInv,
       Unresolved
  <2>9. CASE RemoveNote
    BY <2>9, RemoveNotePending
  <2>10. CASE StatementFails
    <3>1. tx = "single"
      BY <2>10 DEF StatementFails, MayFail
    <3>2. QED
      BY <2>10, <3>1, FailPending DEF StatementFails
  <2>11. CASE Rollback
    BY <2>11 DEF Rollback, Restore, NonePending, PendingInv, Unresolved, UInv
  <2>12. QED
    BY ZenonT(30), <2>1, <2>2, <2>3, <2>4, <2>5, <2>6, <2>7, <2>8, <2>9, <2>10, <2>11 DEF Next
<1>3. NonePending(saved)'
  <2>1. CASE Commit
    BY <2>1 DEF Commit, UInv, PendingInv, NonePending, Unresolved, Tables
  <2>2. CASE ~Commit
    <3>1. saved' = saved
      BY <2>2 DEF Next, BeginBatch, AddSingle, OperationOfBatch, StartOperation,
         InsertNote, UpdateNote, RemoveLinks, AddLinks, FixExistingLinks,
         RemoveAssociations, AssociateTags, RemoveNote, StatementFails, Rollback,
         Continue, Done, Fail, vars
    <3>2. QED
      BY <3>1 DEF UInv, NonePending, Unresolved
  <2>3. QED
    BY <2>1, <2>2
<1>4. ((stage = "fix" => op.kind = "add") /\ (tx = "none" => op = None))'
  BY DEF UInv, Next, BeginBatch, AddSingle, OperationOfBatch, StartOperation,
     InsertNote, UpdateNote, RemoveLinks, AddLinks, FixExistingLinks,
     RemoveAssociations, AssociateTags, RemoveNote, StatementFails, Commit, Rollback,
     Continue, Done, Fail, vars
<1>5. QED
  BY <1>1, <1>2, <1>3, <1>4 DEF UInv

(* Between operations, a link without a target matches no note, unless its *)
(* target was removed: findLinkMatch and fixExistingLinks together resolve *)
(* each link in whatever order the two notes are added.                    *)
THEOREM UnresolvedTheorem ==
  ASSUME ForeignKeys = {"on"}, SwallowErrors = FALSE
  PROVE  Spec => []UnresolvedMeansNoMatch
<1>1. Init => UInv
  <2> SUFFICES ASSUME Init PROVE UInv
    OBVIOUS
  <2>1. RInv
    BY IntegrityInit
  <2>2. QED
    BY <2>1 DEF Init, Tables, UInv, PendingInv, NonePending
<1>2. UInv => UnresolvedMeansNoMatch
  BY DEF UInv, PendingInv, Unresolved, UnresolvedMeansNoMatch
<1>3. QED
  BY <1>1, <1>2, PendingStep, PTL DEF Spec
-----------------------------------------------------------------------------
(* The contract: how far an operation is.                                  *)

\* The note at path p as the tables have it.
HrefsAt(p) == {l.href : l \in {k \in links : k.source \in IdsAt({p})}}
TagsAt(p) == {a.tag : a \in {b \in assocs : b.note \in IdsAt({p})}}
NoteAt(p) == IF IdsAt({p}) = {} THEN None
             ELSE [hrefs |-> HrefsAt(p), tags |-> TagsAt(p)]

\* What an operation on path p has done so far to it: the statements before the
\* next one.
Own(p) ==
  /\ stage = "note" => before[p] = NoteAt(p)
  /\ stage # "note" => IdsAt({p}) # {} /\ (before[p] = None <=> op.kind = "add")
  /\ stage = "links" => HrefsAt(p) = {}
  /\ stage \in {"fix", "untag", "tags"} => HrefsAt(p) = op.content.hrefs
  /\ stage = "links" /\ op.kind = "add" => TagsAt(p) = {}
  /\ stage \in {"fix", "tags"} => TagsAt(p) = {}
  /\ stage = "unlink" => op.kind = "update"

\* Nothing has been done to any other path.
Progress ==
  /\ before = [p \in Path |-> before[p]]
  /\ \A p \in Path : IF p = op.path THEN Own(p) ELSE before[p] = NoteAt(p)

CInv == op # None => Progress

\* Operations run in transactions.
InTransaction == tx = "none" => op = None
-----------------------------------------------------------------------------
(* The tables as a map.                                                    *)

\* NotesOf(Tables), path by path, before and after a step.
LEMMA NotesOfTables ==
  /\ NotesOf(Tables) = [p \in Path |-> NoteAt(p)]
  /\ NotesOf(Tables)' = [p \in Path |-> NoteAt(p)']
BY SMT DEF NotesOf, Tables, NoteAt, HrefsAt, TagsAt, IdsAt

\* A path whose rows do not change keeps its note.
LEMMA SameRows ==
  ASSUME NEW p, IdsAt({p})' = IdsAt({p}), HrefsAt(p)' = HrefsAt(p), TagsAt(p)' = TagsAt(p)
  PROVE  NoteAt(p)' = NoteAt(p)
BY DEF NoteAt

\* A note is not the absence of one.
LEMMA NoteIsNotNone ==
  ASSUME RInv, NEW p, IdsAt({p}) # {}
  PROVE  NoteAt(p) # None
<1>1. HrefsAt(p) \in SUBSET Href /\ TagsAt(p) \in SUBSET Tag
  BY SMT DEF HrefsAt, TagsAt, RInv, TInv, TypeOK, LinkRow
<1>2. [hrefs |-> HrefsAt(p), tags |-> TagsAt(p)] \in [hrefs : SUBSET Href, tags : SUBSET Tag]
  BY <1>1
<1>3. None \notin [hrefs : SUBSET Href, tags : SUBSET Tag]
  BY NoteIndexAssumption
<1>4. QED
  BY <1>2, <1>3 DEF NoteAt

\* Two paths have no id in common.
LEMMA OtherIds ==
  ASSUME RInv, NEW p, NEW q, p # q
  PROVE  IdsAt({p}) \cap IdsAt({q}) = {}
BY DEF RInv, TableInv, IdsAt

\* A path whose notes, links and tags do not change keeps its note.
LEMMA SameNote ==
  ASSUME NEW p, UNCHANGED notes,
         {l \in links' : l.source \in IdsAt({p})} = {l \in links : l.source \in IdsAt({p})},
         {a \in assocs' : a.note \in IdsAt({p})} = {a \in assocs : a.note \in IdsAt({p})}
  PROVE  NoteAt(p)' = NoteAt(p)
<1>1. IdsAt({p})' = IdsAt({p})
  BY DEF IdsAt
<1>2. HrefsAt(p)' = HrefsAt(p)
  BY <1>1 DEF HrefsAt
<1>3. TagsAt(p)' = TagsAt(p)
  BY <1>1 DEF TagsAt
<1>4. QED
  BY <1>1, <1>2, <1>3, SameRows
-----------------------------------------------------------------------------
(* What each statement does to the progress of its operation.              *)

\* The operation starts with the tables as they are.
LEMMA StartProgress ==
  ASSUME NEW o \in Operation, StartOperation(o)
  PROVE  CInv'
<1>1. \A p : NoteAt(p)' = NoteAt(p)
  BY DEF StartOperation, tables, NoteAt, HrefsAt, TagsAt, IdsAt
<1>2. before' = [p \in Path |-> NoteAt(p)] /\ op' = o /\ stage' = "note"
  BY NotesOfTables DEF StartOperation
<1>3. o.path \in Path
  BY DEF Operation
<1>4. QED
  BY <1>1, <1>2, <1>3 DEF CInv, Progress, Own

\* INSERT INTO notes: a note without links and tags.
LEMMA InsertProgress ==
  ASSUME RInv, CInv, InsertNote
  PROVE  CInv'
<1>1. CASE OpIds # {}
  BY <1>1 DEF InsertNote, Fail, CInv
<1>2. CASE OpIds = {}
  <2>1. /\ notes' = notes \cup {[id |-> nextId, path |-> op.path]}
        /\ op' = op /\ before' = before /\ stage' = "links" /\ links' = links /\ assocs' = assocs
        /\ op # None /\ stage = "note" /\ op.kind = "add"
    BY <1>2 DEF InsertNote, At, Continue
  <2>2. nextId \notin Ids
    BY SMT DEF RInv, TInv, TypeOK, TableInv, Ids
  <2>3. ASSUME NEW p \in Path, p # op.path PROVE NoteAt(p)' = NoteAt(p)
    <3>1. {m \in notes' : m.path \in {p}} = {m \in notes : m.path \in {p}}
      BY <2>1, <2>3, SMT
    <3>2. IdsAt({p})' = IdsAt({p})
      BY <3>1 DEF IdsAt
    <3>3. HrefsAt(p)' = HrefsAt(p) /\ TagsAt(p)' = TagsAt(p)
      BY <2>1, <3>2 DEF HrefsAt, TagsAt
    <3>4. QED
      BY <3>2, <3>3, SameRows
  <2>4. ASSUME NEW p \in Path, p = op.path PROVE Own(p)'
    <3>1. IdsAt({p}) = {}
      BY <1>2, <2>4 DEF OpIds
    <3>2. \A n \in notes : n.path # p
      BY <3>1 DEF IdsAt
    <3>3. {m \in notes' : m.path \in {p}} = {[id |-> nextId, path |-> p]}
      BY <2>1, <2>4, <3>2, SMT
    <3>4. {n.id : n \in {[id |-> nextId, path |-> p]}} = {nextId}
      BY SMT
    <3>5. IdsAt({p})' = {nextId}
      BY <3>3, <3>4 DEF IdsAt
    <3>6. HrefsAt(p)' = {} /\ TagsAt(p)' = {}
      BY <2>1, <2>2, <3>5 DEF HrefsAt, TagsAt, RInv, TableInv
    <3>7. before[p] = None
      BY <2>1, <2>4, <3>1 DEF CInv, Progress, Own, NoteAt
    <3>8. QED
      BY <2>1, <3>5, <3>6, <3>7 DEF Own
  <2>5. QED
    BY <2>1, <2>3, <2>4 DEF CInv, Progress
<1>3. QED
  BY <1>1, <1>2

\* UPDATE notes: the note is there.
LEMMA UpdateProgress ==
  ASSUME RInv, CInv, UpdateNote
  PROVE  CInv'
<1>1. CASE OpIds = {}
  BY <1>1 DEF UpdateNote, Fail, CInv
<1>2. CASE OpIds # {}
  <2>1. /\ UNCHANGED <<tables, op, before>> /\ stage' = "unlink"
        /\ op # None /\ stage = "note" /\ op.kind = "update"
    BY <1>2 DEF UpdateNote, At, Continue
  <2>2. ASSUME NEW p PROVE NoteAt(p)' = NoteAt(p) /\ IdsAt({p})' = IdsAt({p})
    BY <2>1 DEF tables, NoteAt, HrefsAt, TagsAt, IdsAt
  <2>3. ASSUME NEW p \in Path, p = op.path PROVE Own(p)'
    <3>1. IdsAt({p}) # {}
      BY <1>2, <2>3 DEF OpIds
    <3>2. before[p] # None
      BY <2>1, <2>3, <3>1, NoteIsNotNone DEF CInv, Progress, Own
    <3>3. QED
      BY <2>1, <2>2, <3>1, <3>2 DEF Own
  <2>4. QED
    BY <2>1, <2>2, <2>3 DEF CInv, Progress
<1>3. QED
  BY <1>1, <1>2

\* DELETE FROM links: the note has no link left.
LEMMA UnlinkProgress ==
  ASSUME RInv, CInv, RemoveLinks
  PROVE  CInv'
<1>1. /\ links' = {l \in links : l.source \notin OpIds} /\ UNCHANGED <<notes, assocs, op, before>>
      /\ stage' = "links" /\ op # None /\ stage = "unlink"
  BY DEF RemoveLinks, At, Continue
<1>2. ASSUME NEW p PROVE IdsAt({p})' = IdsAt({p})
  BY <1>1 DEF IdsAt
<1>3. ASSUME NEW p \in Path, p # op.path PROVE NoteAt(p)' = NoteAt(p)
  BY <1>1, <1>3, OtherIds, SameNote DEF OpIds
<1>4. ASSUME NEW p \in Path, p = op.path PROVE Own(p)'
  <2>1. HrefsAt(p)' = {}
    BY <1>1, <1>2, <1>4 DEF HrefsAt, OpIds
  <2>2. QED
    BY <1>1, <1>2, <1>4, <2>1 DEF CInv, Progress, Own
<1>5. QED
  BY <1>1, <1>3, <1>4 DEF CInv, Progress

\* INSERT INTO links: the note has the links of its content.
LEMMA LinkProgress ==
  ASSUME RInv, CInv, AddLinks
  PROVE  CInv'
<1>1. /\ UNCHANGED <<notes, assocs, op, before>> /\ op # None /\ stage = "links"
      /\ stage' = IF op.kind = "add" THEN "fix" ELSE "untag"
  BY DEF AddLinks, At, Continue
<1>2. PICK id \in OpIds, target \in [op.content.hrefs -> Ids \cup {0}] :
        links' = links \cup {[source |-> id, target |-> target[h], href |-> h] : h \in op.content.hrefs}
  BY DEF AddLinks, InsertLinks
<1>3. ASSUME NEW p PROVE IdsAt({p})' = IdsAt({p})
  BY <1>1 DEF IdsAt
<1>4. ASSUME NEW p \in Path, p # op.path PROVE NoteAt(p)' = NoteAt(p)
  <2>1. id \notin IdsAt({p})
    BY <1>4, OtherIds DEF OpIds
  <2>2. {l \in links' : l.source \in IdsAt({p})} = {l \in links : l.source \in IdsAt({p})}
    BY <1>2, <2>1, SMT
  <2>3. QED
    BY <1>1, <2>2, SameNote
<1>5. ASSUME NEW p \in Path, p = op.path PROVE Own(p)'
  <2>1. id \in IdsAt({p}) /\ HrefsAt(p) = {}
    BY <1>1, <1>5 DEF OpIds, CInv, Progress, Own
  <2>2. HrefsAt(p)' = {l.href : l \in {k \in links' : k.source \in IdsAt({p})}}
    BY <1>1 DEF HrefsAt, IdsAt
  <2> DEFINE row(h) == [source |-> id, target |-> target[h], href |-> h]
  <2>3. \A l \in links : l.source \notin IdsAt({p})
    BY <2>1 DEF HrefsAt
  <2>4. links' = links \cup {row(h) : h \in op.content.hrefs}
    BY <1>2
  <2>5. \A h : row(h).source = id /\ row(h).href = h
    OBVIOUS
  <2> HIDE DEF row
  <2>6. {k \in links' : k.source \in IdsAt({p})} = {row(h) : h \in op.content.hrefs}
    <3> DEFINE new == {row(h) : h \in op.content.hrefs}
    <3>1. \A k \in new : k.source \in IdsAt({p})
      BY <2>1, <2>5
    <3>2. links' = links \cup new
      BY <2>4
    <3> HIDE DEF new
    <3>3. {k \in links' : k.source \in IdsAt({p})} = new
      BY <2>3, <3>1, <3>2
    <3>4. QED
      BY <3>3 DEF new
  <2>7. {l.href : l \in {row(h) : h \in op.content.hrefs}} = op.content.hrefs
    BY <2>5, SMT
  <2>8. HrefsAt(p)' = op.content.hrefs
    BY <2>2, <2>6, <2>7
  <2>9. TagsAt(p)' = TagsAt(p)
    BY <1>1 DEF TagsAt, IdsAt
  <2>10. QED
    BY <1>1, <1>3, <1>5, <2>8, <2>9 DEF CInv, Progress, Own
<1>6. QED
  BY <1>1, <1>4, <1>5 DEF CInv, Progress

\* UPDATE links SET target_id: sources and hrefs stay.
LEMMA FixProgress ==
  ASSUME RInv, CInv, FixExistingLinks
  PROVE  CInv'
<1>1. /\ UNCHANGED <<notes, assocs, op, before>>
      /\ op # None /\ stage = "fix" /\ stage' = "tags"
  BY DEF FixExistingLinks, At, Continue
<1>2. PICK id \in OpIds, S \in SUBSET links : links' = Retarget(S, id)
  BY DEF FixExistingLinks, Fixable
<1> DEFINE moved(l) == [l EXCEPT !.target = id]
<1>3. \A l \in links : moved(l).source = l.source /\ moved(l).href = l.href
  BY DEF RInv, TInv, TypeOK, LinkRow
<1>4. links' = (links \ S) \cup {moved(l) : l \in S}
  BY <1>2 DEF Retarget
<1> HIDE DEF moved
<1>5. ASSUME NEW p PROVE HrefsAt(p)' = HrefsAt(p)
  <2>1. HrefsAt(p)' = {l.href : l \in {k \in links' : k.source \in IdsAt({p})}}
    BY <1>1 DEF HrefsAt, IdsAt
  <2>2. ASSUME NEW h \in HrefsAt(p)' PROVE h \in HrefsAt(p)
    <3>1. PICK k \in links' : k.source \in IdsAt({p}) /\ h = k.href
      BY <2>1
    <3>2. PICK l \in links : l.source = k.source /\ l.href = k.href
      BY <1>3, <1>4
    <3>3. QED
      BY <3>1, <3>2 DEF HrefsAt
  <2>3. ASSUME NEW h \in HrefsAt(p) PROVE h \in HrefsAt(p)'
    <3>1. PICK k \in links : k.source \in IdsAt({p}) /\ h = k.href
      BY DEF HrefsAt
    <3>2. PICK l \in links' : l.source = k.source /\ l.href = k.href
      BY <1>3, <1>4
    <3>3. QED
      BY <2>1, <3>1, <3>2
  <2>4. QED
    BY <2>2, <2>3
<1>6. ASSUME NEW p PROVE IdsAt({p})' = IdsAt({p}) /\ TagsAt(p)' = TagsAt(p)
  BY <1>1 DEF TagsAt, IdsAt
<1>7. ASSUME NEW p PROVE NoteAt(p)' = NoteAt(p)
  BY <1>5, <1>6, SameRows
<1>8. ASSUME NEW p \in Path, p = op.path PROVE Own(p)'
  BY <1>1, <1>5, <1>6, <1>8 DEF CInv, Progress, Own
<1>9. QED
  BY <1>1, <1>7, <1>8 DEF CInv, Progress

\* DELETE FROM notes_collections: the note has no tag left.
LEMMA UntagProgress ==
  ASSUME RInv, CInv, RemoveAssociations
  PROVE  CInv'
<1>1. /\ assocs' = {a \in assocs : a.note \notin OpIds} /\ UNCHANGED <<notes, links, op, before>>
      /\ stage' = "tags" /\ op # None /\ stage = "untag"
  BY DEF RemoveAssociations, At, Continue
<1>2. ASSUME NEW p PROVE IdsAt({p})' = IdsAt({p}) /\ HrefsAt(p)' = HrefsAt(p)
  BY <1>1 DEF IdsAt, HrefsAt
<1>3. ASSUME NEW p \in Path, p # op.path PROVE NoteAt(p)' = NoteAt(p)
  BY <1>1, <1>3, OtherIds, SameNote DEF OpIds
<1>4. ASSUME NEW p \in Path, p = op.path PROVE Own(p)'
  <2>1. TagsAt(p)' = {}
    BY <1>1, <1>2, <1>4 DEF TagsAt, OpIds
  <2>2. QED
    BY <1>1, <1>2, <1>4, <2>1 DEF CInv, Progress, Own
<1>5. QED
  BY <1>1, <1>3, <1>4 DEF CInv, Progress
-----------------------------------------------------------------------------
(* The statements that end an operation.                                   *)

\* INSERT INTO notes_collections: the note is the one that was asked for.
LEMMA TagsComplete ==
  ASSUME RInv, CInv, AssociateTags
  PROVE  NotesOf(Tables)' = [before EXCEPT ![op.path] = op.content]
<1>1. /\ UNCHANGED <<notes, links>> /\ op # None /\ stage = "tags"
      /\ assocs' = assocs \cup {[note |-> id, tag |-> t] : id \in OpIds, t \in op.content.tags}
  BY SMT DEF AssociateTags, InsertTags, At
<1>2. assocs \subseteq assocs' /\ \A a \in assocs' : a \in assocs \/ (a.note \in OpIds /\ a.tag \in op.content.tags)
  BY <1>1, SMT
<1>3. \A id \in OpIds, t \in op.content.tags : \E a \in assocs' : a.note = id /\ a.tag = t
  <2> TAKE id \in OpIds, t \in op.content.tags
  <2>1. [note |-> id, tag |-> t] \in assocs'
    BY <1>1, SMT
  <2>2. QED
    BY <2>1
<1>4. ASSUME NEW p \in Path, p # op.path PROVE NoteAt(p)' = before[p]
  <2>1. {a \in assocs' : a.note \in IdsAt({p})} = {a \in assocs : a.note \in IdsAt({p})}
    BY <1>2, <1>4, OtherIds DEF OpIds
  <2>2. NoteAt(p)' = NoteAt(p)
    BY <1>1, <2>1, SameNote
  <2>3. QED
    BY <1>1, <1>4, <2>2 DEF CInv, Progress
<1>5. ASSUME NEW p \in Path, p = op.path PROVE NoteAt(p)' = op.content
  <2>1. IdsAt({p}) # {} /\ HrefsAt(p) = op.content.hrefs /\ TagsAt(p) = {}
    BY <1>1, <1>5 DEF CInv, Progress, Own
  <2>2. IdsAt({p})' = IdsAt({p}) /\ HrefsAt(p)' = HrefsAt(p)
    BY <1>1 DEF IdsAt, HrefsAt
  <2>3. TagsAt(p)' = {a.tag : a \in {b \in assocs' : b.note \in IdsAt({p})}}
    BY <1>1 DEF TagsAt, IdsAt
  <2>4. \A a \in assocs : a.note \notin IdsAt({p})
    BY <2>1 DEF TagsAt
  <2>5. \A t : t \in TagsAt(p)' <=> t \in op.content.tags
    <3>1. \A t \in TagsAt(p)' : t \in op.content.tags
      BY <1>2, <2>3, <2>4
    <3>2. \A t \in op.content.tags : t \in TagsAt(p)'
      BY <1>3, <1>5, <2>1, <2>3, SMT DEF OpIds
    <3>3. QED
      BY <3>1, <3>2
  <2>6. TagsAt(p)' = op.content.tags
    BY <2>3, <2>5
  <2>7. NoteAt(p)' = [hrefs |-> op.content.hrefs, tags |-> op.content.tags]
    BY <2>1, <2>2, <2>6 DEF NoteAt
  <2>8. op.content \in [hrefs : SUBSET Href, tags : SUBSET Tag]
    BY <1>1, OperationType, NoteIndexAssumption DEF RInv, TInv, TypeOK, OpInv
  <2>9. QED
    BY <2>7, <2>8
<1>6. before = [p \in Path |-> before[p]]
  BY <1>1 DEF CInv, Progress
<1>7. QED
  BY <1>4, <1>5, <1>6, NotesOfTables

\* DELETE FROM notes: the note is gone, and the others are as they were.
LEMMA RemoveComplete ==
  ASSUME RInv, CInv, RemoveNote, OpIds # {}
  PROVE  NotesOf(Tables)' = [before EXCEPT ![op.path] = None]
<1> DEFINE cleared(l) == [l EXCEPT !.target = IF l.target \in OpIds THEN 0 ELSE l.target]
<1>1. /\ notes' = {n \in notes : n.path # op.path} /\ op # None /\ stage = "note"
      /\ links' = {cleared(l) : l \in {k \in links : k.source \notin OpIds}}
      /\ assocs' = {a \in assocs : a.note \notin OpIds}
  BY DEF RemoveNote, At, RInv
<1>2. \A l \in links : cleared(l).source = l.source /\ cleared(l).href = l.href
  BY DEF RInv, TInv, TypeOK, LinkRow
<1> HIDE DEF cleared
<1>3. ASSUME NEW p \in Path, p # op.path PROVE NoteAt(p)' = before[p]
  <2>1. IdsAt({p})' = IdsAt({p})
    <3>1. {m \in notes' : m.path \in {p}} = {m \in notes : m.path \in {p}}
      BY <1>1, <1>3
    <3>2. QED
      BY <3>1 DEF IdsAt
  <2>2. IdsAt({p}) \cap OpIds = {}
    BY <1>3, OtherIds DEF OpIds
  <2>3. HrefsAt(p)' = HrefsAt(p)
    <3>1. HrefsAt(p)' = {l.href : l \in {k \in links' : k.source \in IdsAt({p})}}
      BY <2>1 DEF HrefsAt
    <3>2. ASSUME NEW h \in HrefsAt(p)' PROVE h \in HrefsAt(p)
      <4>1. PICK k \in links' : k.source \in IdsAt({p}) /\ h = k.href
        BY <3>1
      <4>2. PICK l \in links : l.source = k.source /\ l.href = k.href
        BY <1>1, <1>2
      <4>3. QED
        BY <4>1, <4>2 DEF HrefsAt
    <3>3. ASSUME NEW h \in HrefsAt(p) PROVE h \in HrefsAt(p)'
      <4>1. PICK k \in links : k.source \in IdsAt({p}) /\ h = k.href
        BY DEF HrefsAt
      <4>2. cleared(k) \in links' /\ cleared(k).source = k.source /\ cleared(k).href = k.href
        BY <1>1, <1>2, <2>2, <4>1
      <4>3. QED
        BY <3>1, <4>1, <4>2
    <3>4. QED
      BY <3>2, <3>3
  <2>4. TagsAt(p)' = TagsAt(p)
    <3>1. {a \in assocs' : a.note \in IdsAt({p})} = {a \in assocs : a.note \in IdsAt({p})}
      BY <1>1, <2>2
    <3>2. QED
      BY <2>1, <3>1 DEF TagsAt
  <2>5. QED
    BY <1>1, <1>3, <2>1, <2>3, <2>4, SameRows DEF CInv, Progress
<1>4. ASSUME NEW p \in Path, p = op.path PROVE NoteAt(p)' = None
  <2>1. IdsAt({p})' = {}
    BY <1>1, <1>4 DEF IdsAt
  <2>2. QED
    BY <2>1 DEF NoteAt
<1>5. before = [p \in Path |-> before[p]]
  BY <1>1 DEF CInv, Progress
<1>6. QED
  BY <1>3, <1>4, <1>5, NotesOfTables
-----------------------------------------------------------------------------
(* The refinement.                                                         *)

\* The map that the operations of the contract change.
Working == IF op = None THEN NotesOf(Tables) ELSE before

\* Steps that leave an operation alone keep its progress.
LEMMA UnchangedProgress ==
  ASSUME CInv, UNCHANGED <<tables, op, stage, before>>
  PROVE  CInv'
<1>1. ASSUME NEW p PROVE /\ NoteAt(p)' = NoteAt(p) /\ IdsAt({p})' = IdsAt({p})
                         /\ HrefsAt(p)' = HrefsAt(p) /\ TagsAt(p)' = TagsAt(p)
  BY DEF tables, NoteAt, HrefsAt, TagsAt, IdsAt
<1>2. QED
  BY <1>1 DEF CInv, Progress, Own

\* The progress of the operations is an invariant.
LEMMA ProgressStep ==
  ASSUME SwallowErrors = FALSE
  PROVE  RInv /\ CInv /\ [Next]_vars => CInv'
<1> SUFFICES ASSUME RInv, CInv, [Next]_vars PROVE CInv'
  OBVIOUS
<1>1. CASE BeginBatch \/ Commit \/ UNCHANGED vars
  BY <1>1, UnchangedProgress DEF BeginBatch, Commit, vars, CInv
<1>2. CASE AddSingle \/ OperationOfBatch
  BY <1>2, StartProgress DEF AddSingle, OperationOfBatch, CInv
<1>3. CASE AssociateTags \/ RemoveNote \/ StatementFails \/ Rollback
  BY <1>3 DEF AssociateTags, RemoveNote, StatementFails, Rollback, Fail, Done, CInv
<1>4. CASE InsertNote
  BY <1>4, InsertProgress
<1>5. CASE UpdateNote
  BY <1>5, UpdateProgress
<1>6. CASE RemoveLinks
  BY <1>6, UnlinkProgress
<1>7. CASE AddLinks
  BY <1>7, LinkProgress
<1>8. CASE FixExistingLinks
  BY <1>8, FixProgress
<1>9. CASE RemoveAssociations
  BY <1>9, UntagProgress
<1>10. QED
  BY <1>1, <1>2, <1>3, <1>4, <1>5, <1>6, <1>7, <1>8, <1>9 DEF Next

\* Operations run in transactions, at every step.
LEMMA TransactionStep == TInv /\ InTransaction /\ [Next]_vars => InTransaction'
BY DEF TInv, TypeOK, InTransaction, Next, BeginBatch, AddSingle, OperationOfBatch, StartOperation,
   InsertNote, UpdateNote, RemoveLinks, AddLinks, FixExistingLinks, RemoveAssociations,
   AssociateTags, RemoveNote, StatementFails, Commit, Rollback, Continue, Done, Fail, At, vars

\* A failing operation rolls its transaction back, or has done nothing yet.
LEMMA FailRefines ==
  ASSUME RInv, CInv, op # None, Fail, tx = "single" \/ stage = "note"
  PROVE  Contract!Rollback \/ UNCHANGED <<NotesOf(saved), Working>>
<1>1. op' = None /\ saved' = saved /\ Working = before
  BY DEF Fail, Working
<1>2. NotesOf(saved)' = NotesOf(saved)
  BY <1>1 DEF NotesOf
<1>3. CASE tx = "single"
  <2>1. Restore(saved)
    BY <1>3 DEF Fail
  <2>2. NotesOf(Tables)' = NotesOf(saved)
    BY <2>1 DEF Restore, NotesOf, Tables
  <2>3. QED
    BY <1>1, <1>2, <2>2 DEF Contract!Rollback
<1>4. CASE tx # "single"
  <2>1. UNCHANGED tables /\ stage = "note"
    BY <1>4 DEF Fail
  <2>2. NotesOf(Tables)' = NotesOf(Tables)
    BY <2>1 DEF NotesOf, Tables, tables
  <2>3. op.path \in Path
    BY OperationType DEF RInv, TInv, TypeOK
  <2>4. before = [p \in Path |-> NoteAt(p)]
    BY <2>1, <2>3 DEF CInv, Progress, Own
  <2>5. QED
    BY <1>1, <1>2, <2>2, <2>4, NotesOfTables DEF Working
<1>5. QED
  BY <1>3, <1>4

\* The statements of an operation but the last do nothing in the contract.
LEMMA MiddleRefines ==
  ASSUME op # None, UNCHANGED <<op, before, saved>>
  PROVE  UNCHANGED <<NotesOf(saved), Working>>
BY DEF Working, NotesOf

\* The last statement of an Add or of an Update is the operation.
LEMMA TagsRefines ==
  ASSUME RInv, CInv, AssociateTags
  PROVE  Contract!Next
<1>1. op # None /\ op' = None /\ stage = "tags" /\ saved' = saved
  BY DEF AssociateTags, At, Done
<1>2. op.path \in Path /\ op.content \in Content
  BY <1>1, OperationType DEF RInv, TInv, TypeOK, OpInv
<1>3. NotesOf(saved)' = NotesOf(saved)
  BY <1>1 DEF NotesOf
<1>4. NotesOf(Tables)' = [before EXCEPT ![op.path] = op.content]
  BY TagsComplete
<1>5. CASE op.kind = "add"
  <2>1. before[op.path] = None
    BY <1>1, <1>2, <1>5 DEF CInv, Progress, Own
  <2>2. Contract!Add(op.path, op.content)
    BY <1>1, <1>3, <1>4, <2>1 DEF Contract!Add
  <2>3. QED
    BY <1>2, <2>2 DEF Contract!Next
<1>6. CASE op.kind # "add"
  <2>1. before[op.path] # None
    BY <1>1, <1>2, <1>6 DEF CInv, Progress, Own
  <2>2. Contract!Update(op.path, op.content)
    BY <1>1, <1>3, <1>4, <2>1 DEF Contract!Update
  <2>3. QED
    BY <1>2, <2>2 DEF Contract!Next
<1>7. QED
  BY <1>5, <1>6

\* DELETE FROM notes is the removal.
LEMMA RemoveRefines ==
  ASSUME RInv, CInv, RemoveNote, OpIds # {}
  PROVE  Contract!Next
<1>1. op # None /\ op' = None /\ stage = "note" /\ saved' = saved
  BY DEF RemoveNote, At, Done
<1>2. op.path \in Path
  BY <1>1, OperationType DEF RInv, TInv, TypeOK
<1>3. NotesOf(saved)' = NotesOf(saved)
  BY <1>1 DEF NotesOf
<1>4. before[op.path] # None
  BY <1>1, <1>2, NoteIsNotNone DEF CInv, Progress, Own, OpIds
<1>5. Contract!Remove(op.path)
  BY <1>1, <1>3, <1>4, RemoveComplete DEF Contract!Remove
<1>6. QED
  BY <1>2, <1>5 DEF Contract!Next

\* Every step of the statements is a step of the contract or changes nothing in it.
LEMMA RefinementStep ==
  ASSUME SwallowErrors = FALSE
  PROVE  RInv /\ CInv /\ InTransaction /\ [Next]_vars
           => [Contract!Next]_<<NotesOf(saved), Working>>
<1> SUFFICES ASSUME RInv, CInv, InTransaction, [Next]_vars
             PROVE  Contract!Next \/ UNCHANGED <<NotesOf(saved), Working>>
  OBVIOUS
<1>1. CASE BeginBatch \/ UNCHANGED vars
  BY ZenonT(30), <1>1 DEF BeginBatch, vars, tables, Working, NotesOf, Tables
<1>2. CASE AddSingle \/ OperationOfBatch
  <2>1. op = None /\ saved' = saved /\ before' = NotesOf(Tables)
    BY <1>2 DEF AddSingle, OperationOfBatch, StartOperation, InTransaction
  <2>2. op' # None
    BY <1>2, NoteIndexAssumption DEF AddSingle, OperationOfBatch, StartOperation
  <2>3. QED
    BY <2>1, <2>2 DEF Working, NotesOf
<1>3. CASE InsertNote \/ UpdateNote \/ (RemoveNote /\ OpIds = {})
  <2>1. op # None /\ stage = "note" /\ (Fail \/ UNCHANGED <<op, before, saved>>)
    BY <1>3 DEF InsertNote, UpdateNote, RemoveNote, At, Continue
  <2>2. QED
    BY <2>1, FailRefines, MiddleRefines DEF Contract!Next
<1>4. CASE RemoveLinks \/ AddLinks \/ FixExistingLinks \/ RemoveAssociations
  <2>1. op # None /\ UNCHANGED <<op, before, saved>>
    BY <1>4 DEF RemoveLinks, AddLinks, FixExistingLinks, RemoveAssociations, At, Continue
  <2>2. QED
    BY <2>1, MiddleRefines
<1>5. CASE AssociateTags
  BY <1>5, TagsRefines
<1>6. CASE RemoveNote /\ OpIds # {}
  BY <1>6, RemoveRefines
<1>7. CASE StatementFails
  <2>1. op # None /\ tx = "single" /\ Fail
    BY <1>7 DEF StatementFails, MayFail
  <2>2. QED
    BY <2>1, FailRefines DEF Contract!Next
<1>8. CASE Commit
  <2>1. op = None /\ op' = None /\ saved' = Tables /\ UNCHANGED <<tables, orphans>>
    BY <1>8 DEF Commit
  <2>2. NotesOf(saved)' = NotesOf(Tables) /\ NotesOf(Tables)' = NotesOf(Tables)
    BY ZenonT(30), <2>1 DEF NotesOf, Tables, tables
  <2>3. Contract!Commit
    BY <2>1, <2>2 DEF Contract!Commit
  <2>4. QED
    BY <2>3 DEF Contract!Next
<1>9. CASE Rollback
  <2>1. op' = None /\ saved' = saved /\ Restore(saved)
    BY <1>9 DEF Rollback
  <2>2. NotesOf(Tables)' = NotesOf(saved) /\ NotesOf(saved)' = NotesOf(saved)
    BY <2>1 DEF Restore, NotesOf, Tables
  <2>3. Contract!Rollback
    BY <2>1, <2>2 DEF Contract!Rollback
  <2>4. QED
    BY <2>3 DEF Contract!Next
<1>10. QED
  BY <1>1, <1>2, <1>3, <1>4, <1>5, <1>6, <1>7, <1>8, <1>9 DEF Next

\* The empty database is the empty map.
LEMMA RefinementInit == Init => CInv /\ InTransaction /\ Contract!Init
<1> SUFFICES ASSUME Init PROVE CInv /\ InTransaction /\ Contract!Init
  OBVIOUS
<1>1. NotesOf(Tables) = [p \in Path |-> None]
  BY DEF Init, NotesOf, Tables
<1>2. QED
  BY <1>1 DEF Init, CInv, InTransaction, Contract!Init

(* Add, Update and Remove, for all their statements, take effect at once   *)
(* on their own path or not at all, and transactions take effect as a      *)
(* whole: NoteIndex implements the contract of core.NoteIndex when foreign *)
(* keys are enforced and no error of a statement is dropped.               *)
THEOREM ImplementsContractTheorem ==
  ASSUME ForeignKeys = {"on"}, SwallowErrors = FALSE
  PROVE  Spec => ImplementsContract
<1>1. RInv /\ CInv /\ InTransaction /\ [Next]_vars => (RInv /\ CInv /\ InTransaction)'
  BY IntegrityStep, ProgressStep, TransactionStep DEF RInv
<1>2. Init => RInv /\ CInv /\ InTransaction /\ Contract!Init
  BY IntegrityInit, RefinementInit
<1>3. RInv /\ CInv /\ InTransaction /\ [Next]_vars => [Contract!Next]_<<NotesOf(saved), Working>>
  BY RefinementStep
<1>4. QED
  BY <1>1, <1>2, <1>3, PTL DEF Spec, ImplementsContract, Contract!Spec, Working
=============================================================================
