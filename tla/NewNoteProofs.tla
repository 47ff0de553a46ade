--------------------------- MODULE NewNoteProofs ----------------------------
(***************************************************************************)
(* Proofs that NewNote keeps the existing notes and that the index can     *)
(* always be repaired, for any number of processes, paths and attempts.    *)
(***************************************************************************)
EXTENDS NewNote, TLAPS

\* The prover of the steps that do not name one, and the results of a call.
USE ZenonT(30) DEF Over

\* No date and no inode lies in the future.
Stamps ==
  /\ \A q \in Path : disk[q] # None => disk[q].date \leq clock /\ disk[q].inode \leq clock
  /\ \A q \in Path : rows[q] # None => rows[q].date \leq clock
  /\ \A p \in Process : call[p].tested \leq clock /\ call[p].date \leq clock

\* The file at a path that was found free is younger than the test.
Young ==
  \A p \in Process : call[p].pc = "create" /\ disk[call[p].path] # None =>
    disk[call[p].path].inode > call[p].tested

\* What a call that nobody disturbed has made of its file so far.
Own(p) ==
  LET q == call[p].path IN
  /\ call[p].pc \in {"write", "stat", "add"} =>
       disk[q] # None /\ disk[q].inode = call[p].inode
  /\ call[p].pc \in {"stat", "add"} => disk[q].content = Rendered(p)
  /\ call[p].pc = "add" => disk[q].date = call[p].date

\* The inductive invariant.
IInv ==
  /\ TypeOK /\ Stamps /\ Young
  /\ \A p \in Process : p \notin touched => Own(p)
  /\ NextIndexingRepairs

\* The initial state has the types.
LEMMA TypeInit == Init => TypeOK
BY NewNoteAssumption, SMT DEF Init, TypeOK, File, Row, Content, Call, Idle, ByUser

\* The assignments to the fields of a call.
LEMMA CallFields ==
  ASSUME NEW c \in Call
  PROVE  /\ \A n \in 0..MaxCalls, x \in Extra \cup {None} :
              [Idle EXCEPT !.pc = "generate", !.no = n, !.want = x] \in Call
         /\ \A n \in 0..MaxAttempts : [c EXCEPT !.tries = n] \in Call
         /\ \A q \in Path, t \in 0..MaxClock :
              [c EXCEPT !.pc = "create", !.path = q, !.tested = t] \in Call
         /\ \A t \in 0..MaxClock : [c EXCEPT !.pc = "write", !.inode = t] \in Call
         /\ [c EXCEPT !.pc = "stat"] \in Call
         /\ \A t \in 0..MaxClock : [c EXCEPT !.pc = "add", !.date = t] \in Call
<1> USE NewNoteAssumption
<1>1. Idle \in Call
  BY SMT DEF Idle, Call
<1>2. \A n \in 0..MaxCalls, x \in Extra \cup {None} :
        [Idle EXCEPT !.pc = "generate", !.no = n, !.want = x] \in Call
  BY <1>1 DEF Call
<1>3. \A n \in 0..MaxAttempts : [c EXCEPT !.tries = n] \in Call
  BY DEF Call
<1>4. \A q \in Path, t \in 0..MaxClock :
        [c EXCEPT !.pc = "create", !.path = q, !.tested = t] \in Call
  BY DEF Call
<1>5. \A t \in 0..MaxClock : [c EXCEPT !.pc = "write", !.inode = t] \in Call
  BY DEF Call
<1>6. \A t \in 0..MaxClock : [c EXCEPT !.pc = "add", !.date = t] \in Call
  BY DEF Call
<1>7. [c EXCEPT !.pc = "stat"] \in Call
  BY DEF Call
<1>8. QED
  BY <1>2, <1>3, <1>4, <1>5, <1>6, <1>7

\* A call that has returned keeps nothing but its result.
LEMMA Returned ==
  ASSUME TypeOK, NEW p \in Process, NEW x \in Over, Return(p, x)
  PROVE  /\ call' \in [Process -> Call] /\ touched' \subseteq Process
         /\ \A r \in Process : call'[r].pc \notin Over \cup {"generate"} => call'[r].path \in Path
         /\ call'[p].pc = x /\ call'[p].tested = 0 /\ call'[p].date = 0
         /\ \A r \in Process \ {p} : call'[r] = call[r]
<1>1. [Idle EXCEPT !.pc = x] \in Call
  BY NewNoteAssumption, SMT DEF Idle, Call
<1>2. /\ [Idle EXCEPT !.pc = x].pc = x /\ [Idle EXCEPT !.pc = x].tested = 0
      /\ [Idle EXCEPT !.pc = x].date = 0
  BY SMT DEF Idle
<1>3. call'[p] = [Idle EXCEPT !.pc = x] /\ \A r \in Process \ {p} : call'[r] = call[r]
  BY DEF Return, TypeOK
<1>4. call' \in [Process -> Call] /\ touched' \subseteq Process
  BY <1>1 DEF Return, TypeOK
<1>5. QED
  BY <1>2, <1>3, <1>4 DEF TypeOK

\* Every step keeps the types.
LEMMA TypeStep == TypeOK /\ [Next]_vars => TypeOK'
<1> SUFFICES ASSUME TypeOK, [Next]_vars PROVE TypeOK'
  OBVIOUS
<1> USE NewNoteAssumption
<1>1. ASSUME NEW p \in Process, NEW x \in Extra \cup {None}, Invoke(p, x) PROVE TypeOK'
  <2>1. call' \in [Process -> Call]
    <3>1. calls + 1 \in 0..MaxCalls
      BY <1>1, SMT DEF Invoke, TypeOK
    <3>2. [Idle EXCEPT !.pc = "generate", !.no = calls + 1, !.want = x] \in Call
      BY <3>1, CallFields, call[p] \in Call DEF TypeOK
    <3>3. QED
      BY <1>1, <3>2 DEF Invoke, TypeOK
  <2>2. rows' \in [Path -> Row \cup {None}]
    BY <1>1, SMT DEF Invoke, TypeOK, Indexed, File, Row
  <2>3. \A r \in Process : call'[r].pc \notin Over \cup {"generate"} => call'[r].path \in Path
    BY <1>1 DEF Invoke, TypeOK, Idle
  <2>4. QED
    BY <1>1, <2>1, <2>2, <2>3, SMT DEF Invoke, TypeOK
<1>2. ASSUME NEW p \in Process, NEW q \in Path, Generate(p, q) PROVE TypeOK'
  <2>1. call'[p] \in Call /\ (call'[p].pc = "create" => call'[p].path = q)
        /\ call'[p].pc \in {"generate", "create"}
    <3>1. CASE disk[q] # None
      <4>1. call'[p] = [call[p] EXCEPT !.tries = call[p].tries + 1]
        BY <1>2, <3>1 DEF Generate, TypeOK
      <4>2. call[p].tries + 1 \in 0..MaxAttempts
        BY <1>2, SMT DEF Generate, TypeOK, Call
      <4>3. call[p] \in Call /\ call[p].pc = "generate"
        BY <1>2 DEF Generate, At, TypeOK
      <4>4. call'[p] \in Call
        BY <4>1, <4>2, <4>3, CallFields
      <4>5. call'[p].pc = "generate"
        BY <4>1, <4>3 DEF Call
      <4>6. QED
        BY <4>4, <4>5
    <3>2. CASE disk[q] = None
      <4>1. call'[p] = [call[p] EXCEPT !.pc = "create", !.path = q, !.tested = clock]
        BY <1>2, <3>2 DEF Generate, TypeOK
      <4>2. call[p] \in Call /\ clock \in 0..MaxClock
        BY DEF TypeOK
      <4>3. call'[p] \in Call
        <5>1. \A r \in Path, t \in 0..MaxClock :
                [call[p] EXCEPT !.pc = "create", !.path = r, !.tested = t] \in Call
          BY <4>2, CallFields
        <5>2. QED
          BY <4>1, <4>2, <5>1
      <4>4. call'[p].pc = "create" /\ call'[p].path = q
        BY <4>1, <4>2 DEF Call
      <4>5. QED
        BY <4>3, <4>4
    <3>3. QED
      BY <3>1, <3>2
  <2>2. \A r \in Process \ {p} : call'[r] = call[r]
    BY <1>2 DEF Generate, TypeOK
  <2>3. call' \in [Process -> Call]
    BY <1>2, <2>1, <2>2 DEF Generate, TypeOK
  <2>4. QED
    BY <1>2, <2>1, <2>2, <2>3 DEF Generate, TypeOK
<1>3. ASSUME NEW p \in Process, NoteExists(p) \/ DryRun(p) \/ Fails(p) \/ AddLost(p) \/ AddFails(p)
      PROVE TypeOK'
  <2>1. PICK x \in Over : Return(p, x)
    BY <1>3 DEF NoteExists, DryRun, Fails, AddLost, AddFails, Over
  <2>2. UNCHANGED <<disk, rows, extra, clock, calls, raced>>
    BY <1>3 DEF NoteExists, DryRun, Fails, AddLost, AddFails
  <2>3. QED
    BY <2>1, <2>2, Returned DEF TypeOK
<1>4. ASSUME NEW p \in Process, CreateFile(p) PROVE TypeOK'
  <2> DEFINE q == call[p].path
             i == IF disk[q] = None THEN clock + 1 ELSE disk[q].inode
  <2>1. q \in Path /\ i \in 1..MaxClock /\ i \in 0..MaxClock /\ clock + 1 \in 1..MaxClock
    BY <1>4, SMT DEF CreateFile, TypeOK, File, At
  <2>2. disk' \in [Path -> File \cup {None}]
    BY <1>4, <2>1, SMT DEF CreateFile, TypeOK, File, Content, Empty
  <2>3. call' = [call EXCEPT ![p].pc = "write", ![p].inode = i]
    BY <1>4 DEF CreateFile
  <2>4. call' \in [Process -> Call]
    <3>1. [call[p] EXCEPT !.pc = "write", !.inode = i] \in Call
      BY <2>1, CallFields, call[p] \in Call DEF TypeOK
    <3>2. call' = [call EXCEPT ![p] = [call[p] EXCEPT !.pc = "write", !.inode = i]]
      BY <2>3 DEF TypeOK
    <3>3. QED
      BY <3>1, <3>2 DEF TypeOK
  <2>5. \A r \in Process : call'[r].path = call[r].path /\ (r # p => call'[r].pc = call[r].pc)
    BY <2>3, SMT DEF TypeOK, Call
  <2>6. /\ UNCHANGED <<rows, extra, calls, raced>> /\ call'[p].path \in Path
        /\ clock' \in 0..MaxClock /\ touched' \subseteq Process
    BY <1>4, <2>1, <2>5, SMT DEF CreateFile, Touch, TypeOK
  <2>7. \A r \in Process : call'[r].pc \notin Over \cup {"generate"} => call'[r].path \in Path
    BY <2>5, <2>6 DEF TypeOK
  <2>8. QED
    BY <2>2, <2>4, <2>6, <2>7 DEF TypeOK
<1>5. ASSUME NEW p \in Process, WriteContent(p) PROVE TypeOK'
  <2> DEFINE q == call[p].path
  <2>1. /\ q \in Path /\ clock + 1 \in 1..MaxClock /\ clock' = clock + 1
        /\ UNCHANGED <<rows, extra, calls, raced>> /\ touched' \subseteq Process
        /\ call' = [call EXCEPT ![p].pc = "stat"]
    BY <1>5, SMT DEF WriteContent, At, Touch, TypeOK
  <2>2. Rendered(p) \in Content
    BY SMT DEF Rendered, Content, TypeOK, Call
  <2>3. disk' \in [Path -> File \cup {None}]
    BY <1>5, <2>1, <2>2, SMT DEF WriteContent, TypeOK, File
  <2>4. call' \in [Process -> Call]
    <3>1. [call[p] EXCEPT !.pc = "stat"] \in Call
      BY CallFields, call[p] \in Call DEF TypeOK
    <3>2. call' = [call EXCEPT ![p] = [call[p] EXCEPT !.pc = "stat"]]
      BY <2>1 DEF TypeOK
    <3>3. QED
      BY <3>1, <3>2 DEF TypeOK
  <2>5. \A r \in Process : call'[r].path = call[r].path /\ (r # p => call'[r].pc = call[r].pc)
    BY <2>1, SMT DEF TypeOK, Call
  <2>6. \A r \in Process : call'[r].pc \notin Over \cup {"generate"} => call'[r].path \in Path
    BY <2>1, <2>5 DEF TypeOK
  <2>7. QED
    BY <2>1, <2>3, <2>4, <2>6, SMT DEF TypeOK
<1>6. ASSUME NEW p \in Process, StatFile(p) PROVE TypeOK'
  <2> DEFINE q == call[p].path
             d == IF disk[q] = None THEN 0 ELSE disk[q].date
  <2>1. q \in Path /\ d \in 0..MaxClock
    BY <1>6, SMT DEF StatFile, TypeOK, File, At
  <2>2. call' = [call EXCEPT ![p].pc = "add", ![p].date = d]
    BY <1>6 DEF StatFile
  <2>3. call' \in [Process -> Call]
    <3>1. [call[p] EXCEPT !.pc = "add", !.date = d] \in Call
      BY <2>1, CallFields DEF TypeOK
    <3>2. call' = [call EXCEPT ![p] = [call[p] EXCEPT !.pc = "add", !.date = d]]
      BY <2>2 DEF TypeOK
    <3>3. QED
      BY <3>1, <3>2 DEF TypeOK
  <2>4. \A r \in Process : call'[r].path = call[r].path /\ (r # p => call'[r].pc = call[r].pc)
    BY <2>2, SMT DEF TypeOK, Call
  <2>5. QED
    BY <1>6, <2>1, <2>3, <2>4 DEF StatFile, TypeOK
<1>7. ASSUME NEW p \in Process, AddNote(p) PROVE TypeOK'
  <2>1. Return(p, "note") /\ "note" \in Over
    BY <1>7 DEF AddNote, Over
  <2>2. rows' \in [Path -> Row \cup {None}] /\ raced' \subseteq Path
    BY <1>7, SMT DEF AddNote, Rendered, TypeOK, Call, Row, Content, At, Over
  <2>3. UNCHANGED <<disk, extra, clock, calls>>
    BY <1>7 DEF AddNote
  <2>4. QED
    BY <2>1, <2>2, <2>3, Returned DEF TypeOK
<1>8. ASSUME NEW p \in Process, Crash(p) PROVE TypeOK'
  <2>1. Return(p, "idle") /\ "idle" \in Over
    BY <1>8 DEF Crash, Over
  <2>2. extra' \in [Process -> Extra \cup {None}] /\ UNCHANGED <<disk, rows, clock, calls, raced>>
    BY <1>8 DEF Crash, TypeOK
  <2>3. QED
    BY <2>1, <2>2, Returned DEF TypeOK
<1>9. ASSUME NEW q \in Path, UserSaves(q) PROVE TypeOK'
  BY <1>9, SMT DEF UserSaves, Touch, TypeOK, File, Content, ByUser
<1>10. ASSUME NEW q \in Path, UserDeletes(q) PROVE TypeOK'
  BY <1>10 DEF UserDeletes, Touch, TypeOK
<1>11. ASSUME Index PROVE TypeOK'
  BY <1>11, SMT DEF Index, Indexed, TypeOK, File, Row
<1>12. ASSUME UNCHANGED vars PROVE TypeOK'
  BY <1>12 DEF vars, TypeOK
<1>13. QED
  BY <1>1, <1>2, <1>3, <1>4, <1>5, <1>6, <1>7, <1>8, <1>9, <1>10, <1>11, <1>12
  DEF Next, Step

\* The types hold in every state.
THEOREM TypeCorrect == Spec => []TypeOK
BY TypeInit, TypeStep, PTL DEF Spec

-----------------------------------------------------------------------------
\* Dates, inodes and times of tests are numbers.
LEMMA Numbers ==
  ASSUME TypeOK
  PROVE  /\ clock \in Nat
         /\ \A q \in Path : disk[q] # None => disk[q].date \in Nat /\ disk[q].inode \in Nat
         /\ \A q \in Path : rows[q] # None => rows[q].date \in Nat
         /\ \A p \in Process : call[p].tested \in Nat /\ call[p].date \in Nat
<1>1. \A q \in Path : disk[q] # None => disk[q].date \in Nat /\ disk[q].inode \in Nat
  BY SMT DEF TypeOK, File
<1>2. \A q \in Path : rows[q] # None => rows[q].date \in Nat
  BY SMT DEF TypeOK, Row
<1>3. \A p \in Process : call[p].tested \in Nat /\ call[p].date \in Nat
  BY SMT DEF TypeOK, Call
<1>4. QED
  BY <1>1, <1>2, <1>3, SMT DEF TypeOK

\* The initial state satisfies the invariant: no call is under way.
LEMMA IInvInit == Init => IInv
<1> SUFFICES ASSUME Init PROVE IInv
  OBVIOUS
<1>1. TypeOK
  BY TypeInit
<1>2. Stamps /\ Young /\ NextIndexingRepairs
  BY SMT DEF Init, Stamps, Young, NextIndexingRepairs, Idle
<1>3. \A p \in Process : Own(p)
  BY DEF Init, Own, Idle
<1>4. QED
  BY <1>1, <1>2, <1>3 DEF IInv

\* A new call starts with no path, and zk new indexes before it.
LEMMA InvokeInv ==
  ASSUME IInv, NEW p \in Process, NEW x \in Extra \cup {None}, Invoke(p, x), TypeOK'
  PROVE  IInv'
<1>0. /\ TypeOK /\ Stamps /\ Young /\ NextIndexingRepairs
      /\ \A r \in Process : r \notin touched => Own(r)
  BY DEF IInv
<1>1. /\ call'[p].pc = "generate" /\ call'[p].tested = 0 /\ call'[p].date = 0
      /\ \A r \in Process \ {p} : call'[r] = call[r] /\ extra'[r] = extra[r]
  BY <1>0 DEF Invoke, TypeOK, Idle
<1>2. Stamps'
  <2>1. \A q \in Path : rows'[q] # None => rows'[q].date \leq clock
    BY <1>0 DEF Invoke, Indexed, Stamps, TypeOK, File, Row
  <2>2. QED
    BY <1>0, <1>1, <2>1, SMT DEF Invoke, Stamps, TypeOK
<1>3. Young'
  BY <1>0, <1>1 DEF Invoke, Young
<1>4. \A r \in Process : r \notin touched' => Own(r)'
  BY <1>0, <1>1, SMT DEF Invoke, Own, Rendered
<1>5. NextIndexingRepairs'
  BY <1>0 DEF Invoke, Indexed, NextIndexingRepairs, TypeOK, File, Row
<1>6. QED
  BY <1>2, <1>3, <1>4, <1>5 DEF IInv

\* A path that was found free has no file yet.
LEMMA GenerateInv ==
  ASSUME IInv, NEW p \in Process, NEW q \in Path, Generate(p, q), TypeOK'
  PROVE  IInv'
<1>0. /\ TypeOK /\ Stamps /\ Young /\ NextIndexingRepairs
      /\ \A r \in Process : r \notin touched => Own(r)
  BY DEF IInv
<1>1. \A r \in Process \ {p} : call'[r] = call[r]
  BY <1>0 DEF Generate, TypeOK
<1>2. /\ call'[p].pc \in {"generate", "create"} /\ call'[p].date = call[p].date
      /\ call'[p].pc = "create" => disk[call'[p].path] = None
      /\ call'[p].tested \in {call[p].tested, clock}
  <2>1. CASE disk[q] # None
    BY <1>0, <2>1, SMT DEF Generate, At, TypeOK, Call
  <2>2. CASE disk[q] = None
    BY <1>0, <2>2, SMT DEF Generate, At, TypeOK, Call
  <2>3. QED
    BY <2>1, <2>2
<1>3. Stamps'
  BY <1>0, <1>1, <1>2, SMT DEF Generate, Stamps, TypeOK
<1>4. Young'
  BY <1>0, <1>1, <1>2 DEF Generate, Young
<1>5. \A r \in Process : r \notin touched' => Own(r)'
  <2> SUFFICES ASSUME NEW r \in Process, r \notin touched' PROVE Own(r)'
    OBVIOUS
  <2>1. CASE r = p
    <3>1. call'[r].pc \notin {"write", "stat", "add"}
      BY <1>2, <2>1
    <3>2. QED BY <3>1 DEF Own
  <2>2. CASE r # p
    <3>1. Own(r) /\ call'[r] = call[r] /\ UNCHANGED <<disk, extra>>
      BY <1>0, <1>1, <2>2 DEF Generate
    <3>2. QED BY <3>1 DEF Own, Rendered
  <2>3. QED
    BY <2>1, <2>2
<1>6. NextIndexingRepairs'
  BY <1>0 DEF Generate, NextIndexingRepairs
<1>7. QED
  BY <1>3, <1>4, <1>5, <1>6 DEF IInv

\* A call that ends without a note leaves the files and the rows alone.
LEMMA ReturnInv ==
  ASSUME IInv, NEW p \in Process, NEW x \in Over, Return(p, x), UNCHANGED <<disk, rows, clock, raced>>,
         \A r \in Process \ {p} : extra'[r] = extra[r], TypeOK'
  PROVE  IInv'
<1>0. /\ TypeOK /\ Stamps /\ Young /\ NextIndexingRepairs
      /\ \A r \in Process : r \notin touched => Own(r)
  BY DEF IInv
<1>1. /\ call'[p].pc \notin {"create", "write", "stat", "add"}
      /\ call'[p].tested = 0 /\ call'[p].date = 0 /\ touched' = touched \ {p}
      /\ \A r \in Process \ {p} : call'[r] = call[r]
  <2>1. x \notin {"create", "write", "stat", "add"}
    BY DEF Over
  <2>2. QED
    BY <1>0, <2>1, Returned DEF Return
<1>3. Stamps'
  BY <1>0, <1>1, SMT DEF Stamps, TypeOK
<1>4. Young'
  BY <1>0, <1>1 DEF Young
<1>5. \A r \in Process : r \notin touched' => Own(r)'
  BY <1>0, <1>1, SMT DEF Own, Rendered
<1>6. NextIndexingRepairs'
  BY <1>0 DEF NextIndexingRepairs
<1>7. QED
  BY <1>3, <1>4, <1>5, <1>6 DEF IInv

\* The file that a write at the present time makes.
LEMMA NewFile ==
  ASSUME TypeOK, clock < MaxClock, NEW c \in Content, NEW i \in 1..MaxClock
  PROVE  LET f == [content |-> c, date |-> clock + 1, inode |-> i]
         IN  f \in File /\ f # None
<1>1. clock + 1 \in 1..MaxClock
  BY NewNoteAssumption, SMT DEF TypeOK
<1>2. [content |-> c, date |-> clock + 1, inode |-> i] \in File
  BY <1>1 DEF File
<1>3. QED
  BY <1>2, NoneAssumption

\* os.Create gives the file a date that no row has.
LEMMA CreateFileInv ==
  ASSUME IInv, NEW p \in Process, CreateFile(p), TypeOK'
  PROVE  IInv'
<1>0. /\ TypeOK /\ Stamps /\ Young /\ NextIndexingRepairs
      /\ \A r \in Process : r \notin touched => Own(r)
  BY DEF IInv
<1> DEFINE q == call[p].path
           i == IF disk[q] = None THEN clock + 1 ELSE disk[q].inode
<1>1. /\ q \in Path /\ clock \in Nat
      /\ clock' = clock + 1 /\ i \leq clock' /\ (disk[q] # None => i = disk[q].inode)
  <2>1. call[p].pc = "create" /\ clock' = clock + 1
    BY DEF CreateFile, At
  <2>2. q \in Path
    BY <1>0, <2>1 DEF TypeOK
  <2>3. QED
    BY <1>0, <2>1, <2>2, Numbers, SMT DEF Stamps
<1>2. /\ disk'[q] = [content |-> Empty, date |-> clock + 1, inode |-> i]
      /\ \A r \in Path \ {q} : disk'[r] = disk[r]
  BY <1>0, <1>1 DEF CreateFile, TypeOK
<1>3. /\ call'[p].pc = "write" /\ call'[p].inode = i /\ call'[p].path = q
      /\ call'[p].tested = call[p].tested /\ call'[p].date = call[p].date
      /\ \A r \in Process \ {p} : call'[r] = call[r]
  <2>1. call' = [call EXCEPT ![p].pc = "write", ![p].inode = i]
    BY DEF CreateFile
  <2>2. call \in [Process -> Call]
    BY <1>0 DEF TypeOK
  <2>3. QED
    BY <2>1, <2>2, SMT DEF Call
<1>4. disk'[q] # None /\ disk'[q].inode = i /\ disk'[q].date = clock + 1
  <2>1. i \in 1..MaxClock /\ clock < MaxClock
    <3>1. clock < MaxClock
      BY DEF CreateFile
    <3>2. disk[q] # None => disk[q].inode \in 1..MaxClock
      BY <1>0, <1>1 DEF TypeOK, File
    <3>3. QED
      BY <1>1, <3>1, <3>2, NewNoteAssumption, SMT
  <2>2. Empty \in Content
    BY NewNoteAssumption, SMT DEF Empty, Content
  <2>3. [content |-> Empty, date |-> clock + 1, inode |-> i] # None
    BY <2>1, <2>2, NewFile DEF IInv
  <2>4. QED
    BY <1>2, <2>3, SMT
<1>5. Stamps'
  <2>1. \A r \in Path : disk'[r] # None => disk'[r].date \leq clock' /\ disk'[r].inode \leq clock'
    <3>1. disk'[q].date \leq clock' /\ disk'[q].inode \leq clock'
      BY <1>1, <1>4, SMT
    <3>2. \A r \in Path \ {q} :
            disk'[r] # None => disk'[r].date \leq clock' /\ disk'[r].inode \leq clock'
      BY <1>0, <1>1, <1>2, Numbers, SMT DEF Stamps
    <3>3. QED
      BY <3>1, <3>2
  <2>2. \A r \in Path : rows'[r] # None => rows'[r].date \leq clock'
    BY <1>0, <1>1, Numbers, SMT DEF CreateFile, Stamps
  <2>3. \A r \in Process : call'[r].tested \leq clock' /\ call'[r].date \leq clock'
    BY <1>0, <1>1, <1>3, Numbers, SMT DEF Stamps
  <2>4. QED
    BY <2>1, <2>2, <2>3 DEF Stamps
<1>6. Young'
  <2> SUFFICES ASSUME NEW r \in Process, call'[r].pc = "create", disk'[call'[r].path] # None
               PROVE  disk'[call'[r].path].inode > call'[r].tested
    BY DEF Young
  <2>1. r # p /\ call'[r] = call[r] /\ call[r].path \in Path
    BY <1>0, <1>3 DEF TypeOK
  <2>2. CASE call[r].path # q
    BY <1>0, <2>1, <2>2, <1>2, SMT DEF Young
  <2>3. CASE call[r].path = q
    <3>1. call[r].tested \leq clock /\ call[r].tested \in Nat
      BY <1>0, Numbers DEF Stamps
    <3>2. disk[q] # None => disk[q].inode > call[r].tested
      BY <1>0, <2>1, <2>3 DEF Young
    <3>3. i > call[r].tested
      BY <1>1, <3>1, <3>2, SMT
    <3>4. QED
      BY <2>1, <2>3, <1>4, <3>3
  <2>4. QED
    BY <2>2, <2>3
<1>7. \A r \in Process : r \notin touched' => Own(r)'
  <2> SUFFICES ASSUME NEW r \in Process, r \notin touched' PROVE Own(r)'
    OBVIOUS
  <2>1. CASE r = p
    BY <2>1, <1>3, <1>4 DEF Own
  <2>2. CASE r # p
    <3>1. r \notin touched /\ call[r].path # q
      BY <2>2 DEF CreateFile, Touch
    <3>2. call[r].pc \in {"write", "stat", "add"} => disk'[call[r].path] = disk[call[r].path]
      BY <1>0, <3>1, <1>2 DEF TypeOK
    <3>3. call'[r] = call[r] /\ extra' = extra /\ Own(r)
      BY <1>0, <2>2, <3>1, <1>3 DEF CreateFile
    <3>4. QED
      BY <3>2, <3>3 DEF Own, Rendered
  <2>3. QED
    BY <2>1, <2>2
<1>8. NextIndexingRepairs'
  <2> SUFFICES ASSUME NEW r \in Path, disk'[r] # None, rows'[r] # None,
                      rows'[r].date = disk'[r].date, r \notin raced'
               PROVE  rows'[r].content = disk'[r].content
    BY DEF NextIndexingRepairs
  <2>1. rows' = rows /\ raced' = raced
    BY DEF CreateFile
  <2>2. rows[r].date \leq clock /\ rows[r].date \in Nat
    BY <1>0, <2>1, Numbers DEF Stamps
  <2>3. r # q
    BY <1>1, <1>4, <2>1, <2>2, SMT
  <2>4. QED
    BY <1>0, <1>2, <2>1, <2>3 DEF NextIndexingRepairs
<1>9. QED
  BY <1>5, <1>6, <1>7, <1>8 DEF IInv

\* f.Write changes the file that the call has opened, or none.
LEMMA WriteContentInv ==
  ASSUME IInv, NEW p \in Process, WriteContent(p), TypeOK'
  PROVE  IInv'
<1>0. /\ TypeOK /\ Stamps /\ Young /\ NextIndexingRepairs
      /\ \A r \in Process : r \notin touched => Own(r)
  BY DEF IInv
<1> DEFINE q == call[p].path
           linked == disk[q] # None /\ disk[q].inode = call[p].inode
<1>1. q \in Path /\ clock \in Nat /\ clock' = clock + 1 /\ clock < MaxClock
  BY <1>0, SMT DEF WriteContent, At, TypeOK
<1>2. /\ call'[p].pc = "stat" /\ call'[p].inode = call[p].inode /\ call'[p].path = q
      /\ call'[p].tested = call[p].tested /\ call'[p].date = call[p].date
      /\ call'[p].no = call[p].no
      /\ \A r \in Process \ {p} : call'[r] = call[r]
  BY <1>0, SMT DEF WriteContent, TypeOK, Call
<1>3. CASE linked
  <2>1. disk[q] \in File
    BY <1>0, <1>1, <1>3 DEF TypeOK
  <2>2. /\ disk'[q] = [disk[q] EXCEPT !.content = Rendered(p), !.date = clock + 1]
        /\ \A r \in Path \ {q} : disk'[r] = disk[r]
        /\ Touch(q, p)
    BY <1>0, <1>1, <1>3 DEF WriteContent, TypeOK
  <2>3. /\ disk'[q].content = Rendered(p) /\ disk'[q].date = clock + 1
        /\ disk'[q].inode = disk[q].inode
    BY <2>1, <2>2 DEF File
  <2>4. disk'[q] # None
    <3>1. disk'[q] = [content |-> Rendered(p), date |-> clock + 1, inode |-> disk[q].inode]
      BY <2>1, <2>2 DEF File
    <3>2. Rendered(p) \in Content /\ disk[q].inode \in 1..MaxClock
      BY <1>0, <2>1, NewNoteAssumption, SMT DEF Rendered, Content, TypeOK, Call, File
    <3>3. QED
      BY <1>1, <3>1, <3>2, NewFile DEF IInv
  <2>5. Stamps'
    <3>1. \A r \in Path : disk'[r] # None => disk'[r].date \leq clock' /\ disk'[r].inode \leq clock'
      <4>1. disk[q].inode \leq clock /\ disk[q].inode \in Nat
        BY <1>0, <1>1, <1>3, <2>1, SMT DEF Stamps, File
      <4>2. disk'[q].date \leq clock' /\ disk'[q].inode \leq clock'
        BY <1>1, <2>3, <4>1, SMT
      <4>3. \A r \in Path \ {q} :
              disk'[r] # None => disk'[r].date \leq clock' /\ disk'[r].inode \leq clock'
        BY <1>0, <1>1, <2>2, Numbers, SMT DEF Stamps
      <4>4. QED
        BY <4>2, <4>3
    <3>2. \A r \in Path : rows'[r] # None => rows'[r].date \leq clock'
      BY <1>0, <1>1, Numbers, SMT DEF WriteContent, Stamps
    <3>3. \A r \in Process : call'[r].tested \leq clock' /\ call'[r].date \leq clock'
      BY <1>0, <1>1, <1>2, Numbers, SMT DEF Stamps
    <3>4. QED
      BY <3>1, <3>2, <3>3 DEF Stamps
  <2>6. Young'
    <3> SUFFICES ASSUME NEW r \in Process, call'[r].pc = "create",
                        disk'[call'[r].path] # None
                 PROVE  disk'[call'[r].path].inode > call'[r].tested
      BY DEF Young
    <3>1. r # p /\ call'[r] = call[r] /\ call[r].path \in Path
      BY <1>0, <1>2 DEF TypeOK
    <3>2. disk[call[r].path] # None /\ disk'[call[r].path].inode = disk[call[r].path].inode
      <4>1. CASE call[r].path = q
        BY <1>3, <2>3, <4>1
      <4>2. CASE call[r].path # q
        BY ZenonT(30), <2>2, <3>1, <4>2
      <4>3. QED
        BY <4>1, <4>2
    <3>3. QED
      BY <1>0, <3>1, <3>2 DEF Young
  <2>7. \A r \in Process : r \notin touched' => Own(r)'
    <3> SUFFICES ASSUME NEW r \in Process, r \notin touched' PROVE Own(r)'
      OBVIOUS
    <3>1. CASE r = p
      BY <3>1, <1>2, <1>3, <2>3, <2>4, SMT DEF Own, Rendered, WriteContent
    <3>2. CASE r # p
      <4>1. r \notin touched /\ call[r].path # q
        BY <3>2, <2>2 DEF Touch
      <4>2. call[r].pc \in {"write", "stat", "add"} => disk'[call[r].path] = disk[call[r].path]
        BY <1>0, <4>1, <2>2 DEF TypeOK
      <4>3. call'[r] = call[r] /\ extra' = extra /\ Own(r)
        BY <1>0, <3>2, <4>1, <1>2 DEF WriteContent
      <4>4. QED
        BY <4>2, <4>3 DEF Own, Rendered
    <3>3. QED
      BY <3>1, <3>2
  <2>8. NextIndexingRepairs'
    <3> SUFFICES ASSUME NEW r \in Path, disk'[r] # None, rows'[r] # None,
                        rows'[r].date = disk'[r].date, r \notin raced'
                 PROVE  rows'[r].content = disk'[r].content
      BY DEF NextIndexingRepairs
    <3>1. rows' = rows /\ raced' = raced
      BY DEF WriteContent
    <3>2. rows[r].date \leq clock /\ rows[r].date \in Nat /\ clock \in Nat
      BY <1>0, <3>1, Numbers DEF Stamps
    <3>3. r # q
      BY <2>3, <3>1, <3>2, SMT
    <3>4. disk'[r] = disk[r]
      BY ZenonT(30), <2>2, <3>3
    <3>5. QED
      BY <1>0, <3>1, <3>4 DEF NextIndexingRepairs
  <2>9. QED
    BY <2>5, <2>6, <2>7, <2>8 DEF IInv
<1>4. CASE ~linked
  <2>1. disk' = disk /\ touched' = touched /\ p \in touched
    BY <1>0, <1>4 DEF WriteContent, At, Own
  <2>2. Stamps'
    <3>1. \A r \in Path : disk'[r] # None => disk'[r].date \leq clock' /\ disk'[r].inode \leq clock'
      BY <1>0, <1>1, <2>1, Numbers, SMT DEF Stamps
    <3>2. \A r \in Path : rows'[r] # None => rows'[r].date \leq clock'
      BY <1>0, <1>1, Numbers, SMT DEF WriteContent, Stamps
    <3>3. \A r \in Process : call'[r].tested \leq clock' /\ call'[r].date \leq clock'
      BY <1>0, <1>1, <1>2, Numbers, SMT DEF Stamps
    <3>4. QED
      BY <3>1, <3>2, <3>3 DEF Stamps
  <2>3. Young'
    BY <1>0, <1>2, <2>1 DEF Young
  <2>4. \A r \in Process : r \notin touched' => Own(r)'
    <3> SUFFICES ASSUME NEW r \in Process, r \notin touched PROVE Own(r)'
      BY <2>1
    <3>1. Own(r) /\ call'[r] = call[r] /\ extra' = extra
      BY <1>0, <1>2, <2>1 DEF WriteContent
    <3>2. QED
      BY <2>1, <3>1 DEF Own, Rendered
  <2>5. NextIndexingRepairs'
    BY <1>0, <2>1 DEF WriteContent, NextIndexingRepairs
  <2>6. QED
    BY <2>2, <2>3, <2>4, <2>5 DEF IInv
<1>5. QED
  BY <1>3, <1>4

\* times.Stat reads the date of the file.
LEMMA StatFileInv ==
  ASSUME IInv, NEW p \in Process, StatFile(p), TypeOK'
  PROVE  IInv'
<1>0. /\ TypeOK /\ Stamps /\ Young /\ NextIndexingRepairs
      /\ \A r \in Process : r \notin touched => Own(r)
  BY DEF IInv
<1> DEFINE q == call[p].path
<1>1. /\ q \in Path /\ clock \in Nat
      /\ \A r \in Process \ {p} : call'[r] = call[r]
  BY <1>0, SMT DEF StatFile, At, TypeOK
<1>2. /\ call'[p].pc = "add" /\ call'[p].inode = call[p].inode /\ call'[p].path = q
      /\ call'[p].tested = call[p].tested /\ call'[p].no = call[p].no
      /\ call'[p].date = IF disk[q] = None THEN 0 ELSE disk[q].date
  <2>1. call' = [call EXCEPT ![p].pc = "add",
                             ![p].date = IF disk[q] = None THEN 0 ELSE disk[q].date]
    BY DEF StatFile
  <2>2. call \in [Process -> Call]
    BY <1>0 DEF TypeOK
  <2>3. QED
    BY <2>1, <2>2, SMT DEF Call
<1>3. Stamps'
  <2>1. call'[p].date \leq clock
    BY <1>0, <1>1, <1>2, SMT DEF Stamps
  <2>2. QED
    BY ZenonT(30), <1>0, <1>1, <1>2, <2>1 DEF StatFile, Stamps
<1>4. Young'
  <2>1. disk' = disk /\ call'[p].pc # "create"
    BY <1>2 DEF StatFile
  <2>2. QED
    BY <1>0, <1>1, <2>1 DEF Young
<1>5. \A r \in Process : r \notin touched' => Own(r)'
  <2> SUFFICES ASSUME NEW r \in Process, r \notin touched' PROVE Own(r)'
    OBVIOUS
  <2>1. Own(r)
    BY <1>0 DEF StatFile
  <2>2. CASE r = p
    <3>1. disk' = disk /\ extra' = extra /\ call[p].pc = "stat"
      BY DEF StatFile, At
    <3>2. QED
      BY <1>2, <2>1, <2>2, <3>1 DEF Own, Rendered
  <2>3. CASE r # p
    BY <1>1, <2>1, <2>3 DEF StatFile, Own, Rendered
  <2>4. QED
    BY <2>2, <2>3
<1>6. NextIndexingRepairs'
  BY <1>0 DEF StatFile, NextIndexingRepairs
<1>7. QED
  BY <1>3, <1>4, <1>5, <1>6 DEF IInv

\* NoteIndex.Add stores what the disk has, or the path counts as raced.
LEMMA AddNoteInv ==
  ASSUME IInv, NEW p \in Process, AddNote(p), TypeOK'
  PROVE  IInv'
<1>0. /\ TypeOK /\ Stamps /\ Young /\ NextIndexingRepairs
      /\ \A r \in Process : r \notin touched => Own(r)
  BY DEF IInv
<1> DEFINE q == call[p].path
<1>1. q \in Path
  BY <1>0 DEF AddNote, At, TypeOK, Over
<1>2. /\ call'[p].pc = "note" /\ call'[p].tested = 0 /\ call'[p].date = 0
      /\ \A r \in Process \ {p} : call'[r] = call[r]
  <2>1. "note" \in Over
    BY DEF Over
  <2>2. QED
    BY <1>0, <2>1, Returned DEF AddNote
<1>3. /\ rows'[q] = [content |-> Rendered(p), date |-> call[p].date]
      /\ \A r \in Path \ {q} : rows'[r] = rows[r]
  BY <1>0, <1>1 DEF AddNote, TypeOK
<1>4. Stamps'
  <2>1. UNCHANGED <<disk, clock>>
    BY DEF AddNote
  <2>2. \A r \in Path : rows'[r] # None => rows'[r].date \leq clock
    BY <1>0, <1>1, <1>3, SMT DEF Stamps
  <2>3. \A r \in Process : call'[r].tested \leq clock /\ call'[r].date \leq clock
    BY <1>0, <1>1, <1>2, SMT DEF Stamps, TypeOK
  <2>4. QED
    BY <1>0, <2>1, <2>2, <2>3 DEF Stamps
<1>5. Young'
  BY <1>0, <1>1, <1>2 DEF AddNote, Young
<1>6. \A r \in Process : r \notin touched' => Own(r)'
  <2> SUFFICES ASSUME NEW r \in Process, r \notin touched' PROVE Own(r)'
    OBVIOUS
  <2>1. disk' = disk /\ extra' = extra /\ touched' = touched \ {p}
    BY DEF AddNote, Return
  <2>2. CASE r = p
    BY <1>1, <1>2, <2>2 DEF Own
  <2>3. CASE r # p
    <3>1. call'[r] = call[r] /\ Own(r)
      BY <1>0, <1>2, <2>1, <2>3
    <3>2. QED
      BY <2>1, <3>1 DEF Own, Rendered
  <2>4. QED
    BY <2>2, <2>3
<1>7. NextIndexingRepairs'
  <2>1. p \notin touched => disk[q] # None /\ disk[q].content = Rendered(p)
    BY <1>0 DEF AddNote, At, Own
  <2>2. raced \subseteq raced' /\ (p \in touched => q \in raced')
    BY DEF AddNote
  <2>3. disk' = disk
    BY DEF AddNote
  <2>4. q \notin raced' => rows'[q].content = disk'[q].content
    BY <1>3, <2>1, <2>2, <2>3, SMT
  <2>5. QED
    BY <1>0, <1>3, <2>2, <2>3, <2>4 DEF NextIndexingRepairs
<1>8. QED
  BY <1>4, <1>5, <1>6, <1>7 DEF IInv

\* The user's write has a date of its own, and disturbs the calls for its path.
LEMMA UserSavesInv ==
  ASSUME IInv, NEW q \in Path, UserSaves(q), TypeOK'
  PROVE  IInv'
<1>0. /\ TypeOK /\ Stamps /\ Young /\ NextIndexingRepairs
      /\ \A r \in Process : r \notin touched => Own(r)
  BY DEF IInv
<1>1. PICK i \in {clock + 1} \cup (IF disk[q] = None THEN {} ELSE {disk[q].inode}) :
        disk' = [disk EXCEPT ![q] = [content |-> ByUser, date |-> clock + 1, inode |-> i]]
  BY DEF UserSaves
<1>2. /\ disk'[q] = [content |-> ByUser, date |-> clock + 1, inode |-> i]
      /\ \A r \in Path \ {q} : disk'[r] = disk[r]
      /\ clock' = clock + 1 /\ clock \in Nat /\ call' = call
  <2>1. clock' = clock + 1 /\ call' = call
    BY DEF UserSaves
  <2>2. clock \in Nat /\ disk \in [Path -> File \cup {None}]
    BY <1>0, SMT DEF TypeOK
  <2>3. QED
    BY <1>1, <2>1, <2>2
<1>3. /\ i \in Nat /\ i \leq clock + 1
      /\ i = clock + 1 \/ (disk[q] # None /\ i = disk[q].inode)
  <2>1. disk[q] # None => disk[q].inode \in Nat /\ disk[q].inode \leq clock
    BY <1>0, Numbers DEF Stamps
  <2>2. i = clock + 1 \/ (disk[q] # None /\ i = disk[q].inode)
    OBVIOUS
  <2>3. QED
    BY <1>2, <2>1, <2>2, SMT
<1>4. Stamps'
  <2>1. \A r \in Path : disk'[r] # None => disk'[r].date \leq clock' /\ disk'[r].inode \leq clock'
    <3>1. disk'[q].date \leq clock' /\ disk'[q].inode \leq clock'
      BY <1>2, <1>3, SMT
    <3>2. ASSUME NEW r \in Path \ {q}, disk'[r] # None
          PROVE  disk'[r].date \leq clock' /\ disk'[r].inode \leq clock'
      <4>1. disk'[r] = disk[r]
        BY <1>2
      <4>2. /\ disk[r].date \in Nat /\ disk[r].inode \in Nat
            /\ disk[r].date \leq clock /\ disk[r].inode \leq clock
        BY <1>0, <3>2, <4>1, Numbers DEF Stamps
      <4>3. QED
        BY <1>2, <4>1, <4>2, SMT
    <3>3. QED
      BY <3>1, <3>2
  <2>2. \A r \in Path : rows'[r] # None => rows'[r].date \leq clock'
    <3>1. rows' = rows
      BY DEF UserSaves
    <3>2. \A r \in Path : rows[r] # None => rows[r].date \in Nat /\ rows[r].date \leq clock
      BY <1>0, Numbers DEF Stamps
    <3>3. QED
      BY <1>2, <3>1, <3>2, SMT
  <2>3. \A r \in Process : call'[r].tested \leq clock' /\ call'[r].date \leq clock'
    <3>1. \A r \in Process : /\ call[r].tested \in Nat /\ call[r].tested \leq clock
                              /\ call[r].date \in Nat /\ call[r].date \leq clock
      BY <1>0, Numbers DEF Stamps
    <3>2. QED
      BY <1>2, <3>1, SMT
  <2>4. QED
    BY <2>1, <2>2, <2>3 DEF Stamps
<1>5. Young'
  <2> SUFFICES ASSUME NEW r \in Process, call[r].pc = "create", disk'[call[r].path] # None
               PROVE  disk'[call[r].path].inode > call[r].tested
    BY <1>2 DEF Young
  <2>1. call[r].path \in Path /\ call[r].tested \leq clock /\ call[r].tested \in Nat
    <3>1. call[r].path \in Path
      BY <1>0 DEF TypeOK
    <3>2. QED
      BY <1>0, <3>1, Numbers DEF Stamps
  <2>2. CASE call[r].path # q
    BY <1>0, <1>2, <2>1, <2>2 DEF Young
  <2>3. CASE call[r].path = q
    <3>1. disk[q] # None => disk[q].inode > call[r].tested
      BY <1>0, <2>3 DEF Young
    <3>2. i > call[r].tested
      BY <1>2, <1>3, <2>1, <3>1, SMT
    <3>3. disk'[q].inode = i
      BY <1>2, SMT
    <3>4. QED
      BY <2>3, <3>2, <3>3
  <2>4. QED
    BY <2>2, <2>3
<1>6. \A r \in Process : r \notin touched' => Own(r)'
  <2> SUFFICES ASSUME NEW r \in Process, r \notin touched' PROVE Own(r)'
    OBVIOUS
  <2>1. r \notin touched /\ call[r].path # q
    BY NewNoteAssumption DEF UserSaves, Touch
  <2>2. call[r].pc \in {"write", "stat", "add"} => disk'[call[r].path] = disk[call[r].path]
    BY <1>0, <1>2, <2>1 DEF TypeOK
  <2>3. QED
    <3>1. Own(r) /\ call' = call /\ extra' = extra
      BY <1>0, <2>1 DEF UserSaves
    <3>2. QED
      BY <2>2, <3>1 DEF Own, Rendered
<1>7. NextIndexingRepairs'
  <2> SUFFICES ASSUME NEW r \in Path, disk'[r] # None, rows'[r] # None,
                      rows'[r].date = disk'[r].date, r \notin raced'
               PROVE  rows'[r].content = disk'[r].content
    BY DEF NextIndexingRepairs
  <2>1. rows' = rows /\ raced' = raced
    BY DEF UserSaves
  <2>2. rows[r].date \leq clock /\ rows[r].date \in Nat
    BY <1>0, <2>1, Numbers DEF Stamps
  <2>3. disk'[q].date = clock + 1
    BY <1>2, SMT
  <2>4. r # q
    BY <1>2, <2>1, <2>2, <2>3, SMT
  <2>5. QED
    BY <1>0, <1>2, <2>1, <2>4 DEF NextIndexingRepairs
<1>8. QED
  BY <1>4, <1>5, <1>6, <1>7 DEF IInv

\* Deleting a file disturbs the calls for its path.
LEMMA UserDeletesInv ==
  ASSUME IInv, NEW q \in Path, UserDeletes(q), TypeOK'
  PROVE  IInv'
<1>0. /\ TypeOK /\ Stamps /\ Young /\ NextIndexingRepairs
      /\ \A r \in Process : r \notin touched => Own(r)
  BY DEF IInv
<1>1. disk'[q] = None /\ \A r \in Path \ {q} : disk'[r] = disk[r]
  BY <1>0 DEF UserDeletes, TypeOK
<1>2. Stamps' /\ NextIndexingRepairs'
  BY <1>0, <1>1, SMT DEF UserDeletes, Stamps, NextIndexingRepairs
<1>3. Young'
  BY <1>0, <1>1 DEF UserDeletes, Young, TypeOK
<1>4. \A r \in Process : r \notin touched' => Own(r)'
  <2> SUFFICES ASSUME NEW r \in Process, r \notin touched' PROVE Own(r)'
    OBVIOUS
  <2>1. r \notin touched /\ call[r].path # q
    BY NewNoteAssumption DEF UserDeletes, Touch
  <2>2. call[r].pc \in {"write", "stat", "add"} => disk'[call[r].path] = disk[call[r].path]
    BY <1>0, <1>1, <2>1 DEF TypeOK
  <2>3. QED
    <3>1. Own(r) /\ call' = call /\ extra' = extra
      BY <1>0, <2>1 DEF UserDeletes
    <3>2. QED
      BY <2>2, <3>1 DEF Own, Rendered
<1>5. QED
  BY <1>2, <1>3, <1>4 DEF IInv

\* Indexing gives every row whose date differs the content of its file.
LEMMA IndexInv ==
  ASSUME IInv, Index, TypeOK'
  PROVE  IInv'
<1>0. /\ TypeOK /\ Stamps /\ Young /\ NextIndexingRepairs
      /\ \A r \in Process : r \notin touched => Own(r)
  BY DEF IInv
<1>1. Stamps'
  BY <1>0 DEF Index, Indexed, Stamps, TypeOK, File, Row
<1>2. Young' /\ \A r \in Process : r \notin touched' => Own(r)'
  BY ZenonT(30), <1>0 DEF Index, Young, Own, Rendered
<1>3. NextIndexingRepairs'
  BY <1>0 DEF Index, Indexed, NextIndexingRepairs, TypeOK, File, Row
<1>4. QED
  BY <1>1, <1>2, <1>3 DEF IInv

\* Every step keeps the invariant.
LEMMA IInvStep == IInv /\ [Next]_vars => IInv'
<1> SUFFICES ASSUME IInv, [Next]_vars PROVE IInv'
  OBVIOUS
<1>1. TypeOK'
  BY TypeStep DEF IInv
<1>2. ASSUME NEW p \in Process, Step(p) PROVE IInv'
  <2>1. ASSUME NoteExists(p) \/ DryRun(p) \/ Fails(p) \/ AddLost(p) \/ AddFails(p) \/ Crash(p)
        PROVE  IInv'
    <3>1. PICK x \in Over : Return(p, x)
      BY <2>1 DEF NoteExists, DryRun, Fails, AddLost, AddFails, Crash, Over
    <3>2. UNCHANGED <<disk, rows, clock, raced>>
      BY <2>1 DEF NoteExists, DryRun, Fails, AddLost, AddFails, Crash
    <3>3. \A r \in Process \ {p} : extra'[r] = extra[r]
      BY <2>1 DEF NoteExists, DryRun, Fails, AddLost, AddFails, Crash, IInv, TypeOK
    <3>4. QED
      BY <1>1, <3>1, <3>2, <3>3, ReturnInv
  <2>2. QED
    BY <1>1, <1>2, <2>1, InvokeInv, GenerateInv, CreateFileInv, WriteContentInv,
       StatFileInv, AddNoteInv DEF Step
<1>3. ASSUME UNCHANGED vars PROVE IInv'
  BY <1>3 DEF vars, IInv, TypeOK, Stamps, Young, Own, Rendered, NextIndexingRepairs
<1>4. QED
  BY <1>1, <1>2, <1>3, UserSavesInv, UserDeletesInv, IndexInv DEF Next

\* The invariant holds in every state.
LEMMA IInvAlways == Spec => []IInv
BY IInvInit, IInvStep, PTL DEF Spec

-----------------------------------------------------------------------------
\* Whatever the processes and the user do, and wherever a call of NewNote
\* fails or its process ends, the next indexing brings every row that nobody
\* raced for in line with its file.
THEOREM NextIndexingRepairsTheorem == Spec => []NextIndexingRepairs
<1>1. IInv => NextIndexingRepairs
  BY DEF IInv
<1>2. QED
  BY <1>1, IInvAlways, PTL

\* NewNote never writes over a file that was there when it looked for a free
\* filename.
THEOREM KeepsExistingNotesTheorem == Spec => KeepsExistingNotes
<1>1. IInv /\ [Next]_vars =>
        [\A p \in Process : At(p, "create") /\ call'[p].pc = "write" =>
           LET q == call[p].path IN disk[q] # None => disk[q].inode > call[p].tested]_vars
  BY DEF IInv, Young, At
<1>2. QED
  BY <1>1, IInvAlways, PTL DEF Spec, KeepsExistingNotes

\* Only the end of its own NoteIndex.Add makes a call return a note.
LEMMA OnlyAddReturns ==
  ASSUME TypeOK, Next, NEW p \in Process, At(p, "add"), call'[p].pc \in {"note", "unsaved"}
  PROVE  (AddNote(p) /\ call'[p].pc = "note") \/ (AddLost(p) /\ call'[p].pc = "unsaved")
<1>1. call'[p] # call[p] /\ call[p].pc = "add"
  BY DEF At
<1>2. ~Index /\ \A q \in Path : ~UserSaves(q) /\ ~UserDeletes(q)
  BY <1>1 DEF Index, UserSaves, UserDeletes
<1>3. PICK r \in Process : Step(r)
  BY <1>2 DEF Next
<1>4. r = p
  BY <1>1, <1>3 DEF Step, Invoke, Generate, NoteExists, DryRun, CreateFile, WriteContent,
     Fails, StatFile, AddNote, AddLost, AddFails, Crash, Return, TypeOK
<1>5. AddNote(p) \/ AddLost(p) \/ AddFails(p) \/ Crash(p)
  BY <1>1, <1>3, <1>4 DEF Step, Invoke, Generate, NoteExists, DryRun, CreateFile,
     WriteContent, Fails, StatFile, At, Over
<1>6. \A x \in Over : Return(p, x) => call'[p].pc = x
  BY Returned
<1>7. "note" \in Over /\ "unsaved" \in Over /\ "error" \in Over /\ "idle" \in Over
  BY DEF Over
<1>8. QED
  BY <1>5, <1>6, <1>7 DEF AddNote, AddLost, AddFails, Crash

\* A note that NewNote returns is on the disk, and in the index as it is on the
\* disk, unless somebody else wrote or deleted its file during the call, or the
\* commit failed: then there is no row for it.
THEOREM ReturnedNoteIsIndexedTheorem == Spec => ReturnedNoteIsIndexed
<1>1. ASSUME IInv, [Next]_vars
      PROVE  [\A p \in Process : At(p, "add") /\ call'[p].pc \in {"note", "unsaved"} =>
                LET q == call[p].path IN
                  \/ p \in touched
                  \/ /\ disk'[q] # None /\ disk'[q].content.no = call[p].no
                     /\ IF call'[p].pc = "unsaved" THEN rows'[q] = None
                        ELSE rows'[q] = [content |-> disk'[q].content,
                                         date |-> disk'[q].date]]_vars
  <2> SUFFICES ASSUME Next, NEW p \in Process, At(p, "add"),
                      call'[p].pc \in {"note", "unsaved"}, p \notin touched
               PROVE  /\ disk'[call[p].path] # None
                      /\ disk'[call[p].path].content.no = call[p].no
                      /\ IF call'[p].pc = "unsaved" THEN rows'[call[p].path] = None
                         ELSE rows'[call[p].path] = [content |-> disk'[call[p].path].content,
                                                     date |-> disk'[call[p].path].date]
    BY <1>1
  <2>1. (AddNote(p) /\ call'[p].pc = "note") \/ (AddLost(p) /\ call'[p].pc = "unsaved")
    BY <1>1, OnlyAddReturns DEF IInv
  <2>2. /\ disk[call[p].path] # None /\ disk[call[p].path].content = Rendered(p)
        /\ disk[call[p].path].date = call[p].date
    BY <1>1 DEF IInv, Own, At
  <2>3. Rendered(p).no = call[p].no
    BY DEF Rendered
  <2>4. disk' = disk
    BY <2>1 DEF AddNote, AddLost
  <2>5. CASE AddNote(p) /\ call'[p].pc = "note"
    <3>1. call[p].path \in Path
      BY <1>1, <2>5 DEF IInv, TypeOK, At, Over
    <3>2. rows'[call[p].path] = [content |-> Rendered(p), date |-> call[p].date]
      BY <1>1, <2>5, <3>1 DEF AddNote, IInv, TypeOK
    <3>3. QED
      BY <2>2, <2>3, <2>4, <2>5, <3>2
  <2>6. CASE AddLost(p) /\ call'[p].pc = "unsaved"
    BY <2>2, <2>3, <2>4, <2>6 DEF AddLost
  <2>7. QED
    BY <2>1, <2>5, <2>6
<1>2. QED
  BY <1>1, IInvAlways, PTL DEF Spec, ReturnedNoteIsIndexed
=============================================================================
