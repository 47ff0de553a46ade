------------------------- MODULE DiagnosticsProofs --------------------------
(***************************************************************************)
(* The flag NeedsRefreshDiagnostics debounces the changes of a document    *)
(* without getting stuck, although nothing guards it, and once every       *)
(* refresh is over the diagnostics are those of the current content: for   *)
(* any number of documents, goroutines and changes.  A search for links    *)
(* that no other one overlaps finds the links of its lines, whatever they  *)
(* are and whatever earlier searches left in the variables of the package. *)
(***************************************************************************)
EXTENDS Diagnostics, TLAPS, WellFoundedInduction

\* The prover of the steps that do not name one.
USE ZenonT(30)

IsObject(o) == o = [f \in {"path", "content", "lines", "needsRefresh"} |-> o[f]] /\ o.needsRefresh \in BOOLEAN
IsThread(t) == t = [f \in {"pc", "doc", "local", "no"} |-> t[f]]

\* A list of document objects.
Objects(ds) ==
  /\ Len(ds) \in Nat /\ ds = [i \in 1 .. Len(ds) |-> ds[i]]
  /\ \A i \in 1 .. Len(ds) : IsObject(ds[i])

\* A thread at work is at work on an object, and so is a document on record.
Shape ==
  /\ Objects(doc)
  /\ thread = [s \in Scanner |-> thread[s]]
  /\ \A s \in Scanner : IsThread(thread[s]) /\ (thread[s].pc # "free" => thread[s].doc \in 1 .. Len(doc))
  /\ documents = [p \in Path |-> documents[p]]
  /\ \A p \in Path : documents[p] \in 0 .. Len(doc)

\* The refresh of the object d that has not woken up yet.
Sleeps(g, d) == thread[g].pc = "sleep" /\ thread[g].doc = d

\* The flag of an object is set exactly when one refresh sleeps.
Debounced(d) ==
  /\ doc[d].needsRefresh => \E g \in Goroutine : Sleeps(g, d)
  /\ \A g \in Goroutine : Sleeps(g, d) => doc[d].needsRefresh
  /\ \A g, h \in Goroutine : Sleeps(g, d) /\ Sleeps(h, d) => g = h

IInv == Shape /\ \A d \in 1 .. Len(doc) : Debounced(d)

-----------------------------------------------------------------------------
(* Objects and threads.                                                    *)

\* A thread at rest.
LEMMA FreeThread == IsThread(Free) /\ Free.pc = "free"
  BY DEF IsThread, Free

\* A refresh that has just been started.
LEMMA NewRefresh ==
  ASSUME NEW d, NEW n
  PROVE  LET t == [Free EXCEPT !.pc = "sleep", !.doc = d, !.no = n]
         IN  IsThread(t) /\ t.pc = "sleep" /\ t.doc = d
  BY DEF IsThread, Free

\* A handler at work on an object.
LEMMA NewCall ==
  ASSUME NEW d, NEW pc
  PROVE  LET t == [Free EXCEPT !.pc = pc, !.doc = d] IN IsThread(t) /\ t.pc = pc /\ t.doc = d
  BY DEF IsThread, Free

\* An object is replaced.
LEMMA ObjectReplaced ==
  ASSUME NEW ds, Objects(ds), NEW d \in 1 .. Len(ds), NEW o, IsObject(o)
  PROVE  LET e == [ds EXCEPT ![d] = o]
         IN  Objects(e) /\ Len(e) = Len(ds) /\ \A i \in 1 .. Len(ds) : e[i] = IF i = d THEN o ELSE ds[i]
<1> DEFINE e == [i \in 1 .. Len(ds) |-> IF i = d THEN o ELSE ds[i]]
<1>1. [ds EXCEPT ![d] = o] = e  BY DEF Objects
<1>2. Len(e) = Len(ds)  BY SMT DEF Objects
<1>3. Objects(e)  BY <1>2 DEF Objects
<1> QED  BY <1>1, <1>2, <1>3

\* The objects after an assignment to one field of one of them.
SetFlag(ds, d, v) == [ds EXCEPT ![d].needsRefresh = v]
SetLines(ds, d, v) == [ds EXCEPT ![d].lines = v]
SetContent(ds, d, v) == [ds EXCEPT ![d].content = v]

\* The objects e are the objects ds, but for the fields of one of them.
Changed(e, ds, d, content, lines, flag) ==
  /\ Objects(e) /\ Len(e) = Len(ds)
  /\ \A i \in 1 .. Len(ds) : i # d => e[i] = ds[i]
  /\ e[d].path = ds[d].path /\ e[d].content = content /\ e[d].lines = lines
  /\ e[d].needsRefresh = flag

\* NeedsRefreshDiagnostics of one object is assigned.
LEMMA FlagAssigned ==
  ASSUME NEW ds, Objects(ds), NEW d \in 1 .. Len(ds), NEW v \in BOOLEAN
  PROVE  Changed(SetFlag(ds, d, v), ds, d, ds[d].content, ds[d].lines, v)
<1> DEFINE o == [ds[d] EXCEPT !.needsRefresh = v]
<1>1. /\ IsObject(o) /\ o.path = ds[d].path /\ o.content = ds[d].content /\ o.lines = ds[d].lines
      /\ o.needsRefresh = v
  BY DEF Objects, IsObject
<1>2. SetFlag(ds, d, v) = [ds EXCEPT ![d] = o]  BY DEF Objects, SetFlag
<1> HIDE DEF o
<1>3. LET e == [ds EXCEPT ![d] = o]
      IN  Objects(e) /\ Len(e) = Len(ds) /\ \A i \in 1 .. Len(ds) : e[i] = IF i = d THEN o ELSE ds[i]
  BY <1>1, ObjectReplaced, SMT
<1> QED  BY <1>1, <1>2, <1>3 DEF Changed

\* The cached lines of one object are assigned.
LEMMA LinesAssigned ==
  ASSUME NEW ds, Objects(ds), NEW d \in 1 .. Len(ds), NEW v
  PROVE  Changed(SetLines(ds, d, v), ds, d, ds[d].content, v, ds[d].needsRefresh)
<1> DEFINE o == [ds[d] EXCEPT !.lines = v]
<1>1. /\ IsObject(o) /\ o.path = ds[d].path /\ o.content = ds[d].content /\ o.lines = v
      /\ o.needsRefresh = ds[d].needsRefresh
  BY DEF Objects, IsObject
<1>2. SetLines(ds, d, v) = [ds EXCEPT ![d] = o]  BY DEF Objects, SetLines
<1> HIDE DEF o
<1>3. LET e == [ds EXCEPT ![d] = o]
      IN  Objects(e) /\ Len(e) = Len(ds) /\ \A i \in 1 .. Len(ds) : e[i] = IF i = d THEN o ELSE ds[i]
  BY <1>1, ObjectReplaced, SMT
<1> QED  BY <1>1, <1>2, <1>3 DEF Changed

\* The content of one object is assigned.
LEMMA ContentAssigned ==
  ASSUME NEW ds, Objects(ds), NEW d \in 1 .. Len(ds), NEW v
  PROVE  Changed(SetContent(ds, d, v), ds, d, v, ds[d].lines, ds[d].needsRefresh)
<1> DEFINE o == [ds[d] EXCEPT !.content = v]
<1>1. /\ IsObject(o) /\ o.path = ds[d].path /\ o.content = v /\ o.lines = ds[d].lines
      /\ o.needsRefresh = ds[d].needsRefresh
  BY DEF Objects, IsObject
<1>2. SetContent(ds, d, v) = [ds EXCEPT ![d] = o]  BY DEF Objects, SetContent
<1> HIDE DEF o
<1>3. LET e == [ds EXCEPT ![d] = o]
      IN  Objects(e) /\ Len(e) = Len(ds) /\ \A i \in 1 .. Len(ds) : e[i] = IF i = d THEN o ELSE ds[i]
  BY <1>1, ObjectReplaced, SMT
<1> QED  BY <1>1, <1>2, <1>3 DEF Changed

\* A new object is added at the end.
LEMMA ObjectAdded ==
  ASSUME NEW ds, Objects(ds), NEW o, IsObject(o)
  PROVE  LET e == Append(ds, o)
         IN  /\ Objects(e) /\ Len(e) = Len(ds) + 1 /\ e[Len(ds) + 1] = o
             /\ \A i \in 1 .. Len(ds) : e[i] = ds[i]
<1> DEFINE S == {ds[i] : i \in 1 .. Len(ds)} \cup {o}
           e == Append(ds, o)
<1>1. ds \in Seq(S)
  <2>1. [i \in 1 .. Len(ds) |-> ds[i]] \in Seq(S)  BY SMT DEF Objects
  <2> QED  BY <2>1 DEF Objects
<1>2. o \in S  OBVIOUS
<1> HIDE DEF S
<1>3. /\ e \in Seq(S) /\ Len(e) = Len(ds) + 1 /\ e[Len(ds) + 1] = o
      /\ \A i \in 1 .. Len(ds) : e[i] = ds[i]
  BY <1>1, <1>2, SMT
<1> HIDE DEF e
<1>4. e = [i \in 1 .. Len(e) |-> e[i]]  BY <1>3, SMT
<1>5. Objects(e)  BY <1>3, <1>4, SMT DEF Objects
<1> QED  BY <1>3, <1>5 DEF e

-----------------------------------------------------------------------------
(* The steps.                                                              *)

\* A step that neither sets a flag nor starts or wakes a refresh.
LEMMA Undisturbed ==
  ASSUME IInv, UNCHANGED documents,
         Objects(doc'), Len(doc') = Len(doc),
         \A i \in 1 .. Len(doc) : doc'[i].needsRefresh = doc[i].needsRefresh,
         thread' = [s \in Scanner |-> thread'[s]],
         \A s \in Scanner : /\ IsThread(thread'[s])
                            /\ thread'[s].pc # "free" => thread'[s].doc \in 1 .. Len(doc),
         \A g \in Goroutine : /\ thread'[g].pc = "sleep" <=> thread[g].pc = "sleep"
                              /\ thread[g].pc = "sleep" => thread'[g].doc = thread[g].doc
  PROVE  IInv'
<1>1. Shape'  BY DEF IInv, Shape
<1>2. ASSUME NEW d \in 1 .. Len(doc) PROVE Debounced(d)'
  BY <1>2, SMT DEF IInv, Debounced, Sleeps
<1> QED  BY <1>1, <1>2 DEF IInv

\* refreshDiagnosticsOfDocument starts a refresh only when none sleeps.
LEMMA RefreshKeeps ==
  ASSUME IInv, NEW ds, Objects(ds), Len(doc) <= Len(ds),
         \A i \in 1 .. Len(ds) : ds[i].needsRefresh = IF i \in 1 .. Len(doc) THEN doc[i].needsRefresh ELSE FALSE,
         NEW d \in 1 .. Len(ds), Refresh(ds, d),
         documents' = [p \in Path |-> documents'[p]],
         \A p \in Path : documents'[p] \in 0 .. Len(ds)
  PROVE  IInv'
<1>1. "main" \in Scanner /\ "main" \notin Goroutine /\ Goroutine \subseteq Scanner
  BY DiagnosticsAssumption
<1>2. Len(doc) \in Nat /\ Len(ds) \in Nat  BY DEF IInv, Shape, Objects
<1>3. \A g \in Goroutine, e \in 1 .. Len(ds) : Sleeps(g, e) => e \in 1 .. Len(doc)
  BY <1>1 DEF Sleeps, IInv, Shape
<1>4. ASSUME NEW e \in 1 .. Len(ds)
      PROVE  /\ ds[e].needsRefresh => \E g \in Goroutine : Sleeps(g, e)
             /\ \A g \in Goroutine : Sleeps(g, e) => ds[e].needsRefresh
             /\ \A g, h \in Goroutine : Sleeps(g, e) /\ Sleeps(h, e) => g = h
  BY <1>3, <1>4 DEF IInv, Debounced
<1>5. CASE ds[d].needsRefresh \/ ds[d].path \notin InNotebook
  <2>1. doc' = ds /\ thread' = [thread EXCEPT !["main"] = Free]  BY <1>5 DEF Refresh
  <2>2. Shape'
    <3>1. /\ thread' = [s \in Scanner |-> thread'[s]] /\ thread'["main"] = Free
          /\ \A s \in Scanner \ {"main"} : thread'[s] = thread[s]
      BY <1>1, <2>1 DEF IInv, Shape
    <3>2. \A s \in Scanner : IsThread(thread'[s]) /\ (thread'[s].pc # "free" => thread'[s].doc \in 1 .. Len(ds))
      <4>1. ASSUME NEW s \in Scanner, s # "main"
            PROVE  IsThread(thread'[s]) /\ (thread'[s].pc # "free" => thread'[s].doc \in 1 .. Len(ds))
        BY <1>2, <3>1, <4>1, SMT DEF IInv, Shape
      <4> QED  BY <3>1, <4>1, FreeThread
    <3> QED  BY <2>1, <3>1, <3>2 DEF Shape
  <2>3. \A g \in Goroutine : thread'[g] = thread[g]  BY <1>1, <2>1 DEF IInv, Shape
  <2>4. ASSUME NEW e \in 1 .. Len(ds) PROVE Debounced(e)'
    BY <1>4, <2>1, <2>3, SMT DEF Debounced, Sleeps
  <2> QED  BY <2>1, <2>2, <2>4 DEF IInv
<1>6. CASE ~(ds[d].needsRefresh \/ ds[d].path \notin InNotebook)
  <2> DEFINE awake(n) == [Free EXCEPT !.pc = "sleep", !.doc = d, !.no = n]
  <2>1. PICK g \in Goroutine :
          /\ thread[g].pc = "free"
          /\ doc' = [ds EXCEPT ![d].needsRefresh = TRUE]
          /\ thread' = [thread EXCEPT !["main"] = Free, ![g] = awake(spawned + 1)]
    BY <1>6 DEF Refresh
  <2>2. /\ Objects(doc') /\ Len(doc') = Len(ds)
        /\ \A i \in 1 .. Len(ds) : doc'[i].needsRefresh = IF i = d THEN TRUE ELSE ds[i].needsRefresh
    <3>1. TRUE \in BOOLEAN  OBVIOUS
    <3>2. Changed(SetFlag(ds, d, TRUE), ds, d, ds[d].content, ds[d].lines, TRUE)  BY <3>1, FlagAssigned
    <3> QED  BY <2>1, <3>2 DEF SetFlag, Changed
  <2>3. /\ thread' = [s \in Scanner |-> thread'[s]]
        /\ IsThread(thread'["main"]) /\ thread'["main"].pc = "free"
        /\ IsThread(thread'[g]) /\ thread'[g].pc = "sleep" /\ thread'[g].doc = d
        /\ \A s \in Scanner \ {"main", g} : thread'[s] = thread[s]
    <3> HIDE DEF awake
    <3>1. /\ thread' = [s \in Scanner |-> thread'[s]]
          /\ thread'["main"] = Free /\ thread'[g] = awake(spawned + 1)
          /\ \A s \in Scanner \ {"main", g} : thread'[s] = thread[s]
      BY <1>1, <2>1 DEF IInv, Shape
    <3>2. \A n : IsThread(awake(n)) /\ awake(n).pc = "sleep" /\ awake(n).doc = d
      BY NewRefresh DEF awake
    <3> QED  BY <3>1, <3>2, FreeThread
  <2>4. Shape'
    <3>1. ASSUME NEW s \in Scanner
          PROVE  IsThread(thread'[s]) /\ (thread'[s].pc # "free" => thread'[s].doc \in 1 .. Len(ds))
      <4>1. CASE s = "main"  BY <2>3, <4>1
      <4>2. CASE s = g  BY <2>3, <4>2
      <4>3. CASE s \notin {"main", g}  BY <1>2, <2>3, <4>3, SMT DEF IInv, Shape
      <4> QED  BY <4>1, <4>2, <4>3
    <3>2. documents' = [p \in Path |-> documents'[p]] /\ \A p \in Path : documents'[p] \in 0 .. Len(ds)
      OBVIOUS
    <3> QED  BY <2>2, <2>3, <3>1, <3>2 DEF Shape
  <2>5. ASSUME NEW e \in 1 .. Len(ds) PROVE Debounced(e)'
    <3>1. CASE e = d
      <4>1. \A h \in Goroutine : ~Sleeps(h, d)  BY <1>4, <1>6
      <4>2. \A h \in Goroutine : Sleeps(h, d)' <=> h = g  BY <1>1, <2>3, <4>1 DEF Sleeps
      <4> QED  BY <2>2, <3>1, <4>2 DEF Debounced
    <3>2. CASE e # d
      <4>1. \A h \in Goroutine : Sleeps(h, e)' <=> Sleeps(h, e)  BY <1>1, <2>1, <2>3, <3>2, ZenonT(30) DEF Sleeps
      <4> QED  BY <1>4, <2>2, <3>2, <4>1 DEF Debounced
    <3> QED  BY <3>1, <3>2
  <2> QED  BY <2>2, <2>4, <2>5 DEF IInv
<1> QED  BY <1>5, <1>6

\* The handlers of the editor's messages.
LEMMA EditorKeeps == IInv /\ (Editor \/ Applied) => IInv'
<1> SUFFICES ASSUME IInv, Editor \/ Applied PROVE IInv'
  OBVIOUS
<1>1. "main" \in Scanner /\ "main" \notin Goroutine /\ Goroutine \subseteq Scanner
  BY DiagnosticsAssumption
<1>2. Objects(doc) /\ Len(doc) \in Nat  BY DEF IInv, Shape, Objects
<1>3. ASSUME UNCHANGED <<documents, doc, thread>> PROVE IInv'
  BY <1>3, ZenonT(30) DEF IInv, Shape, Debounced, Sleeps
<1>4. ASSUME NEW d \in 1 .. Len(doc), NEW pc, pc # "sleep", thread["main"].pc = "free",
             thread' = [thread EXCEPT !["main"] = [Free EXCEPT !.pc = pc, !.doc = d]],
             UNCHANGED documents, Objects(doc'), Len(doc') = Len(doc),
             \A i \in 1 .. Len(doc) : doc'[i].needsRefresh = doc[i].needsRefresh
      PROVE  IInv'
  <2> DEFINE t == [Free EXCEPT !.pc = pc, !.doc = d]
  <2>1. IsThread(t) /\ t.doc = d  BY NewCall
  <2> HIDE DEF t
  <2>2. /\ thread' = [s \in Scanner |-> thread'[s]] /\ thread'["main"] = t
        /\ \A s \in Scanner \ {"main"} : thread'[s] = thread[s]
    BY <1>1, <1>4 DEF t, IInv, Shape
  <2>3. \A s \in Scanner : IsThread(thread'[s]) /\ (thread'[s].pc # "free" => thread'[s].doc \in 1 .. Len(doc))
    BY <2>1, <2>2 DEF IInv, Shape
  <2>4. \A g \in Goroutine : thread'[g] = thread[g]  BY <1>1, <2>2
  <2> QED  BY <1>4, <2>2, <2>3, <2>4, Undisturbed
<1>5. ASSUME NEW p \in Path, NEW t, DidOpen(p, t) PROVE IInv'
  <2> DEFINE o == [path |-> p, content |-> t, lines |-> None, needsRefresh |-> FALSE]
             ds == Append(doc, o)
  <2>1. IsObject(o) /\ o.needsRefresh = FALSE  BY DEF IsObject
  <2> HIDE DEF o
  <2>2. /\ Objects(ds) /\ Len(ds) = Len(doc) + 1 /\ ds[Len(doc) + 1] = o
        /\ \A i \in 1 .. Len(doc) : ds[i] = doc[i]
    BY <1>2, <2>1, ObjectAdded, SMT
  <2>3. Refresh(ds, Len(doc) + 1) /\ documents' = [documents EXCEPT ![p] = Len(doc) + 1]
    BY <1>5 DEF DidOpen, o
  <2> HIDE DEF ds
  <2>4. \A i \in 1 .. Len(ds) : ds[i].needsRefresh = IF i \in 1 .. Len(doc) THEN doc[i].needsRefresh ELSE FALSE
    <3>1. \A i \in 1 .. Len(ds) : i \in 1 .. Len(doc) \/ i = Len(doc) + 1  BY <1>2, <2>2, SMT
    <3> QED  BY <1>2, <2>1, <2>2, <3>1
  <2>5. /\ documents' = [q \in Path |-> documents'[q]]
        /\ \A q \in Path : documents'[q] \in 0 .. Len(ds)
    BY <1>2, <2>2, <2>3, SMT DEF IInv, Shape
  <2>6. Len(doc) + 1 \in 1 .. Len(ds) /\ Len(doc) <= Len(ds)  BY <1>2, <2>2, SMT
  <2> QED  BY <2>2, <2>3, <2>4, <2>5, <2>6, RefreshKeeps
<1>6. ASSUME NEW p \in Path, NEW t, DidChange(p, t) PROVE IInv'
  <2>1. CASE documents[p] = 0 /\ UNCHANGED <<doc, thread>>
    BY <1>3, <1>6, <2>1 DEF DidChange
  <2>2. ASSUME documents[p] # 0, NEW c, doc' = [doc EXCEPT ![documents[p]].content = c],
               thread' = [thread EXCEPT !["main"] = [Free EXCEPT !.pc = "apply", !.doc = documents[p]]]
        PROVE  IInv'
    <3>1. documents[p] \in 1 .. Len(doc)  BY <1>2, <2>2, SMT DEF IInv, Shape
    <3>2. /\ Objects(doc') /\ Len(doc') = Len(doc)
          /\ \A i \in 1 .. Len(doc) : doc'[i].needsRefresh = doc[i].needsRefresh
      <4>1. doc' = SetContent(doc, documents[p], c)  BY <2>2 DEF SetContent
      <4>2. Changed(doc', doc, documents[p], c, doc[documents[p]].lines, doc[documents[p]].needsRefresh)
        BY <1>2, <3>1, <4>1, ContentAssigned
      <4> QED  BY <4>2 DEF Changed
    <3> QED  BY <1>4, <1>6, <2>2, <3>1, <3>2 DEF DidChange, MainIdle
  <2> QED  BY <1>6, <2>1, <2>2 DEF DidChange
<1>7. ASSUME NEW p \in Path, Request(p) PROVE IInv'
  <2>1. documents[p] \in 1 .. Len(doc)  BY <1>2, <1>7, SMT DEF IInv, Shape, Request
  <2> QED  BY <1>2, <1>4, <1>7, <2>1 DEF Request, MainIdle
<1>8. CASE Applied
  <2> DEFINE d == thread["main"].doc
             ds == SetLines(doc, d, None)
  <2>1. d \in 1 .. Len(doc)  BY <1>1, <1>8 DEF Applied, IInv, Shape
  <2>2. Refresh(ds, d) /\ UNCHANGED documents  BY <1>8 DEF Applied, ClearedLines, SetLines
  <2>3. /\ Objects(ds) /\ Len(ds) = Len(doc)
        /\ \A i \in 1 .. Len(doc) : ds[i].needsRefresh = doc[i].needsRefresh
    <3>1. Changed(ds, doc, d, doc[d].content, None, doc[d].needsRefresh)  BY <1>2, <2>1, LinesAssigned
    <3> HIDE DEF d, ds
    <3> QED  BY <3>1 DEF Changed
  <2> HIDE DEF d, ds
  <2>4. \A i \in 1 .. Len(ds) : ds[i].needsRefresh = IF i \in 1 .. Len(doc) THEN doc[i].needsRefresh ELSE FALSE
    BY <2>3
  <2>5. /\ documents' = [q \in Path |-> documents'[q]]
        /\ \A q \in Path : documents'[q] \in 0 .. Len(ds)
    BY <2>2, <2>3 DEF IInv, Shape
  <2>6. d \in 1 .. Len(ds) /\ Len(doc) <= Len(ds)  BY <1>2, <2>1, <2>3, SMT
  <2> QED  BY <2>2, <2>3, <2>4, <2>5, <2>6, RefreshKeeps
<1>9. ASSUME NEW p \in Path, NEW t, DidOpenOther(p, t) \/ DidClose(p) PROVE IInv'
  BY <1>3, <1>9 DEF DidOpenOther, DidClose
<1> QED  BY <1>5, <1>6, <1>7, <1>8, <1>9 DEF Editor

\* The goroutines, and main when it answers a request.
LEMMA ThreadsKeep ==
  ASSUME IInv, (\E g \in Goroutine : Wake(g)) \/ (\E s \in Scanner : Thread(s)) \/ (\E n \in notices : Notify(n))
  PROVE  IInv'
<1>1. "main" \in Scanner /\ "main" \notin Goroutine /\ Goroutine \subseteq Scanner
  BY DiagnosticsAssumption
<1>2. Objects(doc) /\ Len(doc) \in Nat /\ Shape  BY DEF IInv, Shape, Objects
<1>3. ASSUME UNCHANGED <<documents, doc, thread>> PROVE IInv'
  BY <1>3, ZenonT(30) DEF IInv, Shape, Debounced, Sleeps
<1>4. ASSUME NEW s \in Scanner, thread[s].pc \notin {"sleep", "free"},
             IsThread(thread'[s]), thread'[s].pc # "sleep",
             thread'[s].pc = "free" \/ thread'[s].doc = thread[s].doc,
             thread' = [r \in Scanner |-> thread'[r]],
             \A r \in Scanner \ {s} : thread'[r] = thread[r],
             UNCHANGED documents, Objects(doc'), Len(doc') = Len(doc),
             \A i \in 1 .. Len(doc) : doc'[i].needsRefresh = doc[i].needsRefresh
      PROVE  IInv'
  <2>1. \A r \in Scanner : IsThread(thread'[r]) /\ (thread'[r].pc # "free" => thread'[r].doc \in 1 .. Len(doc))
    BY <1>2, <1>4 DEF Shape
  <2>2. \A g \in Goroutine : /\ thread'[g].pc = "sleep" <=> thread[g].pc = "sleep"
                             /\ thread[g].pc = "sleep" => thread'[g].doc = thread[g].doc
    BY <1>1, <1>4
  <2> QED  BY <1>4, <2>1, <2>2, Undisturbed
<1>5. ASSUME NEW g \in Goroutine, Wake(g) PROVE IInv'
  <2>1. PICK d \in 1 .. Len(doc) : d = thread[g].doc /\ Sleeps(g, d)
    BY <1>1, <1>2, <1>5 DEF Wake, At, Shape, Sleeps
  <2>2. /\ Objects(doc') /\ Len(doc') = Len(doc) /\ UNCHANGED documents
        /\ \A i \in 1 .. Len(doc) : doc'[i].needsRefresh = IF i = d THEN FALSE ELSE doc[i].needsRefresh
    <3>1. Changed(SetFlag(doc, d, FALSE), doc, d, doc[d].content, doc[d].lines, FALSE)
      <4>1. FALSE \in BOOLEAN  OBVIOUS
      <4> QED  BY <1>2, <4>1, FlagAssigned
    <3>2. doc' = SetFlag(doc, d, FALSE) /\ UNCHANGED documents  BY <1>5, <2>1 DEF Wake, SetFlag
    <3> QED  BY <3>1, <3>2 DEF Changed
  <2>3. /\ thread' = [r \in Scanner |-> thread'[r]]
        /\ IsThread(thread'[g]) /\ thread'[g].pc = "test" /\ thread'[g].doc = d
        /\ \A r \in Scanner \ {g} : thread'[r] = thread[r]
    BY <1>1, <1>2, <1>5, <2>1, ZenonT(30) DEF Wake, Goto, Shape, IsThread
  <2>4. Shape'  BY <1>1, <1>2, <2>1, <2>2, <2>3, SMT DEF Shape
  <2>5. ASSUME NEW e \in 1 .. Len(doc) PROVE Debounced(e)'
    <3>1. CASE e = d
      <4>1. \A h \in Goroutine : ~Sleeps(h, d)'  BY <1>1, <2>1, <2>3, SMT DEF Sleeps, IInv, Debounced
      <4> QED  BY <2>2, <3>1, <4>1 DEF Debounced
    <3>2. CASE e # d
      <4>1. \A h \in Goroutine : Sleeps(h, e)' <=> Sleeps(h, e)  BY <1>1, <2>1, <2>3, <3>2 DEF Sleeps
      <4> QED  BY <2>2, <3>2, <4>1 DEF Debounced, IInv
    <3> QED  BY <3>1, <3>2
  <2> QED  BY <2>2, <2>4, <2>5 DEF IInv
<1>6. ASSUME NEW s \in Scanner, TestLines(s) PROVE IInv'
  <2>1. /\ thread' = [r \in Scanner |-> thread'[r]] /\ thread[s].pc = "test" /\ thread'[s].pc # "sleep"
        /\ IsThread(thread'[s]) /\ thread'[s].doc = thread[s].doc
        /\ \A r \in Scanner \ {s} : thread'[r] = thread[r]
    BY <1>2, <1>6, ZenonT(30) DEF Shape, IsThread, TestLines, At, Goto
  <2> QED  BY <1>2, <1>4, <1>6, <2>1 DEF TestLines
<1>7. ASSUME NEW s \in Scanner, SplitLines(s) PROVE IInv'
  <2>1. /\ thread' = [r \in Scanner |-> thread'[r]] /\ thread[s].pc = "split" /\ thread'[s].pc # "sleep"
        /\ IsThread(thread'[s]) /\ thread'[s].doc = thread[s].doc
        /\ \A r \in Scanner \ {s} : thread'[r] = thread[r]
    BY <1>2, <1>7, ZenonT(30) DEF Shape, IsThread, SplitLines, At
  <2> QED  BY <1>2, <1>4, <1>7, <2>1 DEF SplitLines
<1>8. ASSUME NEW s \in Scanner, StoreLines(s) PROVE IInv'
  <2>1. thread[s].doc \in 1 .. Len(doc)  BY <1>2, <1>8 DEF StoreLines, At, Shape
  <2>2. /\ Objects(doc') /\ Len(doc') = Len(doc)
        /\ \A i \in 1 .. Len(doc) : doc'[i].needsRefresh = doc[i].needsRefresh
    <3>1. doc' = SetLines(doc, thread[s].doc, thread[s].local)  BY <1>8 DEF StoreLines, SetLines
    <3>2. Changed(doc', doc, thread[s].doc, doc[thread[s].doc].content, thread[s].local, doc[thread[s].doc].needsRefresh)
      BY <1>2, <2>1, <3>1, LinesAssigned
    <3> QED  BY <3>2 DEF Changed
  <2>3. /\ thread' = [r \in Scanner |-> thread'[r]] /\ thread[s].pc = "store" /\ thread'[s].pc # "sleep"
        /\ IsThread(thread'[s]) /\ thread'[s].doc = thread[s].doc
        /\ \A r \in Scanner \ {s} : thread'[r] = thread[r]
    BY <1>2, <1>8, ZenonT(30) DEF Shape, IsThread, StoreLines, At
  <2> QED  BY <1>2, <1>4, <1>8, <2>2, <2>3 DEF StoreLines
<1>9. ASSUME NEW s \in Scanner, LoadLines(s) PROVE IInv'
  <2>1. /\ thread' = [r \in Scanner |-> thread'[r]] /\ thread[s].pc = "load" /\ thread'[s].pc # "sleep"
        /\ IsThread(thread'[s]) /\ thread'[s].doc = thread[s].doc
        /\ \A r \in Scanner \ {s} : thread'[r] = thread[r]
    BY <1>2, <1>9 DEF Shape, IsThread, LoadLines, At, Goto
  <2> QED  BY <1>2, <1>4, <1>9, <2>1 DEF LoadLines
<1>10. ASSUME NEW s \in Scanner, Finish(s) PROVE IInv'
  <2>1. thread' = [thread EXCEPT ![s] = Free] /\ UNCHANGED <<documents, doc>> /\ thread[s].pc = "scan"
    BY <1>10 DEF Finish, At
  <2>2. /\ thread' = [r \in Scanner |-> thread'[r]] /\ thread'[s] = Free
        /\ \A r \in Scanner \ {s} : thread'[r] = thread[r]
    BY <1>2, <2>1 DEF Shape
  <2> QED  BY ZenonT(30), <1>2, <1>4, <2>1, <2>2, FreeThread
<1>11. ASSUME NEW s \in Scanner, Scan(s) PROVE IInv'
  BY <1>3, <1>11 DEF Scan
<1>12. ASSUME NEW n \in notices, Notify(n) PROVE IInv'
  BY <1>3, <1>12 DEF Notify
<1> QED  BY <1>5, <1>6, <1>7, <1>8, <1>9, <1>10, <1>11, <1>12 DEF Thread

-----------------------------------------------------------------------------
\* At the start there is no object, and no thread is at work.
LEMMA InitShape == Init => IInv
  BY FreeThread, SMT DEF Init, IInv, Shape, Objects

\* One refresh sleeps for a document whose flag is set, and none for another:
\* a change is never lost for a flag that stays set, nor refreshed twice
\* (server.go, refreshDiagnosticsOfDocument).
THEOREM SingleRefreshTheorem == Spec => []SingleRefresh
<1>1. Init => IInv  BY InitShape
<1>2. IInv /\ [Next]_vars => IInv'
  <2> SUFFICES ASSUME IInv, [Next]_vars PROVE IInv'
    OBVIOUS
  <2>1. CASE Next  BY <2>1, EditorKeeps, ThreadsKeep DEF Next
  <2>2. CASE UNCHANGED vars  BY <2>2, ZenonT(30) DEF vars, IInv, Shape, Debounced, Sleeps
  <2> QED  BY <2>1, <2>2
<1>3. IInv => SingleRefresh
  <2> SUFFICES ASSUME IInv, NEW d \in Object
               PROVE  IF doc[d].needsRefresh THEN \E g \in Goroutine : {h \in Goroutine : Sleeps(h, d)} = {g}
                      ELSE {h \in Goroutine : Sleeps(h, d)} = {}
    BY DEF SingleRefresh, Sleeps
  <2>1. d \in 1 .. Len(doc) /\ Debounced(d)  BY DEF IInv, Shape, Objects, Object
  <2>2. CASE doc[d].needsRefresh
    <3>1. PICK g \in Goroutine : Sleeps(g, d)  BY <2>1, <2>2 DEF Debounced
    <3>2. {h \in Goroutine : Sleeps(h, d)} = {g}  BY <2>1, <3>1 DEF Debounced
    <3> QED  BY <2>2, <3>2
  <2>3. CASE ~doc[d].needsRefresh  BY <2>1, <2>3 DEF Debounced
  <2> QED  BY <2>2, <2>3
<1> QED  BY <1>1, <1>2, <1>3, PTL DEF Spec

-----------------------------------------------------------------------------
(* What the steps do to the threads and the objects.                       *)

\* Only the thread s moves: to pc, with the local variable v.
Moved(s, pc, v) ==
  /\ \A r \in Scanner : r # s => thread'[r] = thread[r]
  /\ thread'[s].pc = pc /\ thread'[s].local = v
  /\ thread'[s].doc = thread[s].doc /\ thread'[s].no = thread[s].no

\* A thread at work has an object.
LEMMA AtWork ==
  ASSUME Shape, NEW s \in Scanner, NEW pc, pc # "free", At(s, pc)
  PROVE  thread[s].pc = pc /\ thread[s].doc \in 1 .. Len(doc)
  BY DEF Shape, At

\* An assignment to the program counter.
LEMMA PcAssigned ==
  ASSUME Shape, NEW s \in Scanner, NEW pc, thread' = [thread EXCEPT ![s].pc = pc]
  PROVE  Moved(s, pc, thread[s].local)
<1> DEFINE t == [thread[s] EXCEPT !.pc = pc]
<1>1. IsThread(thread[s])  BY DEF Shape
<1>2. t.pc = pc /\ t.local = thread[s].local /\ t.doc = thread[s].doc /\ t.no = thread[s].no
  BY <1>1 DEF IsThread
<1>3. thread'[s] = t /\ \A r \in Scanner : r # s => thread'[r] = thread[r]  BY DEF Shape
<1> HIDE DEF t
<1> QED  BY <1>2, <1>3 DEF Moved

\* The same with one to the local variable.
LEMMA LocalAssigned ==
  ASSUME Shape, NEW s \in Scanner, NEW pc, NEW v,
         thread' = [thread EXCEPT ![s].pc = pc, ![s].local = v]
  PROVE  Moved(s, pc, v)
<1> DEFINE t == [thread[s] EXCEPT !.pc = pc, !.local = v]
<1>1. IsThread(thread[s])  BY DEF Shape
<1>2. t.pc = pc /\ t.local = v /\ t.doc = thread[s].doc /\ t.no = thread[s].no  BY <1>1 DEF IsThread
<1>3. thread'[s] = t /\ \A r \in Scanner : r # s => thread'[r] = thread[r]  BY DEF Shape
<1> HIDE DEF t
<1> QED  BY <1>2, <1>3 DEF Moved

\* The goroutine wakes up and resets the flag of its object.
LEMMA WakeMoves ==
  ASSUME Shape, NEW s \in Goroutine, Wake(s), NEW d, d = thread[s].doc
  PROVE  /\ thread[s].pc = "sleep" /\ d \in 1 .. Len(doc) /\ Moved(s, "test", thread[s].local)
         /\ Changed(doc', doc, d, doc[d].content, doc[d].lines, FALSE)
<1>1. s \in Scanner  BY DiagnosticsAssumption
<1>2. thread[s].pc = "sleep" /\ d \in 1 .. Len(doc)  BY <1>1, AtWork DEF Wake
<1>3. doc' = SetFlag(doc, d, FALSE) /\ FALSE \in BOOLEAN  BY DEF Wake, SetFlag
<1>4. Changed(doc', doc, d, doc[d].content, doc[d].lines, FALSE)
  BY <1>2, <1>3, FlagAssigned DEF Shape
<1> QED  BY <1>1, <1>2, <1>4, PcAssigned DEF Wake, Goto

\* The lines are cached.
LEMMA StoreMoves ==
  ASSUME Shape, NEW s \in Scanner, StoreLines(s), NEW d, d = thread[s].doc
  PROVE  /\ thread[s].pc = "store" /\ d \in 1 .. Len(doc) /\ Moved(s, "load", None)
         /\ Changed(doc', doc, d, doc[d].content, thread[s].local, doc[d].needsRefresh)
<1>1. thread[s].pc = "store" /\ d \in 1 .. Len(doc)  BY AtWork DEF StoreLines
<1>2. doc' = SetLines(doc, d, thread[s].local)  BY DEF StoreLines, SetLines
<1>3. Changed(doc', doc, d, doc[d].content, thread[s].local, doc[d].needsRefresh)
  BY <1>1, <1>2, LinesAssigned DEF Shape
<1> QED  BY <1>1, <1>3, LocalAssigned DEF StoreLines

\* Only lines that are not cached are split.
LEMMA TestMoves ==
  ASSUME Shape, NEW s \in Scanner, TestLines(s), NEW d, d = thread[s].doc
  PROVE  /\ thread[s].pc = "test" /\ d \in 1 .. Len(doc)
         /\ Moved(s, IF doc[d].lines = None THEN "split" ELSE "load", thread[s].local)
  BY AtWork, PcAssigned DEF TestLines, Goto

\* The content is split.
LEMMA SplitMoves ==
  ASSUME Shape, NEW s \in Scanner, SplitLines(s), NEW d, d = thread[s].doc
  PROVE  /\ thread[s].pc = "split" /\ d \in 1 .. Len(doc)
         /\ Moved(s, "store", doc[d].content)
  BY AtWork, LocalAssigned DEF SplitLines

\* The search begins.
LEMMA LoadMoves ==
  ASSUME Shape, NEW s \in Scanner, LoadLines(s), NEW d, d = thread[s].doc
  PROVE  /\ thread[s].pc = "load" /\ d \in 1 .. Len(doc)
         /\ Moved(s, "scan", thread[s].local)
  BY AtWork, PcAssigned DEF LoadLines, Goto

\* The search is over.
LEMMA FinishMoves ==
  ASSUME Shape, NEW s \in Scanner, Finish(s)
  PROVE  /\ thread[s].pc = "scan" /\ thread[s].doc \in 1 .. Len(doc)
         /\ thread'[s] = Free /\ \A r \in Scanner : r # s => thread'[r] = thread[r]
<1>1. thread[s].pc = "scan" /\ thread[s].doc \in 1 .. Len(doc)  BY AtWork DEF Finish
<1> QED  BY <1>1 DEF Finish, Shape

\* A handler begins to work on an object.
LEMMA CallMoves ==
  ASSUME Shape, NEW pc, NEW d,
         thread' = [thread EXCEPT !["main"] = [Free EXCEPT !.pc = pc, !.doc = d]]
  PROVE  /\ thread'["main"].pc = pc /\ thread'["main"].doc = d
         /\ \A g \in Goroutine : thread'[g] = thread[g]
<1>1. "main" \in Scanner /\ "main" \notin Goroutine /\ Goroutine \subseteq Scanner
  BY DiagnosticsAssumption
<1> DEFINE t == [Free EXCEPT !.pc = pc, !.doc = d]
<1>2. t.pc = pc /\ t.doc = d  BY NewCall
<1> HIDE DEF t
<1>3. thread'["main"] = t /\ \A g \in Goroutine : thread'[g] = thread[g]  BY <1>1 DEF Shape, t
<1> QED  BY <1>2, <1>3

\* The goroutine g starts to refresh the object d.
Started(g, d) ==
  /\ thread[g].pc = "free" /\ spawned' = spawned + 1
  /\ thread'[g].pc = "sleep" /\ thread'[g].doc = d /\ thread'[g].no = spawned + 1
  /\ \A h \in Goroutine : h # g => thread'[h] = thread[h]

\* refreshDiagnosticsOfDocument, called for the object d of ds.
LEMMA RefreshMoves ==
  ASSUME Shape, NEW ds, Objects(ds), NEW d \in 1 .. Len(ds), Refresh(ds, d)
  PROVE  /\ thread'["main"].pc = "free" /\ Len(doc') = Len(ds)
         /\ \A i \in 1 .. Len(ds) : /\ doc'[i].path = ds[i].path
                                    /\ doc'[i].content = ds[i].content /\ doc'[i].lines = ds[i].lines
         /\ \/ /\ ds[d].needsRefresh \/ ds[d].path \notin InNotebook
               /\ UNCHANGED spawned /\ \A g \in Goroutine : thread'[g] = thread[g]
            \/ /\ ~ds[d].needsRefresh
               /\ \E g \in Goroutine : Started(g, d)
<1>1. "main" \in Scanner /\ "main" \notin Goroutine /\ Goroutine \subseteq Scanner
  BY DiagnosticsAssumption
<1>2. CASE ds[d].needsRefresh \/ ds[d].path \notin InNotebook
  <2>1. doc' = ds /\ thread' = [thread EXCEPT !["main"] = Free] /\ UNCHANGED spawned
    BY <1>2 DEF Refresh
  <2>2. thread'["main"] = Free /\ \A g \in Goroutine : thread'[g] = thread[g]
    BY <1>1, <2>1 DEF Shape
  <2> QED  BY <1>2, <2>1, <2>2, FreeThread
<1>3. CASE ~(ds[d].needsRefresh \/ ds[d].path \notin InNotebook)
  <2> DEFINE t(n) == [Free EXCEPT !.pc = "sleep", !.doc = d, !.no = n]
  <2>1. \A n : t(n).pc = "sleep" /\ t(n).doc = d /\ t(n).no = n  BY DEF Free
  <2>2. PICK g \in Goroutine :
          /\ thread[g].pc = "free" /\ doc' = SetFlag(ds, d, TRUE) /\ spawned' = spawned + 1
          /\ thread' = [thread EXCEPT !["main"] = Free, ![g] = t(spawned + 1)]
    BY <1>3 DEF Refresh, SetFlag
  <2> HIDE DEF t
  <2>3. /\ thread'["main"] = Free /\ thread'[g] = t(spawned + 1)
        /\ \A h \in Goroutine : h # g => thread'[h] = thread[h]
    BY <1>1, <2>2 DEF Shape
  <2>4. Started(g, d)
    <3>1. thread'[g].pc = "sleep" /\ thread'[g].doc = d /\ thread'[g].no = spawned + 1
      BY <2>1, <2>3
    <3> QED  BY <2>2, <2>3, <3>1 DEF Started
  <2>5. TRUE \in BOOLEAN  OBVIOUS
  <2>6. Changed(doc', ds, d, ds[d].content, ds[d].lines, TRUE)  BY <2>2, <2>5, FlagAssigned
  <2>7. /\ Len(doc') = Len(ds)
        /\ \A i \in 1 .. Len(ds) : /\ doc'[i].path = ds[i].path
                                   /\ doc'[i].content = ds[i].content /\ doc'[i].lines = ds[i].lines
    BY <2>6 DEF Changed
  <2> QED  BY <1>3, <2>3, <2>4, <2>7, FreeThread
<1> QED  BY <1>2, <1>3

\* The object d has been added for the path p and the text t.
Opened(p, t, d) ==
  /\ thread["main"].pc = "free" /\ thread'["main"].pc = "free"
  /\ Len(doc') = d /\ documents' = [documents EXCEPT ![p] = d]
  /\ \A i \in 1 .. Len(doc) : /\ doc'[i].path = doc[i].path
                              /\ doc'[i].content = doc[i].content /\ doc'[i].lines = doc[i].lines
  /\ doc'[d].path = p /\ doc'[d].content = t /\ doc'[d].lines = None
  /\ \/ p \notin InNotebook /\ UNCHANGED spawned /\ \A g \in Goroutine : thread'[g] = thread[g]
     \/ \E g \in Goroutine : Started(g, d)

\* TextDocumentDidOpen adds an object and refreshes it.
LEMMA OpenMoves ==
  ASSUME Shape, NEW p \in Path, NEW t \in Text, DidOpen(p, t), NEW d, d = Len(doc) + 1
  PROVE  Opened(p, t, d)
<1> DEFINE o == [path |-> p, content |-> t, lines |-> None, needsRefresh |-> FALSE]
           ds == Append(doc, o)
<1>1. /\ IsObject(o) /\ o.path = p /\ o.content = t /\ o.lines = None /\ ~o.needsRefresh
  BY DEF IsObject
<1>2. Refresh(ds, d) /\ documents' = [documents EXCEPT ![p] = d] /\ thread["main"].pc = "free"
  BY DEF DidOpen, MainIdle
<1> HIDE DEF o
<1>3. Objects(doc) /\ Len(doc) \in Nat  BY DEF Shape, Objects
<1>4. /\ Objects(ds) /\ Len(ds) = Len(doc) + 1 /\ ds[Len(doc) + 1] = o
      /\ \A i \in 1 .. Len(doc) : ds[i] = doc[i]
  BY <1>1, <1>3, ObjectAdded, SMT
<1> HIDE DEF ds
<1>5. d \in 1 .. Len(ds) /\ Len(ds) = d /\ \A i \in 1 .. Len(doc) : i \in 1 .. Len(ds)
  BY <1>3, <1>4, SMT
<1>6. ds[d] = o  BY <1>4
<1>7. /\ thread'["main"].pc = "free" /\ Len(doc') = Len(ds)
      /\ \A i \in 1 .. Len(ds) : /\ doc'[i].path = ds[i].path
                                 /\ doc'[i].content = ds[i].content /\ doc'[i].lines = ds[i].lines
      /\ \/ /\ ds[d].needsRefresh \/ ds[d].path \notin InNotebook
            /\ UNCHANGED spawned /\ \A g \in Goroutine : thread'[g] = thread[g]
         \/ \E g \in Goroutine : Started(g, d)
  BY <1>2, <1>4, <1>5, RefreshMoves
<1>8. \/ p \notin InNotebook /\ UNCHANGED spawned /\ \A g \in Goroutine : thread'[g] = thread[g]
      \/ \E g \in Goroutine : Started(g, d)
  BY <1>1, <1>6, <1>7
<1>9. \A i \in 1 .. Len(doc) : /\ doc'[i].path = doc[i].path
                               /\ doc'[i].content = doc[i].content /\ doc'[i].lines = doc[i].lines
  BY <1>4, <1>5, <1>7
<1>10. doc'[d].path = p /\ doc'[d].content = t /\ doc'[d].lines = None  BY <1>1, <1>5, <1>6, <1>7
<1> QED  BY <1>2, <1>5, <1>7, <1>8, <1>9, <1>10 DEF Opened

\* TextDocumentDidChange with a document on record, until Content is set.
LEMMA ChangeMoves ==
  ASSUME Shape, NEW p \in Path, NEW t, DidChange(p, t), documents[p] # 0, NEW d, d = documents[p]
  PROVE  /\ d \in 1 .. Len(doc) /\ thread["main"].pc = "free"
         /\ thread'["main"].pc = "apply" /\ thread'["main"].doc = d
         /\ \A g \in Goroutine : thread'[g] = thread[g]
         /\ \E c \in Text : Changed(doc', doc, d, c, doc[d].lines, doc[d].needsRefresh)
<1>1. d \in 1 .. Len(doc)  BY SMT DEF Shape, Objects
<1>2. PICK c \in Text : doc' = SetContent(doc, d, c)  BY DEF DidChange, SetContent
<1>3. Changed(doc', doc, d, c, doc[d].lines, doc[d].needsRefresh)
  BY <1>1, <1>2, ContentAssigned DEF Shape
<1>4. thread["main"].pc = "free"  BY DEF DidChange, MainIdle
<1>5. /\ thread'["main"].pc = "apply" /\ thread'["main"].doc = d
      /\ \A g \in Goroutine : thread'[g] = thread[g]
  BY CallMoves DEF DidChange
<1> QED  BY <1>1, <1>3, <1>4, <1>5

\* The rest of TextDocumentDidChange.
LEMMA AppliedMoves ==
  ASSUME Shape, Applied, NEW d, d = thread["main"].doc
  PROVE  /\ thread["main"].pc = "apply" /\ d \in 1 .. Len(doc)
         /\ thread'["main"].pc = "free" /\ Len(doc') = Len(doc)
         /\ \A i \in 1 .. Len(doc) : /\ doc'[i].path = doc[i].path
                                     /\ doc'[i].content = doc[i].content
                                     /\ doc'[i].lines = IF i = d THEN None ELSE doc[i].lines
         /\ \/ /\ doc[d].needsRefresh \/ doc[d].path \notin InNotebook
               /\ UNCHANGED spawned /\ \A g \in Goroutine : thread'[g] = thread[g]
            \/ /\ ~doc[d].needsRefresh
               /\ \E g \in Goroutine : Started(g, d)
<1> DEFINE ds == SetLines(doc, d, None)
<1>1. "main" \in Scanner  BY DiagnosticsAssumption
<1>2. thread["main"].pc = "apply" /\ d \in 1 .. Len(doc)  BY <1>1, AtWork DEF Applied, At
<1>3. Refresh(ds, d)  BY DEF Applied, ClearedLines, SetLines
<1>4. Changed(ds, doc, d, doc[d].content, None, doc[d].needsRefresh)
  BY <1>2, LinesAssigned DEF Shape
<1> HIDE DEF ds
<1>5. Objects(ds) /\ Len(ds) = Len(doc) /\ d \in 1 .. Len(ds)  BY <1>2, <1>4 DEF Changed
<1>6. /\ ds[d].path = doc[d].path /\ ds[d].needsRefresh = doc[d].needsRefresh
      /\ \A i \in 1 .. Len(doc) : /\ ds[i].path = doc[i].path /\ ds[i].content = doc[i].content
                                  /\ ds[i].lines = IF i = d THEN None ELSE doc[i].lines
  BY <1>2, <1>4 DEF Changed
<1>7. /\ thread'["main"].pc = "free" /\ Len(doc') = Len(ds)
      /\ \A i \in 1 .. Len(ds) : /\ doc'[i].path = ds[i].path
                                 /\ doc'[i].content = ds[i].content /\ doc'[i].lines = ds[i].lines
      /\ \/ /\ ds[d].needsRefresh \/ ds[d].path \notin InNotebook
            /\ UNCHANGED spawned /\ \A g \in Goroutine : thread'[g] = thread[g]
         \/ /\ ~ds[d].needsRefresh
            /\ \E g \in Goroutine : Started(g, d)
  BY <1>3, <1>5, RefreshMoves
<1>8. \A i \in 1 .. Len(doc) : /\ doc'[i].path = doc[i].path
                                /\ doc'[i].content = doc[i].content
                                /\ doc'[i].lines = IF i = d THEN None ELSE doc[i].lines
  BY <1>5, <1>6, <1>7
<1>9. \/ /\ doc[d].needsRefresh \/ doc[d].path \notin InNotebook
         /\ UNCHANGED spawned /\ \A g \in Goroutine : thread'[g] = thread[g]
      \/ /\ ~doc[d].needsRefresh
         /\ \E g \in Goroutine : Started(g, d)
  BY <1>6, <1>7
<1>10. thread'["main"].pc = "free" /\ Len(doc') = Len(doc)  BY <1>5, <1>7
<1> QED  BY <1>2, <1>8, <1>9, <1>10

-----------------------------------------------------------------------------
(* The texts.                                                              *)

\* main has set the content of the object d and not yet cleared its lines.
Applying(d) == thread["main"].pc = "apply" /\ thread["main"].doc = d

\* Objects and threads hold texts.  A document is on record under its path,
\* and so is the object that a change is being applied to.
TextInv ==
  /\ \A d \in 1 .. Len(doc) : /\ doc[d].path \in Path /\ doc[d].content \in Text
                              /\ doc[d].lines \in Text \cup {None}
  /\ \A s \in Scanner : thread[s].pc = "store" => thread[s].local \in Text
  /\ \A p \in Path : documents[p] # 0 => doc[documents[p]].path = p
  /\ \A d \in 1 .. Len(doc) : Applying(d) => documents[doc[d].path] = d

\* A step that opens no document.
LEMMA TextKept ==
  ASSUME Shape, TextInv, UNCHANGED documents, Len(doc') = Len(doc),
         \A d \in 1 .. Len(doc) : /\ doc'[d].path = doc[d].path /\ doc'[d].content \in Text
                                  /\ doc'[d].lines \in Text \cup {None},
         \A s \in Scanner : thread'[s].pc = "store" => thread'[s].local \in Text,
         \A d \in 1 .. Len(doc) : Applying(d)' => documents[doc[d].path] = d
  PROVE  TextInv'
<1>1. \A p \in Path : documents[p] # 0 => documents[p] \in 1 .. Len(doc)
  BY SMT DEF Shape, Objects
<1> QED  BY <1>1 DEF TextInv

\* The threads but one, and main, are as they were.
LEMMA MovedApplying ==
  ASSUME NEW s \in Scanner, NEW pc, NEW v, Moved(s, pc, v), thread[s].pc # "apply", pc # "apply", NEW d
  PROVE  Applying(d)' <=> Applying(d)
  BY DiagnosticsAssumption DEF Moved, Applying

\* Every step keeps the texts.
LEMMA TextStep == IInv /\ TextInv /\ Next => TextInv'
<1> SUFFICES ASSUME IInv, TextInv, Next PROVE TextInv'
  OBVIOUS
<1>0. "main" \in Scanner /\ "main" \notin Goroutine /\ Scanner = Goroutine \cup {"main"}
  BY DiagnosticsAssumption
<1>1. Shape /\ Objects(doc) /\ Len(doc) \in Nat  BY DEF IInv, Shape, Objects
<1>2. ASSUME UNCHANGED <<documents, doc, thread>> PROVE TextInv'
  BY <1>2 DEF TextInv, Applying
<1>3. ASSUME NEW p \in Path, NEW t \in Text, DidOpen(p, t) PROVE TextInv'
  <2> SUFFICES ASSUME NEW d, d = Len(doc) + 1 PROVE TextInv'
    OBVIOUS
  <2>0. Opened(p, t, d)  BY <1>1, <1>3, OpenMoves
  <2>1. /\ thread'["main"].pc = "free"
        /\ Len(doc') = d /\ documents' = [documents EXCEPT ![p] = d]
        /\ \A i \in 1 .. Len(doc) : /\ doc'[i].path = doc[i].path
                                    /\ doc'[i].content = doc[i].content /\ doc'[i].lines = doc[i].lines
        /\ doc'[d].path = p /\ doc'[d].content = t /\ doc'[d].lines = None
        /\ \/ \A g \in Goroutine : thread'[g] = thread[g]
           \/ \E g \in Goroutine : Started(g, d)
    BY <2>0 DEF Opened
  <2>2. \A i \in 1 .. d : i \in 1 .. Len(doc) \/ i = d  BY <1>1, SMT
  <2>3. \A q \in Path : documents[q] # 0 => documents[q] \in 1 .. Len(doc)
    BY <1>1, SMT DEF Shape
  <2>4. \A i \in 1 .. d : /\ doc'[i].path \in Path /\ doc'[i].content \in Text
                          /\ doc'[i].lines \in Text \cup {None}
    BY <2>1, <2>2 DEF TextInv
  <2>5. \A s \in Scanner : thread'[s].pc = "store" => thread'[s].local \in Text
    <3>1. ASSUME NEW g \in Goroutine, thread'[g].pc = "store" PROVE thread'[g] = thread[g]
      BY <2>1, <3>1 DEF Started
    <3> QED  BY <1>0, <2>1, <3>1 DEF TextInv
  <2>6. ASSUME NEW q \in Path, documents'[q] # 0 PROVE doc'[documents'[q]].path = q
    <3>1. CASE q = p
      <4>1. documents'[q] = d  BY <1>1, <2>1, <3>1 DEF Shape
      <4> QED  BY <2>1, <3>1, <4>1
    <3>2. CASE q # p
      <4>1. documents'[q] = documents[q]  BY <1>1, <2>1, <3>2 DEF Shape
      <4> QED  BY <2>1, <2>3, <2>6, <4>1 DEF TextInv
    <3> QED  BY <3>1, <3>2
  <2> QED  BY <2>1, <2>4, <2>5, <2>6 DEF TextInv, Applying
<1>4. ASSUME NEW p \in Path, NEW t \in Text, DidChange(p, t) PROVE TextInv'
  <2>1. CASE documents[p] = 0  BY <1>2, <1>4, <2>1 DEF DidChange
  <2>2. CASE documents[p] # 0
    <3> DEFINE d == documents[p]
    <3>1. /\ d \in 1 .. Len(doc) /\ thread'["main"].pc = "apply" /\ thread'["main"].doc = d
          /\ \A g \in Goroutine : thread'[g] = thread[g]
          /\ \E c \in Text : Changed(doc', doc, d, c, doc[d].lines, doc[d].needsRefresh)
      BY <1>1, <1>4, <2>2, ChangeMoves
    <3>2. \A i \in 1 .. Len(doc) : /\ doc'[i].path = doc[i].path /\ doc'[i].content \in Text
                                   /\ doc'[i].lines \in Text \cup {None}
      BY <3>1 DEF Changed, TextInv
    <3>3. Len(doc') = Len(doc) /\ UNCHANGED documents  BY <1>4, <3>1 DEF Changed, DidChange
    <3>4. \A s \in Scanner : thread'[s].pc = "store" => thread'[s].local \in Text
      BY <1>0, <3>1 DEF TextInv
    <3>5. \A i \in 1 .. Len(doc) : Applying(i)' => documents[doc[i].path] = i
      BY <2>2, <3>1 DEF Applying, TextInv
    <3> QED  BY <1>1, <3>2, <3>3, <3>4, <3>5, TextKept
  <2> QED  BY <2>1, <2>2
<1>5. ASSUME NEW p \in Path, Request(p) PROVE TextInv'
  <2>1. /\ thread'["main"].pc = "test"
        /\ \A g \in Goroutine : thread'[g] = thread[g]
    BY <1>1, <1>5, CallMoves DEF Request
  <2>2. UNCHANGED <<documents, doc>>  BY <1>5 DEF Request
  <2>3. \A s \in Scanner : thread'[s].pc = "store" => thread'[s].local \in Text
    BY <1>0, <2>1 DEF TextInv
  <2> QED  BY <2>1, <2>2, <2>3 DEF TextInv, Applying
<1>6. ASSUME Applied PROVE TextInv'
  <2> DEFINE d == thread["main"].doc
  <2>1. /\ thread'["main"].pc = "free" /\ Len(doc') = Len(doc)
        /\ \A i \in 1 .. Len(doc) : /\ doc'[i].path = doc[i].path
                                    /\ doc'[i].content = doc[i].content
                                    /\ doc'[i].lines = IF i = d THEN None ELSE doc[i].lines
        /\ \/ \A g \in Goroutine : thread'[g] = thread[g]
           \/ \E g \in Goroutine : Started(g, d)
    BY <1>1, <1>6, AppliedMoves
  <2> HIDE DEF d
  <2>2. \A s \in Scanner : thread'[s].pc = "store" => thread'[s].local \in Text
    <3>1. ASSUME NEW g \in Goroutine, thread'[g].pc = "store" PROVE thread'[g] = thread[g]
      BY <2>1, <3>1 DEF Started
    <3> QED  BY <1>0, <2>1, <3>1 DEF TextInv
  <2>3. \A i \in 1 .. Len(doc) : /\ doc'[i].path = doc[i].path /\ doc'[i].content \in Text
                                 /\ doc'[i].lines \in Text \cup {None}
    BY <2>1 DEF TextInv
  <2>4. UNCHANGED documents /\ \A i : ~Applying(i)'  BY <1>6, <2>1 DEF Applied, Applying
  <2> QED  BY <1>1, <2>1, <2>2, <2>3, <2>4, TextKept
<1>7. ASSUME NEW s \in Scanner, NEW pc, NEW v, Moved(s, pc, v), pc = "store" => v \in Text,
             thread[s].pc # "apply", pc # "apply", UNCHANGED documents, Len(doc') = Len(doc),
             \A i \in 1 .. Len(doc) : /\ doc'[i].path = doc[i].path /\ doc'[i].content = doc[i].content
                                      /\ doc'[i].lines \in Text \cup {None}
      PROVE  TextInv'
  <2>1. \A i : Applying(i)' <=> Applying(i)  BY <1>7, MovedApplying
  <2>2. \A r \in Scanner : thread'[r].pc = "store" => thread'[r].local \in Text
    BY <1>7 DEF Moved, TextInv
  <2>3. \A i \in 1 .. Len(doc) : /\ doc'[i].path = doc[i].path /\ doc'[i].content \in Text
                                 /\ doc'[i].lines \in Text \cup {None}
    BY <1>7 DEF TextInv
  <2>4. \A i \in 1 .. Len(doc) : Applying(i)' => documents[doc[i].path] = i  BY <2>1 DEF TextInv
  <2> QED  BY <1>1, <1>7, <2>2, <2>3, <2>4, TextKept
<1>8. ASSUME NEW g \in Goroutine, Wake(g) PROVE TextInv'
  <2> DEFINE d == thread[g].doc
  <2>1. /\ thread[g].pc = "sleep" /\ Moved(g, "test", thread[g].local) /\ g \in Scanner
        /\ Changed(doc', doc, d, doc[d].content, doc[d].lines, FALSE)
    BY <1>0, <1>1, <1>8, WakeMoves
  <2>2. /\ Len(doc') = Len(doc) /\ UNCHANGED documents
        /\ \A i \in 1 .. Len(doc) : /\ doc'[i].path = doc[i].path /\ doc'[i].content = doc[i].content
                                    /\ doc'[i].lines \in Text \cup {None}
    BY <1>8, <2>1 DEF Wake, Changed, TextInv
  <2> QED  BY <1>7, <2>1, <2>2
<1>9. ASSUME NEW s \in Scanner, Thread(s) PROVE TextInv'
  <2> DEFINE d == thread[s].doc
  <2>1. \A i \in 1 .. Len(doc) : doc[i].content \in Text /\ doc[i].lines \in Text \cup {None}
    BY DEF TextInv
  <2>2. CASE TestLines(s)
    <3> DEFINE pc == IF doc[d].lines = None THEN "split" ELSE "load"
    <3>1. thread[s].pc = "test" /\ Moved(s, pc, thread[s].local)  BY <1>1, <2>2, TestMoves
    <3>2. pc # "store" /\ pc # "apply"  OBVIOUS
    <3>3. UNCHANGED <<doc, documents>>  BY <2>2 DEF TestLines
    <3> HIDE DEF pc
    <3> QED  BY <1>7, <2>1, <3>1, <3>2, <3>3
  <2>3. CASE SplitLines(s)
    <3>1. thread[s].pc = "split" /\ d \in 1 .. Len(doc) /\ Moved(s, "store", doc[d].content)
      BY <1>1, <2>3, SplitMoves
    <3>2. UNCHANGED <<doc, documents>>  BY <2>3 DEF SplitLines
    <3> QED  BY <1>7, <2>1, <3>1, <3>2
  <2>4. CASE StoreLines(s)
    <3>1. /\ thread[s].pc = "store" /\ d \in 1 .. Len(doc) /\ Moved(s, "load", None)
          /\ Changed(doc', doc, d, doc[d].content, thread[s].local, doc[d].needsRefresh)
      BY <1>1, <2>4, StoreMoves
    <3>2. thread[s].local \in Text /\ UNCHANGED documents  BY <2>4, <3>1 DEF TextInv, StoreLines
    <3>3. /\ Len(doc') = Len(doc)
          /\ \A i \in 1 .. Len(doc) : /\ doc'[i].path = doc[i].path /\ doc'[i].content = doc[i].content
                                      /\ doc'[i].lines \in Text \cup {None}
      BY <2>1, <3>1, <3>2 DEF Changed
    <3> QED  BY <1>7, <3>1, <3>2, <3>3
  <2>5. CASE LoadLines(s)
    <3>1. thread[s].pc = "load" /\ Moved(s, "scan", thread[s].local)  BY <1>1, <2>5, LoadMoves
    <3>2. UNCHANGED <<doc, documents>>  BY <2>5 DEF LoadLines
    <3> QED  BY <1>7, <2>1, <3>1, <3>2
  <2>6. CASE Scan(s)  BY <1>2, <2>6 DEF Scan
  <2>7. CASE Finish(s)
    <3>1. thread'[s].pc = "free" /\ \A r \in Scanner : r # s => thread'[r] = thread[r]
      BY <1>1, <2>7, FinishMoves, FreeThread
    <3>2. UNCHANGED <<doc, documents>>  BY <2>7 DEF Finish
    <3>3. \A i : Applying(i)' => Applying(i)  BY <1>0, <3>1 DEF Applying
    <3> QED  BY <3>1, <3>2, <3>3 DEF TextInv
  <2> QED  BY <1>9, <2>2, <2>3, <2>4, <2>5, <2>6, <2>7 DEF Thread
<1>10. ASSUME NEW p \in Path, NEW t, DidOpenOther(p, t) \/ DidClose(p) PROVE TextInv'
  BY <1>2, <1>10 DEF DidOpenOther, DidClose
<1>11. ASSUME NEW n \in notices, Notify(n) PROVE TextInv'  BY <1>2, <1>11 DEF Notify
<1> QED  BY <1>3, <1>4, <1>5, <1>6, <1>8, <1>9, <1>10, <1>11 DEF Next, Editor

\* No document is open at first.
LEMMA TextInit == Init => TextInv
<1> SUFFICES ASSUME Init PROVE TextInv
  OBVIOUS
<1>1. Len(doc) = 0 /\ \A s \in Scanner : thread[s] = Free  BY SMT DEF Init
<1>2. \A d : d \notin 1 .. Len(doc)  BY <1>1, SMT
<1>3. \A s \in Scanner : thread[s].pc = "free"  BY <1>1, FreeThread
<1>4. \A p \in Path : documents[p] = 0  BY DEF Init
<1> QED  BY <1>2, <1>3, <1>4 DEF TextInv

-----------------------------------------------------------------------------
(* The refreshes.                                                          *)

\* The numbers of refreshes do not exceed the number of those started.
NumberInv ==
  /\ spawned \in Nat
  /\ \A g \in Goroutine : thread[g].no \in 0 .. spawned
  /\ \A n \in notices : n.no \in 0 .. spawned
  /\ latest = [p \in Path |-> latest[p]] /\ \A p \in Path : latest[p] \in 0 .. spawned
  /\ shown = [p \in Path |-> shown[p]]

\* The cached lines of an object are split from its content.
LinesInv ==
  \A d \in 1 .. Len(doc) :
    d \in stale \/ Applying(d) \/ doc[d].lines = None \/ doc[d].lines = doc[d].content

\* The goroutine g is at work on a document with the path p.
WorksFor(g, p) == thread[g].pc # "free" /\ doc[thread[g].doc].path = p

\* The refreshes of p in G and the diagnostics of p in N are earlier than k.
Earlier(p, k, G, N) ==
  /\ \A g \in G : WorksFor(g, p) => thread[g].no < k
  /\ \A n \in N : n.path = p => n.no < k

\* The last refresh of p, of which the diagnostics have not been sent.
Leads(g, p) == Earlier(p, thread[g].no, Goroutine \ {g}, notices) /\ latest[p] < thread[g].no

\* The diagnostics of the last refresh of p, on their way to the editor.
LastNotice(n, p) ==
  /\ n.path = p /\ Earlier(p, n.no, Goroutine, notices \ {n}) /\ latest[p] < n.no

\* A refresh that has or will read the current content of its document.
Fresh(g) ==
  LET d == thread[g].doc
  IN  \/ thread[g].pc \in {"sleep", "test", "split"}
      \/ thread[g].pc = "store" /\ thread[g].local = doc[d].content
      \/ thread[g].pc = "load" /\ doc[d].lines = doc[d].content
      \/ thread[g].pc = "scan" /\ scan[g].lines = doc[d].content

\* The diagnostics of the last refresh of p are shown, or hidden by others.
Settled(p) ==
  /\ Earlier(p, latest[p], Goroutine, notices)
  /\ shown[p].no < latest[p] \/ shown[p].lines = doc[documents[p]].content

\* The last refresh of an open document is yet to be started, or it has the
\* current content, wherever it is on its way; the cached lines may be stale.
\* A refresh that sleeps is the last one.
Current(p) ==
  LET d == documents[p]
  IN  /\ \A g \in Goroutine : Sleeps(g, d) => Leads(g, p)
      /\ \/ d \in stale
         \/ Applying(d)
         \/ \E g \in Goroutine : thread[g].doc = d /\ Fresh(g) /\ Leads(g, p)
         \/ \E n \in notices : n.lines = doc[d].content /\ LastNotice(n, p)
         \/ Settled(p)

CurrentInv == \A p \in InNotebook : documents[p] # 0 => Current(p)

\* A step that starts and ends no refresh of p: the last one stays the last.
LEMMA OrderKept ==
  ASSUME NEW p, UNCHANGED notices, latest'[p] = latest[p],
         \A h \in Goroutine : WorksFor(h, p)' => WorksFor(h, p) /\ thread'[h].no = thread[h].no
  PROVE  /\ \A g \in Goroutine : Leads(g, p) /\ thread'[g].no = thread[g].no => Leads(g, p)'
         /\ \A n \in notices : LastNotice(n, p) => LastNotice(n, p)'
         /\ Earlier(p, latest[p], Goroutine, notices) => Earlier(p, latest[p], Goroutine, notices)'
<1>1. \A k, G, N : G \subseteq Goroutine /\ Earlier(p, k, G, N)
        => /\ \A g \in G : WorksFor(g, p)' => thread'[g].no < k
           /\ \A n \in N : n.path = p => n.no < k
  BY DEF Earlier
<1>2. \A g \in Goroutine : Leads(g, p) /\ thread'[g].no = thread[g].no => Leads(g, p)'
  BY <1>1 DEF Leads, Earlier
<1>3. \A n \in notices : LastNotice(n, p) => LastNotice(n, p)'
  BY <1>1 DEF LastNotice, Earlier
<1>4. Earlier(p, latest[p], Goroutine, notices) => Earlier(p, latest[p], Goroutine, notices)'
  BY <1>1 DEF Earlier
<1> QED  BY <1>2, <1>3, <1>4

\* Such a step, if it does not change the content, keeps what is current.
LEMMA CurrentKept ==
  ASSUME NEW p, Current(p), NEW d, d = documents[p], documents'[p] = d,
         UNCHANGED notices, latest'[p] = latest[p], shown'[p] = shown[p],
         doc'[d].content = doc[d].content,
         \A h \in Goroutine : WorksFor(h, p)' => WorksFor(h, p) /\ thread'[h].no = thread[h].no,
         \A g \in Goroutine : Sleeps(g, d)' => Sleeps(g, d) /\ thread'[g].no = thread[g].no,
         d \in stale => d \in stale',
         Applying(d) => Applying(d)',
         \A g \in Goroutine : thread[g].doc = d /\ Fresh(g)
           => \/ d \in stale' \/ Applying(d)'
              \/ thread'[g].doc = d /\ Fresh(g)' /\ thread'[g].no = thread[g].no
  PROVE  Current(p)'
<1>1. /\ \A g \in Goroutine : Leads(g, p) /\ thread'[g].no = thread[g].no => Leads(g, p)'
      /\ \A n \in notices : LastNotice(n, p) => LastNotice(n, p)'
      /\ Earlier(p, latest[p], Goroutine, notices) => Earlier(p, latest[p], Goroutine, notices)'
  BY OrderKept
<1>2. \A g \in Goroutine : Sleeps(g, d)' => Leads(g, p)'  BY <1>1 DEF Current
<1>3. \/ d \in stale' \/ Applying(d)'
      \/ \E g \in Goroutine : thread'[g].doc = d /\ Fresh(g)' /\ Leads(g, p)'
      \/ \E n \in notices' : n.lines = doc'[d].content /\ LastNotice(n, p)'
      \/ Settled(p)'
  <2>1. CASE d \in stale \/ Applying(d)  BY <2>1
  <2>2. ASSUME NEW g \in Goroutine, thread[g].doc = d /\ Fresh(g) /\ Leads(g, p)
        PROVE  \/ d \in stale' \/ Applying(d)'
               \/ \E h \in Goroutine : thread'[h].doc = d /\ Fresh(h)' /\ Leads(h, p)'
    BY <1>1, <2>2
  <2>3. ASSUME NEW n \in notices, n.lines = doc[d].content /\ LastNotice(n, p)
        PROVE  n \in notices' /\ n.lines = doc'[d].content /\ LastNotice(n, p)'
    BY <1>1, <2>3
  <2>4. CASE Settled(p)
    <3>1. Earlier(p, latest[p], Goroutine, notices)'  BY <1>1, <2>4 DEF Settled
    <3>2. shown[p].no < latest[p] \/ shown[p].lines = doc[d].content  BY <2>4 DEF Settled
    <3> QED  BY <3>1, <3>2 DEF Settled
  <2>5. \/ d \in stale
        \/ Applying(d)
        \/ \E g \in Goroutine : thread[g].doc = d /\ Fresh(g) /\ Leads(g, p)
        \/ \E n \in notices : n.lines = doc[d].content /\ LastNotice(n, p)
        \/ Settled(p)
    BY DEF Current
  <2> QED  BY <2>1, <2>2, <2>3, <2>4, <2>5
<1> QED  BY <1>2, <1>3 DEF Current

\* The goroutine of a refresh hands its diagnostics over.
LEMMA FinishSends ==
  ASSUME NEW g \in Goroutine, Finish(g)
  PROVE  \E n : /\ notices' = notices \cup {n} /\ n.path = doc[thread[g].doc].path
                /\ n.no = thread[g].no /\ n.lines = scan[g].lines
<1> DEFINE n == [path |-> doc[thread[g].doc].path, no |-> thread[g].no,
                 lines |-> scan[g].lines, found |-> scan[g].found]
<1>1. g # "main"  BY DiagnosticsAssumption
<1>2. notices' = notices \cup {n}  BY <1>1 DEF Finish
<1>3. n.path = doc[thread[g].doc].path /\ n.no = thread[g].no /\ n.lines = scan[g].lines  OBVIOUS
<1> QED  BY <1>2, <1>3

\* Refreshes are numbered in the order in which they are started.
LEMMA NumberStep == IInv /\ NumberInv /\ Next => NumberInv'
<1> SUFFICES ASSUME IInv, NumberInv, Next PROVE NumberInv'
  OBVIOUS
<1>0. "main" \in Scanner /\ "main" \notin Goroutine /\ Scanner = Goroutine \cup {"main"}
  BY DiagnosticsAssumption
<1>1. Shape  BY DEF IInv
<1>2. /\ 0 \in 0 .. spawned /\ \A k \in 0 .. spawned : k \in 0 .. spawned + 1
      /\ spawned + 1 \in Nat /\ spawned + 1 \in 0 .. spawned + 1
  BY SMT DEF NumberInv
<1>3. ASSUME UNCHANGED <<spawned, latest, shown>>,
             \A g \in Goroutine : thread'[g].no = thread[g].no \/ thread'[g].no = 0,
             \A n \in notices' : n \in notices \/ n.no \in 0 .. spawned
      PROVE  NumberInv'
  BY <1>2, <1>3 DEF NumberInv
<1>4. ASSUME NEW d, NEW g \in Goroutine, Started(g, d), UNCHANGED <<notices, latest, shown>>
      PROVE  NumberInv'
  <2>1. spawned' = spawned + 1 /\ \A h \in Goroutine : thread'[h].no = thread[h].no \/ thread'[h].no = spawned + 1
    BY <1>4 DEF Started
  <2> QED  BY <1>2, <1>4, <2>1 DEF NumberInv
<1>5. ASSUME NEW p \in Path, NEW t \in Text, DidOpen(p, t) PROVE NumberInv'
  <2> DEFINE d == Len(doc) + 1
  <2>1. \/ UNCHANGED spawned /\ \A g \in Goroutine : thread'[g] = thread[g]
        \/ \E g \in Goroutine : Started(g, d)
    BY <1>1, <1>5, OpenMoves DEF Opened
  <2>2. UNCHANGED <<notices, latest, shown>>  BY <1>5 DEF DidOpen
  <2> QED  BY <1>3, <1>4, <2>1, <2>2
<1>6. CASE Applied
  <2> DEFINE d == thread["main"].doc
  <2>1. \/ UNCHANGED spawned /\ \A g \in Goroutine : thread'[g] = thread[g]
        \/ \E g \in Goroutine : Started(g, d)
    BY <1>1, <1>6, AppliedMoves
  <2>2. UNCHANGED <<notices, latest, shown>>  BY <1>6 DEF Applied
  <2> QED  BY <1>3, <1>4, <2>1, <2>2
<1>7. ASSUME NEW p \in Path, NEW t, DidChange(p, t) PROVE NumberInv'
  <2>1. \A g \in Goroutine : thread'[g] = thread[g]
    <3>1. CASE documents[p] = 0  BY <1>7, <3>1 DEF DidChange
    <3>2. CASE documents[p] # 0  BY <1>1, <1>7, <3>2, ChangeMoves
    <3> QED  BY <3>1, <3>2
  <2>2. UNCHANGED <<notices, latest, shown, spawned>>  BY <1>7 DEF DidChange
  <2> QED  BY <1>3, <2>1, <2>2
<1>8. ASSUME NEW p \in Path, Request(p) PROVE NumberInv'
  <2>1. \A g \in Goroutine : thread'[g] = thread[g]  BY <1>1, <1>8, CallMoves DEF Request
  <2>2. UNCHANGED <<notices, latest, shown, spawned>>  BY <1>8 DEF Request
  <2> QED  BY <1>3, <2>1, <2>2
<1>9. ASSUME NEW p \in Path, NEW t, DidOpenOther(p, t) \/ DidClose(p) PROVE NumberInv'
  BY <1>3, <1>9 DEF DidOpenOther, DidClose
<1>10. ASSUME NEW s \in Scanner, NEW pc, NEW v, Moved(s, pc, v), UNCHANGED <<notices, latest, shown, spawned>>
       PROVE  NumberInv'
  <2>1. \A g \in Goroutine : thread'[g].no = thread[g].no  BY <1>0, <1>10 DEF Moved
  <2> QED  BY <1>3, <1>10, <2>1
<1>11. ASSUME NEW g \in Goroutine, Wake(g) PROVE NumberInv'
  <2>1. g \in Scanner /\ Moved(g, "test", thread[g].local)  BY <1>0, <1>1, <1>11, WakeMoves
  <2>2. UNCHANGED <<notices, latest, shown, spawned>>  BY <1>11 DEF Wake
  <2> QED  BY <1>10, <2>1, <2>2
<1>12. ASSUME NEW s \in Scanner, TestLines(s) \/ SplitLines(s) \/ StoreLines(s) \/ LoadLines(s) PROVE NumberInv'
  <2>1. UNCHANGED <<notices, latest, shown, spawned>>
    BY <1>12 DEF TestLines, SplitLines, StoreLines, LoadLines
  <2>2. \E pc, v : Moved(s, pc, v)  BY <1>1, <1>12, TestMoves, SplitMoves, StoreMoves, LoadMoves
  <2> QED  BY <1>10, <2>1, <2>2
<1>13. ASSUME NEW s \in Scanner, Scan(s) PROVE NumberInv'  BY <1>3, <1>13 DEF Scan
<1>14. ASSUME NEW s \in Scanner, Finish(s) PROVE NumberInv'
  <2>0. Free.no = 0  BY DEF Free
  <2>1. thread'[s].no = 0 /\ \A r \in Scanner : r # s => thread'[r] = thread[r]
    BY <1>1, <1>14, <2>0, FinishMoves
  <2>2. \A g \in Goroutine : thread'[g].no = thread[g].no \/ thread'[g].no = 0  BY <1>0, <2>1
  <2>3. UNCHANGED <<latest, shown, spawned>>  BY <1>14 DEF Finish
  <2>4. \A n \in notices' : n \in notices \/ (s \in Goroutine /\ n.no = thread[s].no)
    <3>1. CASE s = "main"  BY <1>14, <3>1 DEF Finish
    <3>2. CASE s # "main"  BY <1>0, <1>14, <3>2, FinishSends
    <3> QED  BY <3>1, <3>2
  <2> QED  BY <1>3, <2>2, <2>3, <2>4 DEF NumberInv
<1>15. ASSUME NEW n \in notices, Notify(n) PROVE NumberInv'
  <2>1. /\ notices' \subseteq notices /\ UNCHANGED <<thread, spawned>>
        /\ shown' = [shown EXCEPT ![n.path] = [no |-> n.no, lines |-> n.lines]]
        /\ latest' = [latest EXCEPT ![n.path] = IF n.no > latest[n.path] THEN n.no ELSE latest[n.path]]
    BY <1>15 DEF Notify
  <2>2. shown' = [p \in Path |-> shown'[p]]  BY <2>1 DEF NumberInv
  <2>3. /\ latest' = [p \in Path |-> latest'[p]]
        /\ \A p \in Path : latest'[p] = latest[p] \/ latest'[p] = n.no
    BY <2>1 DEF NumberInv
  <2> QED  BY <2>1, <2>2, <2>3 DEF NumberInv
<1> QED  BY <1>5, <1>6, <1>7, <1>8, <1>9, <1>11, <1>12, <1>13, <1>14, <1>15 DEF Next, Editor, Thread

\* The cached lines are stored before the content changes, or declared stale,
\* or cleared with the change.
LEMMA LinesStep == IInv /\ TextInv /\ LinesInv /\ Next => LinesInv'
<1> SUFFICES ASSUME IInv, TextInv, LinesInv, Next PROVE LinesInv'
  OBVIOUS
<1>0. "main" \in Scanner /\ "main" \notin Goroutine /\ Scanner = Goroutine \cup {"main"}
  BY DiagnosticsAssumption
<1>1. Shape  BY DEF IInv
<1>2. ASSUME stale \subseteq stale', Len(doc') = Len(doc),
             \A i \in 1 .. Len(doc) : /\ doc'[i].content = doc[i].content /\ doc'[i].lines = doc[i].lines
                                      /\ Applying(i) => Applying(i)'
      PROVE  LinesInv'
  BY <1>2 DEF LinesInv
<1>3. ASSUME NEW p \in Path, NEW t \in Text, DidOpen(p, t) PROVE LinesInv'
  <2> DEFINE d == Len(doc) + 1
  <2>1. /\ thread["main"].pc = "free" /\ Len(doc') = d
        /\ \A i \in 1 .. Len(doc) : doc'[i].content = doc[i].content /\ doc'[i].lines = doc[i].lines
        /\ doc'[d].lines = None
    BY <1>1, <1>3, OpenMoves DEF Opened
  <2>2. \A i \in 1 .. d : i \in 1 .. Len(doc) \/ i = d  BY <1>1, SMT DEF Shape, Objects
  <2>3. UNCHANGED stale  BY <1>3 DEF DidOpen
  <2> HIDE DEF d
  <2> QED  BY <2>1, <2>2, <2>3 DEF LinesInv, Applying
<1>4. ASSUME NEW p \in Path, NEW t \in Text, DidChange(p, t) PROVE LinesInv'
  <2>1. UNCHANGED stale  BY <1>4 DEF DidChange
  <2>2. CASE documents[p] = 0
    <3>1. UNCHANGED <<doc, thread>>  BY <1>4, <2>2 DEF DidChange
    <3> QED  BY <2>1, <3>1 DEF LinesInv, Applying
  <2>3. CASE documents[p] # 0
    <3> DEFINE d == documents[p]
    <3>1. /\ thread["main"].pc = "free" /\ thread'["main"].pc = "apply" /\ thread'["main"].doc = d
          /\ \E c \in Text : Changed(doc', doc, d, c, doc[d].lines, doc[d].needsRefresh)
      BY <1>1, <1>4, <2>3, ChangeMoves
    <3>2. Len(doc') = Len(doc) /\ \A i \in 1 .. Len(doc) : i # d => doc'[i] = doc[i]
      BY <3>1 DEF Changed
    <3> HIDE DEF d
    <3> QED  BY <2>1, <3>1, <3>2 DEF LinesInv, Applying
  <2> QED  BY <2>2, <2>3
<1>5. CASE Applied
  <2> DEFINE d == thread["main"].doc
  <2>1. /\ Len(doc') = Len(doc)
        /\ \A i \in 1 .. Len(doc) : /\ doc'[i].content = doc[i].content
                                    /\ doc'[i].lines = IF i = d THEN None ELSE doc[i].lines
    BY <1>1, <1>5, AppliedMoves
  <2>2. \A i : (i \in stale /\ i # d => i \in stale') /\ (Applying(i) => i = d)
    BY <1>5 DEF Applied, Applying
  <2> HIDE DEF d
  <2> QED  BY <2>1, <2>2 DEF LinesInv
<1>6. ASSUME NEW p \in Path, NEW t, Request(p) \/ DidOpenOther(p, t) \/ DidClose(p) PROVE LinesInv'
  <2>1. UNCHANGED <<doc, stale>> /\ thread["main"].pc = "free"
    BY <1>6 DEF Request, DidOpenOther, DidClose, MainIdle
  <2> QED  BY <1>2, <2>1 DEF Applying
<1>7. ASSUME NEW g \in Goroutine, Wake(g) PROVE LinesInv'
  <2> DEFINE d == thread[g].doc
  <2>1. /\ thread[g].pc = "sleep" /\ Moved(g, "test", thread[g].local) /\ g \in Scanner
        /\ Changed(doc', doc, d, doc[d].content, doc[d].lines, FALSE)
    BY <1>0, <1>1, <1>7, WakeMoves
  <2>2. \A i : Applying(i)' <=> Applying(i)  BY <2>1, MovedApplying
  <2>3. /\ Len(doc') = Len(doc) /\ UNCHANGED stale
        /\ \A i \in 1 .. Len(doc) : doc'[i].content = doc[i].content /\ doc'[i].lines = doc[i].lines
    BY <1>7, <2>1 DEF Wake, Changed
  <2> QED  BY <1>2, <2>2, <2>3
<1>8. ASSUME NEW s \in Scanner, StoreLines(s) PROVE LinesInv'
  <2> DEFINE d == thread[s].doc
  <2>1. /\ thread[s].pc = "store" /\ Moved(s, "load", None)
        /\ Changed(doc', doc, d, doc[d].content, thread[s].local, doc[d].needsRefresh)
    BY <1>1, <1>8, StoreMoves
  <2>2. \A i : Applying(i)' <=> Applying(i)  BY <2>1, MovedApplying
  <2>3. stale \subseteq stale' /\ (d \in stale' \/ thread[s].local = doc[d].content)
    BY <1>8 DEF StoreLines
  <2>4. /\ Len(doc') = Len(doc) /\ doc'[d].lines = thread[s].local
        /\ \A i \in 1 .. Len(doc) : doc'[i].content = doc[i].content /\ (i # d => doc'[i].lines = doc[i].lines)
    BY <2>1 DEF Changed
  <2> QED  BY <2>2, <2>3, <2>4 DEF LinesInv
<1>9. ASSUME NEW s \in Scanner, TestLines(s) \/ SplitLines(s) \/ LoadLines(s) PROVE LinesInv'
  <2>1. UNCHANGED <<doc, stale>>  BY <1>9 DEF TestLines, SplitLines, LoadLines
  <2>2. \E pc, v : Moved(s, pc, v) /\ thread[s].pc # "apply" /\ pc # "apply"
    BY <1>1, <1>9, TestMoves, SplitMoves, LoadMoves
  <2>3. \A i : Applying(i)' <=> Applying(i)  BY <2>2, MovedApplying
  <2> QED  BY <1>2, <2>1, <2>3
<1>10. ASSUME NEW s \in Scanner, Finish(s) PROVE LinesInv'
  <2>1. UNCHANGED <<doc, stale>>  BY <1>10 DEF Finish
  <2>2. thread[s].pc = "scan" /\ \A r \in Scanner : r # s => thread'[r] = thread[r]
    BY <1>1, <1>10, FinishMoves
  <2>3. \A i : Applying(i) => Applying(i)'  BY <1>0, <2>2 DEF Applying
  <2> QED  BY <1>2, <2>1, <2>3
<1>11. ASSUME NEW n \in notices, Notify(n) PROVE LinesInv'
  <2>1. UNCHANGED <<doc, stale, thread>>  BY <1>11 DEF Notify
  <2> QED  BY <1>2, <2>1 DEF Applying
<1>12. ASSUME NEW s \in Scanner, Scan(s) PROVE LinesInv'
  <2>1. UNCHANGED <<doc, stale, thread>>  BY <1>12 DEF Scan
  <2> QED  BY <1>2, <2>1 DEF Applying
<1> QED  BY <1>0, <1>3, <1>4, <1>5, <1>6, <1>7, <1>8, <1>9, <1>10, <1>11, <1>12 DEF Next, Editor, Thread

\* A search under way keeps its lines.
SearchShape ==
  /\ scan = [s \in Scanner |-> scan[s]]
  /\ \A s \in Scanner : Scanning(s) => scan[s] = [f \in {"lines", "index", "found"} |-> scan[s][f]]

\* Only the loop of a thread advances its search.
LEMMA SearchMoves ==
  ASSUME SearchShape, NEW s \in Scanner, Scan(s)
  PROVE  SearchShape' /\ \A t \in Scanner : scan'[t].lines = scan[t].lines
<1>1. Scanning(s) /\ (UNCHANGED scan \/ \E i, e : scan' = [scan EXCEPT ![s].index = i, ![s].found = e])
  BY DEF Scan, ScanLine
<1>2. CASE UNCHANGED scan  BY <1>2 DEF SearchShape, Scanning
<1>3. ASSUME NEW i, NEW e, scan' = [scan EXCEPT ![s].index = i, ![s].found = e]
      PROVE  SearchShape' /\ \A t \in Scanner : scan'[t].lines = scan[t].lines
  <2> DEFINE y == [scan[s] EXCEPT !.index = i, !.found = e]
  <2>1. scan[s] = [f \in {"lines", "index", "found"} |-> scan[s][f]]  BY <1>1 DEF SearchShape
  <2>2. y = [f \in {"lines", "index", "found"} |-> y[f]] /\ y.lines = scan[s].lines  BY <2>1
  <2>3. /\ scan' = [t \in Scanner |-> scan'[t]] /\ scan'[s] = y
        /\ \A t \in Scanner : t # s => scan'[t] = scan[t]
    BY <1>3 DEF SearchShape
  <2> HIDE DEF y
  <2> QED  BY <2>2, <2>3 DEF SearchShape, Scanning
<1> QED  BY <1>1, <1>2, <1>3

\* Every step keeps the shape of the searches.
LEMMA SearchStep == SearchShape /\ Next => SearchShape'
<1> SUFFICES ASSUME SearchShape, Next PROVE SearchShape'
  OBVIOUS
<1>1. ASSUME UNCHANGED scanVars PROVE SearchShape'
  BY <1>1 DEF scanVars, SearchShape, Scanning
<1>2. ASSUME NEW s \in Scanner, LoadLines(s) PROVE SearchShape'
  <2> DEFINE x(l) == [lines |-> l, index |-> 1, found |-> {}]
  <2>1. \E l : scan' = [scan EXCEPT ![s] = x(l)]  BY <1>2 DEF LoadLines, ScanStart
  <2>2. \A l : x(l) = [f \in {"lines", "index", "found"} |-> x(l)[f]]  OBVIOUS
  <2> HIDE DEF x
  <2> QED  BY <2>1, <2>2 DEF SearchShape, Scanning
<1>3. ASSUME NEW s \in Scanner, Finish(s) PROVE SearchShape'
  <2>1. scan' = [scan EXCEPT ![s] = Idle]  BY <1>3 DEF Finish, ScanEnd
  <2> QED  BY <2>1 DEF SearchShape, Scanning
<1>4. ASSUME NEW s \in Scanner, Scan(s) PROVE SearchShape'  BY <1>4, SearchMoves
<1>5. ASSUME NEW s \in Scanner, TestLines(s) \/ SplitLines(s) \/ StoreLines(s) PROVE SearchShape'
  BY <1>1, <1>5 DEF TestLines, SplitLines, StoreLines
<1>6. CASE Editor
  BY <1>1, <1>6 DEF Editor, DidOpen, DidOpenOther, DidChange, DidClose, Request
<1>7. CASE Applied  BY <1>1, <1>7 DEF Applied
<1>8. ASSUME NEW g \in Goroutine, Wake(g) PROVE SearchShape'  BY <1>1, <1>8 DEF Wake
<1>9. ASSUME NEW n \in notices, Notify(n) PROVE SearchShape'  BY <1>1, <1>9 DEF Notify
<1> QED  BY <1>2, <1>3, <1>4, <1>5, <1>6, <1>7, <1>8, <1>9 DEF Next, Thread

\* A refresh that has just been started is the last one.
LEMMA StartedLeads ==
  ASSUME NumberInv, NEW d, NEW g \in Goroutine, Started(g, d), UNCHANGED <<notices, latest>>,
         NEW p \in Path
  PROVE  Leads(g, p)'
<1>1. \A k \in 0 .. spawned : k < spawned + 1  BY SMT DEF NumberInv
<1>2. thread'[g].no = spawned + 1 /\ \A h \in Goroutine \ {g} : thread'[h].no = thread[h].no
  BY DEF Started
<1>3. \A h \in Goroutine \ {g} : thread'[h].no < spawned + 1  BY <1>1, <1>2 DEF NumberInv
<1>4. \A n \in notices' : n.no < spawned + 1  BY <1>1 DEF NumberInv
<1>5. latest'[p] < spawned + 1  BY <1>1 DEF NumberInv
<1> QED  BY <1>2, <1>3, <1>4, <1>5 DEF Leads, Earlier

\* The object of another document of the notebook, and the threads at work.
LEMMA OnRecord ==
  ASSUME Shape, TextInv, NEW p \in Path, documents[p] # 0
  PROVE  documents[p] \in 1 .. Len(doc) /\ doc[documents[p]].path = p
<1>1. documents[p] \in 1 .. Len(doc)  BY SMT DEF Shape, Objects
<1> QED  BY <1>1 DEF TextInv

\* TextDocumentDidOpen keeps what is current.
LEMMA OpenCurrent ==
  ASSUME IInv, TextInv, NumberInv, CurrentInv, NEW p \in Path, NEW t \in Text, DidOpen(p, t)
  PROVE  CurrentInv'
<1> SUFFICES ASSUME NEW d, d = Len(doc) + 1 PROVE CurrentInv'
  OBVIOUS
<1>0. InNotebook \subseteq Path /\ Goroutine \subseteq Scanner  BY DiagnosticsAssumption
<1>1. Shape  BY DEF IInv
<1>8. d \notin 1 .. Len(doc)  BY <1>1, SMT DEF Shape, Objects
<1>9. Opened(p, t, d)  BY <1>1, OpenMoves
<1>2. /\ thread["main"].pc = "free" /\ documents' = [documents EXCEPT ![p] = d]
      /\ \A i \in 1 .. Len(doc) : /\ doc'[i].path = doc[i].path
                                  /\ doc'[i].content = doc[i].content /\ doc'[i].lines = doc[i].lines
      /\ doc'[d].path = p
      /\ \/ p \notin InNotebook /\ \A g \in Goroutine : thread'[g] = thread[g]
         \/ \E g \in Goroutine : Started(g, d)
  BY <1>9 DEF Opened
<1>3. UNCHANGED <<scan, notices, shown, stale, latest>>  BY DEF DidOpen, scanVars
<1>4. \A g \in Goroutine : thread[g].pc # "free" => thread[g].doc \in 1 .. Len(doc)
  BY <1>0, <1>1 DEF Shape
<1>5. \A q \in Path : documents'[q] = IF q = p THEN d ELSE documents[q]  BY <1>1, <1>2 DEF Shape
<1>6. ASSUME p \in InNotebook PROVE Current(p)'
  <2>1. PICK g \in Goroutine : Started(g, d)  BY <1>2, <1>6
  <2>2. Leads(g, p)'  BY <1>3, <2>1, StartedLeads
  <2>3. thread'[g].doc = d /\ Fresh(g)'  BY <2>1 DEF Started, Fresh
  <2>4. \A h \in Goroutine : Sleeps(h, d)' => h = g  BY <1>4, <1>8, <2>1 DEF Started, Sleeps
  <2>5. documents'[p] = d  BY <1>5
  <2> QED  BY <2>2, <2>3, <2>4, <2>5 DEF Current
<1>7. ASSUME NEW q \in InNotebook, q # p, documents[q] # 0 PROVE Current(q)'
  <2> SUFFICES ASSUME NEW e, e = documents[q] PROVE Current(q)'
    OBVIOUS
  <2>1. e \in 1 .. Len(doc) /\ doc[e].path = q /\ e # d  BY <1>0, <1>1, <1>7, <1>8, OnRecord
  <2>2. documents'[q] = e /\ Current(q)  BY <1>0, <1>5, <1>7 DEF CurrentInv
  <2>3. ASSUME NEW h \in Goroutine
        PROVE  thread'[h] = thread[h] \/ (thread[h].pc = "free" /\ thread'[h].doc = d /\ thread'[h].pc = "sleep")
    BY <1>2 DEF Started
  <2>4. \A h \in Goroutine : WorksFor(h, q)' => WorksFor(h, q) /\ thread'[h].no = thread[h].no
    BY <1>2, <1>4, <1>7, <2>3 DEF WorksFor
  <2>5. \A h \in Goroutine : Sleeps(h, e)' => Sleeps(h, e) /\ thread'[h].no = thread[h].no
    BY <2>1, <2>3 DEF Sleeps
  <2>6. \A h \in Goroutine : thread[h].doc = e /\ Fresh(h)
          => thread'[h].doc = e /\ Fresh(h)' /\ thread'[h].no = thread[h].no
    BY <1>2, <1>3, <2>1, <2>3 DEF Fresh
  <2>7. ~Applying(e) /\ doc'[e].content = doc[e].content  BY <1>2, <2>1 DEF Applying
  <2> QED  BY <1>3, <2>2, <2>4, <2>5, <2>6, <2>7, CurrentKept
<1> QED  BY <1>0, <1>5, <1>6, <1>7 DEF CurrentInv

\* TextDocumentDidChange: what was current is to be refreshed.
LEMMA ChangeCurrent ==
  ASSUME IInv, TextInv, CurrentInv, NEW p \in Path, NEW t \in Text, DidChange(p, t), documents[p] # 0
  PROVE  CurrentInv'
<1> SUFFICES ASSUME NEW d, d = documents[p] PROVE CurrentInv'
  OBVIOUS
<1>0. InNotebook \subseteq Path /\ Goroutine \subseteq Scanner  BY DiagnosticsAssumption
<1>1. Shape  BY DEF IInv
<1>2. /\ d \in 1 .. Len(doc) /\ thread["main"].pc = "free"
      /\ thread'["main"].pc = "apply" /\ thread'["main"].doc = d
      /\ \A g \in Goroutine : thread'[g] = thread[g]
      /\ \E c \in Text : Changed(doc', doc, d, c, doc[d].lines, doc[d].needsRefresh)
  BY <1>1, ChangeMoves
<1>3. UNCHANGED <<scan, documents, notices, shown, stale, latest>>  BY DEF DidChange, scanVars
<1>4. \A g \in Goroutine : thread[g].pc # "free" => thread[g].doc \in 1 .. Len(doc)
  BY <1>0, <1>1 DEF Shape
<1>5. /\ \A i \in 1 .. Len(doc) : doc'[i].path = doc[i].path
      /\ \A i \in 1 .. Len(doc) : i # d => doc'[i] = doc[i]
  BY <1>2 DEF Changed
<1>6. ASSUME NEW q
      PROVE  \A h \in Goroutine : WorksFor(h, q)' => WorksFor(h, q) /\ thread'[h].no = thread[h].no
  BY <1>2, <1>4, <1>5 DEF WorksFor
<1>7. ASSUME NEW q \in InNotebook, documents[q] # 0, q = p PROVE Current(q)'
  <2>1. \A g \in Goroutine : Leads(g, q) /\ thread'[g].no = thread[g].no => Leads(g, q)'
    BY <1>3, <1>6, OrderKept
  <2>2. \A g \in Goroutine : Sleeps(g, d) => Leads(g, q)  BY <1>7 DEF CurrentInv, Current
  <2>3. \A g \in Goroutine : Sleeps(g, d)' => Leads(g, q)'  BY <1>2, <2>1, <2>2 DEF Sleeps
  <2>4. Applying(d)' /\ documents'[q] = d  BY <1>2, <1>3, <1>7 DEF Applying
  <2> QED  BY <2>3, <2>4 DEF Current
<1>8. ASSUME NEW q \in InNotebook, documents[q] # 0, q # p PROVE Current(q)'
  <2> SUFFICES ASSUME NEW e, e = documents[q] PROVE Current(q)'
    OBVIOUS
  <2>1. e \in 1 .. Len(doc) /\ doc[e].path = q /\ doc[d].path = p  BY <1>0, <1>1, <1>8, OnRecord
  <2>2. documents'[q] = e /\ Current(q) /\ e # d  BY <1>3, <1>8, <2>1 DEF CurrentInv
  <2>3. doc'[e] = doc[e] /\ ~Applying(e)  BY <1>2, <1>5, <2>1, <2>2 DEF Applying
  <2>4. \A h \in Goroutine : thread[h].doc = e /\ Fresh(h)
          => thread'[h].doc = e /\ Fresh(h)' /\ thread'[h].no = thread[h].no
    BY <1>2, <1>3, <2>3 DEF Fresh
  <2>5. \A h \in Goroutine : Sleeps(h, e)' => Sleeps(h, e) /\ thread'[h].no = thread[h].no
    BY <1>2 DEF Sleeps
  <2> QED  BY <1>3, <1>6, <2>2, <2>3, <2>4, <2>5, CurrentKept
<1> QED  BY <1>3, <1>7, <1>8 DEF CurrentInv

\* The rest of TextDocumentDidChange: a refresh is started, or one that is
\* still asleep will read the new content.
LEMMA AppliedCurrent ==
  ASSUME IInv, TextInv, NumberInv, CurrentInv, Applied
  PROVE  CurrentInv'
<1> SUFFICES ASSUME NEW d, d = thread["main"].doc, NEW p, p = doc[d].path PROVE CurrentInv'
  OBVIOUS
<1>0. InNotebook \subseteq Path /\ Goroutine \subseteq Scanner  BY DiagnosticsAssumption
<1>1. Shape  BY DEF IInv
<1>2. /\ thread["main"].pc = "apply" /\ d \in 1 .. Len(doc) /\ Len(doc') = Len(doc)
      /\ \A i \in 1 .. Len(doc) : /\ doc'[i].path = doc[i].path
                                  /\ doc'[i].content = doc[i].content
                                  /\ doc'[i].lines = IF i = d THEN None ELSE doc[i].lines
      /\ \/ /\ doc[d].needsRefresh \/ doc[d].path \notin InNotebook
            /\ \A g \in Goroutine : thread'[g] = thread[g]
         \/ ~doc[d].needsRefresh /\ \E g \in Goroutine : Started(g, d)
  BY <1>1, AppliedMoves
<1>3. /\ UNCHANGED <<scan, documents, notices, shown, latest>>
      /\ \A i : i \in stale /\ i # d => i \in stale'
  BY DEF Applied, scanVars
<1>4. \A g \in Goroutine : thread[g].pc # "free" => thread[g].doc \in 1 .. Len(doc)
  BY <1>0, <1>1 DEF Shape
<1>5. documents[p] = d /\ p \in Path  BY <1>2 DEF TextInv, Applying
<1>6. ASSUME p \in InNotebook, documents[p] # 0 PROVE Current(p)'
  <2>1. documents'[p] = d  BY <1>3, <1>5
  <2>2. CASE doc[d].needsRefresh
    <3>1. PICK g \in Goroutine : Sleeps(g, d)  BY <1>2, <2>2 DEF IInv, Debounced
    <3>2. \A h \in Goroutine : thread'[h] = thread[h]  BY <1>2, <2>2
    <3>3. \A h \in Goroutine : WorksFor(h, p)' => WorksFor(h, p) /\ thread'[h].no = thread[h].no
      BY <1>2, <1>4, <3>2 DEF WorksFor
    <3>4. \A h \in Goroutine : Leads(h, p) /\ thread'[h].no = thread[h].no => Leads(h, p)'
      BY <1>3, <3>3, OrderKept
    <3>5. \A h \in Goroutine : Sleeps(h, d) => Leads(h, p)'
      BY <1>5, <1>6, <3>2, <3>4 DEF CurrentInv, Current
    <3>6. \A h \in Goroutine : Sleeps(h, d)' => Leads(h, p)'  BY <3>2, <3>5 DEF Sleeps
    <3>7. thread'[g].doc = d /\ Fresh(g)'  BY <3>1, <3>2 DEF Sleeps, Fresh
    <3> QED  BY <2>1, <3>1, <3>5, <3>6, <3>7 DEF Current
  <2>3. CASE ~doc[d].needsRefresh
    <3>1. PICK g \in Goroutine : Started(g, d)  BY <1>2, <1>6, <2>3
    <3>2. Leads(g, p)'  BY <1>3, <1>5, <3>1, StartedLeads
    <3>3. thread'[g].doc = d /\ Fresh(g)'  BY <3>1 DEF Started, Fresh
    <3>4. \A h \in Goroutine : ~Sleeps(h, d)  BY <1>2, <2>3 DEF IInv, Debounced
    <3>5. \A h \in Goroutine : Sleeps(h, d)' => h = g  BY <3>1, <3>4 DEF Started, Sleeps
    <3> QED  BY <2>1, <3>2, <3>3, <3>5 DEF Current
  <2> QED  BY <2>2, <2>3
<1>7. ASSUME NEW q \in InNotebook, q # p, documents[q] # 0 PROVE Current(q)'
  <2> SUFFICES ASSUME NEW e, e = documents[q] PROVE Current(q)'
    OBVIOUS
  <2>1. e \in 1 .. Len(doc) /\ doc[e].path = q  BY <1>0, <1>1, <1>7, OnRecord
  <2>2. documents'[q] = e /\ Current(q) /\ e # d  BY <1>3, <1>7, <2>1 DEF CurrentInv
  <2>3. ASSUME NEW h \in Goroutine
        PROVE  thread'[h] = thread[h] \/ (thread[h].pc = "free" /\ thread'[h].doc = d /\ thread'[h].pc = "sleep")
    BY <1>2 DEF Started
  <2>4. \A h \in Goroutine : WorksFor(h, q)' => WorksFor(h, q) /\ thread'[h].no = thread[h].no
    <3>1. doc'[d].path = p  BY <1>2
    <3> QED  BY <1>2, <1>4, <1>7, <2>3, <3>1 DEF WorksFor
  <2>5. \A h \in Goroutine : Sleeps(h, e)' => Sleeps(h, e) /\ thread'[h].no = thread[h].no
    BY <2>2, <2>3 DEF Sleeps
  <2>6. doc'[e].content = doc[e].content /\ doc'[e].lines = doc[e].lines  BY <1>2, <2>1, <2>2
  <2>7. \A h \in Goroutine : thread[h].doc = e /\ Fresh(h)
          => thread'[h].doc = e /\ Fresh(h)' /\ thread'[h].no = thread[h].no
    BY <1>3, <2>3, <2>6 DEF Fresh
  <2>8. ~Applying(e) /\ (e \in stale => e \in stale')  BY <1>3, <2>2 DEF Applying
  <2> QED  BY <1>3, <2>2, <2>4, <2>5, <2>6, <2>7, <2>8, CurrentKept
<1> QED  BY <1>3, <1>6, <1>7 DEF CurrentInv

\* A thread at work on an object moves: what it has read stays current.
LEMMA MoveCurrent ==
  ASSUME IInv, TextInv, CurrentInv, NEW s \in Scanner, NEW pc, NEW v, Moved(s, pc, v),
         thread[s].pc # "free", thread[s].pc # "apply", pc # "sleep", pc # "apply",
         UNCHANGED <<documents, notices, latest, shown>>, stale \subseteq stale',
         \A i \in 1 .. Len(doc) :
           /\ doc'[i].path = doc[i].path /\ doc'[i].content = doc[i].content
           /\ doc'[i].lines = doc[i].lines \/ doc'[i].lines = doc[i].content \/ i \in stale',
         \A t \in Scanner : t # s => scan'[t] = scan[t],
         Fresh(s) => Fresh(s)' \/ thread[s].doc \in stale' \/ Applying(thread[s].doc)
  PROVE  CurrentInv'
<1>0. InNotebook \subseteq Path /\ Goroutine \subseteq Scanner  BY DiagnosticsAssumption
<1>1. Shape  BY DEF IInv
<1>2. \A i : Applying(i)' <=> Applying(i)  BY MovedApplying
<1>3. \A t \in Scanner : /\ thread'[t].doc = thread[t].doc /\ thread'[t].no = thread[t].no
                         /\ t # s => thread'[t] = thread[t]
  BY DEF Moved
<1>4. \A t \in Scanner : thread[t].pc # "free" => thread[t].doc \in 1 .. Len(doc)  BY <1>1 DEF Shape
<1>5. \A t \in Scanner : thread'[t].pc # "free" => thread[t].pc # "free"  BY <1>3
<1> SUFFICES ASSUME NEW q \in InNotebook, documents[q] # 0, NEW e, e = documents[q] PROVE Current(q)'
  BY DEF CurrentInv
<1>6. e \in 1 .. Len(doc) /\ documents'[q] = e /\ Current(q)  BY <1>0, <1>1, OnRecord DEF CurrentInv
<1>7. \A h \in Goroutine : WorksFor(h, q)' => WorksFor(h, q) /\ thread'[h].no = thread[h].no
  BY <1>0, <1>3, <1>4, <1>5 DEF WorksFor
<1>8. \A h \in Goroutine : Sleeps(h, e)' => Sleeps(h, e) /\ thread'[h].no = thread[h].no
  BY <1>0, <1>3 DEF Sleeps, Moved
<1>9. ASSUME NEW h \in Goroutine, thread[h].doc = e, Fresh(h), e \notin stale', ~Applying(e)
      PROVE  Fresh(h)'
  <2>1. CASE h = s  BY <1>9, <2>1
  <2>2. CASE h # s
    <3>1. thread'[h] = thread[h] /\ scan'[h] = scan[h]  BY <1>0, <1>3, <2>2
    <3>2. doc'[e].content = doc[e].content /\ (doc'[e].lines = doc[e].lines \/ doc'[e].lines = doc[e].content)
      BY <1>6, <1>9
    <3> QED  BY <1>9, <3>1, <3>2 DEF Fresh
  <2> QED  BY <2>1, <2>2
<1>10. \A h \in Goroutine : thread[h].doc = e /\ Fresh(h)
         => \/ e \in stale' \/ Applying(e)'
            \/ thread'[h].doc = e /\ Fresh(h)' /\ thread'[h].no = thread[h].no
  BY <1>0, <1>2, <1>3, <1>9
<1>11. (e \in stale => e \in stale') /\ (Applying(e) => Applying(e)')  BY <1>2
<1> QED  BY <1>6, <1>7, <1>8, <1>10, <1>11, CurrentKept

\* The steps of the threads up to the search.
LEMMA ThreadCurrent ==
  ASSUME IInv, TextInv, LinesInv, SearchShape, CurrentInv, NEW s \in Scanner,
         (s \in Goroutine /\ Wake(s)) \/ TestLines(s) \/ SplitLines(s) \/ StoreLines(s) \/ LoadLines(s)
  PROVE  CurrentInv'
<1> SUFFICES ASSUME NEW d, d = thread[s].doc PROVE CurrentInv'
  OBVIOUS
<1>1. Shape  BY DEF IInv
<1>2. CASE s \in Goroutine /\ Wake(s)
  <2>1. /\ thread[s].pc = "sleep" /\ d \in 1 .. Len(doc) /\ Moved(s, "test", thread[s].local)
        /\ Changed(doc', doc, d, doc[d].content, doc[d].lines, FALSE)
    BY <1>1, <1>2, WakeMoves
  <2>2. \A i \in 1 .. Len(doc) :
           doc'[i].path = doc[i].path /\ doc'[i].content = doc[i].content /\ doc'[i].lines = doc[i].lines
    BY <2>1 DEF Changed
  <2>3. UNCHANGED <<scan, documents, notices, latest, shown, stale>>  BY <1>2 DEF Wake, scanVars
  <2>4. Fresh(s)'  BY <2>1 DEF Moved, Fresh
  <2> QED  BY <2>1, <2>2, <2>3, <2>4, MoveCurrent
<1>3. CASE TestLines(s)
  <2> SUFFICES ASSUME NEW pc, pc = IF doc[d].lines = None THEN "split" ELSE "load" PROVE CurrentInv'
    OBVIOUS
  <2>1. thread[s].pc = "test" /\ d \in 1 .. Len(doc) /\ Moved(s, pc, thread[s].local)
    BY <1>1, <1>3, TestMoves
  <2>2. UNCHANGED <<scan, doc, documents, notices, latest, shown, stale>>  BY <1>3 DEF TestLines, scanVars
  <2>3. Fresh(s)' \/ d \in stale' \/ Applying(d)
    <3>1. CASE pc = "split"  BY <2>1, <3>1 DEF Moved, Fresh
    <3>2. CASE pc = "load" /\ doc[d].lines # None
      <4>1. d \in stale \/ Applying(d) \/ doc[d].lines = doc[d].content  BY <2>1, <3>2 DEF LinesInv
      <4>2. thread'[s].pc = "load" /\ thread'[s].doc = d  BY <2>1, <3>2 DEF Moved
      <4> QED  BY <2>2, <4>1, <4>2 DEF Fresh
    <3> QED  BY <3>1, <3>2
  <2>4. pc # "sleep" /\ pc # "apply"  OBVIOUS
  <2> QED  BY <2>1, <2>2, <2>3, <2>4, MoveCurrent
<1>4. CASE SplitLines(s)
  <2>1. thread[s].pc = "split" /\ d \in 1 .. Len(doc) /\ Moved(s, "store", doc[d].content)
    BY <1>1, <1>4, SplitMoves
  <2>2. UNCHANGED <<scan, doc, documents, notices, latest, shown, stale>>  BY <1>4 DEF SplitLines, scanVars
  <2>3. Fresh(s)'  BY <2>1, <2>2 DEF Moved, Fresh
  <2> QED  BY <2>1, <2>2, <2>3, MoveCurrent
<1>5. CASE StoreLines(s)
  <2>1. /\ thread[s].pc = "store" /\ d \in 1 .. Len(doc) /\ Moved(s, "load", None)
        /\ Changed(doc', doc, d, doc[d].content, thread[s].local, doc[d].needsRefresh)
    BY <1>1, <1>5, StoreMoves
  <2>2. /\ doc'[d].lines = thread[s].local
        /\ \A i \in 1 .. Len(doc) : /\ doc'[i].path = doc[i].path /\ doc'[i].content = doc[i].content
                                    /\ i # d => doc'[i].lines = doc[i].lines
    BY <2>1 DEF Changed
  <2>3. UNCHANGED <<scan, documents, notices, latest, shown>>  BY <1>5 DEF StoreLines, scanVars
  <2>4. stale \subseteq stale' /\ (thread[s].local = doc[d].content \/ d \in stale')
    BY <1>5 DEF StoreLines
  <2>5. Fresh(s)' \/ d \in stale'
    <3>1. thread'[s].pc = "load" /\ thread'[s].doc = d  BY <2>1 DEF Moved
    <3> QED  BY <2>1, <2>2, <2>4, <3>1 DEF Fresh
  <2>6. \A i \in 1 .. Len(doc) :
           /\ doc'[i].path = doc[i].path /\ doc'[i].content = doc[i].content
           /\ doc'[i].lines = doc[i].lines \/ doc'[i].lines = doc[i].content \/ i \in stale'
    BY <2>2, <2>4
  <2> QED  BY <2>1, <2>3, <2>4, <2>5, <2>6, MoveCurrent
<1>6. CASE LoadLines(s)
  <2>1. thread[s].pc = "load" /\ d \in 1 .. Len(doc) /\ Moved(s, "scan", thread[s].local)
    BY <1>1, <1>6, LoadMoves
  <2>2. UNCHANGED <<doc, documents, notices, latest, shown, stale>>  BY <1>6 DEF LoadLines
  <2>3. PICK x : /\ scan' = [scan EXCEPT ![s] = x]
                 /\ x.lines = IF doc[d].lines = None THEN <<>> ELSE doc[d].lines
    <3> DEFINE l == IF doc[d].lines = None THEN <<>> ELSE doc[d].lines
               x == [lines |-> l, index |-> 1, found |-> {}]
    <3>1. scan' = [scan EXCEPT ![s] = x]  BY <1>6 DEF LoadLines, ScanStart
    <3> HIDE DEF l
    <3>2. x.lines = l  OBVIOUS
    <3> HIDE DEF x
    <3> QED  BY <3>1, <3>2 DEF l
  <2>4. scan'[s] = x /\ \A t \in Scanner : t # s => scan'[t] = scan[t]  BY <2>3 DEF SearchShape
  <2>5. Fresh(s) => Fresh(s)'
    <3>1. doc[d].content # None  BY <2>1, DiagnosticsAssumption DEF TextInv
    <3>2. thread'[s].pc = "scan" /\ thread'[s].doc = d  BY <2>1 DEF Moved
    <3>3. Fresh(s) => doc[d].lines = doc[d].content  BY <2>1 DEF Fresh
    <3> QED  BY <2>2, <2>3, <2>4, <3>1, <3>2, <3>3 DEF Fresh
  <2> QED  BY <2>1, <2>2, <2>4, <2>5, MoveCurrent
<1> QED  BY <1>2, <1>3, <1>4, <1>5, <1>6

\* Steps that change no thread, object or diagnostics.
LEMMA QuietCurrent ==
  ASSUME SearchShape, CurrentInv,
         \A g \in Goroutine : thread'[g] = thread[g] /\ scan'[g].lines = scan[g].lines,
         UNCHANGED <<documents, doc, notices, latest, shown, stale>>,
         \A i : Applying(i) => Applying(i)'
  PROVE  CurrentInv'
<1> SUFFICES ASSUME NEW q \in InNotebook, documents[q] # 0, NEW e, e = documents[q] PROVE Current(q)'
  BY DEF CurrentInv
<1>1. documents'[q] = e /\ Current(q)  BY DEF CurrentInv
<1>2. \A h \in Goroutine : WorksFor(h, q)' => WorksFor(h, q) /\ thread'[h].no = thread[h].no
  BY DEF WorksFor
<1>3. \A h \in Goroutine : Sleeps(h, e)' => Sleeps(h, e) /\ thread'[h].no = thread[h].no
  BY DEF Sleeps
<1>4. \A h \in Goroutine : thread[h].doc = e /\ Fresh(h)
        => thread'[h].doc = e /\ Fresh(h)' /\ thread'[h].no = thread[h].no
  BY DEF Fresh
<1> QED  BY <1>1, <1>2, <1>3, <1>4, CurrentKept

\* A refresh that ends hands its place over to its diagnostics.
LEMMA FinishCurrent ==
  ASSUME IInv, TextInv, SearchShape, CurrentInv, NEW s \in Scanner, Finish(s)
  PROVE  CurrentInv'
<1>0. /\ InNotebook \subseteq Path /\ "main" \in Scanner
      /\ "main" \notin Goroutine /\ Scanner = Goroutine \cup {"main"}
  BY DiagnosticsAssumption
<1>1. Shape  BY DEF IInv
<1>2. /\ thread[s].pc = "scan" /\ thread[s].doc \in 1 .. Len(doc)
      /\ thread'[s].pc = "free" /\ \A r \in Scanner : r # s => thread'[r] = thread[r]
  BY <1>1, FinishMoves, FreeThread
<1>3. UNCHANGED <<documents, doc, latest, shown, stale>>  BY DEF Finish
<1>4. \A t \in Scanner : t # s => scan'[t] = scan[t]  BY DEF Finish, ScanEnd, SearchShape
<1>5. \A i : Applying(i) => Applying(i)'  BY <1>0, <1>2 DEF Applying
<1>6. CASE s = "main"
  <2>1. UNCHANGED notices  BY <1>6 DEF Finish
  <2>2. \A g \in Goroutine : thread'[g] = thread[g] /\ scan'[g].lines = scan[g].lines
    BY <1>0, <1>2, <1>4, <1>6
  <2> QED  BY <1>3, <1>5, <2>1, <2>2, QuietCurrent
<1>7. CASE s \in Goroutine
  <2>1. PICK n : /\ notices' = notices \cup {n} /\ n.path = doc[thread[s].doc].path
                 /\ n.no = thread[s].no /\ n.lines = scan[s].lines
    BY <1>7, FinishSends
  <2> SUFFICES ASSUME NEW q \in InNotebook, documents[q] # 0, NEW e, e = documents[q] PROVE Current(q)'
    BY <1>3 DEF CurrentInv
  <2>2. e \in 1 .. Len(doc) /\ doc[e].path = q /\ documents'[q] = e /\ Current(q)
    BY <1>0, <1>1, <1>3, OnRecord DEF CurrentInv
  <2>3. \A h \in Goroutine : WorksFor(h, q)' => h # s /\ WorksFor(h, q) /\ thread'[h].no = thread[h].no
    BY <1>0, <1>2, <1>3 DEF WorksFor
  <2>4. n.path = q => WorksFor(s, q)  BY <1>2, <2>1 DEF WorksFor
  <2>5. ASSUME NEW k, NEW G, G \subseteq Goroutine, NEW N, Earlier(q, k, G, N), s \in G
        PROVE  /\ \A h \in Goroutine : h \in G => (WorksFor(h, q)' => thread'[h].no < k)
               /\ \A m \in N \cup {n} : m.path = q => m.no < k
    BY <2>1, <2>3, <2>4, <2>5 DEF Earlier
  <2>6. ASSUME NEW g \in Goroutine, g # s, Leads(g, q) PROVE Leads(g, q)'
    <3>1. Earlier(q, thread[g].no, Goroutine \ {g}, notices) /\ latest[q] < thread[g].no  BY <2>6 DEF Leads
    <3>2. /\ \A h \in Goroutine \ {g} : WorksFor(h, q)' => thread'[h].no < thread[g].no
          /\ \A m \in notices' : m.path = q => m.no < thread[g].no
      BY <1>7, <2>1, <2>5, <2>6, <3>1
    <3>3. thread'[g].no = thread[g].no  BY <1>0, <1>2, <2>6
    <3> QED  BY <1>3, <3>1, <3>2, <3>3 DEF Leads, Earlier
  <2>7. ASSUME NEW m \in notices, LastNotice(m, q) PROVE LastNotice(m, q)'
    <3>1. Earlier(q, m.no, Goroutine, notices \ {m}) /\ m.path = q /\ latest[q] < m.no
      BY <2>7 DEF LastNotice
    <3>2. /\ \A h \in Goroutine : WorksFor(h, q)' => thread'[h].no < m.no
          /\ \A r \in (notices \ {m}) \cup {n} : r.path = q => r.no < m.no
      BY <1>7, <2>5, <3>1
    <3>3. \A r \in notices' \ {m} : r \in (notices \ {m}) \cup {n}  BY <2>1
    <3> QED  BY <1>3, <3>1, <3>2, <3>3 DEF LastNotice, Earlier
  <2>8. ASSUME Settled(q) PROVE Settled(q)'
    <3>1. /\ Earlier(q, latest[q], Goroutine, notices)
          /\ shown[q].no < latest[q] \/ shown[q].lines = doc[documents[q]].content
      BY <2>8 DEF Settled
    <3>2. /\ \A h \in Goroutine : WorksFor(h, q)' => thread'[h].no < latest[q]
          /\ \A r \in notices' : r.path = q => r.no < latest[q]
      BY <1>7, <2>1, <2>5, <3>1
    <3> QED  BY <1>3, <3>1, <3>2 DEF Settled, Earlier
  <2>9. ASSUME thread[s].doc = e, Fresh(s), Leads(s, q)
        PROVE  n.lines = doc'[e].content /\ LastNotice(n, q)'
    <3>1. scan[s].lines = doc[e].content  BY <1>2, <2>9 DEF Fresh
    <3>2. Earlier(q, n.no, Goroutine \ {s}, notices) /\ latest[q] < n.no  BY <2>1, <2>9 DEF Leads
    <3>3. \A h \in Goroutine : WorksFor(h, q)' => thread'[h].no < n.no  BY <2>3, <3>2 DEF Earlier
    <3>4. \A r \in notices' \ {n} : r.path = q => r.no < n.no  BY <2>1, <3>2 DEF Earlier
    <3>5. n.path = q  BY <2>1, <2>2, <2>9
    <3> QED  BY <1>3, <2>1, <3>1, <3>2, <3>3, <3>4, <3>5 DEF LastNotice, Earlier
  <2>10. \A h \in Goroutine : Sleeps(h, e)' => Leads(h, q)'
    <3>1. \A h \in Goroutine : Sleeps(h, e)' => h # s /\ Sleeps(h, e)  BY <1>0, <1>2 DEF Sleeps
    <3> QED  BY <2>2, <2>6, <3>1 DEF Current
  <2>11. \A g \in Goroutine : g # s /\ thread[g].doc = e /\ Fresh(g) => thread'[g].doc = e /\ Fresh(g)'
    BY <1>0, <1>2, <1>3, <1>4 DEF Fresh
  <2>12. \/ e \in stale'
         \/ Applying(e)'
         \/ \E g \in Goroutine : thread'[g].doc = e /\ Fresh(g)' /\ Leads(g, q)'
         \/ \E m \in notices' : m.lines = doc'[e].content /\ LastNotice(m, q)'
         \/ Settled(q)'
    <3>1. CASE e \in stale \/ Applying(e)  BY <1>3, <1>5, <3>1
    <3>2. ASSUME NEW g \in Goroutine, thread[g].doc = e /\ Fresh(g) /\ Leads(g, q)
          PROVE  \/ \E h \in Goroutine : thread'[h].doc = e /\ Fresh(h)' /\ Leads(h, q)'
                 \/ \E m \in notices' : m.lines = doc'[e].content /\ LastNotice(m, q)'
      BY <2>1, <2>6, <2>9, <2>11, <3>2
    <3>3. ASSUME NEW m \in notices, m.lines = doc[e].content /\ LastNotice(m, q)
          PROVE  m \in notices' /\ m.lines = doc'[e].content /\ LastNotice(m, q)'
      BY <1>3, <2>1, <2>7, <3>3
    <3>4. \/ e \in stale
          \/ Applying(e)
          \/ \E g \in Goroutine : thread[g].doc = e /\ Fresh(g) /\ Leads(g, q)
          \/ \E m \in notices : m.lines = doc[e].content /\ LastNotice(m, q)
          \/ Settled(q)
      BY <2>2 DEF Current
    <3> QED  BY <2>8, <3>1, <3>2, <3>3, <3>4
  <2> QED  BY <2>2, <2>10, <2>12 DEF Current
<1> QED  BY <1>0, <1>6, <1>7

\* The diagnostics of the last refresh are shown, or later hidden by others.
LEMMA NotifyCurrent ==
  ASSUME NumberInv, CurrentInv, NEW n \in notices, Notify(n)
  PROVE  CurrentInv'
<1>0. InNotebook \subseteq Path  BY DiagnosticsAssumption
<1>1. /\ notices' = notices \ {n} /\ UNCHANGED <<scan, documents, doc, thread, stale>>
      /\ shown' = [shown EXCEPT ![n.path] = [no |-> n.no, lines |-> n.lines]]
      /\ latest' = [latest EXCEPT ![n.path] = IF n.no > latest[n.path] THEN n.no ELSE latest[n.path]]
  BY DEF Notify, scanVars
<1> SUFFICES ASSUME NEW q \in InNotebook, documents[q] # 0, NEW e, e = documents[q] PROVE Current(q)'
  BY <1>1 DEF CurrentInv
<1>2. documents'[q] = e /\ Current(q)  BY <1>1 DEF CurrentInv
<1>3. /\ q # n.path => latest'[q] = latest[q] /\ shown'[q] = shown[q]
      /\ q = n.path => /\ latest'[q] = IF n.no > latest[q] THEN n.no ELSE latest[q]
                       /\ shown'[q].no = n.no /\ shown'[q].lines = n.lines
  <2> DEFINE r == [no |-> n.no, lines |-> n.lines]
  <2>1. r.no = n.no /\ r.lines = n.lines  OBVIOUS
  <2>2. shown' = [shown EXCEPT ![n.path] = r]  BY <1>1
  <2> HIDE DEF r
  <2>3. (q # n.path => shown'[q] = shown[q]) /\ (q = n.path => shown'[q] = r)
    BY <1>0, <2>2 DEF NumberInv
  <2> QED  BY <1>0, <1>1, <2>1, <2>3 DEF NumberInv
<1>4. /\ n.no > latest[q] <=> latest[q] < n.no
      /\ n.no < latest[q] => ~(n.no > latest[q])
  <2>1. n.no \in Nat /\ latest[q] \in Nat  BY <1>0, SMT DEF NumberInv
  <2> QED  BY <2>1, SMT
<1>5. ASSUME NEW k, NEW G, NEW N, Earlier(q, k, G, N)
      PROVE  Earlier(q, k, G, N \ {n}) /\ \A g \in G : WorksFor(g, q)' => thread'[g].no < k
  BY <1>1, <1>5 DEF Earlier, WorksFor
<1>6. ASSUME NEW g \in Goroutine, Leads(g, q) PROVE Leads(g, q)'
  <2>1. Earlier(q, thread[g].no, Goroutine \ {g}, notices) /\ latest[q] < thread[g].no  BY <1>6 DEF Leads
  <2>2. latest'[q] < thread'[g].no
    <3>1. CASE q # n.path  BY <1>1, <1>3, <2>1, <3>1
    <3>2. CASE q = n.path
      <4>1. n.no < thread[g].no  BY <2>1, <3>2 DEF Earlier
      <4> QED  BY <1>1, <1>3, <2>1, <3>2, <4>1
    <3> QED  BY <3>1, <3>2
  <2> QED  BY <1>1, <1>5, <2>1, <2>2 DEF Leads, Earlier
<1>7. ASSUME NEW m \in notices, m # n, LastNotice(m, q) PROVE LastNotice(m, q)'
  <2>1. Earlier(q, m.no, Goroutine, notices \ {m}) /\ m.path = q /\ latest[q] < m.no
    BY <1>7 DEF LastNotice
  <2>2. latest'[q] < m.no
    <3>1. CASE q # n.path  BY <1>3, <2>1, <3>1
    <3>2. CASE q = n.path
      <4>1. n.no < m.no  BY <1>7, <2>1, <3>2 DEF Earlier
      <4> QED  BY <1>3, <2>1, <3>2, <4>1
    <3> QED  BY <3>1, <3>2
  <2> QED  BY <1>1, <1>5, <2>1, <2>2 DEF LastNotice, Earlier
<1>8. ASSUME n.lines = doc[e].content, LastNotice(n, q) PROVE Settled(q)'
  <2>1. Earlier(q, n.no, Goroutine, notices \ {n}) /\ n.path = q /\ latest[q] < n.no
    BY <1>8 DEF LastNotice
  <2>2. latest'[q] = n.no /\ shown'[q].lines = doc'[e].content  BY <1>1, <1>3, <1>4, <1>8, <2>1
  <2>3. Earlier(q, n.no, Goroutine, notices \ {n})'  BY <1>1, <1>5, <2>1 DEF Earlier
  <2> QED  BY <1>1, <1>2, <1>5, <2>1, <2>2 DEF Settled, Earlier
<1>9. ASSUME Settled(q) PROVE Settled(q)'
  <2>1. /\ Earlier(q, latest[q], Goroutine, notices)
        /\ shown[q].no < latest[q] \/ shown[q].lines = doc[e].content
    BY <1>9 DEF Settled
  <2>2. latest'[q] = latest[q] /\ (shown'[q].no < latest[q] \/ shown'[q].lines = doc[e].content)
    <3>1. CASE q # n.path  BY <1>3, <2>1, <3>1
    <3>2. CASE q = n.path
      <4>1. n.no < latest[q]  BY <2>1, <3>2 DEF Earlier
      <4> QED  BY <1>3, <1>4, <3>2, <4>1
    <3> QED  BY <3>1, <3>2
  <2> QED  BY <1>1, <1>2, <1>5, <2>1, <2>2 DEF Settled, Earlier
<1>10. \A h \in Goroutine : Sleeps(h, e)' => Leads(h, q)'
  BY <1>1, <1>2, <1>6 DEF Current, Sleeps
<1>11. \A g \in Goroutine : Fresh(g) => Fresh(g)'  BY <1>1 DEF Fresh
<1>12. Applying(e) => Applying(e)'  BY <1>1 DEF Applying
<1>13. \/ e \in stale'
       \/ Applying(e)'
       \/ \E g \in Goroutine : thread'[g].doc = e /\ Fresh(g)' /\ Leads(g, q)'
       \/ \E m \in notices' : m.lines = doc'[e].content /\ LastNotice(m, q)'
       \/ Settled(q)'
  <2>1. \/ e \in stale
        \/ Applying(e)
        \/ \E g \in Goroutine : thread[g].doc = e /\ Fresh(g) /\ Leads(g, q)
        \/ \E m \in notices : m.lines = doc[e].content /\ LastNotice(m, q)
        \/ Settled(q)
    BY <1>2 DEF Current
  <2>2. ASSUME NEW m \in notices, m.lines = doc[e].content /\ LastNotice(m, q)
        PROVE  Settled(q)' \/ (m \in notices' /\ m.lines = doc'[e].content /\ LastNotice(m, q)')
    BY <1>1, <1>7, <1>8, <2>2
  <2> QED  BY <1>1, <1>6, <1>9, <1>11, <1>12, <2>1, <2>2
<1> QED  BY <1>2, <1>10, <1>13 DEF Current

\* Every step keeps what is current.
LEMMA CurrentStep ==
  ASSUME IInv, TextInv, NumberInv, LinesInv, SearchShape, CurrentInv, Next
  PROVE  CurrentInv'
<1>0. "main" \in Scanner /\ "main" \notin Goroutine /\ Scanner = Goroutine \cup {"main"}
  BY DiagnosticsAssumption
<1>1. Shape  BY DEF IInv
<1>2. ASSUME NEW p \in Path, NEW t \in Text, DidChange(p, t) PROVE CurrentInv'
  <2>1. CASE documents[p] = 0
    <3>1. UNCHANGED <<scan, doc, thread, documents, notices, latest, shown, stale>>
      BY <1>2, <2>1 DEF DidChange, scanVars
    <3> QED  BY <3>1, QuietCurrent DEF Applying
  <2>2. CASE documents[p] # 0  BY <1>2, <2>2, ChangeCurrent
  <2> QED  BY <2>1, <2>2
<1>3. ASSUME NEW p \in Path, NEW t, DidOpenOther(p, t) \/ DidClose(p) PROVE CurrentInv'
  <2>1. UNCHANGED <<scan, doc, thread, documents, notices, latest, shown, stale>>
    BY <1>3 DEF DidOpenOther, DidClose, scanVars
  <2> QED  BY <2>1, QuietCurrent DEF Applying
<1>4. ASSUME NEW p \in Path, Request(p) PROVE CurrentInv'
  <2>1. \A g \in Goroutine : thread'[g] = thread[g]  BY <1>1, <1>4, CallMoves DEF Request
  <2>2. UNCHANGED <<scan, doc, documents, notices, latest, shown, stale>>  BY <1>4 DEF Request, scanVars
  <2>3. \A i : ~Applying(i)  BY <1>4 DEF Request, MainIdle, Applying
  <2> QED  BY <2>1, <2>2, <2>3, QuietCurrent
<1>5. ASSUME NEW s \in Scanner, Scan(s) PROVE CurrentInv'
  <2>1. UNCHANGED <<doc, thread, documents, notices, latest, shown, stale>>  BY <1>5 DEF Scan
  <2>2. \A g \in Goroutine : scan'[g].lines = scan[g].lines  BY <1>0, <1>5, SearchMoves
  <2> QED  BY <2>1, <2>2, QuietCurrent DEF Applying
<1>6. ASSUME NEW g \in Goroutine, Wake(g) PROVE CurrentInv'  BY <1>0, <1>6, ThreadCurrent
<1>7. ASSUME NEW s \in Scanner, TestLines(s) \/ SplitLines(s) \/ StoreLines(s) \/ LoadLines(s) PROVE CurrentInv'
  BY <1>7, ThreadCurrent
<1>8. ASSUME NEW p \in Path, NEW t \in Text, DidOpen(p, t) PROVE CurrentInv'  BY <1>8, OpenCurrent
<1>9. CASE Applied  BY <1>9, AppliedCurrent
<1>10. ASSUME NEW s \in Scanner, Finish(s) PROVE CurrentInv'  BY <1>10, FinishCurrent
<1>11. ASSUME NEW n \in notices, Notify(n) PROVE CurrentInv'  BY <1>11, NotifyCurrent
<1> QED  BY <1>2, <1>3, <1>4, <1>5, <1>6, <1>7, <1>8, <1>9, <1>10, <1>11 DEF Next, Editor, Thread

\* Nothing is open or under way at first.
LEMMA CurrentInit == Init => NumberInv /\ LinesInv /\ SearchShape /\ CurrentInv
<1> SUFFICES ASSUME Init PROVE NumberInv /\ LinesInv /\ SearchShape /\ CurrentInv
  OBVIOUS
<1>1. Len(doc) = 0 /\ spawned = 0 /\ notices = {}  BY SMT DEF Init
<1>2. \A d : d \notin 1 .. Len(doc)  BY <1>1, SMT
<1>3. NumberInv
  <2>1. 0 \in Nat /\ 0 \in 0 .. 0  BY SMT
  <2>2. Free.no = 0  BY DEF Free
  <2>3. \A g \in Goroutine : thread[g].no = 0  BY <2>2, DiagnosticsAssumption DEF Init
  <2>4. latest = [p \in Path |-> 0] /\ shown = [p \in Path |-> shown[p]]  BY DEF Init
  <2> QED  BY <1>1, <2>1, <2>3, <2>4 DEF NumberInv
<1>4. LinesInv  BY <1>2 DEF LinesInv
<1>5. SearchShape
  <2>1. scan = [s \in Scanner |-> Idle]  BY DEF Init, ScanInit
  <2> QED  BY <2>1 DEF SearchShape, Scanning
<1>6. \A p \in InNotebook : documents[p] = 0  BY DiagnosticsAssumption DEF Init
<1> QED  BY <1>3, <1>4, <1>5, <1>6 DEF CurrentInv

\* Once every refresh is over, the diagnostics that an editor shows for an
\* open document were computed from its current content: the change that finds
\* NeedsRefreshDiagnostics set is read by the refresh that will reset it, for
\* any number of documents, goroutines and changes (server.go,
\* refreshDiagnosticsOfDocument, and document.go, ApplyChanges and GetLines),
\* except for the two races that the property names.
THEOREM DiagnosticsCurrentTheorem == Spec => []DiagnosticsCurrent
<1> DEFINE J == NumberInv /\ LinesInv /\ SearchShape /\ CurrentInv
           I == IInv /\ TextInv /\ J
<1>1. Init => I  BY InitShape, TextInit, CurrentInit
<1>2. I /\ [Next]_vars => I'
  <2> SUFFICES ASSUME I, [Next]_vars PROVE I'
    OBVIOUS
  <2>1. CASE Next
    <3>1. IInv' /\ TextInv'  BY <2>1, EditorKeeps, ThreadsKeep, TextStep DEF Next
    <3>2. NumberInv' /\ LinesInv' /\ SearchShape'  BY <2>1, NumberStep, LinesStep, SearchStep
    <3>3. CurrentInv'  BY <2>1, CurrentStep
    <3> QED  BY <3>1, <3>2, <3>3
  <2>2. CASE UNCHANGED vars
    <3>1. IInv'  BY <2>2 DEF vars, IInv, Shape, Debounced, Sleeps
    <3>2. TextInv'  BY <2>2 DEF vars, TextInv, Applying
    <3>3. NumberInv' /\ LinesInv'  BY <2>2 DEF vars, NumberInv, LinesInv, Applying
    <3>4. SearchShape'  BY <2>2 DEF vars, scanVars, SearchShape, Scanning
    <3>5. CurrentInv'
      <4>1. UNCHANGED <<scan, doc, thread, documents, notices, latest, shown, stale>>
        BY <2>2 DEF vars, scanVars
      <4> QED  BY <4>1, QuietCurrent DEF Applying
    <3> QED  BY <3>1, <3>2, <3>3, <3>4, <3>5
  <2> QED  BY <2>1, <2>2
<1>3. I => DiagnosticsCurrent
  <2> SUFFICES ASSUME I, Quiet, NEW p \in InNotebook, documents[p] # 0, NEW d, d = documents[p]
               PROVE  d \in stale \/ shown[p].no < latest[p] \/ shown[p].lines = doc[d].content
    BY DEF DiagnosticsCurrent
  <2>1. \A s \in Scanner : thread[s].pc = "free"  BY DEF Quiet
  <2>2. notices = {}  BY DEF Quiet
  <2>3. "main" \in Scanner /\ Goroutine \subseteq Scanner  BY DiagnosticsAssumption
  <2>4. ~Applying(d)  BY <2>1, <2>3 DEF Applying
  <2>5. \A g \in Goroutine : ~Fresh(g)  BY <2>1, <2>3 DEF Fresh
  <2>6. d \in stale \/ Settled(p)
    <3>1. Current(p)  BY DEF CurrentInv
    <3> QED  BY <2>2, <2>4, <2>5, <3>1 DEF Current
  <2> QED  BY <2>6 DEF Settled
<1> QED  BY <1>1, <1>2, <1>3, PTL DEF Spec
-----------------------------------------------------------------------------
(* The searches.                                                           *)

\* A set of numbers with zero and the successor of each member has them all.
LEMMA EveryNumber ==
  ASSUME NEW S, 0 \in S, \A n \in Nat : n \in S => n + 1 \in S
  PROVE  Nat \subseteq S
<1> SUFFICES ASSUME Nat \ S # {} PROVE FALSE
  OBVIOUS
<1>1. PICK n \in Nat \ S : \A m \in Nat \ S : ~(<<m, n>> \in OpToRel(<, Nat))
  <2>1. Nat \ S \subseteq Nat  OBVIOUS
  <2> QED  BY <2>1, NatLessThanWellFounded, WFMin
<1>2. n # 0 /\ n - 1 \in Nat /\ n - 1 < n /\ (n - 1) + 1 = n  BY SMT
<1>3. n - 1 \notin S  BY <1>2
<1> QED  BY <1>1, <1>2, <1>3 DEF OpToRel

\* The states of a search up to its line n.
IsRun(c, lines, n) ==
  c = [i \in 0 .. n |-> IF i = 0 THEN NoCode ELSE AfterLine(c[i - 1], lines, i)]

\* There is such a search, by induction on the line.
LEMMA RunExists ==
  ASSUME NEW lines
  PROVE  \A n \in Nat : \E c : IsRun(c, lines, n)
<1> DEFINE S == {n \in Nat : \E c : IsRun(c, lines, n)}
<1>1. 0 \in S
  <2> DEFINE c == [i \in 0 .. 0 |-> NoCode]
  <2>1. \A i \in 0 .. 0 : i = 0  BY SMT
  <2>2. IsRun(c, lines, 0)  BY <2>1 DEF IsRun
  <2> QED  BY <2>2
<1>2. ASSUME NEW n \in Nat, n \in S PROVE n + 1 \in S
  <2>1. PICK c : IsRun(c, lines, n)  BY <1>2
  <2> DEFINE e == [i \in 0 .. n + 1 |-> IF i = 0 THEN NoCode ELSE AfterLine(c[i - 1], lines, i)]
  <2>2. ASSUME NEW i \in 0 .. n PROVE e[i] = c[i]
    <3>1. i \in 0 .. n + 1  BY SMT
    <3> QED  BY <2>1, <3>1 DEF IsRun
  <2>3. \A i \in 0 .. n + 1 : i # 0 => i - 1 \in 0 .. n  BY SMT
  <2> HIDE DEF e
  <2>4. e = [i \in 0 .. n + 1 |-> IF i = 0 THEN NoCode ELSE AfterLine(e[i - 1], lines, i)]
    <3>1. \A i \in 0 .. n + 1 : i # 0 => e[i - 1] = c[i - 1]  BY <2>2, <2>3
    <3> QED  BY <3>1 DEF e
  <2>5. n + 1 \in Nat /\ IsRun(e, lines, n + 1)  BY <2>4, SMT DEF IsRun
  <2> QED  BY <2>5
<1> HIDE DEF S
<1>3. Nat \subseteq S  BY <1>1, <1>2, EveryNumber
<1> QED  BY <1>3 DEF S

\* CodeAfter is the state after each line.
LEMMA CodeAfterLine ==
  ASSUME NEW lines, Len(lines) \in Nat
  PROVE  /\ CodeAfter(lines)[0] = NoCode
         /\ \A i \in 1 .. Len(lines) : CodeAfter(lines)[i] = AfterLine(CodeAfter(lines)[i - 1], lines, i)
<1>1. IsRun(CodeAfter(lines), lines, Len(lines))  BY RunExists DEF CodeAfter, IsRun
<1>2. 0 \in 0 .. Len(lines) /\ \A i \in 1 .. Len(lines) : i \in 0 .. Len(lines) /\ i # 0  BY SMT
<1> DEFINE c == CodeAfter(lines)
<1>3. c = [i \in 0 .. Len(lines) |-> IF i = 0 THEN NoCode ELSE AfterLine(c[i - 1], lines, i)]
  BY <1>1 DEF IsRun
<1> HIDE DEF c
<1>4. c[0] = NoCode /\ \A i \in 1 .. Len(lines) : c[i] = AfterLine(c[i - 1], lines, i)
  BY <1>2, <1>3
<1> QED  BY <1>4 DEF c

\* The variables of the package.
IsCode(c) ==
  /\ c = [f \in {"inline", "fenced", "indented", "start"} |-> c[f]]
  /\ c.fenced \in BOOLEAN /\ c.indented \in BOOLEAN

\* An open fence started at one of the first n lines.
FenceOpen(c, lines, n) == c.fenced => c.start \in 1 .. n /\ lines[c.start] \in Fence

\* The search of a line keeps this.
LEMMA LineSearched ==
  ASSUME NEW lines, NEW i \in Nat, i > 0, NEW c, IsCode(c), FenceOpen(c, lines, i - 1)
  PROVE  IsCode(AfterLine(c, lines, i)) /\ FenceOpen(AfterLine(c, lines, i), lines, i)
<1>1. i \in 1 .. i /\ \A k \in 1 .. i - 1 : k \in 1 .. i  BY SMT
<1> DEFINE u == Update(c, lines, i)
           b == IF Toggles(c, lines, i) THEN ~u.inline ELSE u.inline
<1>2. IsCode(c) /\ FenceOpen(c, lines, i)  BY <1>1 DEF FenceOpen
<1>3. IsCode(Close(c)) /\ FenceOpen(Close(c), lines, i)
  <2>1. Close(c).fenced = FALSE /\ Close(c).indented = FALSE
    BY <1>2 DEF Close, IsCode
  <2>2. Close(c) = [f \in {"inline", "fenced", "indented", "start"} |-> Close(c)[f]]
    BY <1>2 DEF Close, IsCode
  <2> QED  BY <2>1, <2>2 DEF IsCode, FenceOpen
<1>4. IsCode(u) /\ FenceOpen(u, lines, i)
  <2>1. CASE c.fenced  BY <1>2, <1>3, <2>1 DEF Update
  <2>2. CASE ~c.fenced /\ c.indented  BY <1>2, <1>3, <2>2 DEF Update
  <2>3. CASE ~c.fenced /\ ~c.indented /\ Opens(lines, i)
    <3> DEFINE e == [c EXCEPT !.fenced = lines[i] \in Fence, !.indented = lines[i] \notin Fence, !.start = i]
    <3>1. u = e  BY <2>3 DEF Update
    <3>2. /\ e.fenced = (lines[i] \in Fence) /\ e.indented = (lines[i] \notin Fence) /\ e.start = i
          /\ e = [f \in {"inline", "fenced", "indented", "start"} |-> e[f]]
      BY <1>2 DEF IsCode
    <3>3. (lines[i] \in Fence) \in BOOLEAN /\ (lines[i] \notin Fence) \in BOOLEAN  BY SMT
    <3> HIDE DEF e, u
    <3>4. IsCode(e)  BY <3>2, <3>3 DEF IsCode
    <3>5. FenceOpen(e, lines, i)  BY <1>1, <3>2 DEF FenceOpen
    <3> QED  BY <3>1, <3>4, <3>5
  <2>4. CASE ~c.fenced /\ ~c.indented /\ ~Opens(lines, i)  BY <1>2, <2>4 DEF Update
  <2> QED  BY <2>1, <2>2, <2>3, <2>4
<1>5. AfterLine(c, lines, i) = [u EXCEPT !.inline = b]  BY DEF AfterLine
<1> HIDE DEF u, b
<1>6. /\ AfterLine(c, lines, i) = [f \in {"inline", "fenced", "indented", "start"} |-> AfterLine(c, lines, i)[f]]
      /\ AfterLine(c, lines, i).fenced = u.fenced /\ AfterLine(c, lines, i).indented = u.indented
      /\ AfterLine(c, lines, i).start = u.start
  BY <1>4, <1>5 DEF IsCode
<1> QED  BY <1>4, <1>6 DEF IsCode, FenceOpen

\* A search that nothing disturbs: the variables of the package are those
\* after the line before the next one, and the links found are those so far.
SearchInv(x, c) ==
  /\ x = [f \in {"lines", "index", "found"} |-> x[f]]
  /\ x.lines \in Seq(LineKind) /\ x.index \in 1 .. Len(x.lines) + 1
  /\ x.found = {i \in 1 .. x.index - 1 : HasLink(CodeAfter(x.lines)[i - 1], x.lines, i)}
  /\ x.index # 1 => /\ c = CodeAfter(x.lines)[x.index - 1]
                    /\ IsCode(c) /\ FenceOpen(c, x.lines, x.index - 1)

\* Until two searches overlap there is at most one, and it is as above.
ScanInv ==
  /\ scan = [s \in Scanner |-> scan[s]]
  /\ overlapped \in BOOLEAN
  /\ ~overlapped =>
       /\ ~panicked /\ \A n \in notices : n.found = LinksOf(n.lines)
       /\ \A s, t \in Scanner : Scanning(s) /\ Scanning(t) => s = t
       /\ \A s \in Scanner : Scanning(s) => SearchInv(scan[s], code)

\* One line is searched.
LEMMA ScanLineStep ==
  ASSUME ScanInv, ~overlapped, NEW s \in Scanner, ScanLine(s)
  PROVE  /\ ~panicked' /\ scan' = [t \in Scanner |-> scan'[t]] /\ UNCHANGED overlapped
         /\ \A t \in Scanner : t # s => scan'[t] = scan[t]
         /\ Scanning(s) /\ SearchInv(scan'[s], code')
<1> DEFINE x == scan[s]
           lines == x.lines
           i == x.index
           c == Reset(code, i)
           r == CodeAfter(lines)
           y == [x EXCEPT !.index = i + 1, !.found = IF HasLink(c, lines, i) THEN x.found \cup {i} ELSE x.found]
<1>1. ~panicked /\ Scanning(s) /\ ~ScanDone(s) /\ UNCHANGED overlapped  BY DEF ScanLine
<1>2. SearchInv(x, code)  BY <1>1 DEF ScanInv
<1>3. Len(lines) \in Nat /\ DOMAIN lines = 1 .. Len(lines)  BY <1>2, SMT DEF SearchInv
<1>4. i \in 1 .. Len(lines) /\ i \in Nat /\ i > 0
  <2>1. i \in 1 .. Len(lines) + 1 /\ ~(i > Len(lines))  BY <1>1, <1>2 DEF ScanDone, SearchInv
  <2> QED  BY <1>3, <2>1, SMT
<1>5. r[0] = NoCode /\ \A k \in 1 .. Len(lines) : r[k] = AfterLine(r[k - 1], lines, k)
  BY <1>3, CodeAfterLine
<1>6. c = r[i - 1] /\ IsCode(c) /\ FenceOpen(c, lines, i - 1)
  <2>1. CASE i = 1
    <3>1. IsCode(NoCode) /\ ~NoCode.fenced  BY DEF NoCode, IsCode
    <3>2. i - 1 = 0  BY <2>1, SMT
    <3> QED  BY <1>5, <2>1, <3>1, <3>2 DEF Reset, FenceOpen
  <2>2. CASE i # 1  BY <1>2, <2>2 DEF SearchInv, Reset
  <2> QED  BY <2>1, <2>2
<1>7. ~Panics(c, lines, i)
  <2>1. \A k \in 1 .. i - 1 : k \in 1 .. Len(lines)  BY <1>3, <1>4, SMT
  <2>2. "blank" \notin Fence  BY DEF Fence
  <2> QED  BY <1>3, <1>6, <2>1, <2>2 DEF Panics, FenceOpen
<1>8. code' = AfterLine(c, lines, i) /\ UNCHANGED panicked
  BY <1>7 DEF ScanLine
<1>9. scan' = [scan EXCEPT ![s].index = i + 1,
                           ![s].found = IF HasLink(c, lines, i) THEN @ \cup {i} ELSE @]
  BY <1>7 DEF ScanLine
<1>10. /\ y = [f \in {"lines", "index", "found"} |-> y[f]] /\ y.lines = x.lines /\ y.index = i + 1
       /\ y.found = IF HasLink(c, lines, i) THEN x.found \cup {i} ELSE x.found
  <2>1. x = [f \in {"lines", "index", "found"} |-> x[f]]  BY <1>2 DEF SearchInv
  <2> HIDE DEF c, lines, i, x
  <2> QED  BY <2>1
<1>11. /\ scan' = [t \in Scanner |-> scan'[t]] /\ scan'[s] = y
       /\ \A t \in Scanner : t # s => scan'[t] = scan[t]
  <2>1. scan = [t \in Scanner |-> scan[t]]  BY DEF ScanInv
  <2> HIDE DEF c, i, lines
  <2> QED  BY <1>9, <2>1
<1>12. code' = r[i] /\ IsCode(code') /\ FenceOpen(code', lines, i)
  BY <1>4, <1>5, <1>6, <1>8, LineSearched
<1>13. y.found = {k \in 1 .. i : HasLink(r[k - 1], lines, k)}
  <2>1. x.found = {k \in 1 .. i - 1 : HasLink(r[k - 1], lines, k)}  BY <1>2 DEF SearchInv
  <2>2. \A k : k \in 1 .. i <=> k \in 1 .. i - 1 \/ k = i  BY <1>4, SMT
  <2>3. y.found = IF HasLink(r[i - 1], lines, i) THEN x.found \cup {i} ELSE x.found  BY <1>6, <1>10
  <2> HIDE DEF x, y, lines, i, r
  <2> QED  BY <2>1, <2>2, <2>3
<1>14. i + 1 \in 1 .. Len(lines) + 1 /\ (i + 1) - 1 = i  BY <1>3, <1>4, SMT
<1>15. lines \in Seq(LineKind)  BY <1>2 DEF SearchInv
<1> HIDE DEF x, y, lines, i, c, r
<1>16. SearchInv(y, code')
  <2>1. y.index = i + 1 /\ y.index - 1 = i /\ y.lines = lines  BY <1>10, <1>14 DEF lines
  <2>2. y.index \in 1 .. Len(y.lines) + 1  BY <1>14, <2>1
  <2>3. y.found = {k \in 1 .. y.index - 1 : HasLink(CodeAfter(y.lines)[k - 1], y.lines, k)}
    BY <1>13, <2>1 DEF r
  <2> QED  BY <1>10, <1>12, <1>15, <2>1, <2>2, <2>3 DEF SearchInv, r
<1> QED  BY <1>1, <1>8, <1>11, <1>16

\* Every step keeps the searches exact.
LEMMA ScanStep == IInv /\ TextInv /\ ScanInv /\ Next => ScanInv'
<1> SUFFICES ASSUME IInv, TextInv, ScanInv, Next PROVE ScanInv'
  OBVIOUS
<1>1. Shape  BY DEF IInv
<1>2. ASSUME UNCHANGED scanVars, notices' \subseteq notices PROVE ScanInv'
  <2>1. UNCHANGED <<code, scan, panicked, overlapped>>  BY <1>2 DEF scanVars
  <2> QED  BY <1>2, <2>1 DEF ScanInv, Scanning
<1>3. ASSUME NEW s \in Scanner, LoadLines(s) PROVE ScanInv'
  <2> DEFINE d == thread[s].doc
             lines == IF doc[d].lines = None THEN <<>> ELSE doc[d].lines
             x == [lines |-> lines, index |-> 1, found |-> {}]
  <2>1. d \in 1 .. Len(doc)  BY <1>1, <1>3, LoadMoves
  <2>2. lines \in Seq(LineKind)
    <3>1. doc[d].lines \in Text \cup {None}  BY <2>1 DEF TextInv
    <3>2. Text \subseteq Seq(LineKind)  BY DiagnosticsAssumption
    <3>3. <<>> \in Seq(LineKind)  BY SMT
    <3> QED  BY <3>1, <3>2, <3>3
  <2>3. ScanStart(s, lines) /\ UNCHANGED notices  BY <1>3 DEF LoadLines
  <2> HIDE DEF lines
  <2>4. /\ x = [f \in {"lines", "index", "found"} |-> x[f]]
        /\ x.lines = lines /\ x.index = 1 /\ x.found = {}
    OBVIOUS
  <2>5. /\ scan' = [scan EXCEPT ![s] = x] /\ UNCHANGED <<code, panicked>>
        /\ overlapped' = (overlapped \/ \E t \in Scanner \ {s} : Scanning(t))
    BY <2>3 DEF ScanStart
  <2> HIDE DEF x
  <2>6. /\ scan' = [t \in Scanner |-> scan'[t]] /\ scan'[s] = x
        /\ \A t \in Scanner : t # s => scan'[t] = scan[t]
    BY <2>5 DEF ScanInv
  <2>7. SearchInv(x, code')
    <3>1. 1 \in 1 .. Len(lines) + 1 /\ \A i : i \notin 1 .. 1 - 1  BY <2>2, SMT
    <3> QED  BY <2>2, <2>4, <3>1 DEF SearchInv
  <2>8. overlapped' \in BOOLEAN  BY <2>5, SMT DEF ScanInv
  <2>9. ASSUME ~overlapped' PROVE ~overlapped /\ \A t \in Scanner : Scanning(t)' => t = s
    BY <2>5, <2>6, <2>9 DEF Scanning
  <2>10. ASSUME ~overlapped'
         PROVE  /\ ~panicked' /\ \A n \in notices' : n.found = LinksOf(n.lines)
                /\ \A r, t \in Scanner : Scanning(r)' /\ Scanning(t)' => r = t
                /\ \A t \in Scanner : Scanning(t)' => SearchInv(scan'[t], code')
    BY <2>3, <2>5, <2>6, <2>7, <2>9, <2>10 DEF ScanInv
  <2> QED  BY <2>6, <2>8, <2>10 DEF ScanInv
<1>4. ASSUME NEW s \in Scanner, Scan(s) PROVE ScanInv'
  <2>1. ScanLine(s) /\ UNCHANGED notices /\ UNCHANGED overlapped  BY <1>4 DEF Scan, ScanLine
  <2>2. CASE overlapped
    <3>1. scan' = [t \in Scanner |-> scan'[t]]
      <4>1. \/ UNCHANGED scan
            \/ \E i, e : scan' = [scan EXCEPT ![s].index = i, ![s].found = e]
        BY <2>1 DEF ScanLine
      <4> QED  BY <4>1 DEF ScanInv
    <3> QED  BY <2>1, <2>2, <3>1 DEF ScanInv
  <2>3. CASE ~overlapped
    <3>1. /\ ~panicked' /\ scan' = [t \in Scanner |-> scan'[t]]
          /\ \A t \in Scanner : t # s => scan'[t] = scan[t]
          /\ Scanning(s) /\ SearchInv(scan'[s], code')
      BY <2>1, <2>3, ScanLineStep
    <3>2. \A t \in Scanner : Scanning(t)' => t = s  BY <2>3, <3>1 DEF ScanInv, Scanning
    <3>3. \A n \in notices' : n.found = LinksOf(n.lines)  BY <2>1, <2>3 DEF ScanInv
    <3>4. overlapped' \in BOOLEAN  BY <2>1 DEF ScanInv
    <3>5. \A t \in Scanner : Scanning(t)' => SearchInv(scan'[t], code')  BY <3>1, <3>2
    <3>6. \A r, t \in Scanner : Scanning(r)' /\ Scanning(t)' => r = t  BY <3>2
    <3> QED  BY <3>1, <3>3, <3>4, <3>5, <3>6 DEF ScanInv
  <2> QED  BY <2>2, <2>3
<1>5. ASSUME NEW s \in Scanner, Finish(s) PROVE ScanInv'
  <2> DEFINE x == scan[s]
  <2>1. /\ Scanning(s) /\ x.index > Len(x.lines) /\ scan' = [scan EXCEPT ![s] = Idle]
        /\ UNCHANGED <<code, panicked, overlapped>>
    BY <1>5 DEF Finish, ScanEnd, ScanDone
  <2>2. /\ scan' = [t \in Scanner |-> scan'[t]] /\ scan'[s] = Idle
        /\ \A t \in Scanner : t # s => scan'[t] = scan[t]
    BY <2>1 DEF ScanInv
  <2>3. \A t \in Scanner : Scanning(t)' => t # s /\ Scanning(t)  BY <2>2 DEF Scanning
  <2>4. \A n \in notices' : n \in notices \/ (n.lines = x.lines /\ n.found = x.found)
    <3>1. \A p, i : LET n == [path |-> p, no |-> i, lines |-> x.lines, found |-> x.found]
                    IN  n.lines = x.lines /\ n.found = x.found
      OBVIOUS
    <3> QED  BY <1>5, <3>1 DEF Finish
  <2>5. ASSUME ~overlapped PROVE x.found = LinksOf(x.lines)
    <3>1. SearchInv(x, code)  BY <2>1, <2>5 DEF ScanInv
    <3>2. x.lines \in Seq(LineKind) /\ x.index \in 1 .. Len(x.lines) + 1  BY <3>1 DEF SearchInv
    <3>3. x.index - 1 = Len(x.lines) /\ DOMAIN x.lines = 1 .. Len(x.lines)
      <4> HIDE DEF x
      <4> QED  BY <2>1, <3>2, SMT
    <3>4. x.found = {i \in 1 .. x.index - 1 : HasLink(CodeAfter(x.lines)[i - 1], x.lines, i)}
      BY <3>1 DEF SearchInv
    <3> QED  BY <3>3, <3>4 DEF LinksOf
  <2> HIDE DEF x
  <2>6. ASSUME ~overlapped PROVE \A n \in notices' : n.found = LinksOf(n.lines)
    BY <2>4, <2>5, <2>6 DEF ScanInv
  <2>7. ASSUME ~overlapped
        PROVE  /\ \A r, t \in Scanner : Scanning(r)' /\ Scanning(t)' => r = t
               /\ \A t \in Scanner : Scanning(t)' => SearchInv(scan'[t], code')
    BY <2>1, <2>2, <2>3, <2>7 DEF ScanInv
  <2>8. ~overlapped => ~panicked'  BY <2>1 DEF ScanInv
  <2>9. UNCHANGED overlapped /\ overlapped \in BOOLEAN  BY <2>1 DEF ScanInv
  <2> QED  BY <2>2, <2>6, <2>7, <2>8, <2>9 DEF ScanInv
<1>6. ASSUME NEW p \in Path, NEW t, DidOpen(p, t) \/ DidOpenOther(p, t) \/ DidChange(p, t) \/ DidClose(p) \/ Request(p)
      PROVE  ScanInv'
  BY <1>2, <1>6 DEF DidOpen, DidOpenOther, DidChange, DidClose, Request
<1>7. CASE Applied  BY <1>2, <1>7 DEF Applied
<1>8. ASSUME NEW g \in Goroutine, Wake(g) PROVE ScanInv'  BY <1>2, <1>8 DEF Wake
<1>9. ASSUME NEW s \in Scanner, TestLines(s) \/ SplitLines(s) \/ StoreLines(s) PROVE ScanInv'
  BY <1>2, <1>9 DEF TestLines, SplitLines, StoreLines
<1>10. ASSUME NEW n \in notices, Notify(n) PROVE ScanInv'
  <2>1. notices' \subseteq notices /\ UNCHANGED scanVars  BY <1>10 DEF Notify
  <2> QED  BY <1>2, <2>1
<1> QED  BY <1>3, <1>4, <1>5, <1>6, <1>7, <1>8, <1>9, <1>10 DEF Next, Editor, Thread

\* A search that no other one overlaps finds the links of its lines, whatever
\* the searches before it left in the variables of the package, and does not
\* panic (document.go, DocumentLinks and isLineWithinCodeBlock).
THEOREM ScanExactTheorem == Spec => []ScanExact
<1> DEFINE I == IInv /\ TextInv /\ ScanInv
<1>1. Init => I
  <2> SUFFICES ASSUME Init PROVE I
    OBVIOUS
  <2>1. IInv  BY InitShape
  <2>3. TextInv  BY TextInit
  <2>4. ScanInv
    <3>1. scan = [s \in Scanner |-> Idle] /\ ~panicked /\ overlapped = FALSE /\ notices = {}
      BY DEF Init, ScanInit
    <3>2. \A s \in Scanner : ~Scanning(s)  BY <3>1 DEF Scanning
    <3> QED  BY <3>1, <3>2 DEF ScanInv
  <2> QED  BY <2>1, <2>3, <2>4
<1>2. I /\ [Next]_vars => I'
  <2> SUFFICES ASSUME I, [Next]_vars PROVE I'
    OBVIOUS
  <2>1. CASE Next  BY <2>1, EditorKeeps, ThreadsKeep, TextStep, ScanStep DEF Next
  <2>2. CASE UNCHANGED vars
    <3>1. IInv'  BY <2>2 DEF vars, IInv, Shape, Debounced, Sleeps
    <3>2. TextInv'  BY <2>2 DEF vars, TextInv, Applying
    <3>3. ScanInv'  BY <2>2 DEF vars, scanVars, ScanInv, Scanning
    <3> QED  BY <3>1, <3>2, <3>3
  <2> QED  BY <2>1, <2>2
<1>3. I => ScanExact  BY DEF ScanInv, ScanExact
<1> QED  BY <1>1, <1>2, <1>3, PTL DEF Spec
=============================================================================
