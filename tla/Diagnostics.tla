---------------------------- MODULE Diagnostics -----------------------------
(***************************************************************************)
(* The open documents of the language server and the refresh of their      *)
(* diagnostics (internal/adapter/lsp/server.go and document.go).           *)
(*                                                                         *)
(* The handlers of the server run one at a time in the order of the        *)
(* editor's messages: they are the thread "main".  A refresh runs in a     *)
(* goroutine of its own: it sleeps, clears NeedsRefreshDiagnostics, splits *)
(* the content in lines unless they are cached, searches them for links,   *)
(* and starts another goroutine that sends the result.  The fields of a    *)
(* document are shared by these threads and nothing guards them.           *)
(*                                                                         *)
(* A text is the sequence of its lines, so that splitting a content gives  *)
(* the same value; None is the nil slice.                                  *)
(***************************************************************************)
EXTENDS DocumentLinks

CONSTANTS
  Path,        \* canonical paths of documents
  InNotebook,  \* the paths in a notebook that has diagnostics enabled
  Text,        \* contents of documents
  Goroutine,   \* slots for the goroutines of refreshes
  MaxEdits,    \* bound on the documents opened, the changes and the requests
  None

ASSUME DiagnosticsAssumption ==
  /\ InNotebook \subseteq Path
  /\ Scanner = Goroutine \cup {"main"} /\ "main" \notin Goroutine
  /\ Text \subseteq Seq(LineKind) \ {<<>>} /\ None \notin Text
  /\ MaxEdits \in Nat

VARIABLES
  editor,     \* the text that the editor shows for each path, or None
  documents,  \* documentStore.documents: the object of each path, or 0
  doc,        \* the document objects created so far
  thread,     \* the threads: program counter, document and local variables
  notices,    \* diagnostics on their way to the editor
  shown,      \* the diagnostics that the editor shows for each path: the
              \* number of their refresh and the lines it searched
  edits,      \* counts what MaxEdits bounds
  spawned,    \* counts the refreshes started
  stale,      \* history: objects whose cached lines were split from a
              \* content that had been replaced meanwhile
  latest      \* history: the latest refresh of each path whose diagnostics
              \* have arrived

vars == <<scanVars, editor, documents, doc, thread, notices, shown, edits, spawned,
          stale, latest>>

Object == DOMAIN doc
Free == [pc |-> "free", doc |-> 0, local |-> None, no |-> 0]

Init ==
  /\ ScanInit
  /\ editor = [p \in Path |-> None]
  /\ documents = [p \in Path |-> 0]
  /\ doc = <<>>
  /\ thread = [s \in Scanner |-> Free]
  /\ notices = {}
  /\ shown = [p \in Path |-> [no |-> 0, lines |-> None]]
  /\ edits = 0 /\ spawned = 0
  /\ stale = {} /\ latest = [p \in Path |-> 0]

-----------------------------------------------------------------------------
MainIdle == ~panicked /\ thread["main"].pc = "free"

\* refreshDiagnosticsOfDocument, up to its go statement, for the object d of
\* the objects ds; the thread "main" is free afterwards.
Refresh(ds, d) ==
  IF ds[d].needsRefresh \/ ds[d].path \notin InNotebook
  THEN /\ doc' = ds
       /\ thread' = [thread EXCEPT !["main"] = Free]
       /\ UNCHANGED spawned
  ELSE \E g \in Goroutine :
         /\ thread[g].pc = "free"
         /\ doc' = [ds EXCEPT ![d].needsRefresh = TRUE]
         /\ spawned' = spawned + 1
         /\ thread' = [thread EXCEPT !["main"] = Free,
                         ![g] = [Free EXCEPT !.pc = "sleep", !.doc = d, !.no = spawned + 1]]

\* TextDocumentDidOpen: the new object takes the place of an earlier one.
DidOpen(p, t) ==
  /\ MainIdle /\ edits < MaxEdits /\ editor[p] = None
  /\ edits' = edits + 1
  /\ editor' = [editor EXCEPT ![p] = t]
  /\ documents' = [documents EXCEPT ![p] = Len(doc) + 1]
  /\ Refresh(Append(doc, [path |-> p, content |-> t, lines |-> None,
                          needsRefresh |-> FALSE]),
             Len(doc) + 1)
  /\ UNCHANGED <<scanVars, notices, shown, stale, latest>>

\* TextDocumentDidOpen of a language that the server does not handle.
DidOpenOther(p, t) ==
  /\ MainIdle /\ editor[p] = None
  /\ editor' = [editor EXCEPT ![p] = t]
  /\ UNCHANGED <<scanVars, documents, doc, thread, notices, shown, edits, spawned,
                 stale, latest>>

\* TextDocumentDidChange, until ApplyChanges has set Content.  The change is a
\* range of the editor's text: it gives that text only if the object had it.
DidChange(p, t) ==
  /\ MainIdle /\ edits < MaxEdits /\ editor[p] \notin {None, t}
  /\ edits' = edits + 1
  /\ editor' = [editor EXCEPT ![p] = t]
  /\ \/ documents[p] = 0 /\ UNCHANGED <<doc, thread>>
     \/ /\ documents[p] # 0
        /\ \E c \in Text :
             /\ doc[documents[p]].content = editor[p] => c = t
             /\ doc' = [doc EXCEPT ![documents[p]].content = c]
        /\ thread' = [thread EXCEPT !["main"] =
                        [Free EXCEPT !.pc = "apply", !.doc = documents[p]]]
  /\ UNCHANGED <<scanVars, documents, notices, shown, spawned, stale, latest>>

\* Mutant of ClearedLines: the cached lines survive the change.
KeptLines(d) == doc

\* d.lines = nil
ClearedLines(d) == [doc EXCEPT ![d].lines = None]

\* The rest of TextDocumentDidChange.
Applied ==
  /\ ~panicked /\ thread["main"].pc = "apply"
  /\ Refresh(ClearedLines(thread["main"].doc), thread["main"].doc)
  /\ stale' = stale \ {thread["main"].doc}
  /\ UNCHANGED <<scanVars, editor, documents, notices, shown, edits, latest>>

\* TextDocumentDidClose: documents is keyed by path and Close deletes a URI.
DidClose(p) ==
  /\ MainIdle /\ editor[p] # None
  /\ editor' = [editor EXCEPT ![p] = None]
  /\ UNCHANGED <<scanVars, documents, doc, thread, notices, shown, edits, spawned,
                 stale, latest>>

\* TextDocumentDocumentLink, and the other requests that search the document
\* for links (hover, definition, references): DocumentLinks in "main".
Request(p) ==
  /\ MainIdle /\ edits < MaxEdits /\ editor[p] # None /\ documents[p] # 0
  /\ edits' = edits + 1
  /\ thread' = [thread EXCEPT !["main"] = [Free EXCEPT !.pc = "test", !.doc = documents[p]]]
  /\ UNCHANGED <<scanVars, editor, documents, doc, notices, shown, spawned, stale,
                 latest>>

-----------------------------------------------------------------------------
At(s, pc) == ~panicked /\ thread[s].pc = pc
Goto(s, pc) == thread' = [thread EXCEPT ![s].pc = pc]

\* Mutant of Wake: NeedsRefreshDiagnostics is not cleared here.
WakeKeepsFlag(g) ==
  /\ At(g, "sleep") /\ Goto(g, "test")
  /\ UNCHANGED <<scanVars, editor, documents, doc, notices, shown, edits, spawned,
                 stale, latest>>

\* The end of the delay: doc.NeedsRefreshDiagnostics = false.
Wake(g) ==
  /\ At(g, "sleep") /\ Goto(g, "test")
  /\ doc' = [doc EXCEPT ![thread[g].doc].needsRefresh = FALSE]
  /\ UNCHANGED <<scanVars, editor, documents, notices, shown, edits, spawned, stale,
                 latest>>

\* GetLines: if d.lines == nil
TestLines(s) ==
  /\ At(s, "test")
  /\ Goto(s, IF doc[thread[s].doc].lines = None THEN "split" ELSE "load")
  /\ UNCHANGED <<scanVars, editor, documents, doc, notices, shown, edits, spawned,
                 stale, latest>>

\* strings.Split(d.Content, "\n")
SplitLines(s) ==
  /\ At(s, "split")
  /\ thread' = [thread EXCEPT ![s].pc = "store",
                              ![s].local = doc[thread[s].doc].content]
  /\ UNCHANGED <<scanVars, editor, documents, doc, notices, shown, edits, spawned,
                 stale, latest>>

\* d.lines = ...
StoreLines(s) ==
  /\ At(s, "store")
  /\ LET d == thread[s].doc IN
       /\ doc' = [doc EXCEPT ![d].lines = thread[s].local]
       /\ stale' = IF thread[s].local = doc[d].content THEN stale ELSE stale \cup {d}
  /\ thread' = [thread EXCEPT ![s].pc = "load", ![s].local = None]
  /\ UNCHANGED <<scanVars, editor, documents, notices, shown, edits, spawned, latest>>

\* return d.lines; a nil slice has no lines to search.
LoadLines(s) ==
  /\ At(s, "load") /\ Goto(s, "scan")
  /\ LET lines == doc[thread[s].doc].lines
     IN  ScanStart(s, IF lines = None THEN <<>> ELSE lines)
  /\ UNCHANGED <<editor, documents, doc, notices, shown, edits, spawned, stale, latest>>

Scan(s) ==
  /\ ScanLine(s)
  /\ UNCHANGED <<editor, documents, doc, thread, notices, shown, edits, spawned, stale,
                 latest>>

\* The search is over: a refresh starts the goroutine that sends its result.
Finish(s) ==
  /\ At(s, "scan") /\ ScanEnd(s)
  /\ notices' = IF s = "main" THEN notices
                ELSE notices \cup {[path |-> doc[thread[s].doc].path, no |-> thread[s].no,
                                    lines |-> scan[s].lines, found |-> scan[s].found]}
  /\ thread' = [thread EXCEPT ![s] = Free]
  /\ UNCHANGED <<editor, documents, doc, shown, edits, spawned, stale, latest>>

\* go notify: the editor receives the diagnostics, in any order.
Notify(n) ==
  /\ ~panicked /\ n \in notices
  /\ notices' = notices \ {n}
  /\ shown' = [shown EXCEPT ![n.path] = [no |-> n.no, lines |-> n.lines]]
  /\ latest' = [latest EXCEPT ![n.path] = IF n.no > @ THEN n.no ELSE @]
  /\ UNCHANGED <<scanVars, editor, documents, doc, thread, edits, spawned, stale>>

Editor == \E p \in Path :
            \/ \E t \in Text : DidOpen(p, t) \/ DidOpenOther(p, t) \/ DidChange(p, t)
            \/ DidClose(p)
            \/ Request(p)

Thread(s) == TestLines(s) \/ SplitLines(s) \/ StoreLines(s) \/ LoadLines(s)
             \/ Scan(s) \/ Finish(s)

Next ==
  \/ Editor
  \/ Applied
  \/ \E g \in Goroutine : Wake(g)
  \/ \E s \in Scanner : Thread(s)
  \/ \E n \in notices : Notify(n)

Spec == Init /\ [][Next]_vars

-----------------------------------------------------------------------------
Quiet ==
  /\ ~panicked /\ notices = {}
  /\ \A s \in Scanner : thread[s].pc = "free"

\* Once every refresh is over, the diagnostics shown for an open document were
\* computed from its current content: no change is lost between the test of
\* NeedsRefreshDiagnostics and its reset.  The two exceptions are races that
\* the code leaves open: the cached lines come from a replaced content
\* (GetLines against ApplyChanges), or the diagnostics of an earlier refresh
\* were sent after those of a later one (go notify).
DiagnosticsCurrent ==
  Quiet => \A p \in InNotebook :
    editor[p] # None /\ documents[p] # 0 =>
      \/ documents[p] \in stale
      \/ shown[p].no < latest[p]
      \/ shown[p].lines = doc[documents[p]].content

\* NeedsRefreshDiagnostics says that a refresh of the document has not started
\* its search yet, and there is never more than one: the flag debounces the
\* changes without getting stuck.
SingleRefresh ==
  \A d \in Object :
    LET sleeping == {g \in Goroutine : thread[g].pc = "sleep" /\ thread[g].doc = d}
    IN  IF doc[d].needsRefresh THEN \E g \in Goroutine : sleeping = {g} ELSE sleeping = {}

\* As long as no two searches overlap, a search finds the links of its lines
\* whatever earlier searches left in the variables of the package, and it
\* never indexes out of range.
ScanExact ==
  overlapped \/ (~panicked /\ \A n \in notices : n.found = LinksOf(n.lines))
=============================================================================
