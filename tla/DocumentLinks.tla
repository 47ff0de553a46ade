--------------------------- MODULE DocumentLinks ----------------------------
(***************************************************************************)
(* The search for links in an open document (document.DocumentLinks and    *)
(* isLineWithinCodeBlock, internal/adapter/lsp/document.go).  The search   *)
(* goes through the document line by line and passes over code; what it    *)
(* knows about the enclosing code is kept in variables of the package,     *)
(* which all searches share.                                               *)
(*                                                                         *)
(* A line is one of the kinds that the regular expressions tell apart: the *)
(* two kinds of fences, an indented line, an empty one, a line with a      *)
(* link, and a text with one backtick, which opens or closes inline code.  *)
(***************************************************************************)
EXTENDS Naturals, Sequences

CONSTANTS
  Scanner,   \* threads that search
  Idle       \* no search

Fence == {"backticks", "tildes"}
LineKind == Fence \cup {"indented", "blank", "link", "tick"}

VARIABLES
  code,       \* the variables of the package: insideInline, insideFenced,
              \* insideIndented and currentCodeBlockStart (0 for -1)
  scan,       \* the search of each thread: its lines, the index of the next
              \* line and the lines found to hold a link, or Idle
  panicked,   \* a slice or index was out of range: the server is gone
  overlapped  \* history: two searches have been under way at the same time

scanVars == <<code, scan, panicked, overlapped>>

NoCode == [inline |-> FALSE, fenced |-> FALSE, indented |-> FALSE, start |-> 0]

\* Mutant of Reset: insideInline is not among the variables that are reset.
ResetKeepsInline(c, i) == IF i = 1 THEN [NoCode EXCEPT !.inline = c.inline] ELSE c

\* if lineIndex == 0, the state of previous runs is reset.
Reset(c, i) == IF i = 1 THEN NoCode ELSE c

\* The line opens a code block.
Opens(lines, i) ==
  \/ lines[i] \in Fence
  \/ lines[i] = "indented" /\ (i = 1 \/ lines[i - 1] = "blank")

\* Results of isLineWithinCodeBlock for a state c that Reset has returned.
IsWithin(c, lines, i) ==
  \/ c.fenced
  \/ ~c.fenced /\ c.indented /\ lines[i] \in {"indented", "blank"}
  \/ ~c.fenced /\ ~c.indented /\ Opens(lines, i)

\* The code block ends.
Close(c) == [c EXCEPT !.fenced = FALSE, !.indented = FALSE, !.start = 0]

Update(c, lines, i) ==
  CASE c.fenced ->
         IF lines[i] \in Fence /\ lines[c.start] = lines[i] THEN Close(c) ELSE c
    [] ~c.fenced /\ c.indented ->
         IF lines[i] \in {"indented", "blank"} THEN c ELSE Close(c)
    [] ~c.fenced /\ ~c.indented /\ Opens(lines, i) ->
         [c EXCEPT !.fenced = lines[i] \in Fence, !.indented = lines[i] \notin Fence,
                   !.start = i]
    [] OTHER -> c

\* lines[currentCodeBlockStart][:3] is out of range.
Panics(c, lines, i) ==
  /\ c.fenced /\ lines[i] \in Fence
  /\ c.start \in DOMAIN lines => lines[c.start] = "blank"

\* A line outside of code blocks with an odd number of backticks; a fence is
\* outside of code when it ends an indented block.
Toggles(c, lines, i) == lines[i] \in {"tick", "backticks"} /\ ~IsWithin(c, lines, i)

\* The state after the line has been searched.
AfterLine(c, lines, i) ==
  [Update(c, lines, i) EXCEPT !.inline = IF Toggles(c, lines, i) THEN ~@ ELSE @]

HasLink(c, lines, i) == lines[i] = "link" /\ ~IsWithin(c, lines, i) /\ ~c.inline

Scanning(s) == scan[s] # Idle
ScanDone(s) == Scanning(s) /\ scan[s].index > Len(scan[s].lines)

ScanStart(s, lines) ==
  /\ scan' = [scan EXCEPT ![s] = [lines |-> lines, index |-> 1, found |-> {}]]
  /\ overlapped' = (overlapped \/ \E t \in Scanner \ {s} : Scanning(t))
  /\ UNCHANGED <<code, panicked>>

\* One iteration of the loop of DocumentLinks.
ScanLine(s) ==
  /\ ~panicked /\ Scanning(s) /\ ~ScanDone(s)
  /\ LET lines == scan[s].lines
         i == scan[s].index
         c == Reset(code, i)
     IN  \/ /\ Panics(c, lines, i)
            /\ panicked' = TRUE
            /\ UNCHANGED <<code, scan>>
         \/ /\ ~Panics(c, lines, i)
            /\ code' = AfterLine(c, lines, i)
            /\ scan' = [scan EXCEPT
                 ![s].index = i + 1,
                 ![s].found = IF HasLink(c, lines, i) THEN @ \cup {i} ELSE @]
            /\ UNCHANGED panicked
  /\ UNCHANGED overlapped

\* The state after each line of a search that is alone.
CodeAfter(lines) ==
  LET c[i \in 0..Len(lines)] ==
        IF i = 0 THEN NoCode ELSE AfterLine(c[i - 1], lines, i)
  IN  c

\* What such a search finds.
LinksOf(lines) == {i \in DOMAIN lines : HasLink(CodeAfter(lines)[i - 1], lines, i)}

ScanEnd(s) ==
  /\ ScanDone(s)
  /\ scan' = [scan EXCEPT ![s] = Idle]
  /\ UNCHANGED <<code, panicked, overlapped>>

ScanInit ==
  /\ code = NoCode
  /\ scan = [s \in Scanner |-> Idle]
  /\ panicked = FALSE /\ overlapped = FALSE
=============================================================================
