----------------------------- MODULE Interaction -----------------------------
(***************************************************************************)
(* One command at work: the notes found are filtered with fzf, then shown  *)
(* in a pager or opened in the editor.                                     *)
(*                                                                         *)
(* The command (main) runs beside a goroutine and a process for fzf, and a *)
(* goroutine and a process for the pager.  Each process is fed by a pipe   *)
(* of PipeSize lines.  The goroutine waits for its process and then        *)
(* signals main by closing the channel done.                               *)
(*                                                                         *)
(* The content of the lines is left out: the k-th line is the k-th note.   *)
(***************************************************************************)
EXTENDS Naturals, FiniteSets, Sequences, Functions

CONSTANTS
    PipeSize,  \* lines a pipe holds before a write blocks
    Many       \* notes the editor opens without asking (5 in the code)

VARIABLES
    job,       \* what the command is asked and what it will meet
    pc,        \* next step of main
    k,         \* the line main is about to write
    notes,     \* the notes main works on
    fzf,       \* fzf and its goroutine
    pager,     \* the pager and its goroutine
    opened,    \* the notes given to the editor
    status     \* exit status of zk, or "none"

ivars == <<job, pc, k, notes, fzf, pager, opened, status>>

\* A child process fed by a pipe.  proc: "off", "starting", "running", "ended";
\* lines: lines in the pipe; read: lines the process took; open: zk holds the
\* write end; done: the channel is closed; routine: "off", "waiting", "ended".
NoChild == [proc |-> "off", lines |-> <<>>, read |-> <<>>, open |-> FALSE, done |-> FALSE,
            routine |-> "off", exit |-> "none", out |-> <<>>, selection |-> <<>>, err |-> "none"]
Launched == [NoChild EXCEPT !.proc = "starting", !.open = TRUE, !.routine = "waiting"]

\* The process starts, or cannot be started.
Started(c) == {[c EXCEPT !.proc = "running"],
               [c EXCEPT !.proc = "ended", !.exit = "error"]}
CanRead(c) == c.proc = "running" /\ c.lines # <<>>
Read(c) == [c EXCEPT !.lines = Tail(@), !.read = Append(@, Head(c.lines))]
EndOfInput(c) == c.proc = "running" /\ c.lines = <<>> /\ ~c.open
CloseWrite(c) == [c EXCEPT !.open = FALSE]

\* A write blocks while the pipe is full and someone may still read it.
\* Writing to a closed pipe fails and main goes on.
Blocked(c, readable) == c.open /\ readable /\ Len(c.lines) >= PipeSize
Written(c, readable, line) == IF c.open /\ readable THEN [c EXCEPT !.lines = Append(@, line)] ELSE c

Exit(code) == pc' = "exit" /\ status' = code

-----------------------------------------------------------------------------
(* fzf.                                                                    *)

\* NoteFilter.Apply: fzf is bypassed without --interactive or a terminal, and
\* for no note unless the command always filters.
Bypass == ~job.interactive \/ ~job.tty \/ (job.cmd # "edit" /\ notes = <<>>)

\* What the command does with the notes it has selected.
AfterFilter(selected) == CASE job.cmd = "graph" -> "graph"
                           [] job.cmd = "list" -> IF selected = <<>> THEN "finish" ELSE "page"
                           [] OTHER -> IF selected = <<>> THEN "finish" ELSE "confirm"

\* The notes found go through the filter.
Search(fails) == /\ IF fails THEN Exit(1) /\ UNCHANGED notes
                    ELSE /\ notes' = [n \in 1..job.found |-> n]
                         /\ pc' = "filter" /\ UNCHANGED status
                 /\ UNCHANGED <<job, k, fzf, pager, opened>>

\* List.Run: the options may contradict each other, the query fail.
ListNotes == pc = "find" /\ job.cmd = "list" /\ Search(job.failing \in {"options", "query"})

EditNotes == pc = "find" /\ job.cmd = "edit" /\ Search(job.failing = "query")

\* Graph.Run looks for the links between the notes before they are filtered.
GraphNotes == pc = "find" /\ job.cmd = "graph" /\ Search(job.failing \in {"query", "links"})

\* Apply starts fzf, or fails when the line template or fzf is missing.
Filter ==
    /\ pc = "filter"
    /\ k' = 1
    /\ CASE Bypass -> pc' = AfterFilter(notes) /\ UNCHANGED <<fzf, status>>
         [] ~Bypass /\ job.failing = "fzf" -> Exit(1) /\ UNCHANGED fzf
         [] OTHER -> fzf' = Launched /\ pc' = "add" /\ UNCHANGED status
    /\ UNCHANGED <<job, notes, pager, opened>>

FzfStart == /\ pc # "exit" /\ fzf.proc = "starting" /\ fzf' \in Started(fzf)
            /\ UNCHANGED <<job, pc, k, notes, pager, opened, status>>

FzfRead == /\ CanRead(fzf) /\ fzf' = Read(fzf)
           /\ UNCHANGED <<job, pc, k, notes, pager, opened, status>>

\* The user accepts some of the lines fzf has read, cancels, or finds none.
FzfExit == /\ fzf.proc = "running"
           /\ \/ \E lines \in SUBSET Range(fzf.read) :
                     /\ lines # {}
                     /\ fzf' = [fzf EXCEPT !.proc = "ended", !.exit = "ok",
                                           !.out = SelectSeq(fzf.read, LAMBDA n : n \in lines)]
              \/ \E code \in {"interrupted", "nomatch", "error"} :
                     fzf' = [fzf EXCEPT !.proc = "ended", !.exit = code]
           /\ UNCHANGED <<job, pc, k, notes, pager, opened, status>>

\* What the goroutine stores of the outcome of fzf.
Outcome(c) == [c EXCEPT !.selection = IF c.exit = "ok" THEN c.out ELSE <<>>,
                        !.err = CASE c.exit = "interrupted" -> "cancelled"
                                  [] c.exit = "error" -> "error"
                                  [] OTHER -> "none"]

\* Mutant of FzfRoutine: the channel is closed before the outcome is stored.
FzfRoutineEarly ==
    /\ pc # "exit" /\ fzf.proc = "ended" /\ fzf.routine = "waiting"
    /\ fzf' = IF fzf.done THEN CloseWrite([Outcome(fzf) EXCEPT !.routine = "ended"])
              ELSE [fzf EXCEPT !.done = TRUE]
    /\ UNCHANGED <<job, pc, k, notes, pager, opened, status>>

\* The goroutine of fzf.New: the process has ended, its outcome is stored, the
\* channel closed, and then the pipe.
FzfRoutine ==
    /\ pc # "exit" /\ fzf.proc = "ended" /\ fzf.routine = "waiting"
    /\ fzf' = IF fzf.done THEN CloseWrite([fzf EXCEPT !.routine = "ended"])
              ELSE [Outcome(fzf) EXCEPT !.done = TRUE]
    /\ UNCHANGED <<job, pc, k, notes, pager, opened, status>>

\* A line is rendered and sent to fzf.  The read end is the process's alone.  A
\* line that cannot be rendered ends the command, leaving fzf where it is.
FzfAdd ==
    /\ pc = "add" /\ k <= Len(notes)
    /\ IF job.failing = "line" /\ k = Len(notes) THEN Exit(1) /\ UNCHANGED <<k, fzf>>
       ELSE /\ ~Blocked(fzf, fzf.proc # "ended")
            /\ fzf' = Written(fzf, fzf.proc # "ended", notes[k])
            /\ k' = k + 1 /\ UNCHANGED <<pc, status>>
    /\ UNCHANGED <<job, notes, pager, opened>>

\* Selection closes the pipe, then waits for the goroutine.
FzfClose == /\ pc = "add" /\ k > Len(notes)
            /\ fzf' = CloseWrite(fzf) /\ pc' = "selection"
            /\ UNCHANGED <<job, k, notes, pager, opened, status>>

FzfSelection ==
    /\ pc = "selection" /\ fzf.done
    /\ k' = 1
    /\ IF fzf.err # "none" THEN Exit(IF fzf.err = "cancelled" THEN 0 ELSE 1) /\ UNCHANGED notes
       ELSE /\ notes' = fzf.selection
            /\ pc' = AfterFilter(fzf.selection) /\ UNCHANGED status
    /\ UNCHANGED <<job, fzf, pager, opened>>

-----------------------------------------------------------------------------
(* The pager.                                                              *)

\* TagList.Run: the tags to list, without any filter.
FindTags == /\ pc = "tags"
            /\ IF job.failing \in {"options", "query"} THEN Exit(1) /\ UNCHANGED notes
               ELSE /\ notes' = [n \in 1..job.found |-> n]
                    /\ pc' = (IF job.found = 0 THEN "finish" ELSE "page") /\ UNCHANGED status
            /\ UNCHANGED <<job, k, fzf, pager, opened>>

\* Container.Paginate: without a terminal or a pager the lines go to stdout;
\* without a pipe for the pager the command fails.
Paginate ==
    /\ pc = "page"
    /\ k' = 1
    /\ CASE job.tty /\ job.pager /\ job.failing = "pipe" -> Exit(1) /\ UNCHANGED pager
         [] job.tty /\ job.pager /\ job.failing # "pipe" -> pager' = Launched /\ pc' = "write" /\ UNCHANGED status
         [] OTHER -> /\ IF job.failing = "format" THEN Exit(1) ELSE pc' = "finish" /\ UNCHANGED status
                     /\ UNCHANGED pager
    /\ UNCHANGED <<job, notes, fzf, opened>>

PagerStart == /\ pc # "exit" /\ pager.proc = "starting" /\ pager' \in Started(pager)
              /\ UNCHANGED <<job, pc, k, notes, fzf, opened, status>>

PagerRead == /\ CanRead(pager) /\ pager' = Read(pager)
             /\ UNCHANGED <<job, pc, k, notes, fzf, opened, status>>

\* The pager ends, before or after the end of its input.
PagerExit == /\ pager.proc = "running"
             /\ \E code \in {"ok", "error"} : pager' = [pager EXCEPT !.proc = "ended", !.exit = code]
             /\ UNCHANGED <<job, pc, k, notes, fzf, opened, status>>

\* Mutant of PagerRoutine: the pipe is left to main.
PagerRoutineNoClose ==
    /\ pc # "exit" /\ pager.proc = "ended" /\ pager.routine = "waiting"
    /\ IF pager.exit = "error" THEN Exit(1) /\ UNCHANGED pager
       ELSE pager' = [pager EXCEPT !.done = TRUE, !.routine = "ended"] /\ UNCHANGED <<pc, status>>
    /\ UNCHANGED <<job, k, notes, fzf, opened>>

\* Mutant of PagerRoutine: the channel is closed before the error is looked at.
PagerRoutineDoneFirst ==
    /\ pc # "exit" /\ pager.proc = "ended" /\ pager.routine = "waiting"
    /\ CASE ~pager.done -> pager' = [pager EXCEPT !.done = TRUE] /\ UNCHANGED <<pc, status>>
         [] pager.done /\ pager.exit = "error" -> Exit(1) /\ UNCHANGED pager
         [] OTHER -> pager' = CloseWrite([pager EXCEPT !.routine = "ended"]) /\ UNCHANGED <<pc, status>>
    /\ UNCHANGED <<job, k, notes, fzf, opened>>

\* The goroutine of pager.New: a pager that fails ends zk; otherwise the channel
\* is closed, then the pipe, whose read end zk holds too.
PagerRoutine ==
    /\ pc # "exit" /\ pager.proc = "ended" /\ pager.routine = "waiting"
    /\ CASE pager.exit = "error" -> Exit(1) /\ UNCHANGED pager
         [] pager.exit # "error" /\ ~pager.done -> pager' = [pager EXCEPT !.done = TRUE] /\ UNCHANGED <<pc, status>>
         [] OTHER -> pager' = CloseWrite([pager EXCEPT !.routine = "ended"]) /\ UNCHANGED <<pc, status>>
    /\ UNCHANGED <<job, k, notes, fzf, opened>>

\* A line is formatted and written.  A line that cannot be formatted stops the
\* writing.
PageWrite ==
    /\ pc = "write" /\ k <= Len(notes)
    /\ IF job.failing = "format" /\ k = Len(notes) THEN pc' = "close" /\ UNCHANGED <<k, pager>>
       ELSE /\ ~Blocked(pager, TRUE)
            /\ pager' = Written(pager, TRUE, notes[k])
            /\ k' = k + 1 /\ UNCHANGED pc
    /\ UNCHANGED <<job, notes, fzf, opened, status>>

\* Pager.Close closes the pipe, then waits for the goroutine.
PageClose == /\ pc = "close" \/ (pc = "write" /\ k > Len(notes))
             /\ pager' = CloseWrite(pager) /\ pc' = "paged"
             /\ UNCHANGED <<job, k, notes, fzf, opened, status>>

PageDone == /\ pc = "paged" /\ pager.done
            /\ IF job.failing = "format" THEN Exit(1) ELSE pc' = "finish" /\ UNCHANGED status
            /\ UNCHANGED <<job, k, notes, fzf, pager, opened>>

-----------------------------------------------------------------------------
(* The editor, graphs and the rest.                                        *)

\* cmd.New: the note was created, exists already, or could not be created.  A
\* dry run only prints it.
New == /\ pc = "new"
       /\ IF job.failing = "new" THEN Exit(1) /\ UNCHANGED notes
          ELSE /\ notes' = <<1>>
               /\ CASE job.dryRun -> Exit(IF job.exists THEN 1 ELSE 0)
                    [] ~job.dryRun /\ job.exists -> pc' = "confirm" /\ UNCHANGED status
                    [] OTHER -> pc' = "edit" /\ UNCHANGED status
       /\ UNCHANGED <<job, k, fzf, pager, opened>>

\* Terminal.Confirm: confirmed and skipped.  The user answers, or --force-input
\* does without a terminal; otherwise it is the default, which the user may also
\* take, but which counts as skipped when nobody was asked.
Answer(default) == CASE job.answer = "y" -> <<TRUE, FALSE>>
                     [] job.answer = "n" -> <<FALSE, FALSE>>
                     [] OTHER -> <<default, ~job.tty>>

\* Edit asks before opening many notes, and gives up when it cannot ask.
EditConfirm ==
    /\ pc = "confirm" /\ job.cmd = "edit"
    /\ IF job.force \/ Len(notes) <= Many \/ Answer(FALSE)[1] THEN pc' = "edit" /\ UNCHANGED status
       ELSE Exit(IF Answer(FALSE)[2] THEN 1 ELSE 0)
    /\ UNCHANGED <<job, k, notes, fzf, pager, opened>>

\* New asks before editing a note that exists already.
NewConfirm ==
    /\ pc = "confirm" /\ job.cmd = "new"
    /\ IF Answer(TRUE)[1] THEN pc' = "edit" /\ UNCHANGED status ELSE Exit(0)
    /\ UNCHANGED <<job, k, notes, fzf, pager, opened>>

\* The path is printed, or the editor is looked for and started.
Edit == /\ pc = "edit"
        /\ CASE job.printPath -> Exit(0) /\ UNCHANGED opened
             [] ~job.printPath /\ job.failing = "editor" -> Exit(1) /\ UNCHANGED opened
             [] OTHER -> opened' = notes /\ pc' = "editing" /\ UNCHANGED status
        /\ UNCHANGED <<job, k, notes, fzf, pager>>

EditorExit == /\ pc = "editing"
              /\ \E code \in {0, 1} : Exit(code)
              /\ UNCHANGED <<job, k, notes, fzf, pager, opened>>

\* The notes of a graph are printed without a pager.
PrintGraph == /\ pc = "graph"
              /\ Exit(IF job.failing = "format" /\ notes # <<>> THEN 1 ELSE 0)
              /\ UNCHANGED <<job, k, notes, fzf, pager, opened>>

Finish == /\ pc = "finish" /\ Exit(0)
          /\ UNCHANGED <<job, k, notes, fzf, pager, opened>>

\* Index.Run, Init.Run and ShowHelp.Run: indexing, creating the notebook or
\* printing may fail.
RunOther == /\ pc = "other"
            /\ Exit(IF job.failing = "command" THEN 1 ELSE 0)
            /\ UNCHANGED <<job, k, notes, fzf, pager, opened>>

\* The first step of each command.
Entry(cmd) == CASE cmd \in {"list", "edit", "graph"} -> "find"
                [] cmd = "tag" -> "tags"
                [] cmd = "new" -> "new"
                [] OTHER -> "other"

Idle == /\ pc = "idle" /\ k = 1 /\ notes = <<>> /\ fzf = NoChild /\ pager = NoChild
        /\ opened = <<>> /\ status = "none"

\* The steps of zk, of the child processes on their own, and of the user.
MainStep == \/ ListNotes \/ EditNotes \/ GraphNotes \/ Filter \/ FzfAdd \/ FzfClose \/ FzfSelection
            \/ FindTags \/ Paginate \/ PageWrite \/ PageClose \/ PageDone
            \/ New \/ EditConfirm \/ NewConfirm \/ Edit \/ EditorExit \/ PrintGraph \/ Finish
            \/ RunOther
RoutineStep == FzfStart \/ FzfRoutine \/ PagerStart \/ PagerRoutine
ChildStep == FzfRead \/ PagerRead \/ FzfExit \/ PagerExit

Work == MainStep \/ RoutineStep \/ ChildStep

\* Main, the goroutines and the children's reading go on; a child is only sure
\* to end once it has read everything and its input is closed.
WorkFairness == /\ WF_ivars(MainStep)
                /\ WF_ivars(FzfStart) /\ WF_ivars(FzfRoutine)
                /\ WF_ivars(PagerStart) /\ WF_ivars(PagerRoutine)
                /\ WF_ivars(FzfRead) /\ WF_ivars(PagerRead)
                /\ WF_ivars(FzfExit /\ EndOfInput(fzf)) /\ WF_ivars(PagerExit /\ EndOfInput(pager))
=============================================================================
