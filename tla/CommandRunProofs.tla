-------------------------- MODULE CommandRunProofs --------------------------
(***************************************************************************)
(* What a run of zk shows, opens and returns is what the user chose and    *)
(* what happened, for all command lines, aliases and jobs, and for pipes   *)
(* of any size.                                                            *)
(***************************************************************************)
EXTENDS CommandRun, TLAPS, WellFoundedInduction

\* The prover of the steps that do not name one.
USE ZenonT(30)

\* A child process is a record; nothing is said of the lines it carries.
Fields == {"proc", "lines", "read", "open", "done", "routine", "exit", "out", "selection", "err"}
IsChild(c) ==
  /\ c = [f \in Fields |-> c[f]]
  /\ c.proc \in {"off", "starting", "running", "ended"}
  /\ c.exit \in {"none", "ok", "interrupted", "nomatch", "error"}
  /\ c.proc # "ended" => c.exit = "none" /\ c.done = FALSE
  /\ c.proc = "ended" => c.exit # "none"
  /\ c.done \in BOOLEAN

\* What the goroutine of fzf stores is the outcome of fzf, and main is past the
\* filter only when fzf has ended with a selection.
FzfInv ==
  /\ fzf.exit # "ok" => fzf.out = <<>>
  /\ fzf.done => /\ fzf.selection = fzf.out
                 /\ fzf.err = CASE fzf.exit = "interrupted" -> "cancelled"
                                [] fzf.exit = "error" -> "error"
                                [] OTHER -> "none"
  /\ fzf.proc # "off" => pc \in {"add", "selection", "exit"} \cup Selected
  /\ fzf.proc # "off" /\ pc \in {"add", "selection"} => pager.proc = "off"
  /\ fzf.proc \in {"starting", "running"} /\ pc = "exit" =>
       status = 1 /\ opened = <<>> /\ pager.proc = "off" /\ job.failing = "line"

\* main is past the pager only when its goroutine has seen it end well.
PagerInv ==
  /\ pager.done => pager.exit # "error"
  /\ pager.proc # "off" => pc \in {"write", "close", "paged", "finish", "exit"}
  /\ pager.proc # "off" /\ pc = "finish" => pager.done
  /\ pc = "exit" => pager.proc \in {"off", "ended"} /\ (pager.exit = "error" => status = 1)

\* The notes on their way to the editor are few, or the user wants them.
ConsentInv ==
  /\ opened # <<>> => pc \in {"editing", "exit"}
  /\ pc = "new" => job.cmd = "new"
  /\ pc = "edit" /\ job.cmd = "edit" => Len(notes) <= Many \/ job.force \/ job.answer = "y"

\* Only the last process of the stack is at work, on the command that pc is in.
Attributes == {"pc", "wd", "args", "envDir", "envAlias", "notebook", "workingDir", "alias", "status"}
IsProcess(p) == p = [f \in Attributes |-> p[f]]
IsStack(s) ==
  /\ Len(s) \in Nat /\ Len(s) > 0 /\ s = [i \in 1 .. Len(s) |-> s[i]]
  /\ \A i \in 1 .. Len(s) : IsProcess(s[i]) /\ (i < Len(s) => s[i].pc = "waiting")
StackInv ==
  /\ IsStack(stack)
  /\ pc = "idle" => Top.pc # "working"
  /\ pc \notin {"idle", "exit"} => Top.pc = "working"
  /\ pc = "exit" => Top.pc = "working" \/ (Top.pc = "exit" /\ Top.status = status)

\* The command at work, and the whole.
WInv ==
  /\ IsChild(fzf) /\ IsChild(pager)
  /\ FzfInv /\ PagerInv /\ ConsentInv
  /\ SelectionKept

IInv == WInv /\ StackInv

-----------------------------------------------------------------------------
(* The child processes.                                                    *)

\* The two differ only in what goes through the pipe and in the goroutine.
SameOutcome(c, d) ==
  /\ IsChild(d)
  /\ d.proc = c.proc /\ d.exit = c.exit /\ d.done = c.done
  /\ d.out = c.out /\ d.selection = c.selection /\ d.err = c.err

\* No process, and one that has just been launched, have no outcome.
LEMMA FreshChild ==
  /\ IsChild(NoChild) /\ NoChild.proc = "off" /\ NoChild.exit = "none" /\ ~NoChild.done
  /\ NoChild.out = <<>> /\ NoChild.selection = <<>> /\ NoChild.err = "none"
  /\ IsChild(Launched) /\ Launched.proc = "starting" /\ Launched.exit = "none" /\ ~Launched.done
  /\ Launched.out = <<>> /\ Launched.selection = <<>> /\ Launched.err = "none"
  BY DEF IsChild, Fields, NoChild, Launched

\* Reading, writing and closing the pipe leave the outcome alone.
LEMMA PipeSteps ==
  ASSUME NEW c, IsChild(c)
  PROVE  /\ SameOutcome(c, c)
         /\ SameOutcome(c, Read(c))
         /\ SameOutcome(c, CloseWrite(c))
         /\ \A readable, line : SameOutcome(c, Written(c, readable, line))
         /\ SameOutcome(c, CloseWrite([c EXCEPT !.routine = "ended"]))
<1> USE DEF IsChild, Fields, SameOutcome
<1>1. SameOutcome(c, Read(c))
  <2> DEFINE tail == Tail(c.lines)  more == Append(c.read, Head(c.lines))
  <2>1. Read(c) = [c EXCEPT !.lines = tail, !.read = more]  BY DEF Read
  <2> HIDE DEF tail, more
  <2> QED  BY <2>1, ZenonT(30)
<1>2. SameOutcome(c, CloseWrite(c))  BY ZenonT(30) DEF CloseWrite
<1>3. ASSUME NEW readable, NEW line PROVE SameOutcome(c, Written(c, readable, line))
  <2> DEFINE more == Append(c.lines, line)
  <2>1. Written(c, readable, line) \in {c, [c EXCEPT !.lines = more]}  BY DEF Written
  <2> HIDE DEF more
  <2> QED  BY <2>1
<1>4. SameOutcome(c, CloseWrite([c EXCEPT !.routine = "ended"]))  BY DEF CloseWrite
<1> QED  BY <1>1, <1>2, <1>3, <1>4, ZenonT(30)

\* A process that is started runs, or has failed.
LEMMA StartedChild ==
  ASSUME NEW c, IsChild(c), c.proc = "starting", NEW d \in Started(c)
  PROVE  /\ IsChild(d) /\ d.done = FALSE /\ d.out = c.out
         /\ d.proc = "running" \/ (d.proc = "ended" /\ d.exit = "error")
  BY DEF IsChild, Fields, Started

\* fzf ends with a selection, or without.
LEMMA FzfEnds ==
  ASSUME IsChild(fzf), fzf.out = <<>>, FzfExit
  PROVE  /\ IsChild(fzf') /\ fzf'.proc = "ended" /\ fzf'.done = FALSE
         /\ fzf'.exit # "ok" => fzf'.out = <<>>
<1>1. fzf.proc = "running" /\ fzf.exit = "none"  BY DEF FzfExit, IsChild
<1>2. ASSUME NEW lines, fzf' = [fzf EXCEPT !.proc = "ended", !.exit = "ok", !.out = lines]
      PROVE  IsChild(fzf') /\ fzf'.proc = "ended" /\ fzf'.done = FALSE /\ fzf'.exit = "ok"
  BY <1>1, <1>2, ZenonT(30) DEF IsChild, Fields
<1>3. ASSUME NEW code \in {"interrupted", "nomatch", "error"}, fzf' = [fzf EXCEPT !.proc = "ended", !.exit = code]
      PROVE  IsChild(fzf') /\ fzf'.proc = "ended" /\ fzf'.done = FALSE /\ fzf'.out = <<>>
  BY <1>1, <1>3, ZenonT(30) DEF IsChild, Fields
<1> QED  BY <1>2, <1>3, ZenonT(30) DEF FzfExit

-----------------------------------------------------------------------------
(* The command at work.                                                    *)

\* The steps of main keep the invariant.
LEMMA MainKeeps == WInv /\ MainStep => WInv'
<1> SUFFICES ASSUME WInv, MainStep PROVE WInv'
  OBVIOUS
<1> USE DEF WInv, FzfInv, PagerInv, ConsentInv, SelectionKept, Selected, Exit
<1>1. CASE ListNotes  BY <1>1 DEF ListNotes, Search
<1>2. CASE EditNotes  BY <1>2 DEF EditNotes, Search
<1>3. CASE GraphNotes  BY <1>3 DEF GraphNotes, Search
<1>4. CASE Filter
  <2>1. fzf.proc = "off" /\ pager.proc = "off"  BY <1>4 DEF Filter
  <2>2. fzf.exit = "none" /\ pager.exit = "none"  BY <2>1 DEF IsChild
  <2>3. CASE Bypass  BY <1>4, <2>1, <2>2, <2>3 DEF Filter, AfterFilter
  <2>4. CASE ~Bypass  BY <1>4, <2>1, <2>2, <2>4, FreshChild DEF Filter
  <2> QED  BY <2>3, <2>4
<1>5. CASE FzfAdd
  <2>1. SameOutcome(fzf, fzf')  BY <1>5, PipeSteps, ZenonT(30) DEF FzfAdd
  <2> QED  BY <1>5, <2>1 DEF FzfAdd, SameOutcome
<1>6. CASE FzfClose
  <2>1. SameOutcome(fzf, fzf')  BY <1>6, PipeSteps, ZenonT(30) DEF FzfClose
  <2> QED  BY <1>6, <2>1 DEF FzfClose, SameOutcome
<1>7. CASE FzfSelection  BY <1>7 DEF FzfSelection, AfterFilter, IsChild
<1>8. CASE Paginate  BY <1>8, FreshChild DEF Paginate
<1>9. CASE PageWrite
  <2>1. SameOutcome(pager, pager')  BY <1>9, PipeSteps, ZenonT(30) DEF PageWrite
  <2> QED  BY <1>9, <2>1, ZenonT(30) DEF PageWrite, SameOutcome
<1>10. CASE PageClose
  <2>1. SameOutcome(pager, pager')  BY <1>10, PipeSteps, ZenonT(30) DEF PageClose
  <2> QED  BY <1>10, <2>1 DEF PageClose, SameOutcome
<1>11. CASE FindTags  BY <1>11 DEF FindTags
<1>12. CASE PageDone  BY <1>12 DEF PageDone, IsChild
<1>13. CASE New  BY <1>13 DEF New, IsChild
<1>14. CASE EditConfirm  BY <1>14 DEF EditConfirm, Answer, IsChild
<1>15. CASE NewConfirm  BY <1>15 DEF NewConfirm, Answer, IsChild
<1>16. CASE Edit  BY <1>16 DEF Edit, IsChild
<1>17. CASE EditorExit  BY <1>17 DEF EditorExit, IsChild
<1>18. CASE PrintGraph  BY <1>18 DEF PrintGraph, IsChild
<1>19. CASE Finish  BY <1>19, SMT DEF Finish, IsChild
<1>20. CASE RunOther  BY <1>20, SMT DEF RunOther, IsChild
<1> QED
  BY <1>1, <1>2, <1>3, <1>4, <1>5, <1>6, <1>7, <1>8, <1>9, <1>10, <1>11, <1>12,
     <1>13, <1>14, <1>15, <1>16, <1>17, <1>18, <1>19, <1>20, ZenonT(30) DEF MainStep

\* So do the steps of the goroutines and of the processes.
LEMMA ChildrenKeep == WInv /\ (RoutineStep \/ ChildStep) => WInv'
<1> SUFFICES ASSUME WInv, RoutineStep \/ ChildStep PROVE WInv'
  OBVIOUS
<1> USE DEF WInv, FzfInv, PagerInv, ConsentInv, SelectionKept, Selected
<1>1. CASE FzfStart  BY <1>1, StartedChild, ZenonT(30) DEF FzfStart, IsChild
<1>2. CASE FzfRead
  <2>1. SameOutcome(fzf, fzf')  BY <1>2, PipeSteps, ZenonT(30) DEF FzfRead
  <2> QED  BY <1>2, <2>1, SMT DEF FzfRead, SameOutcome
<1>3. CASE FzfExit
  <2>1. /\ IsChild(fzf') /\ fzf'.proc = "ended" /\ fzf'.done = FALSE
        /\ fzf'.exit # "ok" => fzf'.out = <<>>
    <3>1. fzf.out = <<>>  BY <1>3 DEF FzfExit, IsChild
    <3> QED  BY <1>3, <3>1, FzfEnds
  <2>2. fzf.proc = "running"  BY <1>3 DEF FzfExit
  <2> QED  BY <1>3, <2>1, <2>2, ZenonT(30) DEF FzfExit
<1>4. CASE FzfRoutine
  <2>1. /\ IsChild(fzf) /\ pc # "exit" /\ fzf.proc = "ended"
        /\ UNCHANGED <<job, pc, k, notes, pager, opened, status>>
    BY <1>4 DEF FzfRoutine
  <2>2. CASE fzf.done
    <3>1. SameOutcome(fzf, fzf')  BY ZenonT(30), <1>4, <2>2, PipeSteps DEF FzfRoutine
    <3> QED  BY <2>1, <3>1, SMT DEF SameOutcome
  <2>3. CASE ~fzf.done
    <3>1. fzf' = [Outcome(fzf) EXCEPT !.done = TRUE]  BY <1>4, <2>3 DEF FzfRoutine
    <3>2. /\ IsChild(fzf') /\ fzf'.proc = "ended" /\ fzf'.exit = fzf.exit /\ fzf'.out = fzf.out
          /\ fzf'.selection = IF fzf.exit = "ok" THEN fzf.out ELSE <<>>
          /\ fzf'.err = CASE fzf.exit = "interrupted" -> "cancelled"
                          [] fzf.exit = "error" -> "error"
                          [] OTHER -> "none"
      BY <2>1, <3>1 DEF Outcome, IsChild, Fields
    <3> QED  BY <2>1, <3>2, SMT
  <2> QED  BY <2>2, <2>3
<1>5. CASE PagerStart  BY <1>5, StartedChild, ZenonT(30) DEF PagerStart, IsChild
<1>6. CASE PagerRead
  <2>1. SameOutcome(pager, pager')  BY <1>6, PipeSteps, ZenonT(30) DEF PagerRead
  <2> QED  BY <1>6, <2>1, SMT DEF PagerRead, SameOutcome
<1>7. CASE PagerExit
  <2>1. IsChild(pager') /\ pager'.proc = "ended" /\ pager'.done = FALSE
    <3>1. ASSUME NEW code \in {"ok", "error"}, pager' = [pager EXCEPT !.proc = "ended", !.exit = code]
          PROVE  IsChild(pager') /\ pager'.proc = "ended" /\ pager'.done = FALSE
      BY <1>7, <3>1 DEF PagerExit, IsChild, Fields
    <3> QED  BY <1>7, <3>1 DEF PagerExit
  <2>2. pager.proc = "running" /\ ~pager.done  BY <1>7 DEF PagerExit, IsChild
  <2> QED  BY <1>7, <2>1, <2>2 DEF PagerExit
<1>8. CASE PagerRoutine
  <2>1. CASE pager.exit = "error"  BY <1>8, <2>1 DEF PagerRoutine, Exit, IsChild
  <2>2. CASE pager.exit # "error"
    <3>1. /\ IsChild(pager') /\ pager'.proc = "ended" /\ pager'.exit = pager.exit /\ pager'.done = TRUE
      BY <1>8, <2>2 DEF PagerRoutine, CloseWrite, IsChild, Fields
    <3> QED  BY <1>8, <2>2, <3>1 DEF PagerRoutine
  <2> QED  BY <2>1, <2>2
<1> QED
  BY <1>1, <1>2, <1>3, <1>4, <1>5, <1>6, <1>7, <1>8, ZenonT(30) DEF RoutineStep, ChildStep

\* A command that has ended stays so, and there is none before the first.
LEMMA WorkMoves ==
  ASSUME WInv, Work
  PROVE  /\ pc # "idle" /\ pc' # "idle"
         /\ pc = "exit" => pc' = "exit" /\ status' = status
<1>1. CASE MainStep
  BY <1>1 DEF MainStep, ListNotes, EditNotes, GraphNotes, Search, Filter, FzfAdd, FzfClose, FzfSelection,
       AfterFilter, FindTags, Paginate, PageWrite, PageClose, PageDone, New, EditConfirm, NewConfirm,
       Edit, EditorExit, PrintGraph, Finish, RunOther, Exit
<1>2. CASE RoutineStep
  BY <1>2 DEF RoutineStep, FzfStart, FzfRoutine, PagerStart, PagerRoutine, Exit, WInv, FzfInv, PagerInv, Selected
<1>3. CASE ChildStep
  BY <1>3 DEF ChildStep, FzfRead, PagerRead, FzfExit, PagerExit, CanRead, WInv, FzfInv, PagerInv, Selected
<1> QED  BY <1>1, <1>2, <1>3 DEF Work

-----------------------------------------------------------------------------
(* The stack of processes.                                                 *)

\* Replacing the last process.
LEMMA TopReplaced ==
  ASSUME IsStack(stack), NEW p, IsProcess(p)
  PROVE  /\ IsStack(SetTop(p)) /\ Len(SetTop(p)) = Len(stack) /\ SetTop(p)[Len(stack)] = p
         /\ Top = stack[Len(stack)] /\ IsProcess(Top)
<1>1. SetTop(p) = [i \in 1 .. Len(stack) |-> IF i = Len(stack) THEN p ELSE stack[i]]
  BY DEF SetTop, IsStack
<1>2. Len(SetTop(p)) = Len(stack)  BY <1>1, SMT DEF IsStack
<1> QED  BY <1>1, <1>2, SMT DEF IsStack, Top

\* A sequence is the function of its elements.
LEMMA ElementsOf ==
  ASSUME NEW S, NEW t \in Seq(S)
  PROVE  t = [i \in 1 .. Len(t) |-> t[i]]
  BY SMT

\* A process added by one that waits for it.
LEMMA ProcessAdded ==
  ASSUME NEW s, IsStack(s), s[Len(s)].pc = "waiting", NEW p, IsProcess(p)
  PROVE  /\ IsStack(Append(s, p)) /\ Append(s, p)[Len(Append(s, p))] = p
<1> DEFINE S == {s[i] : i \in 1 .. Len(s)} \cup {p}
<1>1. s \in Seq(S)
  <2>1. [i \in 1 .. Len(s) |-> s[i]] \in Seq(S)  BY SMT DEF IsStack
  <2> QED  BY <2>1 DEF IsStack
<1>2. p \in S  OBVIOUS
<1> HIDE DEF S
<1>3. /\ Append(s, p) \in Seq(S) /\ Len(Append(s, p)) = Len(s) + 1
      /\ \A i \in 1 .. Len(s) : Append(s, p)[i] = s[i]
      /\ Append(s, p)[Len(s) + 1] = p
  BY <1>1, <1>2, SMT
<1>4. Append(s, p) = [i \in 1 .. Len(Append(s, p)) |-> Append(s, p)[i]]
  BY <1>3, ElementsOf, ZenonT(30)
<1> QED  BY <1>3, <1>4, SMT DEF IsStack

\* A process that ends hands its status to the one that waits for it.
LEMMA ProcessRemoved ==
  ASSUME IsStack(stack), AliasExit
  PROVE  IsStack(stack') /\ Top'.pc = "exit" /\ Top'.status = Top.status
<1> DEFINE n == Len(stack) - 1
           p == [stack[n] EXCEPT !.pc = "exit", !.status = Top.status]
<1>1. n \in Nat /\ n > 0 /\ n \in 1 .. Len(stack)  BY SMT DEF AliasExit, IsStack
<1>2. SubSeq(stack, 1, n) = [i \in 1 .. n |-> stack[i]]
  BY <1>1, SMT DEF IsStack
<1>3. stack' = [i \in 1 .. n |-> IF i = n THEN p ELSE stack[i]]
  BY <1>1, <1>2 DEF AliasExit, IsStack, IsProcess, Attributes
<1>4. IsProcess(p) /\ p.pc = "exit" /\ p.status = Top.status
  BY <1>1 DEF IsStack, IsProcess, Attributes
<1> HIDE DEF p, n
<1>5. Len(stack') = n  BY <1>1, <1>3, SMT
<1>6. IsStack(stack')  BY <1>1, <1>3, <1>4, <1>5, SMT DEF IsStack, n
<1>7. Top' = p  BY <1>1, <1>3, <1>5, SMT DEF Top
<1> QED  BY <1>4, <1>6, <1>7

\* The beginning of main ends with a process that is ready, or has failed.
LEMMA BootEnds ==
  ASSUME IsStack(stack), Boot
  PROVE  \E p : IsProcess(p) /\ p.pc \in {"ready", "exit"} /\ stack' = SetTop(p)
<1> DEFINE e == Environment(Top)
<1>1. IsProcess(e)
  <2>1. IsProcess(Top)  BY SMT DEF IsStack, Top
  <2> QED  BY <2>1 DEF Environment, IsProcess, Attributes
<1>2. CASE stack' = SetTop([e EXCEPT !.pc = "exit", !.status = 1])
  <2>1. LET p == [e EXCEPT !.pc = "exit", !.status = 1] IN IsProcess(p) /\ p.pc = "exit"
    BY <1>1, ZenonT(30) DEF IsProcess, Attributes
  <2> QED  BY <1>2, <2>1, ZenonT(30)
<1>3. ASSUME NEW args, NEW dirs, stack' = SetTop(SetCurrentNotebook([e EXCEPT !.args = args], dirs))
      PROVE  \E p : IsProcess(p) /\ p.pc \in {"ready", "exit"} /\ stack' = SetTop(p)
  <2> DEFINE q == [e EXCEPT !.args = args]
  <2>1. IsProcess(q)  BY <1>1 DEF IsProcess, Attributes
  <2> HIDE DEF q
  <2>2. \A nb, wd : LET p == [q EXCEPT !.pc = "ready", !.notebook = nb, !.envDir = nb, !.workingDir = wd]
                    IN  IsProcess(p) /\ p.pc = "ready"
    BY <2>1, ZenonT(30) DEF IsProcess, Attributes
  <2>3. LET p == [q EXCEPT !.pc = "ready"] IN IsProcess(p) /\ p.pc = "ready"
    BY <2>1 DEF IsProcess, Attributes
  <2>4. LET p == [q EXCEPT !.pc = "exit", !.status = 1] IN IsProcess(p) /\ p.pc = "exit"
    BY <2>1, ZenonT(30) DEF IsProcess, Attributes
  <2>5. LET p == SetCurrentNotebook(q, dirs) IN IsProcess(p) /\ p.pc \in {"ready", "exit"}
    BY <2>2, <2>3, <2>4, ZenonT(30) DEF SetCurrentNotebook
  <2> QED  BY <1>3, <2>5 DEF q
<1> QED  BY <1>2, <1>3, ZenonT(30) DEF Boot

\* The last process takes a step of its own.
LEMMA TopMoved ==
  ASSUME IsStack(stack), NEW p, IsProcess(p), stack' = SetTop(p)
  PROVE  IsStack(stack') /\ Top' = p
  BY TopReplaced DEF Top

\* The steps of the command line are taken while no command is at work, and by
\* the last process.
LEMMA LineKeeps == StackInv /\ LineStep => StackInv'
<1> SUFFICES ASSUME StackInv, LineStep PROVE StackInv'
  OBVIOUS
<1>1. IsStack(stack) /\ IsProcess(Top) /\ pc' = pc /\ status' = status
  BY SMT DEF StackInv, LineStep, ivars, IsStack, Top
<1>2. ASSUME pc = "idle", NEW p, IsProcess(p), p.pc # "working", stack' = SetTop(p)
      PROVE  StackInv'
  BY <1>1, <1>2, TopMoved DEF StackInv
<1>3. CASE Boot
  <2>1. pc = "idle"  BY <1>3 DEF Boot, StackInv
  <2>2. PICK p : IsProcess(p) /\ p.pc \in {"ready", "exit"} /\ stack' = SetTop(p)
    BY <1>1, <1>3, BootEnds
  <2> QED  BY <1>2, <2>1, <2>2
<1>4. CASE RunAlias
  <2> DEFINE name == Top.args[1].value
             s == SetTop([Top EXCEPT !.pc = "waiting", !.alias = name, !.envAlias = name])
             p == Child(Top, name)
  <2>1. pc = "idle" /\ stack' = Append(s, p)  BY <1>4 DEF RunAlias, StackInv
  <2>2. IsStack(s) /\ s[Len(s)].pc = "waiting"
    <3>1. LET w == [Top EXCEPT !.pc = "waiting", !.alias = name, !.envAlias = name]
          IN  IsProcess(w) /\ w.pc = "waiting"
      BY <1>1 DEF IsProcess, Attributes
    <3> QED  BY <1>1, <3>1, TopReplaced, ZenonT(30)
  <2>3. IsProcess(p) /\ p.pc = "boot"  BY DEF Child, Process, IsProcess, Attributes
  <2> HIDE DEF s, p
  <2>4. IsStack(stack') /\ Top' = p  BY <2>1, <2>2, <2>3, ProcessAdded DEF Top
  <2> QED  BY <1>1, <2>1, <2>3, <2>4 DEF StackInv
<1>5. CASE Parse
  <2>1. pc = "idle"  BY <1>5 DEF Parse, StackInv
  <2>2. \/ stack' = SetTop([Top EXCEPT !.pc = "index"])
        \/ stack' = SetTop([Top EXCEPT !.pc = "exit", !.status = 1])
    BY <1>5 DEF Parse
  <2>3. LET p == [Top EXCEPT !.pc = "index"] IN IsProcess(p) /\ p.pc = "index"  BY <1>1 DEF IsProcess, Attributes
  <2>4. LET p == [Top EXCEPT !.pc = "exit", !.status = 1] IN IsProcess(p) /\ p.pc = "exit"  BY <1>1 DEF IsProcess, Attributes
  <2> QED  BY <1>2, <2>1, <2>2, <2>3, <2>4, ZenonT(30)
<1>6. CASE IndexFirst
  <2>1. pc = "idle"  BY <1>6 DEF IndexFirst, StackInv
  <2>2. \/ stack' = SetTop([Top EXCEPT !.pc = "run"])
        \/ stack' = SetTop([Top EXCEPT !.pc = "exit", !.status = 1])
    BY <1>6 DEF IndexFirst
  <2>3. LET p == [Top EXCEPT !.pc = "run"] IN IsProcess(p) /\ p.pc = "run"  BY <1>1 DEF IsProcess, Attributes
  <2>4. LET p == [Top EXCEPT !.pc = "exit", !.status = 1] IN IsProcess(p) /\ p.pc = "exit"  BY <1>1 DEF IsProcess, Attributes
  <2> QED  BY <1>2, <2>1, <2>2, <2>3, <2>4, ZenonT(30)
<1>7. CASE AliasExit
  <2>1. IsStack(stack') /\ Top'.pc = "exit" /\ Top'.status = Top.status  BY <1>1, <1>7, ProcessRemoved
  <2>2. Top.pc = "exit"  BY <1>7 DEF AliasExit
  <2> QED  BY <1>1, <2>1, <2>2 DEF StackInv
<1>8. CASE BootFails
  <2>1. pc = "idle"  BY <1>8 DEF BootFails, StackInv
  <2>2. LET p == [Top EXCEPT !.pc = "exit", !.status = 1] IN IsProcess(p) /\ p.pc = "exit"  BY <1>1 DEF IsProcess, Attributes
  <2> QED  BY <1>2, <1>8, <2>1, <2>2, ZenonT(30) DEF BootFails
<1> QED  BY <1>3, <1>4, <1>5, <1>6, <1>7, <1>8 DEF LineStep

-----------------------------------------------------------------------------
(* Sequences and directories.                                              *)

\* A set of numbers has a least member.
LEMMA LeastOf ==
  ASSUME NEW S, S \subseteq Nat, S # {}
  PROVE  \E m \in S : \A l \in S : m <= l
<1>1. PICK m \in S : \A l \in S : ~(<<l, m>> \in OpToRel(<, Nat))
  BY NatLessThanWellFounded, WFMin
<1>2. \A l \in S : ~(l < m)  BY <1>1 DEF OpToRel
<1> QED  BY <1>2, SMT

\* A sequence of tokens is one of its own tokens.
LEMMA OfItsElements ==
  ASSUME NEW s, IsSeq(s)
  PROVE  s \in Seq({s[i] : i \in 1 .. Len(s)}) /\ DOMAIN s = 1 .. Len(s)
<1> DEFINE S == {s[i] : i \in 1 .. Len(s)}
<1>1. [i \in 1 .. Len(s) |-> s[i]] \in Seq(S)  BY SMT DEF IsSeq
<1> QED  BY <1>1 DEF IsSeq

\* Sequences in the sense of the library.
LEMMA SeqIsSeq ==
  ASSUME NEW S, NEW s \in Seq(S)
  PROVE  IsSeq(s)
  BY ElementsOf, SMT DEF IsSeq

\* Two sequences in a row.
LEMMA JoinedSeq ==
  ASSUME NEW s, NEW t, IsSeq(s), IsSeq(t)
  PROVE  /\ IsSeq(s \o t) /\ Len(s \o t) = Len(s) + Len(t)
         /\ \A i \in 1 .. Len(s) : (s \o t)[i] = s[i]
<1> DEFINE S == {s[i] : i \in 1 .. Len(s)} \cup {t[i] : i \in 1 .. Len(t)}
<1>1. s \in Seq(S) /\ t \in Seq(S)
  <2>1. [i \in 1 .. Len(s) |-> s[i]] \in Seq(S)  BY SMT DEF IsSeq
  <2>2. [i \in 1 .. Len(t) |-> t[i]] \in Seq(S)  BY SMT DEF IsSeq
  <2> QED  BY <2>1, <2>2 DEF IsSeq
<1> HIDE DEF S
<1>2. /\ s \o t \in Seq(S) /\ Len(s \o t) = Len(s) + Len(t)
      /\ \A i \in 1 .. Len(s) : (s \o t)[i] = s[i]
  BY <1>1, SMT
<1> QED  BY <1>2, SeqIsSeq

\* A part of a sequence.
LEMMA SubSeqIsSeq ==
  ASSUME NEW s, IsSeq(s), NEW i \in 1 .. Len(s), NEW m \in {i + 1, i + 2}
  PROVE  /\ IsSeq(SubSeq(s, 1, i - 1)) /\ Len(SubSeq(s, 1, i - 1)) = i - 1
         /\ i > 1 => SubSeq(s, 1, i - 1)[1] = s[1]
         /\ IsSeq(SubSeq(s, m, Len(s)))
<1>1. ASSUME NEW S, s \in Seq(S)
      PROVE  /\ SubSeq(s, 1, i - 1) \in Seq(S) /\ Len(SubSeq(s, 1, i - 1)) = i - 1
             /\ i > 1 => SubSeq(s, 1, i - 1)[1] = s[1]
             /\ SubSeq(s, m, Len(s)) \in Seq(S)
  <2>1. SubSeq(s, 1, i - 1) \in Seq(S) /\ Len(SubSeq(s, 1, i - 1)) = i - 1  BY <1>1, SMT
  <2>2. i > 1 => SubSeq(s, 1, i - 1)[1] = s[1]  BY <1>1, SMT
  <2>3. SubSeq(s, m, Len(s)) \in Seq(S)  BY <1>1, SMT
  <2> QED  BY <2>1, <2>2, <2>3
<1> QED  BY <1>1, OfItsElements, SeqIsSeq

\* A sequence that has a first element is not empty.
LEMMA NotEmpty ==
  ASSUME NEW s, Len(s) > 0
  PROVE  s # <<>>
  BY SMT

\* The length of a sequence that is not empty.
LEMMA NotEmptyLen ==
  ASSUME NEW s, IsSeq(s), s # <<>>
  PROVE  Len(s) > 0
  BY SMT DEF IsSeq

\* The empty sequence.
LEMMA EmptyIsSeq == IsSeq(<<>>)
<1>1. <<>> \in Seq({})  BY SMT
<1> QED  BY <1>1, SeqIsSeq

\* The rest of the arguments.
LEMMA TailIsSeq ==
  ASSUME NEW s, IsSeq(s), s # <<>>
  PROVE  IsSeq(Tail(s))
<1>1. ASSUME NEW S, s \in Seq(S) PROVE Tail(s) \in Seq(S)  BY <1>1, SMT
<1> QED  BY <1>1, OfItsElements, SeqIsSeq

\* One element more.
Longer(t, s, p) ==
  /\ IsSeq(t) /\ Len(t) = Len(s) + 1
  /\ \A i \in 1 .. Len(s) : t[i] = s[i]
  /\ t[Len(s) + 1] = p

\* Append makes a sequence longer by its last element.
LEMMA AppendedSeq ==
  ASSUME NEW s, IsSeq(s), NEW p
  PROVE  Longer(Append(s, p), s, p)
<1> DEFINE S == {s[i] : i \in 1 .. Len(s)} \cup {p}
<1>1. s \in Seq(S)
  <2>1. [i \in 1 .. Len(s) |-> s[i]] \in Seq(S)  BY SMT DEF IsSeq
  <2> QED  BY <2>1 DEF IsSeq
<1>2. p \in S  OBVIOUS
<1> HIDE DEF S
<1>3. /\ Append(s, p) \in Seq(S) /\ Len(Append(s, p)) = Len(s) + 1
      /\ \A i \in 1 .. Len(s) : Append(s, p)[i] = s[i]
      /\ Append(s, p)[Len(s) + 1] = p
  BY <1>1, <1>2, SMT
<1> QED  BY <1>3, SeqIsSeq DEF Longer

\* findFlag leaves a sequence that starts with the same word, if it was one, and
\* the arguments alone when the flag is not there.
LEMMA FlagFound ==
  ASSUME NEW names, NEW args, IsSeq(args), StartsWithWord(args) => ~IsFlag(args[1], names)
  PROVE  LET f == findFlag(names, args)
         IN  /\ IsSeq(f.args)
             /\ StartsWithWord(args) => f.args # <<>> /\ f.args[1] = args[1]
             /\ (\A i \in DOMAIN args : ~IsFlag(args[i], names)) =>
                   f.found = None /\ f.args = args /\ ~f.failed
<1> DEFINE f == findFlag(names, args)
           at == {i \in DOMAIN args : IsFlag(args[i], names)}
<1>1. CASE at = {}
  <2>1. f.found = None /\ f.args = args /\ ~f.failed  BY <1>1, SMT DEF findFlag
  <2> HIDE DEF f
  <2>2. StartsWithWord(args) => args # <<>>  BY DEF StartsWithWord
  <2> QED  BY <2>1, <2>2 DEF f
<1>2. CASE at # {}
  <2>1. DOMAIN args = 1 .. Len(args) /\ Len(args) \in Nat  BY OfItsElements DEF IsSeq
  <2>2. at \subseteq Nat
    <3>1. 1 .. Len(args) \subseteq Nat  BY <2>1, SMT
    <3> QED  BY <2>1, <3>1
  <2> DEFINE i == CHOOSE j \in at : \A l \in at : j <= l
             m == IF args[i].eq THEN i + 1 ELSE i + 2
             taken == SubSeq(args, 1, i - 1)
             left == SubSeq(args, m, Len(args))
  <2>3. i \in at
    <3>1. \E j \in at : \A l \in at : j <= l  BY <1>2, <2>2, LeastOf
    <3> QED  BY <3>1
  <2>4. i \in 1 .. Len(args) /\ IsFlag(args[i], names)  BY <2>1, <2>3
  <2>5. f.args = taken \o left  BY <1>2 DEF findFlag
  <2>6. m \in {i + 1, i + 2}  OBVIOUS
  <2>7. \E j \in DOMAIN args : IsFlag(args[j], names)  BY <1>2
  <2> HIDE DEF f, at, i, m
  <2>8. /\ IsSeq(taken) /\ Len(taken) = i - 1 /\ (i > 1 => taken[1] = args[1])
        /\ IsSeq(left)
    BY <2>4, <2>6, SubSeqIsSeq
  <2> HIDE DEF taken, left
  <2>9. /\ IsSeq(taken \o left) /\ Len(taken \o left) = Len(taken) + Len(left)
        /\ \A j \in 1 .. Len(taken) : (taken \o left)[j] = taken[j]
    BY <2>8, JoinedSeq
  <2>10. ASSUME StartsWithWord(args) PROVE taken \o left # <<>> /\ (taken \o left)[1] = args[1]
    <3>1. i # 1  BY <2>4, <2>10
    <3>2. i > 1 /\ 1 \in 1 .. Len(taken)  BY <2>1, <2>4, <2>8, <3>1, SMT
    <3>3. Len(left) \in Nat  BY <2>8 DEF IsSeq
    <3>4. Len(taken \o left) > 0  BY <2>1, <2>4, <2>8, <2>9, <3>2, <3>3, SMT
    <3> QED  BY <2>8, <2>9, <3>2, <3>4, NotEmpty
  <2> QED  BY <2>5, <2>7, <2>9, <2>10 DEF f
<1> QED  BY <1>1, <1>2

\* So does parseDirs.
LEMMA DirsParsed ==
  ASSUME NEW args, IsSeq(args)
  PROVE  LET dirs == parseDirs(args)
         IN  /\ IsSeq(dirs.args)
             /\ StartsWithWord(args) => dirs.args # <<>> /\ dirs.args[1] = args[1]
             /\ (\A i \in DOMAIN args : ~NamesDirectory(args[i])) =>
                   dirs.notebookDir = None /\ dirs.workingDir = None /\ ~dirs.failed
<1> DEFINE nb == findFlag({"--notebook-dir"}, args)
           wd == findFlag({"--working-dir", "-W"}, nb.args)
           dirs == parseDirs(args)
<1>1. /\ dirs.notebookDir = nb.found /\ dirs.workingDir = wd.found /\ dirs.args = wd.args
      /\ dirs.failed = (nb.failed \/ wd.failed)
  BY DEF parseDirs
<1>2. \A s : StartsWithWord(s) => ~IsFlag(s[1], {"--notebook-dir"}) /\ ~IsFlag(s[1], {"--working-dir", "-W"})
  BY DEF StartsWithWord, IsFlag
<1>3. /\ IsSeq(nb.args)
      /\ StartsWithWord(args) => nb.args # <<>> /\ nb.args[1] = args[1]
      /\ (\A i \in DOMAIN args : ~IsFlag(args[i], {"--notebook-dir"})) =>
           nb.found = None /\ nb.args = args /\ ~nb.failed
  BY <1>2, FlagFound
<1> HIDE DEF nb
<1>4. /\ IsSeq(wd.args)
      /\ StartsWithWord(nb.args) => wd.args # <<>> /\ wd.args[1] = nb.args[1]
      /\ (\A i \in DOMAIN nb.args : ~IsFlag(nb.args[i], {"--working-dir", "-W"})) =>
           wd.found = None /\ wd.args = nb.args /\ ~wd.failed
  BY <1>2, <1>3, FlagFound
<1> HIDE DEF wd, dirs
<1>5. StartsWithWord(args) => wd.args # <<>> /\ wd.args[1] = args[1]
  BY <1>3, <1>4 DEF StartsWithWord
<1>6. ASSUME \A i \in DOMAIN args : ~NamesDirectory(args[i])
      PROVE  nb.found = None /\ wd.found = None /\ ~nb.failed /\ ~wd.failed
  <2>1. \A i \in DOMAIN args : /\ ~IsFlag(args[i], {"--notebook-dir"})
                               /\ ~IsFlag(args[i], {"--working-dir", "-W"})
    BY <1>6 DEF NamesDirectory, IsFlag
  <2>2. nb.args = args /\ nb.found = None /\ ~nb.failed  BY <1>3, <2>1
  <2>3. wd.found = None /\ ~wd.failed  BY <1>4, <2>1, <2>2
  <2> QED  BY <2>2, <2>3
<1> QED  BY <1>1, <1>4, <1>5, <1>6 DEF dirs

\* The notebook around a directory is one, and a notebook is around itself.
LEMMA NotebookLocated ==
  /\ \A dir : LocateNotebook(dir) \in Notebooks \cup {None}
  /\ \A dir : Around(dir) # {} <=> LocateNotebook(dir) # None
  /\ \A n \in Notebooks : LocateNotebook(n) = n /\ n # None
<1>1. ASSUME NEW dir
      PROVE  /\ LocateNotebook(dir) \in Notebooks \cup {None}
             /\ Around(dir) # {} <=> LocateNotebook(dir) # None
  <2>1. CASE Around(dir) = {}  BY <2>1 DEF LocateNotebook
  <2>2. CASE Around(dir) # {}
    <3>1. Around(dir) \subseteq Notebooks  BY DEF Around
    <3>2. PICK d \in Notebooks : \A n \in Notebooks : Len(n) <= Len(d)
      BY <2>2, <3>1, CommandRunAssumption
    <3>3. \A n \in Notebooks : Len(n) \in Nat  BY CommandRunAssumption DEF IsSeq
    <3> DEFINE S == {Len(d) - Len(n) : n \in Around(dir)}
    <3>4. S \subseteq Nat /\ S # {}  BY <2>2, <3>1, <3>2, <3>3, SMT
    <3>5. PICK m \in S : \A l \in S : m <= l  BY <3>4, LeastOf
    <3>6. PICK n \in Around(dir) : m = Len(d) - Len(n)  BY <3>5
    <3>7. \A o \in Around(dir) : Len(o) <= Len(n)
      <4> SUFFICES ASSUME NEW o \in Around(dir) PROVE Len(o) <= Len(n)
        OBVIOUS
      <4>1. Len(d) - Len(n) <= Len(d) - Len(o)  BY <3>5, <3>6
      <4>2. Len(d) \in Nat /\ Len(n) \in Nat /\ Len(o) \in Nat  BY <3>1, <3>3
      <4> QED  BY <4>1, <4>2, SMT
    <3>8. LocateNotebook(dir) \in Around(dir)  BY <2>2, <3>7 DEF LocateNotebook
    <3> QED  BY <2>2, <3>1, <3>8, CommandRunAssumption
  <2> QED  BY <2>1, <2>2
<1>2. ASSUME NEW n \in Notebooks PROVE LocateNotebook(n) = n /\ n # None
  <2>1. IsSeq(n) /\ n # None  BY CommandRunAssumption
  <2>2. SubSeq(n, 1, Len(n)) = n
    <3>1. n \in Seq({n[i] : i \in 1 .. Len(n)})  BY <2>1, OfItsElements
    <3> QED  BY <3>1, SMT
  <2>3. n \in Around(n)  BY <2>1, <2>2, SMT DEF Around, IsSeq
  <2>4. \A m \in Around(n) : Len(m) <= Len(n)  BY DEF Around
  <2>5. ASSUME NEW m \in Around(n), \A o \in Around(n) : Len(o) <= Len(m) PROVE m = n
    <3>1. Len(m) <= Len(n) /\ Len(n) <= Len(m) /\ Len(m) \in Nat /\ Len(n) \in Nat
      BY <2>3, <2>4, <2>5, CommandRunAssumption DEF Around, IsSeq
    <3>2. Len(m) = Len(n)  BY <3>1, SMT
    <3> QED  BY <2>2, <3>2 DEF Around
  <2> QED  BY <2>1, <2>3, <2>4, <2>5 DEF LocateNotebook
<1> QED  BY <1>1, <1>2

-----------------------------------------------------------------------------
(* The run.                                                                *)

\* No command is at work, in a single process.
LEMMA InitIInv == Init => IInv
<1> SUFFICES ASSUME Init PROVE IInv
  OBVIOUS
<1>1. WInv
  BY FreshChild DEF Init, Idle, WInv, FzfInv, PagerInv, ConsentInv, SelectionKept, Selected
<1>2. IsStack(stack) /\ Top.pc = "boot"
  <2> DEFINE p == Process(start.wd, start.args, start.envDir, None)
  <2>1. IsProcess(p) /\ p.pc = "boot"  BY DEF Process, IsProcess, Attributes
  <2>2. stack = <<p>>  BY DEF Init
  <2> HIDE DEF p
  <2> QED  BY <2>1, <2>2, SMT DEF IsStack, Top
<1> QED  BY <1>1, <1>2 DEF IInv, StackInv, Init, Idle

\* Every step of the run keeps the inductive invariant.
LEMMA NextKeepsIInv == IInv /\ [Next]_vars => IInv'
<1> SUFFICES ASSUME IInv, [Next]_vars PROVE IInv'
  OBVIOUS
<1>1. IsStack(stack) /\ IsProcess(Top)  BY SMT DEF IInv, StackInv, IsStack, Top
<1>2. ASSUME UNCHANGED ivars PROVE WInv'
  BY <1>2, SMT DEF ivars, IInv, WInv, FzfInv, PagerInv, ConsentInv, SelectionKept, IsChild
<1>3. CASE LineStep
  BY <1>2, <1>3, LineKeeps DEF LineStep, IInv
<1>4. CASE Begin
  <2>1. pc = "idle"  BY <1>4 DEF Begin, IInv, StackInv
  <2>2. CASE stack' = SetTop([Top EXCEPT !.pc = "exit", !.status = 1]) /\ UNCHANGED <<job, pc>>
    <3>1. LET p == [Top EXCEPT !.pc = "exit", !.status = 1] IN IsProcess(p) /\ p.pc = "exit"  BY <1>1 DEF IsProcess, Attributes
    <3>2. StackInv'  BY <1>1, <2>1, <2>2, <3>1, TopMoved, ZenonT(30) DEF StackInv
    <3> QED  BY <1>2, <1>4, <2>2, <3>2 DEF Begin, ivars, IInv
  <2>3. ASSUME NEW j, job' = j, pc' = Entry(j.cmd), stack' = SetTop([Top EXCEPT !.pc = "working"])
        PROVE  IInv'
    <3>1. LET p == [Top EXCEPT !.pc = "working"] IN IsProcess(p) /\ p.pc = "working"  BY <1>1 DEF IsProcess, Attributes
    <3>2. pc' \in {"find", "tags", "new", "other"} /\ (pc' = "new" => job'.cmd = "new")  BY <2>3 DEF Entry
    <3>3. StackInv'  BY <1>1, <2>3, <3>1, <3>2, TopMoved, ZenonT(30) DEF StackInv
    <3>4. WInv'
      BY <1>4, <2>1, <3>2 DEF Begin, IInv, WInv, FzfInv, PagerInv, ConsentInv, SelectionKept, Selected, IsChild
    <3> QED  BY <3>3, <3>4 DEF IInv
  <2> QED  BY <1>4, <2>2, <2>3 DEF Begin
<1>5. CASE End
  <2>1. LET p == [Top EXCEPT !.pc = "exit", !.status = status] IN IsProcess(p) /\ p.pc = "exit" /\ p.status = status
    BY <1>1 DEF IsProcess, Attributes
  <2>2. stack' = SetTop([Top EXCEPT !.pc = "exit", !.status = status]) /\ pc = "exit" /\ UNCHANGED ivars
    BY <1>5 DEF End
  <2>3. StackInv'  BY <1>1, <2>1, <2>2, TopMoved, ZenonT(30) DEF StackInv, ivars
  <2> QED  BY <1>2, <2>2, <2>3 DEF IInv
<1>6. CASE Work /\ UNCHANGED lvars
  <2>1. WInv'  BY <1>6, MainKeeps, ChildrenKeep DEF IInv, Work
  <2>2. stack' = stack /\ Top' = Top  BY <1>6 DEF lvars, Top
  <2>3. StackInv'  BY <1>6, <2>2, WorkMoves DEF IInv, StackInv
  <2> QED  BY <2>1, <2>3 DEF IInv
<1>7. CASE UNCHANGED vars
  <2>1. StackInv'  BY <1>7 DEF vars, IInv, StackInv, Top
  <2> QED  BY <1>2, <1>7, <2>1 DEF vars, ivars, IInv
<1> QED  BY <1>3, <1>4, <1>5, <1>6, <1>7 DEF Next

-----------------------------------------------------------------------------
(* The aliases.                                                            *)

\* The alias that process q runs in the start s, and the arguments it gives to
\* the process it starts.
Known(s, q) == AliasMaps[s.aliases][q.notebook]
Running(s, q) == Known(s, q)[q.alias]
Given(s, q) == Running(s, q).args \o (IF Running(s, q).rest THEN Tail(q.args) ELSE <<>>)

\* What the i-th process p takes over from the process q that started it.
Inherits(s, i, q, p) ==
  /\ q.alias \in DOMAIN Known(s, q)
  /\ p.pc \in {"boot", "ready"} => p.envAlias = q.alias
  /\ p.pc = "boot" => p.args = Given(s, q) /\ (q.notebook # None => p.wd = q.notebook)
  /\ StartsWithWord(Running(s, q).args) => p.args # <<>> /\ p.args[1] = Running(s, q).args[1]
  /\ i # s.noBoot /\ p.pc # "boot" /\ q.notebook # None /\ (\A j \in DOMAIN Given(s, q) : ~NamesDirectory(Given(s, q)[j])) =>
       p.notebook = q.notebook
  /\ p.pc = "waiting" \/ p.alias # None => p.alias \in Calls(s.aliases, q.alias) \ {q.alias}

\* A process works in a notebook that can be opened, or in none.
Sound(p) ==
  /\ IsSeq(p.args)
  /\ p.notebook \in Notebooks \cup {None}
  /\ p.notebook # None => p.notebook \notin Broken

AliasInv ==
  /\ start \in Starts
  /\ \A i \in 1 .. Len(stack) : Sound(stack[i]) /\ (i > 1 => Inherits(start, i, stack[i - 1], stack[i]))

\* The last process is sound, and started by the one before.
LEMMA AboutTop ==
  ASSUME IsStack(stack), AliasInv
  PROVE  Sound(Top) /\ (Len(stack) > 1 => Inherits(start, Len(stack), stack[Len(stack) - 1], Top))
<1>1. Len(stack) \in 1 .. Len(stack)  BY SMT DEF IsStack
<1> QED  BY <1>1 DEF AliasInv, Top

\* A step of the last process.
LEMMA TopInherits ==
  ASSUME IsStack(stack), AliasInv, NEW p, stack' = SetTop(p), start' = start,
         Sound(p), Len(stack) > 1 => Inherits(start, Len(stack), stack[Len(stack) - 1], p)
  PROVE  AliasInv'
<1>1. stack' = [i \in 1 .. Len(stack) |-> IF i = Len(stack) THEN p ELSE stack[i]]
  BY DEF SetTop, IsStack
<1>2. Len(stack') = Len(stack) /\ Len(stack) \in Nat  BY <1>1, SMT DEF IsStack
<1> SUFFICES ASSUME NEW i \in 1 .. Len(stack)
             PROVE  Sound(stack'[i]) /\ (i > 1 => Inherits(start, i, stack'[i - 1], stack'[i]))
  BY <1>2 DEF AliasInv
<1>3. i > 1 => i - 1 \in 1 .. Len(stack) /\ i - 1 # Len(stack)  BY <1>2, SMT
<1>4. Sound(stack'[i])  BY <1>1 DEF AliasInv
<1>5. ASSUME i > 1 PROVE Inherits(start, i, stack'[i - 1], stack'[i])
  <2>1. stack'[i - 1] = stack[i - 1]  BY <1>1, <1>3, <1>5
  <2>2. CASE i = Len(stack)  BY <1>1, <1>5, <2>1, <2>2
  <2>3. CASE i # Len(stack)  BY <1>1, <1>5, <2>1, <2>3 DEF AliasInv
  <2> QED  BY <2>2, <2>3
<1> QED  BY <1>4, <1>5

\* A step that only moves the last process on.
LEMMA TopGoesOn ==
  ASSUME IsStack(stack), AliasInv, NEW p, stack' = SetTop(p), start' = start,
         Top.pc # "boot", p.pc \notin {"boot", "ready", "waiting"},
         p.args = Top.args, p.notebook = Top.notebook, p.alias = Top.alias
  PROVE  AliasInv'
<1>1. Sound(Top) /\ (Len(stack) > 1 => Inherits(start, Len(stack), stack[Len(stack) - 1], Top))  BY AboutTop
<1>2. Sound(p)  BY <1>1 DEF Sound
<1>3. Len(stack) > 1 => Inherits(start, Len(stack), stack[Len(stack) - 1], p)  BY <1>1 DEF Inherits
<1> QED  BY <1>2, <1>3, TopInherits

\* A process boots: what it is given without a directory keeps it in its
\* notebook.
LEMMA BootInherits ==
  ASSUME IsStack(stack), AliasInv, Boot
  PROVE  AliasInv'
<1> DEFINE e == Environment(Top)
           dirs == parseDirs(e.args)
<1>1. /\ Sound(Top) /\ (Len(stack) > 1 => Inherits(start, Len(stack), stack[Len(stack) - 1], Top))
      /\ IsProcess(Top) /\ Top.pc = "boot"
  <2>1. IsProcess(Top)  BY SMT DEF IsStack, Top
  <2> QED  BY <2>1, AboutTop DEF Boot
<1>2. /\ IsProcess(e) /\ e.pc = "boot" /\ e.args = Top.args /\ e.notebook = Top.notebook /\ e.wd = Top.wd
      /\ e.alias = Top.alias /\ e.envAlias = Top.envAlias
  BY <1>1 DEF Environment, IsProcess, Attributes
<1>3. /\ start' = start
      /\ IF dirs.failed THEN stack' = SetTop([e EXCEPT !.pc = "exit", !.status = 1])
         ELSE stack' = SetTop(SetCurrentNotebook([e EXCEPT !.args = dirs.args], notebookSearchDirs(dirs, e)))
  BY DEF Boot
<1> HIDE DEF e
<1>4. /\ IsSeq(dirs.args)
      /\ StartsWithWord(e.args) => dirs.args # <<>> /\ dirs.args[1] = e.args[1]
      /\ (\A i \in DOMAIN e.args : ~NamesDirectory(e.args[i])) =>
            dirs.notebookDir = None /\ dirs.workingDir = None /\ ~dirs.failed
  BY <1>1, <1>2, DirsParsed DEF Sound
<1> HIDE DEF dirs
<1>5. CASE dirs.failed
  <2> DEFINE p == [e EXCEPT !.pc = "exit", !.status = 1]
  <2>1. /\ p.pc = "exit" /\ p.args = Top.args /\ p.notebook = Top.notebook /\ p.alias = Top.alias
    BY <1>2 DEF IsProcess, Attributes
  <2>2. stack' = SetTop(p)  BY <1>3, <1>5
  <2> HIDE DEF p
  <2>3. Sound(p)  BY <1>1, <2>1 DEF Sound
  <2>4. ASSUME Len(stack) > 1 PROVE Inherits(start, Len(stack), stack[Len(stack) - 1], p)
    BY <1>1, <1>2, <1>4, <1>5, <2>1, <2>4 DEF Inherits
  <2> QED  BY <1>3, <2>2, <2>3, <2>4, TopInherits
<1>6. CASE ~dirs.failed
  <2> DEFINE q == [e EXCEPT !.args = dirs.args]
             searched == notebookSearchDirs(dirs, e)
             p == SetCurrentNotebook(q, searched)
  <2>1. /\ IsProcess(q) /\ q.args = dirs.args /\ q.notebook = Top.notebook /\ q.alias = Top.alias
        /\ q.envAlias = Top.envAlias
    BY <1>2 DEF IsProcess, Attributes
  <2>2. stack' = SetTop(p)  BY <1>3, <1>6
  <2> HIDE DEF q
  <2>3. /\ p.pc \in {"ready", "exit"} /\ p.args = q.args /\ p.alias = q.alias /\ p.envAlias = q.envAlias
        /\ p.notebook \in Notebooks \cup {None}
        /\ p.notebook # None => p.notebook \notin Broken
    <3>1. ASSUME NEW nb, NEW wd, p = [q EXCEPT !.pc = "ready", !.notebook = nb, !.envDir = nb, !.workingDir = wd]
          PROVE  p.pc = "ready" /\ p.args = q.args /\ p.alias = q.alias /\ p.envAlias = q.envAlias
                 /\ p.notebook = nb
      <4> HIDE DEF p
      <4> QED  BY <2>1, <3>1 DEF IsProcess, Attributes
    <3>2. ASSUME p = [q EXCEPT !.pc = "ready"]
          PROVE  p.pc = "ready" /\ p.args = q.args /\ p.alias = q.alias /\ p.envAlias = q.envAlias
                 /\ p.notebook = q.notebook
      <4> HIDE DEF p
      <4> QED  BY <2>1, <3>2 DEF IsProcess, Attributes
    <3>3. ASSUME p = [q EXCEPT !.pc = "exit", !.status = 1]
          PROVE  p.pc = "exit" /\ p.args = q.args /\ p.alias = q.alias /\ p.envAlias = q.envAlias
                 /\ p.notebook = q.notebook
      <4> HIDE DEF p
      <4> QED  BY <2>1, <3>3 DEF IsProcess, Attributes
    <3>4. q.notebook \in Notebooks \cup {None} /\ (q.notebook # None => q.notebook \notin Broken)
      BY <1>1, <2>1 DEF Sound
    <3>5. \A dir : LocateNotebook(dir) \in Notebooks \cup {None}  BY NotebookLocated
    <3> HIDE DEF searched
    <3>6. \/ p = [q EXCEPT !.pc = "ready"]
          \/ p = [q EXCEPT !.pc = "exit", !.status = 1]
          \/ \E nb, wd : /\ nb \in Notebooks \cup {None} /\ nb \notin Broken
                        /\ p = [q EXCEPT !.pc = "ready", !.notebook = nb, !.envDir = nb, !.workingDir = wd]
      BY <3>5 DEF SetCurrentNotebook
    <3>7. ASSUME NEW nb \in Notebooks \cup {None}, nb \notin Broken, NEW wd,
                 p = [q EXCEPT !.pc = "ready", !.notebook = nb, !.envDir = nb, !.workingDir = wd]
          PROVE  p.notebook \in Notebooks \cup {None} /\ p.notebook \notin Broken
      BY <3>1, <3>7
    <3> HIDE DEF p
    <3>8. CASE p = [q EXCEPT !.pc = "ready"]  BY <3>2, <3>4, <3>8
    <3>9. CASE p = [q EXCEPT !.pc = "exit", !.status = 1]  BY <3>3, <3>4, <3>9
    <3> QED  BY <3>1, <3>6, <3>7, <3>8, <3>9
  <2>4. Sound(p)  BY <1>4, <2>1, <2>3 DEF Sound
  <2>5. ASSUME Len(stack) > 1 PROVE Inherits(start, Len(stack), stack[Len(stack) - 1], p)
    <3> SUFFICES ASSUME NEW o, o = stack[Len(stack) - 1], Inherits(start, Len(stack), o, Top)
                 PROVE  Inherits(start, Len(stack), o, p)
      BY <1>1, <2>5
    <3>1. ASSUME o.notebook # None, \A j \in DOMAIN Given(start, o) : ~NamesDirectory(Given(start, o)[j])
          PROVE  p.notebook = o.notebook
      <4>1. e.args = Given(start, o) /\ e.wd = o.notebook  BY <1>1, <1>2, <3>1 DEF Inherits
      <4>2. dirs.notebookDir = None /\ dirs.workingDir = None  BY <1>4, <3>1, <4>1
      <4>3. o.notebook \in Notebooks /\ o.notebook \notin Broken
        <5>1. Len(stack) - 1 \in 1 .. Len(stack)  BY <2>5, SMT DEF IsStack
        <5> QED  BY <3>1, <5>1 DEF AliasInv, Sound
      <4>4. LocateNotebook(o.notebook) = o.notebook  BY <4>3, NotebookLocated
      <4>5. /\ 1 \in DOMAIN searched /\ DOMAIN searched \subseteq Nat \ {0}
            /\ searched[1] = [notebook |-> o.notebook, working |-> o.notebook]
        <5>1. CASE e.envDir = None
          <6>1. searched = <<[notebook |-> o.notebook, working |-> o.notebook]>> \o <<>>
            BY <4>1, <4>2, <5>1 DEF notebookSearchDirs
          <6> QED  BY <6>1, SMT
        <5>2. CASE e.envDir # None
          <6>1. searched = <<[notebook |-> o.notebook, working |-> o.notebook]>>
                           \o <<[notebook |-> e.envDir, working |-> e.envDir]>>
            BY <4>1, <4>2, <5>2 DEF notebookSearchDirs
          <6> QED  BY <6>1, SMT
        <5> QED  BY <5>1, <5>2
      <4> HIDE DEF searched
      <4> DEFINE hits == {i \in DOMAIN searched : LocateNotebook(searched[i].notebook) # None}
      <4>6. 1 \in hits
        <5>1. searched[1].notebook = o.notebook  BY <4>5, SMT
        <5> QED  BY <3>1, <4>4, <4>5, <5>1
      <4>7. (CHOOSE j \in hits : \A l \in hits : j <= l) = 1
        <5>1. \A l \in hits : l \in DOMAIN searched  OBVIOUS
        <5> HIDE DEF hits
        <5>2. \A l \in hits : l \in Nat /\ l # 0  BY <4>5, <5>1
        <5>3. \A l \in hits : 1 <= l  BY <5>2, SMT
        <5>4. \A j \in hits : (\A l \in hits : j <= l) => j = 1
          <6> SUFFICES ASSUME NEW j \in hits, \A l \in hits : j <= l PROVE j = 1
            OBVIOUS
          <6>1. j <= 1 /\ 1 <= j /\ j \in Nat  BY <4>6, <5>2, <5>3
          <6> QED  BY <6>1, SMT
        <5> QED  BY <4>6, <5>3, <5>4
      <4>8. p = [q EXCEPT !.pc = "ready", !.notebook = o.notebook, !.envDir = o.notebook,
                          !.workingDir = searched[1].working]
        <5>1. searched[1].notebook = o.notebook  BY <4>5, SMT
        <5>2. hits # {}  BY <4>6
        <5> QED  BY <4>3, <4>4, <4>7, <5>1, <5>2 DEF SetCurrentNotebook
      <4> QED  BY <2>1, <4>8 DEF IsProcess, Attributes
    <3>2. StartsWithWord(Running(start, o).args) => p.args # <<>> /\ p.args[1] = Running(start, o).args[1]
      BY <1>2, <1>4, <2>1, <2>3 DEF Inherits, StartsWithWord
    <3> HIDE DEF p
    <3> QED  BY <1>1, <2>1, <2>3, <3>1, <3>2 DEF Inherits
  <2> HIDE DEF p
  <2> QED  BY <1>3, <2>2, <2>4, <2>5, TopInherits
<1> QED  BY <1>5, <1>6

\* A process that cannot start.
LEMMA BootFailsInherits ==
  ASSUME IsStack(stack), AliasInv, BootFails
  PROVE  AliasInv'
<1> DEFINE p == [Top EXCEPT !.pc = "exit", !.status = 1]
<1>1. /\ Sound(Top) /\ (Len(stack) > 1 => Inherits(start, Len(stack), stack[Len(stack) - 1], Top))
      /\ IsProcess(Top) /\ Top.pc = "boot" /\ Len(stack) = start.noBoot
      /\ stack' = SetTop(p) /\ start' = start
  <2>1. IsProcess(Top)  BY SMT DEF IsStack, Top
  <2> QED  BY <2>1, AboutTop DEF BootFails
<1>2. p.pc = "exit" /\ p.args = Top.args /\ p.notebook = Top.notebook /\ p.alias = Top.alias
  BY <1>1 DEF IsProcess, Attributes
<1> HIDE DEF p
<1>3. Sound(p)  BY <1>1, <1>2 DEF Sound
<1>4. Len(stack) > 1 => Inherits(start, Len(stack), stack[Len(stack) - 1], p)  BY <1>1, <1>2 DEF Inherits
<1> QED  BY <1>1, <1>3, <1>4, TopInherits

\* A process that runs an alias waits for the one it starts.
LEMMA AliasInherits ==
  ASSUME IsStack(stack), AliasInv, RunAlias
  PROVE  AliasInv'
<1> DEFINE name == Top.args[1].value
           w == [Top EXCEPT !.pc = "waiting", !.alias = name, !.envAlias = name]
           c == Child(Top, name)
           n == Len(stack)
<1>1. /\ Sound(Top) /\ (n > 1 => Inherits(start, n, stack[n - 1], Top))
      /\ IsProcess(Top) /\ Top.pc = "ready" /\ IsAlias(Top)
      /\ stack' = Append(SetTop(w), c) /\ start' = start
  <2>1. IsProcess(Top)  BY SMT DEF IsStack, Top
  <2> QED  BY <2>1, AboutTop DEF RunAlias
<1>2. w.pc = "waiting" /\ w.alias = name /\ w.args = Top.args /\ w.notebook = Top.notebook /\ IsProcess(w)
  BY <1>1 DEF IsProcess, Attributes
<1>3. name \in DOMAIN Known(start, Top) /\ name # Top.envAlias /\ StartsWithWord(Top.args)
  BY <1>1 DEF IsAlias, Aliases, Known, StartsWithWord
<1>4. start.aliases \in DOMAIN AliasMaps /\ Top.notebook \in DOMAIN AliasMaps[start.aliases]
      /\ IsSeq(Known(start, Top)[name].args)
  BY <1>1, <1>3, CommandRunAssumption DEF AliasInv, Sound, Known
<1>5. /\ c.pc = "boot" /\ c.args = Given(start, w) /\ c.envAlias = name /\ c.alias = None /\ c.notebook = None
      /\ Top.notebook # None => c.wd = Top.notebook
  <2>1. Running(start, w) = Aliases(Top)[name]  BY <1>2 DEF Running, Known, Aliases
  <2> HIDE DEF w, name
  <2> QED  BY <1>2, <2>1 DEF Child, Process, Given
<1>6. Running(start, w) = Known(start, Top)[name] /\ Known(start, w) = Known(start, Top)
  BY <1>2 DEF Running, Known
<1> HIDE DEF w, c
<1>7. IsSeq(c.args) /\ (StartsWithWord(Running(start, w).args) =>
                          c.args # <<>> /\ c.args[1] = Running(start, w).args[1])
  <2> DEFINE a == Running(start, w)
             more == IF a.rest THEN Tail(w.args) ELSE <<>>
  <2>1. IsSeq(a.args)  BY <1>4, <1>6
  <2>2. IsSeq(more)
    <3>1. CASE a.rest
      <4>1. IsSeq(Top.args) /\ Top.args # <<>>  BY <1>1, <1>3 DEF Sound, StartsWithWord
      <4>2. IsSeq(Tail(Top.args))  BY <4>1, TailIsSeq
      <4> QED  BY <1>2, <3>1, <4>2
    <3>2. CASE ~a.rest
      <4>1. IsSeq(<< >>)  BY EmptyIsSeq
      <4> QED  BY <3>2, <4>1
    <3> QED  BY <3>1, <3>2
  <2>3. c.args = a.args \o more  BY <1>5 DEF Given
  <2> HIDE DEF a, more
  <2>4. /\ IsSeq(c.args) /\ Len(c.args) = Len(a.args) + Len(more)
        /\ \A i \in 1 .. Len(a.args) : c.args[i] = a.args[i]
    <3>1. /\ IsSeq(a.args \o more) /\ Len(a.args \o more) = Len(a.args) + Len(more)
          /\ \A i \in 1 .. Len(a.args) : (a.args \o more)[i] = a.args[i]
      BY <2>1, <2>2, JoinedSeq
    <3> QED  BY <2>3, <3>1
  <2>5. ASSUME StartsWithWord(a.args) PROVE c.args # <<>> /\ c.args[1] = a.args[1]
    <3>1. Len(a.args) > 0 /\ Len(a.args) \in Nat /\ Len(more) \in Nat
      BY <2>1, <2>2, <2>5, NotEmptyLen DEF StartsWithWord, IsSeq
    <3>2. Len(c.args) > 0 /\ 1 \in 1 .. Len(a.args)  BY <2>4, <3>1, SMT
    <3> QED  BY <2>4, <3>2, NotEmpty
  <2> QED  BY <2>4, <2>5 DEF a
<1>8. Sound(w) /\ Sound(c)  BY <1>1, <1>2, <1>5, <1>7 DEF Sound
<1>9. Inherits(start, n + 1, w, c)
  BY <1>2, <1>3, <1>5, <1>6, <1>7 DEF Inherits
<1>10. n > 1 => Inherits(start, n, stack[n - 1], w)
  <2> SUFFICES ASSUME NEW o, Inherits(start, n, o, Top), o.notebook \in Notebooks \cup {None} PROVE Inherits(start, n, o, w)
    <3>1. n > 1 => n - 1 \in 1 .. Len(stack)  BY SMT DEF IsStack
    <3> QED  BY <1>1, <3>1 DEF AliasInv, Sound
  <2>1. name # o.alias /\ o.alias \in DOMAIN Known(start, o)  BY <1>1, <1>3 DEF Inherits
  <2>2. name \in Calls(start.aliases, o.alias)
    <3> DEFINE m == Known(start, o)
    <3>1. /\ m \in Range(AliasMaps[start.aliases])
          /\ Known(start, Top) \in Range(AliasMaps[start.aliases])
      BY <1>4, CommandRunAssumption DEF Range, Known
    <3>2. CASE StartsWithWord(m[o.alias].args)
      <4>1. Top.args[1] = m[o.alias].args[1]  BY <1>1, <3>2 DEF Inherits, Running
      <4> QED  BY <2>1, <3>1, <3>2, <4>1 DEF Calls
    <3>3. CASE ~StartsWithWord(m[o.alias].args)
      <4>1. name \in Names(start.aliases)  BY <1>3, <3>1 DEF Names
      <4> QED  BY <2>1, <3>1, <3>3, <4>1 DEF Calls
    <3> QED  BY <3>2, <3>3
  <2> QED  BY <1>1, <1>2, <2>1, <2>2 DEF Inherits
<1>11. /\ stack' = [i \in 1 .. n + 1 |-> IF i = n + 1 THEN c ELSE IF i = n THEN w ELSE stack[i]]
       /\ Len(stack') = n + 1 /\ n \in Nat
  <2>1. SetTop(w) = [i \in 1 .. n |-> IF i = n THEN w ELSE stack[i]]  BY DEF SetTop, IsStack
  <2>2. IsSeq(SetTop(w)) /\ Len(SetTop(w)) = n
    <3>1. Len(SetTop(w)) = n  BY <2>1, SMT DEF IsStack
    <3> QED  BY <2>1, <3>1 DEF IsSeq, IsStack
  <2>3. /\ IsSeq(stack') /\ Len(stack') = n + 1 /\ stack'[n + 1] = c
        /\ \A i \in 1 .. n : stack'[i] = SetTop(w)[i]
    <3> DEFINE s == SetTop(w)
    <3>1. stack' = Append(s, c) /\ IsSeq(s) /\ Len(s) = n  BY <1>1, <2>2
    <3> HIDE DEF s
    <3>2. Longer(Append(s, c), s, c)  BY <3>1, AppendedSeq
    <3> QED  BY <3>1, <3>2 DEF s, Longer
  <2>4. stack' = [i \in 1 .. n + 1 |-> stack'[i]]  BY <2>3 DEF IsSeq
  <2>5. n \in Nat  BY DEF IsStack
  <2>6. \A i \in 1 .. n + 1 : stack'[i] = IF i = n + 1 THEN c ELSE IF i = n THEN w ELSE stack[i]
    <3> SUFFICES ASSUME NEW i \in 1 .. n + 1 PROVE stack'[i] = IF i = n + 1 THEN c ELSE IF i = n THEN w ELSE stack[i]
      OBVIOUS
    <3>1. i # n + 1 => i \in 1 .. n  BY <2>5, SMT
    <3> QED  BY <2>1, <2>3, <3>1
  <2> QED  BY <2>3, <2>4, <2>5, <2>6
<1> HIDE DEF n
<1> SUFFICES ASSUME NEW i \in 1 .. n + 1
             PROVE  Sound(stack'[i]) /\ (i > 1 => Inherits(start, i, stack'[i - 1], stack'[i]))
  BY <1>1, <1>11 DEF AliasInv
<1>12. n > 0 /\ n = Len(stack)  BY DEF n, IsStack
<1>13. CASE i = n + 1
  <2>1. stack'[i] = c /\ stack'[i - 1] = w  BY <1>11, <1>12, <1>13, SMT
  <2> QED  BY <1>8, <1>9, <1>13, <2>1
<1>14. CASE i = n
  <2>1. stack'[i] = w /\ (i > 1 => stack'[i - 1] = stack[i - 1])  BY <1>11, <1>12, <1>14, SMT
  <2> QED  BY <1>8, <1>10, <1>14, <2>1
<1>15. CASE i # n /\ i # n + 1
  <2>1. stack'[i] = stack[i] /\ (i > 1 => stack'[i - 1] = stack[i - 1]) /\ i \in 1 .. Len(stack)
    BY <1>11, <1>12, <1>15, SMT
  <2> QED  BY <2>1 DEF AliasInv
<1> QED  BY <1>13, <1>14, <1>15

\* A process ends, and the one that waits for it has the arguments, the notebook
\* and the alias it had.
LEMMA ExitInherits ==
  ASSUME IsStack(stack), AliasInv, AliasExit
  PROVE  AliasInv'
<1> DEFINE n == Len(stack) - 1
           p == [stack[n] EXCEPT !.pc = "exit", !.status = Top.status]
<1>1. n \in Nat /\ n > 0 /\ n \in 1 .. Len(stack)  BY SMT DEF AliasExit, IsStack
<1>2. SubSeq(stack, 1, n) = [i \in 1 .. n |-> stack[i]]
  BY <1>1, SMT DEF IsStack
<1>3. stack' = [i \in 1 .. n |-> IF i = n THEN p ELSE stack[i]]
  BY <1>1, <1>2 DEF AliasExit, IsStack, IsProcess, Attributes
<1>4. /\ stack[n].pc = "waiting" /\ p.pc = "exit" /\ p.args = stack[n].args
      /\ p.notebook = stack[n].notebook /\ p.alias = stack[n].alias
  <2>1. n < Len(stack) /\ IsProcess(stack[n])  BY <1>1, SMT DEF IsStack
  <2> QED  BY <1>1, <2>1 DEF IsStack, IsProcess, Attributes
<1> HIDE DEF p
<1>5. Len(stack') = n  BY <1>1, <1>3, SMT
<1>6. Sound(stack[n]) /\ (n > 1 => Inherits(start, n, stack[n - 1], stack[n]))  BY <1>1 DEF AliasInv
<1>7. Sound(p) /\ (n > 1 => Inherits(start, n, stack[n - 1], p))  BY <1>4, <1>6 DEF Sound, Inherits
<1> HIDE DEF n
<1> SUFFICES ASSUME NEW i \in 1 .. n
             PROVE  Sound(stack'[i]) /\ (i > 1 => Inherits(start, i, stack'[i - 1], stack'[i]))
  BY <1>5 DEF AliasInv, AliasExit
<1>8. CASE i = n
  <2>1. stack'[i] = p /\ (i > 1 => stack'[i - 1] = stack[i - 1])  BY <1>1, <1>3, <1>8, SMT
  <2> QED  BY <1>7, <1>8, <2>1
<1>9. CASE i # n
  <2>1. stack'[i] = stack[i] /\ (i > 1 => stack'[i - 1] = stack[i - 1]) /\ i \in 1 .. Len(stack)
    BY <1>1, <1>3, <1>9, SMT
  <2> QED  BY <2>1 DEF AliasInv
<1> QED  BY <1>8, <1>9

\* The first process has no other before it.
LEMMA InitAliasInv == Init => AliasInv
<1> SUFFICES ASSUME Init PROVE AliasInv
  OBVIOUS
<1> DEFINE p == Process(start.wd, start.args, start.envDir, None)
<1>1. start \in Starts /\ stack = <<p>>  BY DEF Init
<1>2. Sound(p)  BY <1>1, CommandRunAssumption DEF Sound, Process
<1> HIDE DEF p
<1>3. Len(stack) = 1 /\ stack[1] = p  BY <1>1, SMT
<1>4. \A i \in 1 .. 1 : i = 1 /\ ~(i > 1)  BY SMT
<1> QED  BY <1>1, <1>2, <1>3, <1>4 DEF AliasInv

\* Every step of the run keeps what the processes have from one another.
LEMMA NextKeepsAliasInv == IInv /\ AliasInv /\ [Next]_vars => AliasInv'
<1> SUFFICES ASSUME IInv, AliasInv, [Next]_vars PROVE AliasInv'
  OBVIOUS
<1>1. IsStack(stack) /\ IsProcess(Top)  BY SMT DEF IInv, StackInv, IsStack, Top
<1>2. ASSUME NEW p, stack' = SetTop(p), start' = start, Top.pc # "boot",
             \/ \E c \in {"index", "run", "working"} : p = [Top EXCEPT !.pc = c]
             \/ \E c : p = [Top EXCEPT !.pc = "exit", !.status = c]
      PROVE  AliasInv'
  <2>1. /\ p.pc \notin {"boot", "ready", "waiting"}
        /\ p.args = Top.args /\ p.notebook = Top.notebook /\ p.alias = Top.alias
    <3>1. ASSUME NEW c \in {"index", "run", "working"}, p = [Top EXCEPT !.pc = c]
          PROVE  p.pc = c /\ p.args = Top.args /\ p.notebook = Top.notebook /\ p.alias = Top.alias
      BY <1>1, <3>1 DEF IsProcess, Attributes
    <3>2. ASSUME NEW c, p = [Top EXCEPT !.pc = "exit", !.status = c]
          PROVE  p.pc = "exit" /\ p.args = Top.args /\ p.notebook = Top.notebook /\ p.alias = Top.alias
      BY <1>1, <3>2 DEF IsProcess, Attributes
    <3> QED  BY <1>2, <3>1, <3>2
  <2> QED  BY <1>1, <1>2, <2>1, TopGoesOn
<1>3. CASE LineStep
  <2>1. CASE Boot  BY <1>1, <2>1, BootInherits
  <2>2. CASE RunAlias  BY <1>1, <2>2, AliasInherits
  <2>3. CASE Parse  BY <1>2, <2>3 DEF Parse
  <2>4. CASE IndexFirst  BY <1>2, <2>4 DEF IndexFirst
  <2>5. CASE AliasExit  BY <1>1, <2>5, ExitInherits
  <2>6. CASE BootFails  BY <1>1, <2>6, BootFailsInherits
  <2> QED  BY <1>3, <2>1, <2>2, <2>3, <2>4, <2>5, <2>6 DEF LineStep
<1>4. CASE Begin  BY <1>2, <1>4 DEF Begin
<1>5. CASE End  BY <1>2, <1>5 DEF End
<1>6. CASE (Work /\ UNCHANGED lvars) \/ UNCHANGED vars
  BY <1>6 DEF vars, lvars, AliasInv
<1> QED  BY <1>3, <1>4, <1>5, <1>6 DEF Next

\* What is shown and opened is what the user chose, whenever fzf ends and
\* however its goroutine and main interleave (fzf.go:141, 197; edit.go:54).
THEOREM SelectionKeptTheorem == Spec => []SelectionKept
<1>1. IInv => SelectionKept  BY DEF IInv, WInv
<1> QED  BY <1>1, InitIInv, NextKeepsIInv, PTL DEF Spec

\* zk ends after its pager and, unless a line cannot be rendered, after fzf; a
\* pager that fails and the status of a command are seen by the caller, through
\* any number of aliases (pager.go:72, main.go:189).
THEOREM OrderlyEndTheorem == Spec => []OrderlyEnd
<1>1. IInv => OrderlyEnd
  <2> SUFFICES ASSUME IInv, pc = "exit"
               PROVE  /\ pager.proc \in {"off", "ended"} /\ (pager.exit = "error" => status = 1)
                      /\ fzf.proc \in {"off", "ended"} \/ job.failing = "line"
                      /\ Over => stack[1].status = status
    BY DEF OrderlyEnd
  <2>1. pager.proc \in {"off", "ended"} /\ (pager.exit = "error" => status = 1)
    BY DEF IInv, WInv, PagerInv
  <2>2. fzf.proc \in {"off", "ended"} \/ job.failing = "line"
    BY DEF IInv, WInv, FzfInv, IsChild
  <2>3. ASSUME Over PROVE stack[1].status = status
    <3>1. Len(stack) = 1  BY <2>3, SMT DEF IInv, StackInv, IsStack, Over
    <3> QED  BY <2>3, <3>1 DEF IInv, StackInv, Top, Over
  <2> QED  BY <2>1, <2>2, <2>3
<1> QED  BY <1>1, InitIInv, NextKeepsIInv, PTL DEF Spec

\* A zk started by an alias works in the notebook of the one that runs it, unless
\* its arguments name a directory: for any number of nested aliases, wherever
\* they are defined and whatever the working directory (main.go:180).
THEOREM AliasKeepsNotebookTheorem == Spec => []AliasKeepsNotebook
<1>1. IInv /\ AliasInv => AliasKeepsNotebook
  <2> SUFFICES ASSUME IInv, AliasInv, NEW i \in DOMAIN stack,
                      i > 1, i # start.noBoot, stack[i].pc # "boot", stack[i - 1].notebook # None,
                      LET given == Child(stack[i - 1], stack[i - 1].alias).args
                      IN  \A j \in DOMAIN given : ~NamesDirectory(given[j])
               PROVE  stack[i].notebook = stack[i - 1].notebook
    BY DEF AliasKeepsNotebook
  <2>1. i \in 1 .. Len(stack)
    <3>1. IsStack(stack)  BY DEF IInv, StackInv
    <3> QED  BY <3>1 DEF IsStack
  <2>2. Inherits(start, i, stack[i - 1], stack[i])  BY <2>1 DEF AliasInv
  <2>3. Child(stack[i - 1], stack[i - 1].alias).args = Given(start, stack[i - 1])
    BY DEF Child, Process, Given, Running, Known, Aliases
  <2> QED  BY <2>2, <2>3 DEF Inherits
<1> QED  BY <1>1, InitIInv, NextKeepsIInv, InitAliasInv, NextKeepsAliasInv, PTL DEF Spec

\* An alias is not run again by the commands it runs, in whatever notebooks and
\* through any number of other aliases, unless aliases call one another in a
\* circle: remembering the last one is enough for all other configurations
\* (main.go:176).
THEOREM AliasOnceTheorem == Spec => []AliasOnce
<1>1. IInv /\ AliasInv => AliasOnce
  <2> SUFFICES ASSUME IInv, AliasInv, NEW i \in DOMAIN stack, NEW j \in DOMAIN stack,
                      stack[i].alias # None, stack[i].alias = stack[j].alias, i # j
               PROVE  MutualAliases
    BY DEF AliasOnce
  <2>1. DOMAIN stack = 1 .. Len(stack) /\ Len(stack) \in Nat
    <3>1. IsStack(stack)  BY DEF IInv, StackInv
    <3> QED  BY <3>1 DEF IsStack
  <2>2. ASSUME NEW l \in 1 .. Len(stack), NEW h \in 1 .. Len(stack), l < h,
               stack[l].alias = stack[h].alias, stack[h].alias # None
        PROVE  MutualAliases
    <3> DEFINE X == {stack[m].alias : m \in l .. h - 1}
               a == start.aliases
    <3>1. ASSUME NEW m \in l .. h - 1
          PROVE  /\ stack[m].alias \in Names(a)
                 /\ stack[m + 1].alias \in Calls(a, stack[m].alias) \ {stack[m].alias}
                 /\ stack[m + 1].alias \in X
      <4>1. m \in 1 .. Len(stack) /\ m + 1 \in 1 .. Len(stack) /\ m + 1 > 1 /\ (m + 1) - 1 = m
        BY <2>1, <2>2, <3>1, SMT
      <4>2. Inherits(start, m + 1, stack[m], stack[m + 1])
        <5>1. Inherits(start, m + 1, stack[(m + 1) - 1], stack[m + 1])  BY <4>1 DEF AliasInv
        <5> QED  BY <4>1, <5>1
      <4>3. stack[m].alias \in Names(a)
        <5>1. /\ stack[m].notebook \in Notebooks \cup {None} /\ a \in DOMAIN AliasMaps
              /\ stack[m].notebook \in DOMAIN AliasMaps[a]
          BY <4>1, CommandRunAssumption DEF AliasInv, Sound
        <5>2. Known(start, stack[m]) \in Range(AliasMaps[a])  BY <5>1 DEF Known, Range
        <5> QED  BY <4>2, <5>2 DEF Inherits, Names
      <4>4. stack[m + 1].pc = "waiting" \/ stack[m + 1].alias # None
        <5>1. CASE m + 1 < Len(stack)
          BY <4>1, <5>1 DEF IInv, StackInv, IsStack
        <5>2. CASE ~(m + 1 < Len(stack))
          <6>1. m + 1 = h  BY <2>1, <2>2, <3>1, <5>2, SMT
          <6> QED  BY <2>2, <6>1
        <5> QED  BY <5>1, <5>2
      <4>5. stack[m + 1].alias \in X
        <5>1. CASE m + 1 = h
          <6>1. l \in l .. h - 1  BY <2>2, SMT
          <6> QED  BY <2>2, <5>1, <6>1
        <5>2. CASE m + 1 # h
          <6>1. m + 1 \in l .. h - 1  BY <2>2, <3>1, <5>2, SMT
          <6> QED  BY <6>1
        <5> QED  BY <5>1, <5>2
      <4> QED  BY <4>2, <4>3, <4>4, <4>5 DEF Inherits
    <3>2. X \in SUBSET Names(a) /\ X # {}
      <4>1. l \in l .. h - 1  BY <2>2, SMT
      <4> QED  BY <3>1, <4>1
    <3>3. \A x \in X : \E y \in X \ {x} : y \in Calls(a, x)  BY <3>1
    <3>4. a \in DOMAIN AliasMaps  BY CommandRunAssumption DEF AliasInv
    <3> HIDE DEF X, a
    <3>5. a \in Circular  BY <3>2, <3>3, <3>4 DEF Circular
    <3> QED  BY <3>5 DEF MutualAliases, a
  <2>3. i < j \/ j < i  BY <2>1, SMT
  <2> QED  BY <2>1, <2>2, <2>3
<1> QED  BY <1>1, InitIInv, NextKeepsIInv, InitAliasInv, NextKeepsAliasInv, PTL DEF Spec

-----------------------------------------------------------------------------
(* The first process.                                                      *)

Values(s) == [i \in DOMAIN s |-> s[i].value]

\* Parts of joined sequences.
LEMMA JoinedParts ==
  ASSUME NEW u, NEW r, IsSeq(u), IsSeq(r)
  PROVE  /\ SubSeq(u \o r, 1, Len(u)) = u
         /\ SubSeq(u \o r, Len(u) + 1, Len(u \o r)) = r
         /\ u \o <<>> = u /\ <<>> \o u = u
         /\ \A i \in 1 .. Len(r) : (u \o r)[Len(u) + i] = r[i]
<1>1. ASSUME NEW S, u \in Seq(S), r \in Seq(S)
      PROVE  /\ SubSeq(u \o r, 1, Len(u)) = u
             /\ SubSeq(u \o r, Len(u) + 1, Len(u \o r)) = r
             /\ u \o <<>> = u /\ <<>> \o u = u
             /\ \A i \in 1 .. Len(r) : (u \o r)[Len(u) + i] = r[i]
  <2>1. SubSeq(u \o r, 1, Len(u)) = u  BY <1>1, SMT
  <2>2. SubSeq(u \o r, Len(u) + 1, Len(u \o r)) = r  BY <1>1, SMT
  <2>3. u \o <<>> = u /\ <<>> \o u = u  BY <1>1, SMT
  <2>4. \A i \in 1 .. Len(r) : (u \o r)[Len(u) + i] = r[i]  BY <1>1, SMT
  <2> QED  BY <2>1, <2>2, <2>3, <2>4
<1> DEFINE S == {u[i] : i \in 1 .. Len(u)} \cup {r[i] : i \in 1 .. Len(r)}
<1>2. [i \in 1 .. Len(u) |-> u[i]] \in Seq(S)  BY SMT DEF IsSeq
<1>3. [i \in 1 .. Len(r) |-> r[i]] \in Seq(S)  BY SMT DEF IsSeq
<1>4. u \in Seq(S) /\ r \in Seq(S)  BY <1>2, <1>3 DEF IsSeq
<1> HIDE DEF S
<1> QED  BY <1>1, <1>4

\* Joining, as an operator the provers take as it is, and what it gives.
Join(u, r) == u \o r
Joined(s, u, r) ==
  /\ IsSeq(s) /\ Len(s) = Len(u) + Len(r)
  /\ \A i \in 1 .. Len(u) : s[i] = u[i]
  /\ \A i \in 1 .. Len(r) : s[Len(u) + i] = r[i]
  /\ SubSeq(s, 1, Len(u)) = u
  /\ SubSeq(s, Len(u) + 1, Len(s)) = r

\* The elements and the parts of joined sequences.
LEMMA JoinFacts ==
  ASSUME NEW u, NEW r, IsSeq(u), IsSeq(r)
  PROVE  Joined(Join(u, r), u, r) /\ Join(u, <<>>) = u /\ Join(<<>>, u) = u
<1>1. /\ IsSeq(u \o r) /\ Len(u \o r) = Len(u) + Len(r)
      /\ \A i \in 1 .. Len(u) : (u \o r)[i] = u[i]
  BY JoinedSeq
<1>2. /\ SubSeq(u \o r, 1, Len(u)) = u
      /\ SubSeq(u \o r, Len(u) + 1, Len(u \o r)) = r
      /\ u \o <<>> = u /\ <<>> \o u = u
      /\ \A i \in 1 .. Len(r) : (u \o r)[Len(u) + i] = r[i]
  BY JoinedParts
<1> QED  BY <1>1, <1>2 DEF Join, Joined

\* Joining is associative.
LEMMA Associative ==
  ASSUME NEW u, NEW r, NEW t, IsSeq(u), IsSeq(r), IsSeq(t)
  PROVE  Join(Join(u, r), t) = Join(u, Join(r, t))
<1>1. ASSUME NEW S, u \in Seq(S), r \in Seq(S), t \in Seq(S)
      PROVE  (u \o r) \o t = u \o (r \o t)
  BY <1>1, SMT
<1> DEFINE S == {u[i] : i \in 1 .. Len(u)} \cup {r[i] : i \in 1 .. Len(r)} \cup {t[i] : i \in 1 .. Len(t)}
<1>2. [i \in 1 .. Len(u) |-> u[i]] \in Seq(S)  BY SMT DEF IsSeq
<1>3. [i \in 1 .. Len(r) |-> r[i]] \in Seq(S)  BY SMT DEF IsSeq
<1>4. [i \in 1 .. Len(t) |-> t[i]] \in Seq(S)  BY SMT DEF IsSeq
<1>5. u \in Seq(S) /\ r \in Seq(S) /\ t \in Seq(S)  BY <1>2, <1>3, <1>4 DEF IsSeq
<1> HIDE DEF S
<1> QED  BY <1>1, <1>5 DEF Join

\* A sequence is what comes before and after any of its places.
Cut(s, i, j) == SubSeq(s, i + 1, j)
IsCut(s, i, j, l) ==
  /\ IsSeq(Cut(s, i, j)) /\ Cut(s, 0, Len(s)) = s
  /\ Join(Cut(s, i, j), Cut(s, j, l)) = Cut(s, i, l)

\* The parts between three places of a sequence, put together.
LEMMA CutSeq ==
  ASSUME NEW s, IsSeq(s), NEW i \in Nat, NEW j \in Nat, NEW l \in Nat, i <= j, j <= l, l <= Len(s)
  PROVE  IsCut(s, i, j, l)
<1>1. ASSUME NEW S, s \in Seq(S)
      PROVE  /\ SubSeq(s, i + 1, j) \in Seq(S) /\ SubSeq(s, 1, Len(s)) = s
             /\ SubSeq(s, i + 1, j) \o SubSeq(s, j + 1, l) = SubSeq(s, i + 1, l)
  <2>1. SubSeq(s, i + 1, j) \in Seq(S) /\ SubSeq(s, j + 1, l) \in Seq(S) /\ SubSeq(s, i + 1, l) \in Seq(S)
    BY <1>1, SMT
  <2>2. SubSeq(s, 1, Len(s)) = s  BY <1>1, SMT
  <2>3. SubSeq(s, i + 1, j) \o SubSeq(s, j + 1, l) = SubSeq(s, i + 1, l)  BY <1>1, SMT
  <2> QED  BY <2>1, <2>2, <2>3
<1>2. s \in Seq({s[n] : n \in 1 .. Len(s)})  BY OfItsElements
<1>3. 0 + 1 = 1  BY SMT
<1> QED  BY <1>1, <1>2, <1>3, SeqIsSeq DEF Join, Cut, IsCut

\* What comes before a part of a sequence and after it.
Between(s, u, n, r) ==
  /\ IsSeq(s) /\ Len(s) = Len(u) + Len(n) + Len(r)
  /\ \A i \in 1 .. Len(u) : s[i] = u[i]
  /\ \A i \in 1 .. Len(n) : s[Len(u) + i] = n[i]
  /\ SubSeq(s, 1, Len(u)) = u
  /\ SubSeq(s, Len(u) + Len(n) + 1, Len(s)) = r

\* A sequence made of three parts gives the first and the last back.
LEMMA PartTaken ==
  ASSUME NEW u, NEW n, NEW r, IsSeq(u), IsSeq(n), IsSeq(r)
  PROVE  Between(Join(Join(u, n), r), u, n, r)
<1> DEFINE un == Join(u, n)
           nr == Join(n, r)
           s == Join(un, r)
<1>1. Joined(un, u, n)  BY JoinFacts
<1>2. Joined(nr, n, r)  BY JoinFacts
<1>3. s = Join(u, nr)  BY Associative, SMT
<1> HIDE DEF nr, un
<1>4. IsSeq(nr) /\ IsSeq(un)  BY <1>1, <1>2 DEF Joined
<1>5. Joined(Join(u, nr), u, nr)  BY <1>4, JoinFacts
<1>6. Joined(s, un, r)  BY <1>4, JoinFacts
<1> HIDE DEF s
<1>7. Len(u) \in Nat /\ Len(n) \in Nat /\ Len(r) \in Nat /\ Len(un) = Len(u) + Len(n)
  BY <1>1 DEF IsSeq, Joined
<1>8. \A i \in 1 .. Len(u) : i \in 1 .. Len(un)  BY <1>7, SMT
<1>9. \A i \in 1 .. Len(n) : Len(u) + i \in 1 .. Len(un)  BY <1>7, SMT
<1>10. /\ IsSeq(s) /\ Len(s) = Len(u) + Len(n) + Len(r)
       /\ SubSeq(s, Len(u) + Len(n) + 1, Len(s)) = r
  BY <1>6, <1>7 DEF Joined
<1>11. /\ \A i \in 1 .. Len(u) : s[i] = u[i]
       /\ \A i \in 1 .. Len(n) : s[Len(u) + i] = n[i]
  BY <1>1, <1>6, <1>8, <1>9 DEF Joined
<1>12. SubSeq(s, 1, Len(u)) = u  BY <1>3, <1>5 DEF Joined
<1>13. Between(s, u, n, r)  BY <1>10, <1>11, <1>12 DEF Between
<1> QED  BY <1>13 DEF s, un

\* findFlag's result when it finds the flag at i.
TakenAt(f, s, i) ==
  LET value == IF s[i].eq THEN s[i].value ELSE IF i < Len(s) THEN s[i + 1].value ELSE Missing
      after == IF s[i].eq THEN i + 1 ELSE i + 2
  IN  /\ f.found = value /\ f.failed = (value = Missing)
      /\ f.args = SubSeq(s, 1, i - 1) \o SubSeq(s, after, Len(s))

\* findFlag finds the first occurrence: the one after a part without the flag.
LEMMA FlagAt ==
  ASSUME NEW names, NEW u, NEW n, NEW r, NEW s, IsSeq(u), IsSeq(n), IsSeq(r),
         Between(s, u, n, r), Len(n) > 0,
         \A i \in DOMAIN u : ~IsFlag(u[i], names), IsFlag(s[Len(u) + 1], names)
  PROVE  TakenAt(findFlag(names, s), s, Len(u) + 1)
<1>1. /\ IsSeq(s) /\ Len(s) = Len(u) + Len(n) + Len(r)
      /\ \A i \in 1 .. Len(u) : s[i] = u[i]
  BY DEF Between
<1>2. DOMAIN s = 1 .. Len(s) /\ DOMAIN u = 1 .. Len(u)
  BY <1>1, OfItsElements DEF IsSeq
<1>3. Len(u) \in Nat /\ Len(n) \in Nat /\ Len(r) \in Nat /\ Len(s) \in Nat  BY <1>1 DEF IsSeq
<1> DEFINE at == {i \in DOMAIN s : IsFlag(s[i], names)}
           i == CHOOSE j \in at : \A l \in at : j <= l
           value == IF s[i].eq THEN s[i].value ELSE IF i < Len(s) THEN s[i + 1].value ELSE Missing
           after == IF s[i].eq THEN i + 1 ELSE i + 2
           f == findFlag(names, s)
           k1 == Len(u) + 1
<1>4. k1 \in at
  <2>1. k1 \in 1 .. Len(s)  BY <1>1, <1>3, SMT
  <2> QED  BY <1>2, <2>1
<1>5. \A j \in at : k1 <= j /\ j \in Nat
  <2> SUFFICES ASSUME NEW j \in 1 .. Len(s), IsFlag(s[j], names) PROVE k1 <= j /\ j \in Nat
    BY <1>2
  <2>1. j \notin 1 .. Len(u)  BY <1>1, <1>2
  <2> QED  BY <1>3, <2>1, SMT
<1>6. at # {}  BY <1>4
<1>7. /\ f.found = value /\ f.failed = (value = Missing)
       /\ f.args = SubSeq(s, 1, i - 1) \o SubSeq(s, after, Len(s))
  <2>1. f.found = value  BY <1>6 DEF findFlag
  <2>2. f.failed = (value = Missing)  BY <1>6 DEF findFlag
  <2>3. f.args = SubSeq(s, 1, i - 1) \o SubSeq(s, after, Len(s))  BY <1>6 DEF findFlag
  <2> QED  BY <2>1, <2>2, <2>3
<1> HIDE DEF at
<1>8. i = k1
  <2>1. \A j \in at : (\A l \in at : j <= l) => j = k1
    <3> SUFFICES ASSUME NEW j \in at, \A l \in at : j <= l PROVE j = k1
      OBVIOUS
    <3>1. j <= k1 /\ k1 <= j /\ j \in Nat  BY <1>4, <1>5
    <3> QED  BY <1>3, <3>1, SMT
  <2> QED  BY <1>4, <1>5, <2>1
<1>9. TakenAt(f, s, i)  BY <1>7 DEF TakenAt
<1> HIDE DEF i, f
<1> QED  BY <1>8, <1>9 DEF f

\* findFlag takes out a flag in whatever spelling, and leaves the rest in order;
\* a flag without a value is an error.
LEMMA FlagTaken ==
  ASSUME NEW names, NEW u, NEW n, NEW r, NEW v, IsSeq(u), IsSeq(n), IsSeq(r),
         \A i \in DOMAIN u : ~IsFlag(u[i], names),
         IsSpelling(n, names, v, r), v # None, None # Missing
  PROVE  LET f == findFlag(names, Join(Join(u, n), r))
         IN  (v = Missing => f.failed) /\ (v # Missing => f.found = v /\ f.args = Join(u, r) /\ ~f.failed)
<1> DEFINE s == Join(Join(u, n), r)
           f == findFlag(names, s)
           i == Len(u) + 1
           value == IF s[i].eq THEN s[i].value ELSE IF i < Len(s) THEN s[i + 1].value ELSE Missing
           after == IF s[i].eq THEN i + 1 ELSE i + 2
<1>1. ASSUME NEW t, n[1] = t, IsFlag(t, names), Len(n) \in {1, 2}
      PROVE  /\ Between(s, u, n, r) /\ s[i] = t
             /\ f.found = value /\ f.failed = (value = Missing)
             /\ f.args = SubSeq(s, 1, i - 1) \o SubSeq(s, after, Len(s))
  <2>1. Between(s, u, n, r)  BY <1>1, PartTaken
  <2> HIDE DEF s
  <2>2. 1 \in 1 .. Len(n) /\ Len(n) > 0  BY <1>1, SMT
  <2>3. s[i] = t  BY <1>1, <2>1, <2>2 DEF Between
  <2>4. TakenAt(findFlag(names, s), s, i)  BY <1>1, <2>1, <2>2, <2>3, FlagAt
  <2> QED  BY <2>1, <2>3, <2>4 DEF TakenAt
<1>2. Len(u) \in Nat /\ Len(r) \in Nat  BY DEF IsSeq
<1> HIDE DEF s, f
<1>3. ASSUME NEW t, n[1] = t, Len(n) = 1, IsFlag(t, names), t.eq, t.value = v
      PROVE  f.found = v /\ f.args = Join(u, r) /\ f.failed = (v = Missing)
  <2>2. Between(s, u, n, r) /\ s[i] = t /\ value = v /\ after = i + 1  BY <1>1, <1>3
  <2>3. i - 1 = Len(u) /\ i + 1 = Len(u) + Len(n) + 1  BY <1>2, <1>3, SMT
  <2>4. SubSeq(s, 1, i - 1) = u /\ SubSeq(s, after, Len(s)) = r  BY <2>2, <2>3 DEF Between
  <2> HIDE DEF i, value, after
  <2> QED  BY <1>1, <1>3, <2>2, <2>4 DEF Join
<1>4. ASSUME NEW t, NEW x, n[1] = t, n[2] = x, Len(n) = 2, IsFlag(t, names), ~t.eq, x.value = v
      PROVE  f.found = v /\ f.args = Join(u, r) /\ f.failed = (v = Missing)
  <2>2. Between(s, u, n, r) /\ s[i] = t /\ after = i + 2  BY <1>1, <1>4
  <2>3. Len(s) = Len(u) + Len(n) + Len(r)  BY <2>2 DEF Between
  <2>4. /\ i - 1 = Len(u) /\ i + 2 = Len(u) + Len(n) + 1 /\ i < Len(s)
        /\ i + 1 = Len(u) + 2 /\ 2 \in 1 .. Len(n)
    BY <1>2, <1>4, <2>3, SMT
  <2>5. s[i + 1] = x  BY <1>4, <2>2, <2>4 DEF Between
  <2>6. value = v  BY <1>4, <2>2, <2>4, <2>5
  <2>7. SubSeq(s, 1, i - 1) = u /\ SubSeq(s, after, Len(s)) = r  BY <2>2, <2>4 DEF Between
  <2> HIDE DEF i, value, after
  <2> QED  BY <1>1, <1>4, <2>6, <2>7 DEF Join
<1>5. ASSUME NEW t, n[1] = t, Len(n) = 1, IsFlag(t, names), ~t.eq, r = <<>>
      PROVE  f.failed
  <2>2. Between(s, u, n, r) /\ s[i] = t  BY <1>1, <1>5
  <2>3. Len(s) = Len(u) + Len(n) + Len(r)  BY <2>2 DEF Between
  <2>4. Len(r) = 0  BY <1>5, SMT
  <2>5. ~(i < Len(s))  BY <1>2, <1>5, <2>3, <2>4, SMT
  <2>6. value = Missing  BY <1>5, <2>2, <2>5
  <2> HIDE DEF i, value, after
  <2> QED  BY <1>1, <1>5, <2>6
<1> QED  BY <1>3, <1>4, <1>5 DEF IsSpelling, f, s

\* No token is one of the flags.
NoFlag(s, names) == \A i \in DOMAIN s : ~IsFlag(s[i], names)

\* Joining adds no flag.
LEMMA JoinNoFlag ==
  ASSUME NEW names, NEW u, NEW r, IsSeq(u), IsSeq(r), NoFlag(u, names), NoFlag(r, names)
  PROVE  IsSeq(Join(u, r)) /\ NoFlag(Join(u, r), names)
<1> DEFINE s == Join(u, r)
<1>1. Joined(s, u, r)  BY JoinFacts
<1> HIDE DEF s
<1>2. IsSeq(s) /\ Len(s) = Len(u) + Len(r)  BY <1>1 DEF Joined
<1>3. DOMAIN s = 1 .. Len(s) /\ DOMAIN u = 1 .. Len(u) /\ DOMAIN r = 1 .. Len(r)
  BY <1>2, OfItsElements DEF IsSeq
<1>4. Len(u) \in Nat /\ Len(r) \in Nat  BY DEF IsSeq
<1>5. ASSUME NEW i \in 1 .. Len(s) PROVE ~IsFlag(s[i], names)
  <2>1. CASE i \in 1 .. Len(u)  BY <1>1, <1>3, <2>1 DEF Joined, NoFlag
  <2>2. CASE i \notin 1 .. Len(u)
    <3>1. PICK j \in 1 .. Len(r) : i = Len(u) + j
      <4>1. i - Len(u) \in 1 .. Len(r) /\ i = Len(u) + (i - Len(u))  BY <1>2, <1>4, <1>5, <2>2, SMT
      <4> QED  BY <4>1
    <3> QED  BY <1>1, <1>3, <3>1 DEF Joined, NoFlag
  <2> QED  BY <2>1, <2>2
<1> QED  BY <1>2, <1>3, <1>5 DEF NoFlag, s

\* Two flags that differ: neither occurs in a spelling of the other.
LEMMA OtherFlag ==
  ASSUME NEW names, NEW others, NEW s, NEW v, NEW rest, IsSeq(s), IsSpelling(s, names, v, rest),
         names \cap others = {}, \A t : IsFlag(t, others) => NamesDirectory(t)
  PROVE  NoFlag(s, others)
<1>1. \A t : IsFlag(t, names) => ~IsFlag(t, others)  BY DEF IsFlag
<1>2. DOMAIN s = 1 .. Len(s)  BY OfItsElements
<1>3. CASE s = <<>>
  <2>1. DOMAIN s = {}  BY <1>3, SMT
  <2> QED  BY <2>1 DEF NoFlag
<1>4. CASE Len(s) = 1 /\ IsFlag(s[1], names)
  <2>1. DOMAIN s = {1}  BY <1>2, <1>4, SMT
  <2> QED  BY <1>1, <1>4, <2>1 DEF NoFlag
<1>5. CASE Len(s) = 2 /\ IsFlag(s[1], names) /\ ~NamesDirectory(s[2])
  <2>1. DOMAIN s = {1, 2}  BY <1>2, <1>5, SMT
  <2> QED  BY <1>1, <1>5, <2>1 DEF NoFlag
<1> QED  BY <1>3, <1>4, <1>5 DEF IsSpelling

\* findFlag's result: the flag is taken out if it is there.
FlagResult(f, v, args) ==
  IF v = Missing THEN f.failed ELSE f.found = v /\ f.args = args /\ ~f.failed

\* findFlag (main.go:281) takes a flag given once out of the arguments.
LEMMA FlagRemoved ==
  ASSUME NEW names, NEW u, NEW n, NEW r, NEW v, IsSeq(u), IsSeq(n), IsSeq(r), NoFlag(u, names), NoFlag(r, names),
         IsSpelling(n, names, v, r)
  PROVE  FlagResult(findFlag(names, Join(Join(u, n), r)), v, Join(u, r))
<1>1. None # Missing  BY CommandRunAssumption
<1>2. CASE v # None  BY <1>1, <1>2, FlagTaken DEF FlagResult, NoFlag
<1>3. CASE v = None
  <2>1. n = <<>>  BY <1>3 DEF IsSpelling
  <2>2. Join(Join(u, n), r) = Join(u, r)
    <3>1. Join(u, <<>>) = u  BY JoinFacts
    <3> QED  BY <2>1, <3>1
  <2> DEFINE s == Join(u, r)
  <2>3. IsSeq(s) /\ NoFlag(s, names)  BY JoinNoFlag
  <2> HIDE DEF s
  <2>4. {i \in DOMAIN s : IsFlag(s[i], names)} = {}  BY <2>3 DEF NoFlag
  <2>5. LET f == findFlag(names, s) IN f.found = None /\ f.args = s /\ ~f.failed
    BY <2>4, SMT DEF findFlag
  <2> QED  BY <1>1, <1>3, <2>2, <2>5 DEF FlagResult, s
<1> QED  BY <1>2, <1>3

\* The flags for the directories are two flags.
LEMMA TwoFlags ==
  LET nb == {"--notebook-dir"} wd == {"--working-dir", "-W"}
  IN  /\ nb \cap wd = {} /\ wd \cap nb = {}
      /\ \A t : IsFlag(t, nb) => NamesDirectory(t)
      /\ \A t : IsFlag(t, wd) => NamesDirectory(t)
BY DEF IsFlag, NamesDirectory

\* parseDirs gives the directories as typed, and leaves the other arguments.
LEMMA DirsTyped ==
  ASSUME NEW s, IsSeq(s.args), AsTyped(s)
  PROVE  LET dirs == parseDirs(s.args)
         IN  IF Missing \in {s.typed.nb, s.typed.wd} THEN dirs.failed
             ELSE /\ ~dirs.failed
                  /\ dirs.notebookDir = s.typed.nb /\ dirs.workingDir = s.typed.wd
                  /\ Values(dirs.args) = s.typed.words
<1> DEFINE N == {"--notebook-dir"}
           W == {"--working-dir", "-W"}
           nb == findFlag(N, s.args)
           wd == findFlag(W, nb.args)
           dirs == parseDirs(s.args)
<1>1. /\ dirs.notebookDir = nb.found /\ dirs.workingDir = wd.found /\ dirs.args = wd.args
      /\ dirs.failed = (nb.failed \/ wd.failed)
  BY DEF parseDirs
<1>2. N \cap W = {} /\ W \cap N = {} /\ \A t : (IsFlag(t, N) => NamesDirectory(t)) /\ (IsFlag(t, W) => NamesDirectory(t))
  BY TwoFlags
<1>3. PICK u, v, w, n, d :
        /\ IsSeq(u) /\ IsSeq(v) /\ IsSeq(w) /\ IsSeq(n) /\ IsSeq(d)
        /\ Plain(u) /\ Plain(v) /\ Plain(w)
        /\ s.typed.words = Values(Join(u, Join(v, w)))
        /\ \/ /\ s.args = Join(Join(u, n), Join(v, Join(d, w)))
              /\ IsSpelling(n, N, s.typed.nb, Join(v, Join(d, w)))
              /\ IsSpelling(d, W, s.typed.wd, w)
           \/ /\ s.args = Join(Join(u, d), Join(v, Join(n, w)))
              /\ IsSpelling(n, N, s.typed.nb, w)
              /\ IsSpelling(d, W, s.typed.wd, Join(v, w))
  <2> DEFINE len == Len(s.args)
             part(i, j) == Cut(s.args, i, j)
  <2>1. PICK a, b, c, e \in 0 .. len :
          /\ a <= b /\ b <= c /\ c <= e
          /\ Plain(part(0, a)) /\ Plain(part(b, c)) /\ Plain(part(e, len))
          /\ \/ /\ IsSpelling(part(a, b), N, s.typed.nb, Join(part(b, c), Join(part(c, e), part(e, len))))
                /\ IsSpelling(part(c, e), W, s.typed.wd, part(e, len))
             \/ /\ IsSpelling(part(c, e), N, s.typed.nb, part(e, len))
                /\ IsSpelling(part(a, b), W, s.typed.wd, Join(part(b, c), part(e, len)))
          /\ s.typed.words = Values(Join(part(0, a), Join(part(b, c), part(e, len))))
    BY DEF AsTyped, Join, Values, Cut
  <2> HIDE DEF N, W
  <2>2. /\ a \in Nat /\ b \in Nat /\ c \in Nat /\ e \in Nat /\ len \in Nat /\ 0 \in Nat
        /\ 0 <= a /\ a <= len /\ b <= len /\ c <= len /\ e <= len /\ len <= len
        /\ 0 <= b /\ b <= e /\ a <= a
    <3>1. len \in Nat  BY DEF IsSeq
    <3> HIDE DEF len
    <3> QED  BY <2>1, <3>1, SMT
  <2>3. ASSUME NEW i \in Nat, NEW j \in Nat, NEW l \in Nat, i <= j, j <= l, l <= len
        PROVE  /\ IsSeq(part(i, j)) /\ part(0, len) = s.args
               /\ Join(part(i, j), part(j, l)) = part(i, l)
    <3>1. IsCut(s.args, i, j, l)  BY <2>3, CutSeq
    <3> QED  BY <3>1 DEF IsCut
  <2>5. part(0, len) = s.args  BY <2>2, <2>3
  <2> HIDE DEF part, len
  <2>6. IsSeq(part(0, a)) /\ IsSeq(part(a, b)) /\ IsSeq(part(b, c)) /\ IsSeq(part(c, e)) /\ IsSeq(part(e, len))
    BY <2>1, <2>2, <2>3
  <2>7. s.args = Join(Join(part(0, a), part(a, b)), Join(part(b, c), Join(part(c, e), part(e, len))))
    <3>1. Join(part(0, a), part(a, b)) = part(0, b)  BY <2>1, <2>2, <2>3
    <3>2. Join(part(c, e), part(e, len)) = part(c, len)  BY <2>1, <2>2, <2>3
    <3>3. Join(part(b, c), part(c, len)) = part(b, len)  BY <2>1, <2>2, <2>3
    <3>4. Join(part(0, b), part(b, len)) = part(0, len)  BY <2>1, <2>2, <2>3
    <3> QED  BY <2>5, <3>1, <3>2, <3>3, <3>4
  <2> QED  BY <2>1, <2>6, <2>7
<1> HIDE DEF N, W, dirs
<1>4. \A x : Plain(x) => NoFlag(x, N) /\ NoFlag(x, W)  BY <1>2 DEF Plain, NoFlag
<1>5. /\ IsSeq(u) /\ IsSeq(v) /\ IsSeq(w) /\ IsSeq(n) /\ IsSeq(d)
      /\ NoFlag(n, W) /\ NoFlag(d, N)
  BY <1>2, <1>3, OtherFlag
<1> DEFINE rest == Join(u, Join(v, w))
<1>6. Join(Join(u, v), w) = rest  BY <1>5, Associative, SMT
<1>7. IsSeq(Join(u, v)) /\ NoFlag(Join(u, v), W)  BY <1>3, <1>4, JoinNoFlag
<1>8. IsSeq(Join(v, w)) /\ NoFlag(Join(v, w), W)  BY <1>3, <1>4, JoinNoFlag
<1>9. ASSUME s.args = Join(Join(u, n), Join(v, Join(d, w))),
             IsSpelling(n, N, s.typed.nb, Join(v, Join(d, w))), IsSpelling(d, W, s.typed.wd, w)
      PROVE  FlagResult(nb, s.typed.nb, nb.args) /\ (s.typed.nb # Missing => FlagResult(wd, s.typed.wd, rest))
  <2> DEFINE dw == Join(d, w)
             vdw == Join(v, dw)
  <2>1. IsSeq(dw) /\ NoFlag(dw, N)  BY <1>3, <1>4, <1>5, JoinNoFlag
  <2> HIDE DEF dw
  <2>2. IsSeq(vdw) /\ NoFlag(vdw, N)  BY <1>3, <1>4, <2>1, JoinNoFlag
  <2> HIDE DEF vdw
  <2>3. s.args = Join(Join(u, n), vdw) /\ IsSpelling(n, N, s.typed.nb, vdw)  BY <1>9 DEF vdw, dw
  <2>4. FlagResult(nb, s.typed.nb, Join(u, vdw))  BY <1>3, <1>4, <2>2, <2>3, FlagRemoved
  <2>5. Join(Join(Join(u, v), d), w) = Join(u, vdw)
    <3>1. Join(Join(u, v), dw) = Join(u, vdw)  BY <1>5, <2>1, Associative, SMT DEF vdw
    <3>2. Join(Join(Join(u, v), d), w) = Join(Join(u, v), dw)  BY <1>5, <1>7, Associative, SMT DEF dw
    <3> QED  BY <3>1, <3>2
  <2>6. FlagResult(findFlag(W, Join(Join(Join(u, v), d), w)), s.typed.wd, Join(Join(u, v), w))
    BY <1>3, <1>4, <1>7, <1>9, FlagRemoved
  <2> HIDE DEF nb, rest
  <2>7. s.typed.nb # Missing => nb.args = Join(u, vdw)  BY <2>4 DEF FlagResult
  <2> QED  BY <1>6, <2>4, <2>5, <2>6, <2>7 DEF FlagResult
<1>10. ASSUME s.args = Join(Join(u, d), Join(v, Join(n, w))),
              IsSpelling(n, N, s.typed.nb, w), IsSpelling(d, W, s.typed.wd, Join(v, w))
       PROVE  FlagResult(nb, s.typed.nb, nb.args) /\ (s.typed.nb # Missing => FlagResult(wd, s.typed.wd, rest))
  <2> DEFINE ud == Join(u, d)
             udv == Join(ud, v)
  <2>1. IsSeq(ud) /\ NoFlag(ud, N)  BY <1>3, <1>4, <1>5, JoinNoFlag
  <2>2. FlagResult(findFlag(W, Join(ud, Join(v, w))), s.typed.wd, rest)
    BY <1>3, <1>4, <1>8, <1>10, FlagRemoved
  <2> HIDE DEF ud
  <2>3. IsSeq(udv) /\ NoFlag(udv, N)  BY <1>3, <1>4, <2>1, JoinNoFlag
  <2>4. Join(Join(udv, n), w) = s.args
    <3>1. Join(udv, Join(n, w)) = Join(ud, Join(v, Join(n, w)))
      <4>1. IsSeq(Join(n, w))  BY <1>5, JoinFacts DEF Joined
      <4> QED  BY <1>5, <2>1, <4>1, Associative, SMT
    <3> HIDE DEF udv
    <3>2. Join(Join(udv, n), w) = Join(udv, Join(n, w))  BY <1>5, <2>3, Associative, SMT
    <3> QED  BY <1>10, <3>1, <3>2 DEF ud
  <2>5. Join(udv, w) = Join(ud, Join(v, w))  BY <1>5, <2>1, Associative, SMT
  <2> HIDE DEF udv
  <2>6. FlagResult(findFlag(N, Join(Join(udv, n), w)), s.typed.nb, Join(udv, w))
    BY <1>3, <1>4, <1>10, <2>3, FlagRemoved
  <2>7. FlagResult(nb, s.typed.nb, Join(udv, w))  BY <2>4, <2>6
  <2> HIDE DEF nb, rest
  <2>8. s.typed.nb # Missing => nb.args = Join(ud, Join(v, w))  BY <2>5, <2>7 DEF FlagResult
  <2> QED  BY <2>2, <2>7, <2>8 DEF FlagResult
<1>11. FlagResult(nb, s.typed.nb, nb.args) /\ (s.typed.nb # Missing => FlagResult(wd, s.typed.wd, rest))
  BY <1>3, <1>9, <1>10
<1> HIDE DEF nb, wd
<1>12. s.typed.words = Values(rest)  BY <1>3
<1> HIDE DEF rest
<1> QED  BY <1>1, <1>11, <1>12 DEF FlagResult, dirs

\* The notebook that the start s asks for.
Fallback(s) == IF s.envDir = None THEN s.defaultDir ELSE s.envDir
Working(s) == IF s.typed.wd = None THEN s.wd ELSE s.typed.wd
Wanted(s) ==
  IF s.typed.nb # None THEN LocateNotebook(s.typed.nb)
  ELSE IF Around(Working(s)) # {} THEN LocateNotebook(Working(s))
  ELSE IF Fallback(s) = None THEN None ELSE LocateNotebook(Fallback(s))

\* The first process is as it was started, or it has settled on its notebook and
\* its arguments.
InNotebook(p, nb) == p.notebook = nb \/ (nb \in Broken /\ p.pc = "exit" /\ p.status = 1)
Settled(s, p) ==
  /\ p.pc # "boot"
  /\ IF Missing \in {s.typed.nb, s.typed.wd} \/ s.noBoot = 1 THEN p.pc = "exit" /\ p.status = 1 /\ p.notebook = None
     ELSE InNotebook(p, Wanted(s)) /\ Values(p.args) = s.typed.words
AsStarted(s, p) ==
  /\ p.pc = "boot" /\ p.wd = s.wd /\ p.args = s.args /\ p.envDir = s.envDir /\ p.notebook = None
FirstInv == AsStarted(start, stack[1]) \/ Settled(start, stack[1])

\* SetCurrentNotebook leaves all but the outcome of the search.
LEMMA SearchEnds ==
  ASSUME NEW q, IsProcess(q), q.notebook = None, NEW p, NEW nb, NEW wd,
         \/ p = [q EXCEPT !.pc = "ready"] /\ nb = None
         \/ p = [q EXCEPT !.pc = "exit", !.status = 1] /\ nb \in Broken
         \/ p = [q EXCEPT !.pc = "ready", !.notebook = nb, !.envDir = nb, !.workingDir = wd]
  PROVE  IsProcess(p) /\ p.pc # "boot" /\ p.args = q.args /\ InNotebook(p, nb)
<1>1. ASSUME p = [q EXCEPT !.pc = "ready"]
      PROVE  IsProcess(p) /\ p.pc = "ready" /\ p.args = q.args /\ p.notebook = None
  BY <1>1 DEF IsProcess, Attributes
<1>2. ASSUME p = [q EXCEPT !.pc = "exit", !.status = 1]
      PROVE  IsProcess(p) /\ p.pc = "exit" /\ p.status = 1 /\ p.args = q.args
  BY <1>2 DEF IsProcess, Attributes
<1>3. ASSUME p = [q EXCEPT !.pc = "ready", !.notebook = nb, !.envDir = nb, !.workingDir = wd]
      PROVE  IsProcess(p) /\ p.pc = "ready" /\ p.args = q.args /\ p.notebook = nb
  BY <1>3 DEF IsProcess, Attributes
<1> QED  BY <1>1, <1>2, <1>3 DEF InNotebook

\* The search finds nothing.
LEMMA FoundNone ==
  ASSUME NEW q, IsProcess(q), q.notebook = None, NEW searched,
         \A i \in DOMAIN searched : LocateNotebook(searched[i].notebook) = None
  PROVE  LET p == SetCurrentNotebook(q, searched)
         IN  IsProcess(p) /\ p.pc # "boot" /\ p.args = q.args /\ InNotebook(p, None)
<1>1. {i \in DOMAIN searched : LocateNotebook(searched[i].notebook) # None} = {}  OBVIOUS
<1>2. SetCurrentNotebook(q, searched) = [q EXCEPT !.pc = "ready"]  BY <1>1 DEF SetCurrentNotebook
<1> QED  BY <1>2, SearchEnds

\* The search finds the notebook around the first directory that has one.
LEMMA FoundFirst ==
  ASSUME NEW q, IsProcess(q), q.notebook = None, NEW searched, DOMAIN searched \subseteq Nat,
         NEW i \in DOMAIN searched, NEW nb, nb # None, nb = LocateNotebook(searched[i].notebook),
         \A l \in DOMAIN searched : l < i => LocateNotebook(searched[l].notebook) = None
  PROVE  LET p == SetCurrentNotebook(q, searched)
         IN  IsProcess(p) /\ p.pc # "boot" /\ p.args = q.args /\ InNotebook(p, nb)
<1> DEFINE hits == {l \in DOMAIN searched : LocateNotebook(searched[l].notebook) # None}
           at == CHOOSE j \in hits : \A l \in hits : j <= l
           p == SetCurrentNotebook(q, searched)
<1>1. i \in hits /\ hits \subseteq Nat /\ \A l \in hits : ~(l < i)  OBVIOUS
<1>2. at = i
  <2> HIDE DEF hits
  <2>1. \A l \in hits : i <= l  BY <1>1, SMT
  <2>2. \A j \in hits : (\A l \in hits : j <= l) => j = i  BY <1>1, SMT
  <2> QED  BY <1>1, <2>1, <2>2
<1>3. hits # {}  BY <1>1
<1>4. IF nb \in Broken THEN p = [q EXCEPT !.pc = "exit", !.status = 1]
      ELSE p = [q EXCEPT !.pc = "ready", !.notebook = nb, !.envDir = nb, !.workingDir = searched[i].working]
  BY <1>2, <1>3 DEF SetCurrentNotebook
<1> HIDE DEF p
<1>5. IsProcess(p) /\ p.pc # "boot" /\ p.args = q.args /\ InNotebook(p, nb)
  <2>1. CASE nb \in Broken  BY <1>4, <2>1, SearchEnds
  <2>2. CASE nb \notin Broken
    <3>1. PICK wd : p = [q EXCEPT !.pc = "ready", !.notebook = nb, !.envDir = nb, !.workingDir = wd]
      BY <1>4, <2>2
    <3> QED  BY <3>1, SearchEnds
  <2> QED  BY <2>1, <2>2
<1> QED  BY <1>5 DEF p

\* One directory is searched.
LEMMA SearchedAlone ==
  ASSUME NEW q, IsProcess(q), q.notebook = None, NEW searched, NEW dir,
         DOMAIN searched = {1}, searched[1].notebook = dir
  PROVE  LET p == SetCurrentNotebook(q, searched)
         IN  IsProcess(p) /\ p.pc # "boot" /\ p.args = q.args /\ InNotebook(p, LocateNotebook(dir))
<1>1. 1 \in DOMAIN searched /\ DOMAIN searched \subseteq Nat /\ \A l \in DOMAIN searched : ~(l < 1)  BY SMT
<1>2. CASE LocateNotebook(dir) = None  BY <1>2, FoundNone
<1>3. CASE LocateNotebook(dir) # None  BY <1>1, <1>3, FoundFirst
<1> QED  BY <1>2, <1>3

\* The first process boots: with the directories as typed, the search finds the
\* notebook that is wanted.
LEMMA BootSettles ==
  ASSUME start \in Starts, IsProcess(Top), AsStarted(start, Top), Len(stack) = 1, Boot
  PROVE  start' = start /\ \E p : IsProcess(p) /\ stack' = SetTop(p) /\ Settled(start, p)
<1> DEFINE e == Environment(Top)
           dirs == parseDirs(e.args)
           searched == notebookSearchDirs(dirs, e)
           q == [e EXCEPT !.args = dirs.args]
           typed == start.typed
<1>1. IsProcess(e) /\ e.args = start.args /\ e.notebook = None /\ e.wd = start.wd /\ e.envDir = Fallback(start)
  BY DEF Environment, IsProcess, Attributes, AsStarted, Fallback
<1>2. /\ start' = start
      /\ IF dirs.failed THEN stack' = SetTop([e EXCEPT !.pc = "exit", !.status = 1])
         ELSE stack' = SetTop(SetCurrentNotebook(q, searched))
      /\ start.noBoot # 1
  BY DEF Boot
<1> HIDE DEF e
<1>3. IF Missing \in {typed.nb, typed.wd} THEN dirs.failed
      ELSE /\ ~dirs.failed /\ dirs.notebookDir = typed.nb /\ dirs.workingDir = typed.wd
           /\ Values(dirs.args) = typed.words
  BY <1>1, DirsTyped, CommandRunAssumption, TypedAssumption
<1> HIDE DEF dirs
<1>4. IsProcess(q) /\ q.args = dirs.args /\ q.notebook = None  BY <1>1 DEF IsProcess, Attributes
<1> HIDE DEF q
<1>5. CASE Missing \in {typed.nb, typed.wd}
  <2> DEFINE p == [e EXCEPT !.pc = "exit", !.status = 1]
  <2>1. IsProcess(p) /\ p.pc = "exit" /\ p.status = 1 /\ p.notebook = None  BY <1>1 DEF IsProcess, Attributes
  <2>2. stack' = SetTop(p)  BY <1>2, <1>3, <1>5
  <2> HIDE DEF p
  <2> QED  BY <1>2, <1>5, <2>1, <2>2 DEF Settled
<1>6. CASE Missing \notin {typed.nb, typed.wd}
  <2> DEFINE p == SetCurrentNotebook(q, searched)
             wd == Working(start)
  <2> SUFFICES IsProcess(p) /\ p.pc # "boot" /\ p.args = q.args /\ InNotebook(p, Wanted(start))
    BY <1>2, <1>3, <1>4, <1>6 DEF Settled
  <2>1. CASE typed.nb # None
    <3>1. searched = <<[notebook |-> typed.nb, working |-> wd]>>
      BY <1>1, <1>3, <1>6, <2>1 DEF notebookSearchDirs, Working
    <3> HIDE DEF searched
    <3>2. DOMAIN searched = {1} /\ searched[1].notebook = typed.nb  BY <3>1, SMT
    <3>3. Wanted(start) = LocateNotebook(typed.nb)  BY <2>1 DEF Wanted
    <3> QED  BY <1>4, <3>2, <3>3, SearchedAlone
  <2>2. CASE typed.nb = None
    <3>1. LET first == <<[notebook |-> wd, working |-> wd]>>
          IN  IF Fallback(start) = None THEN searched = first \o <<>>
              ELSE \E x : searched = first \o <<[notebook |-> Fallback(start), working |-> x]>>
      BY <1>1, <1>3, <1>6, <2>2 DEF notebookSearchDirs, Working
    <3> HIDE DEF searched, wd
    <3>2. CASE Fallback(start) = None
      <4>1. DOMAIN searched = {1} /\ searched[1].notebook = wd  BY <3>1, <3>2, SMT
      <4>2. Wanted(start) = LocateNotebook(wd)  BY <2>2, <3>2, NotebookLocated DEF Wanted, wd
      <4> QED  BY <1>4, <4>1, <4>2, SearchedAlone
    <3>3. CASE Fallback(start) # None
      <4>1. DOMAIN searched = {1, 2} /\ searched[1].notebook = wd /\ searched[2].notebook = Fallback(start)
        <5>1. PICK x : searched = <<[notebook |-> wd, working |-> wd]>>
                                  \o <<[notebook |-> Fallback(start), working |-> x]>>
          BY <3>1, <3>3
        <5> QED  BY <5>1, SMT
      <4>2. CASE LocateNotebook(wd) # None
        <5>1. Wanted(start) = LocateNotebook(wd)  BY <2>2, <4>2, NotebookLocated DEF Wanted, wd
        <5>2. 1 \in DOMAIN searched /\ DOMAIN searched \subseteq Nat /\ \A l \in DOMAIN searched : ~(l < 1)
          BY <4>1, SMT
        <5> QED  BY <1>4, <4>1, <4>2, <5>1, <5>2, FoundFirst
      <4>3. CASE LocateNotebook(wd) = None
        <5>1. Wanted(start) = LocateNotebook(Fallback(start))
          BY <2>2, <3>3, <4>3, NotebookLocated DEF Wanted, wd
        <5>2. CASE Wanted(start) = None  BY <1>4, <4>1, <4>3, <5>1, <5>2, FoundNone
        <5>3. CASE Wanted(start) # None
          <6>1. 2 \in DOMAIN searched /\ DOMAIN searched \subseteq Nat /\ \A l \in DOMAIN searched : l < 2 => l = 1
            BY <4>1, SMT
          <6> QED  BY <1>4, <4>1, <4>3, <5>1, <5>3, <6>1, FoundFirst
        <5> QED  BY <5>2, <5>3
      <4> QED  BY <4>2, <4>3
    <3> QED  BY <3>2, <3>3
  <2> QED  BY <2>1, <2>2
<1> QED  BY <1>5, <1>6

\* A step of the last process keeps the first one settled.
LEMMA TopSettled ==
  ASSUME IsStack(stack), FirstInv, NEW p, stack' = SetTop(p), start' = start, Top.pc \notin {"boot", "exit"},
         p.pc # "boot", p.args = Top.args, p.notebook = Top.notebook
  PROVE  FirstInv'
<1>1. stack' = [i \in 1 .. Len(stack) |-> IF i = Len(stack) THEN p ELSE stack[i]]
  BY DEF SetTop, IsStack
<1>2. 1 \in 1 .. Len(stack)  BY SMT DEF IsStack
<1>3. CASE Len(stack) = 1
  <2>1. stack'[1] = p /\ stack[1] = Top  BY <1>1, <1>2, <1>3 DEF Top
  <2>2. Settled(start, Top)  BY <2>1 DEF FirstInv, AsStarted
  <2>3. Settled(start, p)  BY <2>2 DEF Settled, InNotebook
  <2> QED  BY <2>1, <2>3 DEF FirstInv
<1>4. CASE Len(stack) # 1
  <2>1. stack'[1] = stack[1]  BY <1>1, <1>2, <1>4
  <2> QED  BY <2>1 DEF FirstInv
<1> QED  BY <1>3, <1>4

\* Every step of the run keeps it.
LEMMA NextKeepsFirstInv ==
  ASSUME IInv, AliasInv, FirstInv, [Next]_vars
  PROVE  FirstInv'
<1>1. IsStack(stack) /\ IsProcess(Top)  BY SMT DEF IInv, StackInv, IsStack, Top
<1>2. ASSUME NEW p, stack' = SetTop(p), start' = start, Top.pc \notin {"boot", "exit"},
             \/ \E c \in {"index", "run", "working"} : p = [Top EXCEPT !.pc = c]
             \/ \E c : p = [Top EXCEPT !.pc = "exit", !.status = c]
      PROVE  FirstInv'
  <2>1. p.pc # "boot" /\ p.args = Top.args /\ p.notebook = Top.notebook
    <3>1. ASSUME NEW c \in {"index", "run", "working"}, p = [Top EXCEPT !.pc = c]
          PROVE  p.pc = c /\ p.args = Top.args /\ p.notebook = Top.notebook
      BY <1>1, <3>1 DEF IsProcess, Attributes
    <3>2. ASSUME NEW c, p = [Top EXCEPT !.pc = "exit", !.status = c]
          PROVE  p.pc = "exit" /\ p.args = Top.args /\ p.notebook = Top.notebook
      BY <1>1, <3>2 DEF IsProcess, Attributes
    <3> QED  BY <1>2, <3>1, <3>2
  <2> QED  BY <1>1, <1>2, <2>1, TopSettled
<1>3. CASE Boot
  <2>1. CASE Len(stack) = 1
    <3>1. Top = stack[1] /\ Top.pc = "boot"  BY <1>3, <2>1 DEF Top, Boot
    <3>2. AsStarted(start, Top) /\ start \in Starts  BY <3>1 DEF FirstInv, Settled, AliasInv
    <3>3. PICK p : IsProcess(p) /\ stack' = SetTop(p) /\ Settled(start, p)  BY <1>1, <1>3, <2>1, <3>2, BootSettles
    <3>4. stack'[1] = p  BY <1>1, <2>1, <3>3, TopReplaced
    <3> QED  BY <1>3, <3>3, <3>4 DEF FirstInv, Boot
  <2>2. CASE Len(stack) # 1
    <3>1. PICK p : stack' = SetTop(p)  BY <1>1, <1>3, BootEnds
    <3>2. stack'[1] = stack[1]
      <4>1. stack' = [i \in 1 .. Len(stack) |-> IF i = Len(stack) THEN p ELSE stack[i]]
        BY <1>1, <3>1 DEF SetTop, IsStack
      <4>2. 1 \in 1 .. Len(stack)  BY <1>1, SMT DEF IsStack
      <4> QED  BY <2>2, <4>1, <4>2
    <3> QED  BY <1>3, <3>2 DEF FirstInv, Boot
  <2> QED  BY <2>1, <2>2
<1>4. CASE RunAlias
  <2> DEFINE name == Top.args[1].value
             w == [Top EXCEPT !.pc = "waiting", !.alias = name, !.envAlias = name]
             c == Child(Top, name)
             t == SetTop(w)
  <2>1. stack' = Append(t, c) /\ start' = start /\ Top.pc = "ready"  BY <1>4 DEF RunAlias
  <2>2. w.pc = "waiting" /\ w.args = Top.args /\ w.notebook = Top.notebook /\ IsProcess(w)
    BY <1>1 DEF IsProcess, Attributes
  <2> HIDE DEF w, c
  <2>3. t = [i \in 1 .. Len(stack) |-> IF i = Len(stack) THEN w ELSE stack[i]]
    BY <1>1 DEF SetTop, IsStack
  <2>4. IsStack(t) /\ Len(t) = Len(stack)  BY <1>1, <2>2, TopReplaced
  <2> HIDE DEF t
  <2>5. stack'[1] = t[1]
    <3>1. IsSeq(t) /\ Len(t) > 0  BY <2>4 DEF IsStack, IsSeq
    <3>2. 1 \in 1 .. Len(t)  BY <3>1, SMT DEF IsSeq
    <3>3. Longer(Append(t, c), t, c)  BY <3>1, AppendedSeq
    <3> QED  BY <2>1, <3>2, <3>3 DEF Longer
  <2>6. 1 \in 1 .. Len(stack)  BY <1>1, SMT DEF IsStack
  <2>7. CASE Len(stack) = 1
    <3>1. stack'[1] = w /\ stack[1] = Top  BY <2>3, <2>5, <2>6, <2>7 DEF Top
    <3>2. Settled(start, Top)  BY <2>1, <3>1 DEF FirstInv, AsStarted
    <3>3. Settled(start, w)  BY <2>1, <2>2, <3>2 DEF Settled, InNotebook
    <3> QED  BY <2>1, <3>1, <3>3 DEF FirstInv
  <2>8. CASE Len(stack) # 1
    <3>1. stack'[1] = stack[1]  BY <2>3, <2>5, <2>6, <2>8
    <3> QED  BY <2>1, <3>1 DEF FirstInv
  <2> QED  BY <2>7, <2>8
<1>5. CASE Parse  BY <1>2, <1>5 DEF Parse
<1>6. CASE IndexFirst  BY <1>2, <1>6 DEF IndexFirst
<1>7. CASE AliasExit
  <2> DEFINE n == Len(stack) - 1
             p == [stack[n] EXCEPT !.pc = "exit", !.status = Top.status]
  <2>1. n \in Nat /\ n > 0 /\ n \in 1 .. Len(stack) /\ n < Len(stack) /\ 1 \in 1 .. n
    BY <1>1, <1>7, SMT DEF AliasExit, IsStack
  <2>2. SubSeq(stack, 1, n) = [i \in 1 .. n |-> stack[i]]  BY <1>1, <2>1, SMT DEF IsStack
  <2>3. stack' = [i \in 1 .. n |-> IF i = n THEN p ELSE stack[i]]
    BY <1>1, <1>7, <2>1, <2>2 DEF AliasExit, IsStack, IsProcess, Attributes
  <2>4. /\ stack[n].pc = "waiting" /\ p.pc = "exit" /\ p.args = stack[n].args /\ p.notebook = stack[n].notebook
    BY <1>1, <2>1 DEF IsStack, IsProcess, Attributes
  <2> HIDE DEF p
  <2>5. CASE n = 1
    <3>1. stack'[1] = p /\ Settled(start, stack[1])  BY <2>1, <2>3, <2>4, <2>5 DEF FirstInv, AsStarted
    <3>2. Settled(start, p)  BY <2>4, <2>5, <3>1 DEF Settled, InNotebook
    <3> QED  BY <1>7, <3>1, <3>2 DEF FirstInv, AliasExit
  <2>6. CASE n # 1
    <3>1. stack'[1] = stack[1]  BY <2>1, <2>3, <2>6
    <3> QED  BY <1>7, <3>1 DEF FirstInv, AliasExit
  <2> QED  BY <2>5, <2>6
<1>8. CASE Begin  BY <1>2, <1>8 DEF Begin
<1>9. CASE End  BY <1>2, <1>9 DEF End
<1>10. CASE (Work /\ UNCHANGED lvars) \/ UNCHANGED vars  BY <1>10 DEF vars, lvars, FirstInv
<1>11. CASE BootFails
  <2> DEFINE p == [Top EXCEPT !.pc = "exit", !.status = 1]
  <2>1. stack' = SetTop(p) /\ start' = start /\ Top.pc = "boot" /\ Len(stack) = start.noBoot  BY <1>11 DEF BootFails
  <2>2. IsProcess(p) /\ p.pc = "exit" /\ p.status = 1 /\ p.notebook = Top.notebook  BY <1>1 DEF IsProcess, Attributes
  <2> HIDE DEF p
  <2>3. stack' = [i \in 1 .. Len(stack) |-> IF i = Len(stack) THEN p ELSE stack[i]]
    BY <1>1, <2>1 DEF SetTop, IsStack
  <2>4. 1 \in 1 .. Len(stack)  BY <1>1, SMT DEF IsStack
  <2>5. CASE Len(stack) = 1
    <3>1. stack'[1] = p /\ stack[1] = Top  BY <2>3, <2>4, <2>5 DEF Top
    <3>2. Top.notebook = None  BY <2>1, <3>1 DEF FirstInv, AsStarted, Settled
    <3>3. Settled(start, p)  BY <2>1, <2>2, <2>5, <3>2 DEF Settled
    <3> QED  BY <2>1, <3>1, <3>3 DEF FirstInv
  <2>6. CASE Len(stack) # 1
    <3>1. stack'[1] = stack[1]  BY <2>3, <2>4, <2>6
    <3> QED  BY <2>1, <3>1 DEF FirstInv
  <2> QED  BY <2>5, <2>6
<1> QED  BY <1>3, <1>4, <1>5, <1>6, <1>7, <1>8, <1>9, <1>10, <1>11 DEF Next, LineStep

\* Whatever is typed, a run works in the notebook that the flags, the working
\* directory, the environment and the global configuration designate in this
\* order, and passes on the other arguments; a flag without its value ends it
\* (main.go:203, 281; container.go:188).
THEOREM RightNotebookTheorem == Spec => []RightNotebook
<1>1. Init => FirstInv
  <2> SUFFICES ASSUME Init PROVE FirstInv
    OBVIOUS
  <2> DEFINE p == Process(start.wd, start.args, start.envDir, None)
  <2>1. AsStarted(start, p)  BY DEF AsStarted, Process
  <2>2. stack = <<p>>  BY DEF Init
  <2> HIDE DEF p
  <2>3. stack[1] = p  BY <2>2, SMT
  <2> QED  BY <2>1, <2>3 DEF FirstInv
<1>2. IInv /\ AliasInv /\ FirstInv /\ [Next]_vars => FirstInv'  BY NextKeepsFirstInv
<1>3. FirstInv => RightNotebook
  <2> SUFFICES ASSUME FirstInv, stack[1].pc # "boot" PROVE RightNotebook
    BY DEF RightNotebook
  <2>1. Settled(start, stack[1])  BY DEF FirstInv, AsStarted
  <2> QED  BY <2>1 DEF RightNotebook, Settled, InNotebook, Wanted, Working, Fallback, Values, Over
<1> QED  BY <1>1, <1>2, <1>3, InitIInv, NextKeepsIInv, InitAliasInv, NextKeepsAliasInv, PTL DEF Spec

=============================================================================
