------------------------------ MODULE CommandRun ------------------------------
(***************************************************************************)
(* A whole run of zk: the processes of the command line (CommandLine) and  *)
(* the command the last one carries out (Interaction).                     *)
(***************************************************************************)
EXTENDS CommandLine, Interaction

CONSTANT Jobs   \* what a command may be asked and meet

\* There is a deepest notebook; paths and command lines are sequences; a
\* configuration has aliases in every notebook and outside of all of them.
IsSeq(s) == Len(s) \in Nat /\ s = [i \in 1 .. Len(s) |-> s[i]]
ASSUME CommandRunAssumption ==
    /\ None \notin Notebooks /\ None # Missing /\ \A n \in Notebooks : IsSeq(n)
    /\ Notebooks # {} => \E m \in Notebooks : \A n \in Notebooks : Len(n) <= Len(m)
    /\ \A s \in Starts : IsSeq(s.args) /\ s.aliases \in DOMAIN AliasMaps
    /\ \A a \in DOMAIN AliasMaps : \A n \in Notebooks \cup {None} :
           /\ n \in DOMAIN AliasMaps[a]
           /\ \A x \in DOMAIN AliasMaps[a][n] : IsSeq(AliasMaps[a][n][x].args)

\* What a start is meant to ask for is what is typed: words, and each flag for a
\* directory at most once, in either order, at any place and in any spelling.
\* A value is missing after = and at the end of the line.
Plain(s) == \A i \in DOMAIN s : ~NamesDirectory(s[i])
IsSpelling(s, names, v, rest) ==
    \/ s = <<>> /\ v = None
    \/ /\ s # <<>> /\ IsFlag(s[1], names) /\ v # None
       /\ \/ Len(s) = 1 /\ s[1].eq /\ s[1].value = v
          \/ Len(s) = 1 /\ ~s[1].eq /\ rest = <<>> /\ v = Missing
          \/ Len(s) = 2 /\ ~s[1].eq /\ ~NamesDirectory(s[2]) /\ s[2].value = v
AsTyped(s) ==
    \E a, b, c, d \in 0 .. Len(s.args) :
        /\ a <= b /\ b <= c /\ c <= d
        /\ LET part(i, j) == SubSeq(s.args, i + 1, j)
               u == part(0, a)  x == part(a, b)  v == part(b, c)
               y == part(c, d)  w == part(d, Len(s.args))
           IN  /\ Plain(u) /\ Plain(v) /\ Plain(w)
               /\ \/ /\ IsSpelling(x, {"--notebook-dir"}, s.typed.nb, v \o (y \o w))
                     /\ IsSpelling(y, {"--working-dir", "-W"}, s.typed.wd, w)
                  \/ /\ IsSpelling(y, {"--notebook-dir"}, s.typed.nb, w)
                     /\ IsSpelling(x, {"--working-dir", "-W"}, s.typed.wd, v \o w)
               /\ s.typed.words = [i \in DOMAIN (u \o (v \o w)) |-> (u \o (v \o w))[i].value]
ASSUME TypedAssumption == \A s \in Starts : AsTyped(s)

vars == <<start, stack, job, pc, k, notes, fzf, pager, opened, status>>

\* The commands that need a notebook fail without one.
NeedsNotebook(cmd) == cmd \notin {"init", "help"}

\* ctx.Run
Begin ==
    /\ Top.pc = "run"
    /\ IF NeedsNotebook(CommandOf(Top.args)) /\ Top.notebook = None
       THEN stack' = SetTop([Top EXCEPT !.pc = "exit", !.status = 1]) /\ UNCHANGED <<job, pc>>
       ELSE \E j \in Jobs[start.jobs] :
                /\ j.cmd = CommandOf(Top.args)
                /\ job' = j /\ pc' = Entry(j.cmd)
                /\ stack' = SetTop([Top EXCEPT !.pc = "working"])
    /\ UNCHANGED <<start, k, notes, fzf, pager, opened, status>>

End == /\ Top.pc = "working" /\ pc = "exit"
       /\ stack' = SetTop([Top EXCEPT !.pc = "exit", !.status = status])
       /\ UNCHANGED <<start, ivars>>

\* The run is over: the remaining child processes are on their own.
Over == stack[1].pc = "exit"

LineStep == (BootFails \/ Boot \/ RunAlias \/ Parse \/ IndexFirst \/ AliasExit) /\ UNCHANGED ivars

Init == /\ start \in Starts
        /\ stack = <<Process(start.wd, start.args, start.envDir, None)>>
        /\ job = None /\ Idle

Next == LineStep \/ Begin \/ End \/ (Work /\ UNCHANGED lvars)

Spec == Init /\ [][Next]_vars /\ WF_vars(LineStep \/ Begin \/ End) /\ WorkFairness

-----------------------------------------------------------------------------
(* Which notebook, which alias.                                            *)

\* The names the alias x may lead to in one step, in whatever notebook: the one
\* it starts with, or any that the user types when it starts with a flag.
Names(aliases) == UNION {DOMAIN m : m \in Range(AliasMaps[aliases])}
StartsWithWord(args) == args # <<>> /\ args[1].flag = ""
Calls(aliases, x) ==
    UNION {IF StartsWithWord(m[x].args) THEN {m[x].args[1].value} ELSE Names(aliases) :
               m \in {n \in Range(AliasMaps[aliases]) : x \in DOMAIN n}}

\* The configurations in which several aliases call one another in a circle.
Circular == {a \in DOMAIN AliasMaps :
                \E X \in SUBSET Names(a) \ {{}} : \A x \in X : \E y \in X \ {x} : y \in Calls(a, x)}
MutualAliases == start.aliases \in Circular

\* An alias is not run again by the commands it runs ("Prevent infinite loop if
\* an alias calls itself", main.go:176): no two processes of the stack run the
\* same alias.  Only the last alias is remembered, in ZK_RUNNING_ALIAS: the
\* exception is several aliases that call one another in a circle.
AliasOnce == ~MutualAliases =>
                \A i, j \in DOMAIN stack : stack[i].alias # None /\ stack[i].alias = stack[j].alias => i = j

\* Every run of zk ends: aliases are unrolled, fzf and the pager never block the
\* command for good whenever the user leaves them, even in the middle of the
\* list (pager.go:66, fzf.go:135-139).  The exception is aliases that call one
\* another in a circle (main.go:172).
RunEnds == <>(MutualAliases \/ Over)

\* A zk started by an alias works in the notebook of the one that runs the alias,
\* wherever it was started from, unless the arguments it is given name a
\* directory (main.go:180, container.go:202).  These are the alias's own, and the
\* user's if a flag is repeated: only its first occurrence is taken out
\* (main.go:281).  The exception is a zk that cannot start (main.go:75, 81).
AliasKeepsNotebook ==
    \A i \in DOMAIN stack :
        /\ i > 1 /\ i # start.noBoot /\ stack[i].pc # "boot" /\ stack[i - 1].notebook # None
        /\ LET given == Child(stack[i - 1], stack[i - 1].alias).args
           IN  \A j \in DOMAIN given : ~NamesDirectory(given[j])
        => stack[i].notebook = stack[i - 1].notebook

\* The notebook of a run: the innermost one around --notebook-dir if given,
\* otherwise around the working directory, otherwise around ZK_NOTEBOOK_DIR or
\* the directory of the global configuration (main.go:203-210); never another
\* one, even if that finds none.  The flags that name directories are understood
\* wherever they are and however they are spelled, and the other arguments are
\* left as typed, in order; a flag without its value ends zk (main.go:281-318),
\* as does a global configuration or a working directory that cannot be read
\* (main.go:75, 81).  The exception is a value attached to the short flag, -Wpath:
\* the parser accepts it, but it comes too late to change the notebook.
RightNotebook ==
    LET p == stack[1]
        typed == start.typed
        wd == IF typed.wd = None THEN start.wd ELSE typed.wd
        fallback == IF start.envDir = None THEN start.defaultDir ELSE start.envDir
        wanted == CASE typed.nb # None -> LocateNotebook(typed.nb)
                    [] typed.nb = None /\ Around(wd) # {} -> LocateNotebook(wd)
                    [] OTHER -> IF fallback = None THEN None ELSE LocateNotebook(fallback)
    IN  p.pc # "boot" =>
            IF Missing \in {typed.nb, typed.wd} \/ start.noBoot = 1 THEN Over /\ p.status = 1 /\ p.notebook = None
            ELSE /\ p.notebook = wanted \/ (wanted \in Broken /\ Over /\ p.status = 1)
                 /\ [i \in DOMAIN p.args |-> p.args[i].value] = typed.words

-----------------------------------------------------------------------------
(* What the user sees.                                                     *)

Selected == {"page", "write", "close", "paged", "confirm", "edit", "editing", "graph", "finish"}

\* The notes listed, printed or edited after fzf are the ones the user accepted,
\* complete and in fzf's order; a cancelled fzf shows and opens nothing
\* (fzf.go:141-155 runs beside fzf.go:197-201).  With fzf or without it, many
\* notes are opened in the editor only with --force or a positive answer, and
\* none when nobody can be asked (edit.go:54-61, term.go:41-50).
SelectionKept ==
    /\ opened # <<>> /\ job.cmd = "edit" => Len(opened) <= Many \/ job.force \/ job.answer = "y"
    /\ fzf.proc # "off" =>
        /\ pc \in Selected => fzf.proc = "ended" /\ fzf.exit \in {"ok", "nomatch"} /\ notes = fzf.out
        /\ fzf.exit \in {"interrupted", "error"} => opened = <<>> /\ pager.proc = "off"
        /\ pc = "exit" /\ fzf.exit = "error" => status = 1

\* zk ends in order: fzf and the pager have ended before, a pager that fails is
\* reported by the exit status whatever main was doing (pager.go:72-76), and the
\* status of the command is passed on through every alias (main.go:189).  The
\* exception is a line of fzf that cannot be rendered: zk ends without closing
\* fzf (note_filter.go:142).
OrderlyEnd ==
    pc = "exit" =>
        /\ pager.proc \in {"off", "ended"}
        /\ fzf.proc \in {"off", "ended"} \/ job.failing = "line"
        /\ pager.exit = "error" => status = 1
        /\ Over => stack[1].status = status
=============================================================================
