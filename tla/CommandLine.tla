----------------------------- MODULE CommandLine -----------------------------
(***************************************************************************)
(* zk from its command line to the command it runs: main.go and the        *)
(* container.  The flags that set the directories are taken from the       *)
(* arguments, a notebook is looked for, and the first argument is either   *)
(* an alias, run by a shell that usually starts another zk, or a command.  *)
(*                                                                         *)
(* The processes waiting for one another are a stack; the last one is at   *)
(* work.  A directory is a sequence of names.                              *)
(***************************************************************************)
EXTENDS Naturals, FiniteSets, Sequences, Functions

CONSTANTS
    None,        \* no directory, no alias, no notebook
    Commands,    \* the commands known to the parser
    Flags,       \* its flags, but for those that name directories
    Notebooks,   \* the directories holding a notebook
    Broken,      \* those whose configuration cannot be read
    AliasMaps,   \* per configuration: notebook (or None) -> name -> arguments
    Starts,      \* how zk is started: arguments, environment, configuration
    MaxDepth     \* processes in the stack, a bound of the model

VARIABLES
    start,       \* the start considered
    stack        \* the zk processes, each one started by the one before

lvars == <<start, stack>>

-----------------------------------------------------------------------------
(* The flags --notebook-dir and --working-dir.                             *)

\* A token of the command line: a flag on its own or with =value, or a word.
Word(w) == [flag |-> "", eq |-> FALSE, value |-> w]
IsFlag(token, names) == token.flag \in names
NamesDirectory(t) == IsFlag(t, {"--notebook-dir", "--working-dir", "-W"})
Missing == <<"">>   \* an empty value

\* findFlag: the first occurrence of a flag and its value are taken out of the
\* arguments; a flag without a value is an error.
findFlag(names, args) ==
    LET at == {i \in DOMAIN args : IsFlag(args[i], names)}
    IN  IF at = {} THEN [found |-> None, args |-> args, failed |-> FALSE]
        ELSE LET i == CHOOSE j \in at : \A l \in at : j <= l
                 value == IF args[i].eq THEN args[i].value
                          ELSE IF i < Len(args) THEN args[i + 1].value ELSE Missing
                 after == IF args[i].eq THEN i + 1 ELSE i + 2
             IN  [found |-> value, failed |-> value = Missing,
                  args |-> SubSeq(args, 1, i - 1) \o SubSeq(args, after, Len(args))]

\* parseDirs: both flags, the notebook's first.
parseDirs(args) ==
    LET nb == findFlag({"--notebook-dir"}, args)
        wd == findFlag({"--working-dir", "-W"}, nb.args)
    IN  [notebookDir |-> nb.found, workingDir |-> wd.found, args |-> wd.args,
         failed |-> nb.failed \/ wd.failed]

-----------------------------------------------------------------------------
(* The notebook.                                                           *)

\* NotebookStore.Open: the innermost notebook around a directory.
Around(dir) == {n \in Notebooks : Len(n) <= Len(dir) /\ n = SubSeq(dir, 1, Len(n))}
LocateNotebook(dir) == IF Around(dir) = {} THEN None
                       ELSE CHOOSE n \in Around(dir) : \A m \in Around(dir) : Len(m) <= Len(n)

\* Mutant of notebookSearchDirs: the environment comes before the working
\* directory.
SearchEnvironmentFirst(dirs, p) ==
    LET wd == IF dirs.workingDir = None THEN p.wd ELSE dirs.workingDir
    IN  IF dirs.notebookDir # None THEN <<[notebook |-> dirs.notebookDir, working |-> wd]>>
        ELSE (IF p.envDir = None THEN <<>>
              ELSE <<[notebook |-> p.envDir, working |-> IF dirs.workingDir = None THEN p.envDir ELSE wd]>>)
             \o <<[notebook |-> wd, working |-> wd]>>

\* notebookSearchDirs: the flag alone; or the working directory and then the
\* environment variable, which also changes the working directory.
notebookSearchDirs(dirs, p) ==
    LET wd == IF dirs.workingDir = None THEN p.wd ELSE dirs.workingDir
    IN  IF dirs.notebookDir # None THEN <<[notebook |-> dirs.notebookDir, working |-> wd]>>
        ELSE <<[notebook |-> wd, working |-> wd]>>
             \o (IF p.envDir = None THEN <<>>
                 ELSE <<[notebook |-> p.envDir, working |-> IF dirs.workingDir = None THEN p.envDir ELSE wd]>>)

\* NewContainer: the notebook of the global configuration becomes the
\* environment variable when it is not set.
Environment(p) == IF p.envDir = None THEN [p EXCEPT !.envDir = start.defaultDir] ELSE p

\* SetCurrentNotebook: the first directory in a notebook.  Its notebook becomes
\* the environment variable; a notebook that cannot be opened is an error.
SetCurrentNotebook(p, dirs) ==
    LET hits == {i \in DOMAIN dirs : LocateNotebook(dirs[i].notebook) # None}
    IN  IF hits = {} THEN [p EXCEPT !.pc = "ready"]
        ELSE LET i == CHOOSE j \in hits : \A l \in hits : j <= l
                 notebook == LocateNotebook(dirs[i].notebook)
             IN  IF notebook \in Broken THEN [p EXCEPT !.pc = "exit", !.status = 1]
                 ELSE [p EXCEPT !.pc = "ready", !.notebook = notebook, !.envDir = notebook,
                                !.workingDir = dirs[i].working]

-----------------------------------------------------------------------------
(* The processes.                                                          *)

\* A process in directory wd with the given arguments and environment:
\* ZK_NOTEBOOK_DIR and ZK_RUNNING_ALIAS.
Process(wd, args, envDir, envAlias) ==
    [pc |-> "boot", wd |-> wd, args |-> args, envDir |-> envDir, envAlias |-> envAlias,
     notebook |-> None, workingDir |-> wd, alias |-> None, status |-> "none"]

Top == stack[Len(stack)]
SetTop(p) == [stack EXCEPT ![Len(stack)] = p]

\* Without its global configuration or a working directory zk ends at once;
\* start.noBoot tells which process this happens to, 0 when to none.
BootFails ==
    /\ Top.pc = "boot" /\ Len(stack) = start.noBoot
    /\ stack' = SetTop([Top EXCEPT !.pc = "exit", !.status = 1])
    /\ UNCHANGED start

\* The beginning of main, up to the choice of the notebook.
Boot ==
    /\ Top.pc = "boot" /\ Len(stack) # start.noBoot
    /\ \E p \in {Environment(Top)} : \E dirs \in {parseDirs(p.args)} :
           IF dirs.failed THEN stack' = SetTop([p EXCEPT !.pc = "exit", !.status = 1])
           ELSE \E q \in {[p EXCEPT !.args = dirs.args]}, searched \in {notebookSearchDirs(dirs, p)} :
                    stack' = SetTop(SetCurrentNotebook(q, searched))
    /\ UNCHANGED start

\* container.Config.Aliases
Aliases(p) == AliasMaps[start.aliases][p.notebook]

\* The alias the arguments of p designate: one that is not running already.
IsAlias(p) == /\ p.args # <<>>
              /\ p.args[1].flag = "" /\ p.args[1].value \in DOMAIN Aliases(p)
              /\ p.args[1].value # p.envAlias

\* Mutant of Child: the shell stays in the working directory.
ChildInPlace(p, name) ==
    LET a == Aliases(p)[name]
    IN  Process(p.wd, a.args \o (IF a.rest THEN Tail(p.args) ELSE <<>>), p.envDir, name)

\* The process started by the shell that runs an alias: at the root of the
\* notebook, with the remaining arguments if the alias passes them on.
Child(p, name) ==
    LET a == Aliases(p)[name]
    IN  Process(IF p.notebook = None THEN p.wd ELSE p.notebook,
                a.args \o (IF a.rest THEN Tail(p.args) ELSE <<>>), p.envDir, name)

\* Mutant of runAlias: the alias being run is not skipped.
RunAnyAlias ==
    /\ Top.pc = "ready" /\ Len(stack) < MaxDepth
    /\ Top.args # <<>> /\ Top.args[1].value \in DOMAIN Aliases(Top)
    /\ LET name == Top.args[1].value
       IN  stack' = Append(SetTop([Top EXCEPT !.pc = "waiting", !.alias = name, !.envAlias = name]),
                           Child(Top, name))
    /\ UNCHANGED start

\* runAlias
RunAlias ==
    /\ Top.pc = "ready" /\ IsAlias(Top) /\ Len(stack) < MaxDepth
    /\ LET name == Top.args[1].value
       IN  stack' = Append(SetTop([Top EXCEPT !.pc = "waiting", !.alias = name, !.envAlias = name]),
                           Child(Top, name))
    /\ UNCHANGED start

\* Where the command is for the parser: the first word that is not the value of
\* a flag for a directory, one that parseDirs has left because it is repeated.
\* The other flags may come before it.  Without a command it is the help.
IsValue(args, i) == i > 1 /\ NamesDirectory(args[i - 1]) /\ ~args[i - 1].eq
Positional(args) == {i \in DOMAIN args : args[i].flag = "" /\ ~IsValue(args, i)}
CommandOf(args) == IF Positional(args) = {} THEN "help"
                   ELSE LET i == CHOOSE j \in Positional(args) : \A l \in Positional(args) : j <= l
                        IN  args[i].value

\* The parser refuses words that are no command and unknown flags.
Understood(args) == /\ \A i \in DOMAIN args : NamesDirectory(args[i]) \/ args[i].flag \in Flags \cup {""}
                    /\ Positional(args) = {} \/ CommandOf(args) \in Commands

\* Without an alias, the parser looks for a command; it may also refuse the
\* arguments that come with it.
Parse ==
    /\ Top.pc = "ready" /\ ~IsAlias(Top)
    /\ \/ Understood(Top.args) /\ stack' = SetTop([Top EXCEPT !.pc = "index"])
       \/ /\ ~Understood(Top.args) \/ Len(Top.args) > 1
          /\ stack' = SetTop([Top EXCEPT !.pc = "exit", !.status = 1])
    /\ UNCHANGED start

\* The notebook, if there is one, is indexed before any command but index, the
\* help included; a failure ends zk.
IndexFirst ==
    /\ Top.pc = "index"
    /\ \/ stack' = SetTop([Top EXCEPT !.pc = "run"])
       \/ /\ Top.notebook # None /\ CommandOf(Top.args) # "index"
          /\ stack' = SetTop([Top EXCEPT !.pc = "exit", !.status = 1])
    /\ UNCHANGED start

\* The alias has run: zk ends with its exit status.
AliasExit ==
    /\ Len(stack) > 1 /\ Top.pc = "exit"
    /\ stack' = [SubSeq(stack, 1, Len(stack) - 1) EXCEPT
                     ![Len(stack) - 1].pc = "exit", ![Len(stack) - 1].status = Top.status]
    /\ UNCHANGED start
=============================================================================
