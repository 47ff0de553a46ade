---------------------------- MODULE MCCommandRun ----------------------------
(***************************************************************************)
(* Notebooks at /o, /o/i (inside the first), /e and /b (not readable).     *)
(* Some starts exercise the directories, their flags and the aliases with  *)
(* the command index; others run each command at once, with up to three    *)
(* notes, pipes of one line and an editor that opens two without asking.   *)
(***************************************************************************)
EXTENDS CommandRun, TLC

MCNotebooks == {<<"o">>, <<"o", "i">>, <<"e">>, <<"b">>}
MCBroken == {<<"b">>}
MCCommands == {"index", "init", "list", "edit", "graph", "tag", "new"}

MCFlags == {"--no-input", "-Wx"}

Out == <<"x">>
MCDirs == {Out, <<"o">>, <<"o", "i", "d">>, <<"e">>, <<"b">>}

\* An alias: the arguments of the zk it runs, and whether it passes on its own.
A(words, rest) == [args |-> [i \in DOMAIN words |-> Word(words[i])], rest |-> rest]
Flag(name) == [flag |-> name, eq |-> FALSE, value |-> None]
InE == [flag |-> "--notebook-dir", eq |-> TRUE, value |-> <<"e">>]
InEveryNotebook(m) == [n \in MCNotebooks \cup {None} |-> m]

\* No alias; one shadowing a command and a chain to it; two calling each other;
\* one that exists in a single notebook; one for a command that may fail;
\* one with a flag of its own and one with two.
MCAliasMaps ==
    [none |-> InEveryNotebook(<< >>),
     chain |-> InEveryNotebook(("index" :> A(<<"index">>, TRUE)) @@ ("ls" :> A(<<"index">>, TRUE)) @@ ("l" :> A(<<"ls">>, FALSE))),
     mutual |-> InEveryNotebook(("ls" :> A(<<"l">>, TRUE)) @@ ("l" :> A(<<"ls">>, TRUE))),
     single |-> [n \in MCNotebooks \cup {None} |-> IF n = <<"o">> THEN ("l" :> A(<<"index">>, TRUE)) ELSE << >>],
     tags |-> InEveryNotebook("l" :> A(<<"tag">>, FALSE)),
     elsewhere |-> InEveryNotebook(("l" :> [args |-> <<InE, Word("index")>>, rest |-> TRUE])
                                   @@ ("ls" :> [args |-> <<InE, Flag("--notebook-dir"), Word("index"), Word("index")>>, rest |-> FALSE]))]

\* The spellings of a flag and its value.
Spellings(flags, v) ==
    IF v = None THEN {<<>>}
    ELSE {<<[flag |-> f, eq |-> TRUE, value |-> v]>> : f \in flags}
         \cup {<<Flag(f), Word(v)>> : f \in flags}

Start(args, wd, env, default, aliases, nb, w, words, jobs) ==
    [args |-> args, wd |-> wd, envDir |-> env, defaultDir |-> default, aliases |-> aliases,
     typed |-> [nb |-> nb, wd |-> w, words |-> words], jobs |-> jobs, noBoot |-> 0]

\* Every place and spelling of the flags around one word.
FlagStarts ==
    {Start(s[1] \o <<Word("index")>> \o s[2] \o s[3], <<"o", "i", "d">>, None, None, "none", d[1], d[2], <<"index">>, "index") :
        d \in {<<<<"o">>, <<"e">>>>}, s \in {<<x, y, <<>>>> : x \in Spellings({"--notebook-dir"}, <<"o">>),
                                                                  y \in Spellings({"--working-dir", "-W"}, <<"e">>)}
                                      \cup {<<y, x, <<>>>> : x \in Spellings({"--notebook-dir"}, <<"o">>),
                                                                  y \in Spellings({"--working-dir", "-W"}, <<"e">>)}}
    \cup {Start(<<Word("index"), Flag("-W")>>, <<"o">>, None, None, "none", None, Missing, <<"index">>, "index"),
          Start(<<[flag |-> "--notebook-dir", eq |-> TRUE, value |-> Missing], Word("index")>>, Out, None, None, "none", Missing, None, <<"index">>, "index"),
          Start(<<>>, Out, None, None, "none", None, None, <<>>, "index"),
          Start(<<>>, <<"o">>, None, None, "none", None, None, <<>>, "index"),
          Start(<<Flag("--no-input"), Word("index")>>, <<"o">>, None, None, "none", None, None, <<None, "index">>, "index"),
          Start(<<Flag("-Wx"), Word("index")>>, <<"o">>, None, None, "none", None, None, <<None, "index">>, "index"),
          Start(<<Flag("--no-input")>>, <<"o">>, None, None, "none", None, None, <<None>>, "index"),
          Start(<<Flag("--none"), Word("index")>>, Out, None, None, "none", None, None, <<None, "index">>, "index"),
          Start(<<Word("other")>>, Out, None, None, "none", None, None, <<"other">>, "index")}

\* Every directory for the working directory, the flags, the environment.
DirStarts ==
    {Start(x \o <<Word("ls"), Word("more")>>, wd, env, default, "chain", nb, None, <<"ls", "more">>, "index") :
        <<x, nb>> \in UNION {{<<y, v>> : y \in Spellings({"--notebook-dir"}, v)} : v \in {None, <<"o">>, Out}},
        wd \in MCDirs, env \in {None, <<"e">>, Out}, default \in {None, <<"o">>}}

AliasStarts ==
    {Start(<<Word(w)>>, wd, env, None, aliases, None, None, <<w>>, "index") :
        w \in {"l", "ls", "index", "init"}, wd \in MCDirs, env \in {None, <<"e">>}, aliases \in DOMAIN MCAliasMaps \ {"tags"}}

CommandStarts ==
    {Start(<<Word(w)>>, <<"o">>, None, None, "none", None, None, <<w>>, "all") :
        w \in {"list", "edit", "graph", "tag", "new"}}
    \cup {Start(<<Word("l")>>, <<"o", "i", "d">>, None, None, "tags", None, None, <<"l">>, "all")}

\* The first zk, or the one it runs, cannot start.
LostStarts ==
    {[Start(<<Word("ls")>>, wd, None, None, "chain", None, None, <<"ls">>, "index") EXCEPT !.noBoot = n] :
        wd \in {Out, <<"o">>}, n \in {1, 2}}

MCStarts == LostStarts \cup FlagStarts \cup DirStarts \cup AliasStarts \cup CommandStarts

Simple == [cmd |-> "index", interactive |-> FALSE, tty |-> TRUE, pager |-> FALSE, force |-> FALSE,
          found |-> 0, failing |-> "none", answer |-> "", dryRun |-> FALSE, exists |-> FALSE, printPath |-> FALSE]

\* The jobs of each command.
AllJobs ==
    {[Simple EXCEPT !.cmd = "list", !.interactive = i, !.pager = p, !.found = f, !.failing = e] :
        i, p \in BOOLEAN, f \in {0, 3}, e \in {"none", "options", "query", "fzf", "line", "pipe", "format"}}
    \cup {[Simple EXCEPT !.cmd = "edit", !.interactive = i, !.tty = t, !.force = fo, !.found = f, !.failing = e, !.answer = a] :
        i, t, fo \in BOOLEAN, f \in {0, 1, 3}, e \in {"none", "query", "line", "editor"}, a \in {"", "y", "n"}}
    \cup {[Simple EXCEPT !.cmd = "graph", !.interactive = i, !.found = 2, !.failing = e] : i \in BOOLEAN, e \in {"none", "query", "links", "format"}}
    \cup {[Simple EXCEPT !.cmd = "tag", !.tty = t, !.pager = p, !.found = f, !.failing = e] :
        t, p \in BOOLEAN, f \in {0, 2}, e \in {"none", "options", "query", "pipe", "format"}}
    \cup {[Simple EXCEPT !.cmd = "new", !.tty = t, !.dryRun = d, !.exists = x, !.printPath = p, !.failing = e, !.answer = a] :
        t, d, x, p \in BOOLEAN, e \in {"none", "new", "editor"}, a \in {"", "n"}}

MCJobs == [index |-> {[Simple EXCEPT !.cmd = c, !.failing = e] : c \in {"index", "init", "help"}, e \in {"none", "command"}}, all |-> AllJobs]
=============================================================================
