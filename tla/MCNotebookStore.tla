-------------------------- MODULE MCNotebookStore ---------------------------
(* A notebook, a directory in it that may be one too, a directory whose    *)
(* name starts with ".." and a symbolic link to the notebook; or two       *)
(* notebooks side by side.                                                 *)
EXTENDS NotebookStore

MCDir == {<<"a">>, <<"a", "b">>, <<"a", "..c">>}
MCLink == <<"l">> :> <<"a">>
MCFile == {<<"a", "n">>}
MCAsked == MCDir \cup MCFile \cup {<<"l", "n">>}

Group(ps, f, x) == [paths |-> ps, template |-> f, exclude |-> x, extra |-> "k" :> f]

MCGlobal(n) ==
  [EmptyToml EXCEPT !.dir = "~/notes", !.exclude = [i \in 1..n |-> "global"],
                  !.extra = "k" :> "global", !.linkFormat = "wiki",
                  !.groups = "g" :> Group(Unset, "global", <<"gg">>),
                  !.filters = "f" :> "global"]
MCGlobalToml == {Unset} \cup {MCGlobal(n) : n \in {1, 3}}
MCOne ==
  [EmptyToml EXCEPT !.template = "one", !.exclude = <<"one">>, !.linkFormat = "wiki",
                  !.extra = "k" :> "one", !.filters = "f" :> "one",
                  !.groups = "g" :> Group(<< <<"a">> >>, "one", <<"og">>)
                             @@ "h" :> Group(Unset, Unset, <<"oh">>)]
MCTwo ==
  [EmptyToml EXCEPT !.exclude = <<"two", "two">>, !.linkFormat = "",
                  !.aliases = "z" :> "two", !.edits = TRUE,
                  !.groups = "h" :> Group(<< <<"a", "b">> >>, "two", <<"th">>)
                             @@ "i" :> Group(<< <<"a">>, <<"c">> >>, Unset, <<"ti">>)
                             @@ "j" :> Group(<< <<"a", "*">> >>, Unset, <<>>)]
MCThree ==
  [EmptyToml EXCEPT !.groups = "h" :> Group(<< <<"a", "b">>, <<"[">> >>, Unset, <<>>)
                               @@ "i" :> Group(<< <<"a">> >>, Unset, <<>>)]
MCLate == [MCOne EXCEPT !.deadLink = "?", !.wrong = "late"]
MCEarly == [MCTwo EXCEPT !.dir = "elsewhere"]

At(d, t) == [e \in MCDir |-> IF e = d THEN t ELSE Unset]
MCLayout ==
  {[zk |-> {}, toml |-> [d \in MCDir |-> Unset]]}
    \cup {[zk |-> {<<"a">>}, toml |-> At(<<"a">>, t)] : t \in {MCOne, MCTwo, MCThree, MCEarly}}
    \cup {[zk   |-> {<<"a">>, <<"a", "b">>},
           toml |-> [At(<<"a">>, t) EXCEPT ![<<"a", "b">>] = u]] :
             t \in {MCOne, MCTwo}, u \in {MCOne, MCLate, Unset}}
    \cup {[zk   |-> {<<"a", "b">>, <<"a", "..c">>}, toml |-> At(<<"a", "b">>, MCOne)]}
=============================================================================
