------------------------------- MODULE MCQuery -------------------------------
(***************************************************************************)
(* Four notes (ab and b at the top, a/b and cc/a in directories); every    *)
(* set of links between three of them, every set without a link to itself  *)
(* or back to the first between the four, and sets with repeated links and *)
(* links without a target; days of 4 seconds.                              *)
(***************************************************************************)
EXTENDS Query

CONSTANTS n1, n2, n3, n4

MCNote == {n1, n2, n3, n4}

MCDb ==
    (n1 :> [path |-> <<"a", "b">>, pathOrder |-> 2, title |-> 3, created |-> 5, modified |-> 9, words |-> 2,
            tags |-> {"t"}, hits |-> {<<"q", "fts">>, <<"q", "re">>}, mentions |-> {n3, n4}]) @@
    (n2 :> [path |-> <<"a", "/", "b">>, pathOrder |-> 1, title |-> 2, created |-> 7, modified |-> 8, words |-> 1,
            tags |-> {"t", "u"}, hits |-> {<<"q", "fts">>}, mentions |-> {n3, n1}]) @@
    (n3 :> [path |-> <<"b">>, pathOrder |-> 3, title |-> 1, created |-> 8, modified |-> 12, words |-> 2,
            tags |-> {}, hits |-> {<<"q", "exact">>}, mentions |-> {}]) @@
    (n4 :> [path |-> <<"c", "c", "/", "a">>, pathOrder |-> 4, title |-> 4, created |-> 11, modified |-> 13, words |-> 3,
            tags |-> {"u"}, hits |-> {}, mentions |-> {n1}])

P(c) == <<c>>
AB == <<"a", "/", "b">>
N1 == <<"a", "b">>
Dot == <<".">>
Up == <<"..">>

\* Every link between three of the notes, one chain, links repeated or without a
\* target, and none.
Once(ls) == {<<l[1], l[2], 1>> : l \in ls}
MCLinkSets == [every |-> {Once(ls) : ls \in SUBSET ({n1, n2, n3} \X {n1, n2, n3})},
               four |-> {Once(ls) : ls \in SUBSET {l \in MCNote \X MCNote : l[1] # l[2] /\ l[2] # n1}},
               chain |-> {Once({<<n1, n2>>, <<n2, n3>>, <<n3, n4>>, <<n3, n1>>})},
               rows |-> SUBSET {<<n1, n2, 1>>, <<n1, n2, 2>>, <<n1, NoNote, 1>>, <<n2, NoNote, 1>>,
                                <<n2, n3, 1>>, <<n3, n4, 1>>, <<n4, n2, 1>>},
               none |-> {{}}]

F(extra) == extra @@ Parsed
Glob(not, blank, glob) == [not |-> not, blank |-> blank, glob |-> glob]
Sort(field, suffix) == [field |-> field, suffix |-> suffix]

\* Named filters: none; a chain x -> y -> a; two filters sharing a third; a
\* filter named after the path it selects; a cycle.
MCFilterMaps ==
    [none |-> << >>,
     chain |-> (P("x") :> F([path |-> <<P("y")>>, tag |-> <<<<Glob(FALSE, FALSE, {"t"})>>>>, limit |-> 2])) @@
               (P("y") :> F([path |-> <<P("a")>>, sort |-> <<Sort("created", "+")>>, matchStrategy |-> "exact", limit |-> 1])),
     shared |-> (P("x") :> F([path |-> <<P("z")>>, orphan |-> TRUE])) @@
                (P("y") :> F([path |-> <<P("z"), P("b")>>, exclude |-> <<AB>>])) @@
                (P("z") :> F([path |-> <<P("a")>>, tag |-> <<<<Glob(FALSE, FALSE, {"t"})>>>>])),
     self |-> (P("a") :> F([path |-> <<P("a")>>, sort |-> <<Sort("word-count", "")>>])),
     cycle |-> (P("x") :> F([path |-> <<P("y")>>, tagless |-> TRUE])) @@
               (P("y") :> F([path |-> <<P("x"), P("b")>>])),
     wrong |-> (P("x") :> F([path |-> <<P("y")>>, related |-> <<P("b")>>])) @@ (P("y") :> Unparsable)]

Paths == {P("a"), P("b"), P("x"), P("y"), AB, Dot, Up, N1, P("c"), P("d")}
PathLists == {<<>>} \cup {<<p>> : p \in Paths} \cup {<<p, q>> : p, q \in Paths}

ListRequest(f, ls, fs) == [request |-> [kind |-> "list", flags |-> F(f)], links |-> ls, filters |-> fs]
EditorRequest(f, fs) ==
    [request |-> [kind |-> "list", flags |-> f @@ Filtering], links |-> "none", filters |-> fs]

\* Paths and named filters.
PathRequests ==
    {ListRequest([path |-> p], "chain", fs) : p \in PathLists, fs \in DOMAIN MCFilterMaps}
    \cup {ListRequest([path |-> p, exclude |-> <<e>>], "chain", fs) :
             p \in {<<>>} \cup {<<q>> : q \in Paths}, e \in Paths, fs \in {"none", "shared"}}
    \cup {EditorRequest([path |-> p, match |-> m], fs) :
             p \in {<<P("x")>>, <<P("y"), P("x")>>}, m \in {<<>>, <<"q">>}, fs \in DOMAIN MCFilterMaps}

\* Links: recursive or not, with a distance or not, negated, combined.
LinkRequests ==
    {ListRequest([linkedBy |-> h, recursive |-> r, maxDistance |-> d], "every", "none") :
        h \in {<<N1>>, <<P("b"), AB>>}, r \in BOOLEAN, d \in {0, 1, 2}}
    \cup {ListRequest([linkTo |-> <<AB>>, recursive |-> TRUE, maxDistance |-> d], "every", "none") : d \in {0, 1}}
    \cup {ListRequest([linkedBy |-> <<N1>>, recursive |-> TRUE, maxDistance |-> d], "four", "none") : d \in {0, 2}}
    \cup {ListRequest([related |-> h], "every", "none") : h \in {<<AB>>, <<N1>>}}
    \cup {ListRequest([related |-> <<N1>>], "rows", "none"),
          ListRequest([linkedBy |-> <<N1>>, recursive |-> TRUE], "rows", "none")}
    \cup {ListRequest([linkedBy |-> <<AB>>, recursive |-> TRUE, maxDistance |-> 1, noLinkTo |-> <<P("d")>>], "chain", "none"),
          ListRequest([linkedBy |-> <<AB>>, recursive |-> TRUE, maxDistance |-> 1, noLinkTo |-> <<N1>>], "every", "none"),
          ListRequest([linkTo |-> <<AB>>, noLinkedBy |-> <<AB>>], "every", "none"),
          ListRequest([linkedBy |-> <<Up>>, noLinkedBy |-> <<AB>>], "every", "none")}

\* Mentions, tags, text, dates, order.
OtherRequests ==
    {ListRequest([mentionedBy |-> m, related |-> r, matchStrategy |-> st], "chain", "none") :
        m \in {<<N1>>, <<N1, AB>>, <<P("d")>>}, r \in {<<>>, <<N1>>}, st \in {"", "fts"}}
    \cup {ListRequest([mention |-> <<P("b")>>, match |-> m, matchStrategy |-> st], "none", "none") :
        m \in {<<>>, <<"q">>}, st \in {"fts", "re", "exact", "other"}}
    \cup {ListRequest([tag |-> g, tagless |-> t], "none", "none") :
        g \in {<<>>, <<<<Glob(TRUE, FALSE, {"t"})>>>>,
               <<<<Glob(FALSE, FALSE, {"t"}), Glob(FALSE, FALSE, {"u"})>>>>,
               <<<<Glob(TRUE, FALSE, {"t"}), Glob(FALSE, FALSE, {"u"})>>>>,
               <<<<Glob(TRUE, TRUE, {}), Glob(FALSE, FALSE, {"u"})>>, <<Glob(FALSE, FALSE, {"t"})>>>>}, t \in BOOLEAN}
    \cup {ListRequest([created |-> d, modifiedBefore |-> b, createdAfter |-> 9], "none", "none") :
        d \in BadDate..12, b \in {0, 10, BadDate}}
    \cup {ListRequest([path |-> p, sort |-> <<Sort(f1, s1), Sort(f2, s2)>>, limit |-> l, exactMatch |-> (l = 3)], "none", "chain") :
        p \in {<<>>, <<P("y"), P("b")>>}, f1, f2 \in {"created", "path", "title", "random", "word-count", "other"},
        s1, s2 \in {"", "-"}, l \in {0, 2, 3}}

Hrefs == UNION {[1..k -> {"a", "b", "c", "/", "#"}] : k \in 0..3}
HrefRequests == {[request |-> [kind |-> "href", href |-> h, partial |-> p], links |-> "none", filters |-> "none"] :
                    h \in Hrefs, p \in BOOLEAN}

MCRequests == PathRequests \cup LinkRequests \cup OtherRequests \cup HrefRequests
=============================================================================
