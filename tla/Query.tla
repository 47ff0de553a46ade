-------------------------------- MODULE Query --------------------------------
(***************************************************************************)
(* Finding notes: from the filtering options typed on the command line (or *)
(* sent by an editor) to the rows SQLite returns.                          *)
(*                                                                         *)
(* A query is carried out in two steps, as in `zk list`:                   *)
(*   NewNoteFindOpts  expands the named filters of the configuration and   *)
(*                    turns the options into search criteria;              *)
(*   Find             builds and runs the SQL query.                       *)
(* The language server's jump to a link is FindByHref.                     *)
(*                                                                         *)
(* A path is a sequence of characters.  Full text search, globs and the    *)
(* ranking of SQLite are external: the database says which texts a note    *)
(* matches and which titles it mentions.                                   *)
(***************************************************************************)
EXTENDS Integers, FiniteSets, Sequences, FiniteSetsExt, SequencesExt

CONSTANTS
    Note,        \* the notes of the index
    Db,          \* their columns: path, order of path and title, dates, ...
    NoNote,      \* the target of a link that is not resolved
    LinkSets,    \* the sets of links <<source, target, number>> considered
    Requests,    \* the requests considered
    FilterMaps,  \* the named filters of a configuration: name -> Filtering
    Day,         \* seconds in a day
    RowLimit     \* LIMIT of the recursive query (100000 in the code)

VARIABLES
    links,       \* rows of the table links; a note may link to another repeatedly
    filters,     \* notebook.Config.Filters
    request,     \* what was typed
    phase,       \* "typed", "opts", "done"
    opts,        \* core.NoteFindOpts
    result       \* the notes found in order, or a failure

vars == <<links, filters, request, phase, opts, result>>

Slash == "/"
Nothing == [failed |-> FALSE, notes |-> <<>>]
Failure == [failed |-> TRUE, notes |-> <<>>]

-----------------------------------------------------------------------------
(* Filtering options.                                                      *)

\* The fields of Filtering whose values are appended, combined with OR, or
\* kept from the first one that is set.
ListFields == {"exclude", "tag", "mention", "mentionedBy", "linkTo", "noLinkTo",
               "linkedBy", "noLinkedBy", "related", "sort", "match"}
FlagFields == {"exactMatch", "orphan", "tagless", "recursive"}
ScalarFields == {"limit", "maxDistance", "created", "createdBefore", "createdAfter",
                 "modified", "modifiedBefore", "modifiedAfter", "matchStrategy"}

\* Filtering{}: no option, as an editor sends it.  Dates are seconds, 0 when the
\* option is absent.
Filtering ==
    [path |-> <<>>, exclude |-> <<>>, tag |-> <<>>, mention |-> <<>>, mentionedBy |-> <<>>,
     linkTo |-> <<>>, noLinkTo |-> <<>>, linkedBy |-> <<>>, noLinkedBy |-> <<>>,
     related |-> <<>>, sort |-> <<>>, match |-> <<>>,
     exactMatch |-> FALSE, orphan |-> FALSE, tagless |-> FALSE, recursive |-> FALSE,
     limit |-> 0, maxDistance |-> 0, created |-> 0, createdBefore |-> 0, createdAfter |-> 0,
     modified |-> 0, modifiedBefore |-> 0, modifiedAfter |-> 0, matchStrategy |-> "",
     unparsable |-> FALSE]

\* What kong makes of a command line or of a named filter without options.
Parsed == [Filtering EXCEPT !.matchStrategy = "fts"]

\* The text of a filter that shellquote or kong cannot parse.
Unparsable == [Filtering EXCEPT !.unparsable = TRUE]

\* A date that TimeFromNatural cannot parse.
BadDate == -1

\* The options f completed with those of a named filter g, but for the paths.
Inherit(f, g) ==
    [k \in DOMAIN f |-> CASE k \in ListFields -> f[k] \o g[k]
                          [] k \in FlagFields \cup {"unparsable"} -> f[k] \/ g[k]
                          [] k \in ScalarFields -> IF f[k] = Filtering[k] THEN g[k] ELSE f[k]
                          [] OTHER -> f[k]]

\* Mutant of ExpandNamedFilters: a filter is expanded once in the whole
\* command, whatever chain of filters it is reached through.
RECURSIVE ExpandOnce(_, _)
ExpandOnce(f, expanded) ==
    LET step(acc, p) ==
            IF p \in DOMAIN filters /\ p \notin acc.expanded
            THEN LET g == ExpandOnce(filters[p], acc.expanded \cup {p})
                 IN  [f |-> [Inherit(acc.f, g) EXCEPT !.path = @ \o g.path],
                      expanded |-> acc.expanded \cup {p}]
            ELSE [acc EXCEPT !.f.path = Append(@, p)]
    IN  FoldLeft(step, [f |-> [f EXCEPT !.path = <<>>], expanded |-> expanded], f.path).f

\* ExpandNamedFilters: a path which is the name of a filter not being expanded
\* is replaced by the filter's options; other paths stay.
RECURSIVE ExpandNamedFilters(_, _)
ExpandNamedFilters(f, expanded) ==
    LET step(acc, p) ==
            IF p \in DOMAIN filters /\ p \notin expanded
            THEN LET g == ExpandNamedFilters(filters[p], expanded \cup {p})
                 IN  [Inherit(acc, g) EXCEPT !.path = @ \o g.path]
            ELSE [acc EXCEPT !.path = Append(@, p)]
    IN  FoldLeft(step, [f EXCEPT !.path = <<>>], f.path)

\* Notebook.RelPath of a path typed at the root of the notebook, and the paths
\* it is defined for.
Inside(p) == p = <<>> \/ p[1] # ".."
RelPath(p) == IF p = <<".">> THEN <<>> ELSE p

\* relPaths: the paths which are not in the notebook are dropped.
relPaths(paths) == LET inside == SelectSeq(paths, Inside)
                   IN  [i \in DOMAIN inside |-> RelPath(inside[i])]

startOfDay(t) == t - (t % Day)

\* Mutant of parseDayRange: the end is one day after midnight.
DayRangeLong(date) == [start |-> startOfDay(date) - 1, end |-> startOfDay(date) + Day]

\* parseDayRange: the seconds of a day start one second before midnight.
parseDayRange(date) ==
    LET start == startOfDay(date) - 1 IN [start |-> start, end |-> start + Day]

\* The dates selected by --created, --created-before and --created-after (or
\* their --modified counterparts); 0 stands for an absent bound.
DateRange(on, before, after) ==
    IF on # 0 THEN parseDayRange(on) ELSE [start |-> after, end |-> before]

\* NoteSorterFromString: the default direction of a field, unless the term has
\* a suffix.
SortFields == {"created", "modified", "path", "title", "random", "word-count"}
NoteSorterFromString(term) ==
    [field |-> term.field,
     asc |-> CASE term.suffix = "+" -> TRUE
               [] term.suffix = "-" -> FALSE
               [] OTHER -> term.field \notin {"created", "modified"}]

\* Mutant of NoteSortersFromStrings: the terms in the order they were typed.
SortersForward(terms) == [i \in DOMAIN terms |-> NoteSorterFromString(terms[i])]

\* NoteSortersFromStrings: the last term typed is the first one to sort by.
NoteSortersFromStrings(terms) ==
    LET last == Reverse(terms) IN [i \in DOMAIN last |-> NoteSorterFromString(last[i])]

\* MatchStrategyFromString
Strategies == {"fts", "re", "exact"}
MatchStrategyFromString(str) == IF str = "" THEN "fts" ELSE str

\* core.LinkFilter of the paths given to an option or else to its negation, as
\* a sequence of at most one filter.
LinkFilter(yes, no, f) ==
    CASE relPaths(yes) # <<>> -> <<[hrefs |-> relPaths(yes), negate |-> FALSE,
                                    recursive |-> f.recursive, maxDistance |-> f.maxDistance]>>
      [] relPaths(yes) = <<>> /\ relPaths(no) # <<>> ->
            <<[hrefs |-> relPaths(no), negate |-> TRUE, recursive |-> FALSE, maxDistance |-> 0]>>
      [] OTHER -> <<>>

\* The search criteria made from the options f, whose named filters are
\* expanded.
CriteriaOf(f) ==
    [match |-> f.match, strategy |-> MatchStrategyFromString(f.matchStrategy),
     includeHrefs |-> relPaths(f.path), excludeHrefs |-> relPaths(f.exclude),
     partial |-> FALSE, tags |-> f.tag, mention |-> f.mention, mentionedBy |-> f.mentionedBy,
     linkedBy |-> LinkFilter(f.linkedBy, f.noLinkedBy, f),
     linkTo |-> LinkFilter(f.linkTo, f.noLinkTo, f),
     related |-> relPaths(f.related), orphan |-> f.orphan, tagless |-> f.tagless,
     created |-> DateRange(f.created, f.createdBefore, f.createdAfter),
     modified |-> DateRange(f.modified, f.modifiedBefore, f.modifiedAfter),
     sorters |-> NoteSortersFromStrings(f.sort), limit |-> f.limit]

\* NewNoteFindOpts fails on a named filter that cannot be parsed, the deprecated
\* --exact-match, an unknown strategy, a date it reads and cannot parse, or an
\* unknown sort term.
Rejected(f) ==
    LET bad(on, before, after) == on = BadDate \/ (on = 0 /\ BadDate \in {before, after})
    IN  \/ f.unparsable \/ f.exactMatch
        \/ MatchStrategyFromString(f.matchStrategy) \notin Strategies
        \/ bad(f.created, f.createdBefore, f.createdAfter)
        \/ bad(f.modified, f.modifiedBefore, f.modifiedAfter)
        \/ \E i \in DOMAIN f.sort : f.sort[i].field \notin SortFields

NewNoteFindOpts ==
    /\ phase = "typed" /\ request.kind = "list"
    /\ LET f == ExpandNamedFilters(request.flags, {})
       IN  IF Rejected(f)
           THEN result' = Failure /\ phase' = "done" /\ UNCHANGED opts
           ELSE opts' = CriteriaOf(f) /\ phase' = "opts" /\ UNCHANGED result
    /\ UNCHANGED <<links, filters, request>>

-----------------------------------------------------------------------------
(* Paths and hrefs.                                                        *)

At(p, i, h) == SubSeq(p, i, i + Len(h) - 1) = h
Rest(p, i) == SubSeq(p, i, Len(p))
Places(p, h) == 1..(Len(p) - Len(h) + 1)

\* The three regular expressions of FindIdsByHref:
\* ^(.*/)?[^/]*href[^/]*$,  .*href.*  and  ^(?:href[^/]*|href/.+)$
InFilename(p, h) == \E i \in Places(p, h) : At(p, i, h) /\ ~Contains(Rest(p, i + Len(h)), Slash)
Anywhere(p, h) == \E i \in Places(p, h) : At(p, i, h)

\* Mutant of AtOrBelow: the href is any prefix of the path.
AnyPrefix(p, h) == IsPrefix(h, p)

AtOrBelow(p, h) == /\ IsPrefix(h, p)
                   /\ LET rest == Rest(p, Len(h) + 1)
                      IN  ~Contains(rest, Slash) \/ (Len(rest) > 1 /\ rest[1] = Slash)

\* The href without its anchor.
WithoutAnchor(h) == IF Contains(h, "#") THEN SubSeq(h, 1, SelectInSeq(h, LAMBDA c : c = "#") - 1) ELSE h

\* FindIdsByHref: the notes matched by the first expression that matches any.
FindIdsByHref(href, partial) ==
    LET h == WithoutAnchor(href)
        name == {n \in Note : InFilename(Db[n].path, h)}
        path == {n \in Note : Anywhere(Db[n].path, h)}
    IN  CASE partial /\ name # {} -> name
          [] partial /\ name = {} /\ path # {} -> path
          [] OTHER -> {n \in Note : AtOrBelow(Db[n].path, h)}

findIdsByHrefs(hrefs, partial) == UNION {FindIdsByHref(hrefs[i], partial) : i \in DOMAIN hrefs}

\* FindIdByHref: a shortest path among them, the note a link resolves to.
FindIdByHref(href, partial) ==
    LET ids == FindIdsByHref(href, partial)
    IN  {n \in ids : \A m \in ids : Len(Db[n].path) <= Len(Db[m].path)}

\* Mutant of linkMatches: a partial link has to be in the file name.
linkMatchesName(href, partial, p) ==
    LET h == WithoutAnchor(href)
    IN  /\ h # <<>>
        /\ AtOrBelow(p, h) \/ (partial /\ InFilename(p, h))

\* The function matches of NoteIndex.linkMatchesPath: can a link reach a path?
linkMatches(href, partial, p) ==
    LET h == WithoutAnchor(href)
    IN  /\ h # <<>>
        /\ AtOrBelow(p, h) \/ (partial /\ (InFilename(p, h) \/ Anywhere(p, h)))

-----------------------------------------------------------------------------
(* The SQL query.                                                          *)

\* The rows of the recursive query transitive_closure, by distance from 1 to k,
\* each given by the links it goes through: every link, also one without a
\* target, then the rows extended by a link whose target they do not contain.
Visited(row) == {row[1][1]} \cup {row[i][2] : i \in DOMAIN row}
RECURSIVE Levels(_)
Levels(k) ==
    IF k = 1 THEN <<{<<l>> : l \in links}>>
    ELSE LET shorter == Levels(k - 1)
         IN  Append(shorter, {Append(y[1], y[2]) : y \in
                 {x \in shorter[k - 1] \X links :
                      Last(x[1])[2] = x[2][1] /\ x[2][2] \notin Visited(x[1]) \cup {NoNote}}})

\* Mutant of Depth: paths of maxDistance links are extended once more.
DepthOneMore(maxDistance) ==
    IF maxDistance = 0 THEN Cardinality(Note) + 1 ELSE Min({maxDistance + 1, Cardinality(Note) + 1})

\* The largest distance of a row.
Depth(maxDistance) ==
    IF maxDistance = 0 THEN Cardinality(Note) + 1 ELSE Min({maxDistance, Cardinality(Note) + 1})

\* The rows transitive_closure may have, as source, target and distance: SQLite
\* computes them breadth first and stops at the limit, in the middle of a level.
Closures(maxDistance) ==
    LET levels == Levels(Depth(maxDistance))
        upto == [k \in 0..Len(levels) |-> UNION {levels[j] : j \in 1..k}]
        columns(rows) == {<<r[1][1], Last(r)[2], Len(r)>> : r \in rows}
        over == {k \in DOMAIN levels : Cardinality(upto[k]) > RowLimit}
    IN  IF over = {} THEN {columns(upto[Len(levels)])}
        ELSE LET full == upto[Min(over) - 1]
             IN  {columns(full) \cup columns(rows) :
                      rows \in kSubset(RowLimit - Cardinality(full), levels[Min(over)])}

Truncated(maxDistance) ==
    LET levels == Levels(Depth(maxDistance))
    IN  Cardinality(UNION Range(levels)) > RowLimit

\* The rows joined to note n by a link filter on the notes ids, in a direction:
\* n is linked by them, links to them, or either.
Joined(rows, ids, direction, n) ==
    {r \in rows : \/ direction # "to" /\ r[2] = n /\ r[1] \in ids
                  \/ direction # "by" /\ r[1] = n /\ r[2] \in ids}

\* The link filters of o, with the table each one reads.  The related notes are
\* looked for as a recursive filter in both directions.
LinkFilters(o) ==
    LET in(lfs, direction) == [i \in DOMAIN lfs |->
            [ids |-> findIdsByHrefs(lfs[i].hrefs, TRUE), negate |-> lfs[i].negate,
             recursive |-> lfs[i].recursive, direction |-> direction]]
    IN  in(o.linkedBy, "by") \o in(o.linkTo, "to")
        \o (IF o.related = <<>> THEN <<>>
            ELSE <<[ids |-> findIdsByHrefs(o.related, TRUE), negate |-> FALSE, recursive |-> TRUE, direction |-> "any"]>>)

\* The distance limit of the recursive query, a single variable that each
\* filter overwrites.
MaxDistance(o) == CASE o.related # <<>> -> 2
                    [] o.related = <<>> /\ o.linkTo # <<>> -> o.linkTo[1].maxDistance
                    [] o.related = <<>> /\ o.linkTo = <<>> /\ o.linkedBy # <<>> -> o.linkedBy[1].maxDistance
                    [] OTHER -> 0

Rows(lf, closure, n) ==
    Joined(IF lf.recursive THEN closure ELSE links, lf.ids, lf.direction, n)

\* Mutant of KeepsRelated: HAVING MIN(distance) <= 2.
KeepsRelatedOrLinked(lf, closure, n) ==
    lf.direction = "any" => Min({r[3] : r \in Rows(lf, closure, n)}) <= 2

\* HAVING MIN(l_rel.distance) = 2
KeepsRelated(lf, closure, n) ==
    lf.direction = "any" => Min({r[3] : r \in Rows(lf, closure, n)}) = 2

SatisfiesLinks(o, closure, n) ==
    \A lf \in Range(LinkFilters(o)) :
            IF lf.negate THEN Rows(lf, closure, n) = {}
            ELSE Rows(lf, closure, n) # {} /\ KeepsRelated(lf, closure, n)

\* A --tag argument is an OR group of globs, each given by the tags it matches;
\* a blank member is skipped, its negation is not.
Negated(group) == \E i \in DOMAIN group : group[i].not
Globs(group) == SelectSeq(group, LAMBDA g : ~g.blank)
SatisfiesTags(o, n) ==
    \A i \in DOMAIN o.tags :
        LET globs == Globs(o.tags[i])
            tagged == \E j \in DOMAIN globs : globs[j].glob \cap Db[n].tags # {}
        IN  globs # <<>> => (tagged # Negated(o.tags[i]))

\* expandMentionsIntoMatch: the notes o.mention designates are excluded and one
\* of their titles has to be matched.
SatisfiesMention(o, n) ==
    o.mention # <<>> => LET ids == findIdsByHrefs(o.mention, TRUE)
                        IN  n \notin ids /\ ids \cap Db[n].mentions # {}

\* The notes whose text mentions the title of n, among those of o.mentionedBy:
\* the rows nsrc joined to n.
Mentioning(o, n) == {m \in findIdsByHrefs(o.mentionedBy, TRUE) : n \in Db[m].mentions}

InRange(t, range) == (range.start # 0 => t >= range.start) /\ (range.end # 0 => t < range.end)

\* The WHERE clause.
Satisfies(o, closure, n) ==
    /\ \A i \in DOMAIN o.match : <<o.match[i], o.strategy>> \in Db[n].hits
    /\ SatisfiesMention(o, n)
    /\ o.includeHrefs # <<>> => n \in findIdsByHrefs(o.includeHrefs, o.partial)
    /\ n \notin findIdsByHrefs(o.excludeHrefs, o.partial)
    /\ SatisfiesTags(o, n)
    /\ o.mentionedBy # <<>> => n \notin findIdsByHrefs(o.mentionedBy, TRUE) /\ Mentioning(o, n) # {}
    /\ SatisfiesLinks(o, closure, n)
    /\ o.orphan => \A l \in links : l[2] # n
    /\ o.tagless => Db[n].tags = {}
    /\ InRange(Db[n].created, o.created) /\ InRange(Db[n].modified, o.modified)

\* The number of rows of n in the answer: one per mentioning note, unless a
\* link filter groups the rows by note.
Multiplicity(o, closure, n) ==
    IF o.mentionedBy = <<>> \/ \E lf \in Range(LinkFilters(o)) : ~lf.negate
    THEN 1 ELSE Cardinality(Mentioning(o, n))

\* orderTerm
OrderKey(sorter, n) ==
    LET v == CASE sorter.field = "created" -> Db[n].created
               [] sorter.field = "modified" -> Db[n].modified
               [] sorter.field = "path" -> Db[n].pathOrder
               [] sorter.field = "title" -> Db[n].title
               [] OTHER -> Db[n].words
    IN  IF sorter.asc THEN v ELSE -v

\* The keys a row of n may be ordered by: the sort terms, the distance of some
\* row of each recursive filter, the title.  A random term and the score of a
\* full text match order the rows that tie so far in any way.
OrderKeys(o, closure, n) ==
    LET random == {i \in DOMAIN o.sorters : o.sorters[i].field = "random"}
        sorters == IF random = {} THEN o.sorters ELSE SubSeq(o.sorters, 1, Min(random) - 1)
        keys == [i \in DOMAIN sorters |-> OrderKey(sorters[i], n)]
        recursive == SelectSeq(LinkFilters(o), LAMBDA lf : lf.recursive)
        distances == {d \in [DOMAIN recursive -> 1..(Cardinality(Note) + 1)] :
                        \A i \in DOMAIN recursive :
                            d[i] \in {r[3] : r \in Rows(recursive[i], closure, n)}}
    IN  IF random # {} \/ (o.strategy = "fts" /\ (o.match # <<>> \/ o.mention # <<>>)) THEN {keys}
        ELSE {keys \o d \o <<Db[n].title>> : d \in distances}

AtMost(a, b) == \E k \in 1..(Len(a) + 1) : /\ SubSeq(a, 1, k - 1) = SubSeq(b, 1, k - 1)
                                           /\ k > Len(a) \/ a[k] < b[k]

\* The answers SQLite may give.
Answers(o) ==
    UNION {LET notes == {n \in Note : Satisfies(o, closure, n)}
               rows == {r \in notes \X (1..Cardinality(Note)) : r[2] <= Multiplicity(o, closure, r[1])}
               keysOf == [n \in notes |-> OrderKeys(o, closure, n)]
               keys == {k \in [rows -> UNION Range(keysOf)] : \A r \in rows : k[r] \in keysOf[r[1]]}
               size == IF o.limit > 0 THEN Min({o.limit, Cardinality(rows)}) ELSE Cardinality(rows)
           IN  {[i \in 1..size |-> s[i][1]] :
                    s \in {t \in SetToSeqs(rows) :
                             \E k \in keys : \A i, j \in DOMAIN t : i < j => AtMost(k[t[i]], k[t[j]])}}
           : closure \in Closures(MaxDistance(o))}

\* The query fails when a mention or link criterion designates no note, when
\* --mention comes with another strategy, or when a group of tags is negated.
FindFails(o) ==
    LET unknown(hrefs) == hrefs # <<>> /\ findIdsByHrefs(hrefs, TRUE) = {}
    IN  \/ o.mention # <<>> /\ o.strategy # "fts"
        \/ unknown(o.mention) \/ unknown(o.mentionedBy)
        \/ \E lf \in Range(LinkFilters(o)) : lf.ids = {}
        \/ \E i \in DOMAIN o.tags : Negated(o.tags[i]) /\ Len(Globs(o.tags[i])) > 1

Answer(o) == IF FindFails(o) THEN result' = Failure
             ELSE \E notes \in Answers(o) : result' = [failed |-> FALSE, notes |-> notes]

\* NoteDAO.Find
Find == /\ phase = "opts"
        /\ Answer(opts)
        /\ phase' = "done"
        /\ UNCHANGED <<links, filters, request, opts>>

HrefCriteria(href, partial) ==
    [CriteriaOf(Filtering) EXCEPT !.includeHrefs = <<href>>, !.partial = partial, !.limit = 1]

\* Notebook.FindByHref: the first note found for a link, in the language server.
FindByHref == /\ phase = "typed" /\ request.kind = "href"
              /\ opts' = HrefCriteria(request.href, request.partial)
              /\ Answer(opts')
              /\ phase' = "done"
              /\ UNCHANGED <<links, filters, request>>

Init == /\ \E r \in Requests : /\ request = r.request
                               /\ links \in LinkSets[r.links]
                               /\ filters = FilterMaps[r.filters]
        /\ phase = "typed" /\ opts = CriteriaOf(Filtering) /\ result = Nothing

Next == NewNoteFindOpts \/ Find \/ FindByHref

Spec == Init /\ [][Next]_vars

-----------------------------------------------------------------------------
(* What a query promises.                                                  *)

Found == ToSet(result.notes)
Answered == phase = "done" /\ ~result.failed

\* The first note has a link to the second.
Links(n, m) == \E l \in links : l[1] = n /\ l[2] = m

\* The notes reached from S by one link, and by one to k of them, backwards if
\* asked: the reference for the recursive query.
Step(S, back) == IF back THEN {l[1] : l \in {x \in links : x[2] \in S}}
                         ELSE {l[2] : l \in {x \in links : x[1] \in S}}
RECURSIVE Within(_, _, _)
Within(S, k, back) == IF k = 0 THEN {}
                      ELSE Step(S, back) \cup Within(Step(S, back), k - 1, back)

\* The notes linked with those a filter designates; a note is linked to itself
\* by a link to itself only.
Linked(lf, back) ==
    LET k == CASE ~lf.recursive -> 1
               [] lf.recursive /\ lf.maxDistance = 0 -> Cardinality(Note)
               [] OTHER -> lf.maxDistance
    IN  {n \in Note : \E m \in findIdsByHrefs(lf.hrefs, TRUE) :
                          n \in Within({m}, k, back) /\ (n = m => Links(n, n))}

\* The distance a filter asks for is the one the query uses: the filter on
\* outgoing links, then the related notes, overwrite the limit of the others.
OwnDistance(lf) == lf.recursive => lf.maxDistance = MaxDistance(opts)

\* --linked-by and --link-to (with --recursive and --max-distance) find the
\* notes that can be reached by that many links and no other, and their
\* negations find the others.  The query enumerates paths without repetition and
\* stops after a number of rows (note_dao.go:713, 720): beyond it notes may be
\* missing, never added.  With two link criteria whose distances differ, the
\* last one's distance replaces the first one's (note_dao.go:634, 642).
LinksFollowed ==
    Answered =>
        \A back \in BOOLEAN :
            LET lfs == IF back THEN opts.linkTo ELSE opts.linkedBy
            IN  lfs # <<>> /\ OwnDistance(lfs[1]) =>
                    IF lfs[1].negate THEN Found \cap Linked(lfs[1], back) = {}
                    ELSE /\ Found \subseteq Linked(lfs[1], back)
                         /\ opts = [CriteriaOf(Filtering) EXCEPT
                                       !.linkTo = IF back THEN lfs ELSE <<>>,
                                       !.linkedBy = IF back THEN <<>> ELSE lfs]
                            /\ ~(lfs[1].recursive /\ Truncated(MaxDistance(opts)))
                            => Found = Linked(lfs[1], back)

\* Every note found by --related has a linked note in common with one of the
\* given ones and is not connected to any of them ("having a linked note in
\* common, but not yet connected", docs/notes/note-filtering.md:287), even when
\* the row limit is reached.  Below the limit all those are found that a chain of
\* two links leads to or comes from (note_dao.go:641-648).  Two notes that link
\* to the same third one, or are linked by it, have a linked note in common too,
\* but they are not found.
RelatedShareALink ==
    Answered /\ opts.related # <<>> =>
        LET ids == findIdsByHrefs(opts.related, TRUE)
            connected(n, m) == Links(n, m) \/ Links(m, n)
            apart(n) == \A m \in ids : ~connected(n, m)
            chained(n, m) == \E c \in Note \ {n, m} :
                (Links(n, c) /\ Links(c, m)) \/ (Links(m, c) /\ Links(c, n))
        IN  /\ \A n \in Found : /\ apart(n)
                               /\ \E m \in ids, c \in Note : connected(n, c) /\ connected(c, m)
            /\ opts = [CriteriaOf(Filtering) EXCEPT !.related = opts.related] /\ ~Truncated(2) =>
                   \A n \in Note : apart(n) /\ (\E m \in ids \ {n} : chained(n, m)) => n \in Found

\* The file at path p, or one of the files below a directory p; every note is
\* below the notebook's own directory.
Below(n, p) == p = <<>> \/ Db[n].path = p \/ IsPrefix(p \o <<Slash>>, Db[n].path)

\* A path argument selects the note with that path and those of its descendants,
\* and --exclude rejects them ("including its descendants", filtering.go:17 and
\* 23).  A path also selects the files it is a prefix of in its directory, and no
\* other.  Two exceptions: the notebook's own directory stands for the notes at
\* its top level only, its relative path being empty (notebook.go:265), and
\* arguments that are all outside the notebook are dropped and select nothing
\* away (filtering.go:277).
PathsHonoured ==
    Answered /\ request.kind = "list" =>
        LET typed == ExpandNamedFilters(request.flags, {})
            paths == ToSet(relPaths(typed.path))
            excluded == ToSet(relPaths(typed.exclude))
            sibling(n, p) == /\ IsPrefix(p, Db[n].path)
                             /\ ~Contains(Rest(Db[n].path, Len(p) + 1), Slash)
        IN  /\ \A n \in Found : paths # {} => \E p \in paths : (p # <<>> /\ Below(n, p)) \/ sibling(n, p)
            /\ \A n \in Found, p \in excluded : p # <<>> => ~Below(n, p)
            /\ opts = [CriteriaOf(Filtering) EXCEPT !.includeHrefs = opts.includeHrefs] =>
                   \A n \in Note, p \in paths : p # <<>> /\ Below(n, p) => n \in Found

\* The names of the filters a filter refers to, directly or not.
RECURSIVE Refers(_, _)
Refers(names, k) == IF k = 0 THEN names
                    ELSE Refers(names \cup UNION {ToSet(filters[x].path) : x \in names \cap DOMAIN filters}, k - 1)
ReferredBy(x) == Refers(ToSet(filters[x].path), Cardinality(DOMAIN filters))

\* The expansion of named filters ends and is complete (filtering.go:45-130): a
\* name left among the paths is the name of a filter that refers to itself, and
\* the options are those typed and those of every filter reached from them, even
\* when two filters refer to the same third one: every value of a list, every
\* flag, and for an option with one value the typed one, or else that of some
\* filter.  One option is lost: the --match-strategy of a filter, because kong
\* has filled in that of the command line, and of the first filter, already
\* (filtering.go:22 and 122).
FiltersExpanded ==
    phase = "opts" =>
        LET typed == request.flags
            full == ExpandNamedFilters(typed, {})
            reached == Refers(ToSet(typed.path), Cardinality(DOMAIN filters)) \cap DOMAIN filters
            set(k) == {filters[x][k] : x \in reached} \ {Filtering[k]}
        IN  /\ \A p \in ToSet(full.path) : p \in DOMAIN filters => p \in ReferredBy(p)
            /\ \A p \in ToSet(typed.path) \cup UNION {ToSet(filters[x].path) : x \in reached} :
                   p \in ToSet(full.path) \/ p \in reached
            /\ \A k \in ListFields :
                   /\ IsPrefix(typed[k], full[k])
                   /\ ToSet(full[k]) = ToSet(typed[k]) \cup UNION {ToSet(filters[x][k]) : x \in reached}
            /\ \A k \in FlagFields : full[k] <=> typed[k] \/ \E x \in reached : filters[x][k]
            /\ \A k \in ScalarFields \ {"matchStrategy"} :
                   full[k] \in IF typed[k] = Filtering[k] /\ set(k) # {} THEN set(k) ELSE {typed[k]}
            /\ opts = CriteriaOf(full)

\* Every note is found by --created for exactly one day.  It is the day the note
\* was created on, except perhaps for a note created in the last second of a day:
\* this second is found for the next day, while the comment at filtering.go:286
\* has "the day range ends at 23:59:59".
OneDayEach ==
    Answered /\ request.kind = "list" /\ request.flags.created # 0 /\ filters = << >> =>
        \A n \in Note :
            LET asked == startOfDay(request.flags.created)
                day == startOfDay(Db[n].created)
                lastSecond == Db[n].created = day + Day - 1
                in(d) == InRange(Db[n].created, parseDayRange(d))
            IN  /\ n \in Found => asked = day \/ (lastSecond /\ asked = day + Day)
                /\ asked = day /\ ~lastSecond
                   /\ opts = [CriteriaOf(Filtering) EXCEPT !.created = opts.created] => n \in Found
                /\ lastSecond => (in(day) # in(day + Day))

\* The last sort term typed decides, whatever precedes it: an alias's --sort can
\* be overridden ("to be able to override sort criteria set in a config alias
\* with a `--sort` flag", note_find.go:116).  The terms of a named filter come
\* after the typed ones and outrank them (filtering.go:88).
LastSortDecides ==
    Answered /\ request.kind = "list" /\ request.flags.sort # <<>> =>
        LET inherited == ExpandNamedFilters(request.flags, {}).sort # request.flags.sort
            sorter == NoteSorterFromString(Last(request.flags.sort))
        IN  sorter.field # "random" /\ ~inherited =>
                \A i, j \in DOMAIN result.notes :
                    i < j => OrderKey(sorter, result.notes[i]) <= OrderKey(sorter, result.notes[j])

\* The three ways to resolve a link agree.  The note the language server opens is
\* the one the index resolves the link to, as long as one note matches best; among
\* several, the index takes the shortest path (note_dao.go:76) and the server the
\* first title (notebook.go:231 and note_dao.go:693), and one finds a note when
\* the other does.  A note the SQL search finds is one that the copy of the
\* matching in Go (the FIXME at note_dao.go:280) accepts when the note is added,
\* and when it accepts some note the search finds one; only an empty href is
\* accepted by the search alone.
LinksResolveAlike ==
    request.kind = "href" =>
        LET ids == FindIdsByHref(request.href, request.partial)
            accepted == {n \in Note : linkMatches(request.href, request.partial, Db[n].path)}
        IN  /\ phase = "done" =>
                   /\ Found \subseteq ids
                   /\ ids # {} => Found # {}
                   /\ Cardinality(ids) = 1 => Found = FindIdByHref(request.href, request.partial)
            /\ WithoutAnchor(request.href) # <<>> =>
                   ids \subseteq accepted /\ (accepted # {} => ids # {})
=============================================================================
