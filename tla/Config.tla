------------------------------- MODULE Config -------------------------------
(***************************************************************************)
(* Configurations (internal/core/config.go): a TOML file is parsed over a  *)
(* parent configuration, the global one over the defaults and that of a    *)
(* notebook over the global one.                                           *)
(*                                                                         *)
(* A Config is copied by value, but its maps and slices are references.    *)
(* The heap of a process holds them: the maps Extra, Groups, Filters and   *)
(* Aliases that NewDefaultConfig makes, which every Config of the process  *)
(* shares, and the backing arrays of the slices Note.Exclude.              *)
(*                                                                         *)
(* Settings that the code handles alike are one field: "template" stands   *)
(* for the settings of a note, "hashtags" for the syntaxes of tags and the *)
(* tools, "deadLink" for the severities, "edits" for the one setting that  *)
(* each file resets.                                                       *)
(***************************************************************************)
EXTENDS Naturals, Sequences, SequencesExt, TLC

CONSTANTS
  Unset,  \* a key that is absent from the TOML file
  Invalid \* the error of a malformed glob

Empty == <<>>
-----------------------------------------------------------------------------
(* Slices: an array of the heap and the length in use.                     *)

Nil == [array |-> 0, len |-> 0]
Spare(h, s) == s.array # 0 /\ s.len < Len(h.arrays[s.array])
Elems(h, s) == IF s.array = 0 THEN <<>> ELSE SubSeq(h.arrays[s.array], 1, s.len)

\* Go's append of one string: in place when the array has room, otherwise into
\* a new array of twice the length.
GoAppend(r, v) ==
  LET h == r.heap  s == r.slice
  IN  IF Spare(h, s)
      THEN [heap  |-> [h EXCEPT !.arrays[s.array][s.len + 1] = v],
            slice |-> [s EXCEPT !.len = @ + 1]]
      ELSE LET cap == IF s.len = 0 THEN 1 ELSE 2 * s.len
               new == [i \in 1..cap |-> IF i <= s.len THEN h.arrays[s.array][i]
                                        ELSE IF i = s.len + 1 THEN v ELSE Unset]
           IN  [heap  |-> [h EXCEPT !.arrays = Append(@, new)],
                slice |-> [array |-> Len(h.arrays) + 1, len |-> s.len + 1]]

GoAppendAll(h, s, vs) == FoldLeft(GoAppend, [heap |-> h, slice |-> s], vs)
-----------------------------------------------------------------------------
(* Groups.                                                                 *)

\* Config.RootGroupConfig.
RootGroupConfig(h, c) ==
  [paths |-> <<>>, template |-> c.template, exclude |-> c.exclude, extra |-> h.extra]

Override(new, old) == IF new = Unset THEN old ELSE new

\* GroupConfig.Clone and merge: Paths and Extra are copied, the array of
\* Note.Exclude is not.
Merge(h, g, t, name) ==
  LET r == GoAppendAll(h, g.exclude, t.exclude)
  IN  [heap  |-> r.heap,
       group |-> [paths    |-> g.paths \o (IF t.paths = Unset THEN << <<name>> >> ELSE t.paths),
                  template |-> Override(t.template, g.template),
                  exclude  |-> r.slice,
                  extra    |-> t.extra @@ g.extra]]

\* The loop of ParseConfig over the groups of the file, in the order that Go
\* iterates over the map.
ParseGroups(h, c, t, order) ==
  LET Step(g, name) ==
        LET m == Merge(g, IF name \in DOMAIN g.groups THEN g.groups[name]
                          ELSE RootGroupConfig(g, c), t.groups[name], name)
        IN  [m.heap EXCEPT !.groups = (name :> m.group) @@ @]
  IN  FoldLeft(Step, h, order)

\* filepath.Match of a path of a group, which is a glob: "*" stands for any one
\* name, and a pattern with "[" is malformed.
Malformed(glob) == "[" \in ToSet(glob)
Matches(glob, path) ==
  Len(glob) = Len(path) /\ \A i \in DOMAIN path : glob[i] \in {"*", path[i]}

\* strings.HasPrefix(path, groupPath + "/"): without metacharacters.
Above(glob, path) == glob # <<>> /\ IsStrictPrefix(glob, path)

\* Mutant of GroupNameForPath: the first path above is taken, not the longest.
GroupNameAnyPrefix(groups, path) ==
  LET above == {n \in DOMAIN groups :
                  \E i \in DOMAIN groups[n].paths : IsPrefix(groups[n].paths[i], path)}
  IN  IF above = {} THEN {Unset} ELSE above

\* Config.GroupNameForPath: the names it may return for a path relative to the
\* notebook, by the order of a Go map.  The first glob of a group that is
\* malformed or matches ends the search; without one, the longest path above
\* the given one decides.
GroupNameForPath(groups, path) ==
  LET Ends(g) == Malformed(g) \/ Matches(g, path)
      First(n) == SelectInSeq(groups[n].paths, Ends)
      ending == {n \in DOMAIN groups : First(n) # 0}
      above == {g \in UNION {ToSet(groups[n].paths) : n \in DOMAIN groups} : Above(g, path)}
      longest == {g \in above : \A f \in above : Len(f) <= Len(g)}
  IN  IF ending # {}
      THEN {IF Malformed(groups[n].paths[First(n)]) THEN Invalid ELSE n : n \in ending}
      ELSE IF above = {} THEN {Unset}
      ELSE {n \in DOMAIN groups : ToSet(groups[n].paths) \cap longest # {}}

\* GroupConfig.ExcludeGlobs.
ExcludeGlobs(h, g) ==
  IF g.paths = <<>> THEN {<<e>> : e \in ToSet(Elems(h, g.exclude))}
  ELSE {p \o <<e>> : p \in ToSet(g.paths), e \in ToSet(Elems(h, g.exclude))}
-----------------------------------------------------------------------------
(* Parsing.                                                                *)

\* NewDefaultConfig.
NewDefaultHeap ==
  [extra |-> Empty, groups |-> Empty, filters |-> Empty, aliases |-> Empty, arrays |-> <<>>]
NewDefaultConfig ==
  [dir |-> Unset, template |-> Unset, exclude |-> Nil, hashtags |-> TRUE,
   linkFormat |-> "markdown", linkEncodePath |-> TRUE, edits |-> Unset, deadLink |-> "error"]

\* tomlConfig: the contents of a file that sets nothing.
EmptyToml ==
  [wrong |-> "no", dir |-> Unset, template |-> Unset, exclude |-> <<>>, extra |-> Empty,
   groups |-> Empty, hashtags |-> Unset, linkFormat |-> Unset, linkEncodePath |-> Unset,
   edits |-> Unset, deadLink |-> Unset, filters |-> Empty, aliases |-> Empty]

\* The fields of Config.Format.Markdown about links.
LinkFormat(c, t) ==
  IF t.linkFormat = "" THEN "markdown" ELSE Override(t.linkFormat, c.linkFormat)
LinkEncodePath(c, t) ==
  IF t.linkEncodePath = Unset /\ t.linkFormat # Unset THEN LinkFormat(c, t) = "markdown"
  ELSE Override(t.linkEncodePath, c.linkEncodePath)

\* Mutant of ParseConfig: the globs of the file replace the inherited ones, in
\* the array of the parent.
ParseConfigReset(h, parent, t, isGlobal, order) ==
  LET e == GoAppendAll(h, [parent.exclude EXCEPT !.len = 0], t.exclude)
  IN  [heap |-> e.heap, config |-> [parent EXCEPT !.exclude = e.slice], ok |-> TRUE]

\* Mutant of ParseConfig: the groups are read before the settings they inherit.
ParseConfigGroupsFirst(h, parent, t, isGlobal, order) ==
  LET g == ParseGroups(h, parent, t, order)
      e == GoAppendAll(g, parent.exclude, t.exclude)
  IN  [heap   |-> [e.heap EXCEPT !.extra = t.extra @@ @, !.filters = t.filters @@ @,
                                 !.aliases = t.aliases @@ @],
       config |-> [parent EXCEPT !.exclude = e.slice,
                                 !.template = Override(t.template, @)],
       ok     |-> t.wrong = "no" /\ (t.dir = Unset \/ isGlobal)]

\* ParseConfig.  t.wrong is where the file is found to be wrong: "early" (not
\* TOML, a template path that cannot be expanded) before the shared maps are
\* written, "late" (an unknown severity) between the groups and the filters.
ParseConfig(h, parent, t, isGlobal, order) ==
  LET e == GoAppendAll(h, parent.exclude, t.exclude)
      c == [dir            |-> Override(t.dir, parent.dir),
            template       |-> Override(t.template, parent.template),
            exclude        |-> e.slice,
            hashtags       |-> Override(t.hashtags, parent.hashtags),
            linkFormat     |-> LinkFormat(parent, t),
            linkEncodePath |-> LinkEncodePath(parent, t),
            edits          |-> t.edits,
            deadLink       |-> Override(t.deadLink, parent.deadLink)]
      g == ParseGroups([e.heap EXCEPT !.extra = t.extra @@ @], c, t, order)
  IN  IF t.wrong = "early" \/ (t.dir # Unset /\ ~isGlobal)
      THEN [heap |-> h, config |-> parent, ok |-> FALSE]
      ELSE IF t.wrong = "late" THEN [heap |-> g, config |-> parent, ok |-> FALSE]
      ELSE [heap   |-> [g EXCEPT !.filters = t.filters @@ @, !.aliases = t.aliases @@ @],
            config |-> c,
            ok     |-> TRUE]

\* OpenConfig: the file is optional.  Go may iterate over the groups in any
\* order, so the result is one of a set.
OpenConfig(h, parent, t, isGlobal) ==
  IF t = Unset THEN {[heap |-> h, config |-> parent, ok |-> TRUE]}
  ELSE {ParseConfig(h, parent, t, isGlobal, order) :
          order \in SetToSeqs(DOMAIN t.groups)}
=============================================================================
