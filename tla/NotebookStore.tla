---------------------------- MODULE NotebookStore ---------------------------
(***************************************************************************)
(* The notebooks of a process (internal/core/notebook_store.go): Open,     *)
(* with its cache, locateNotebook and Init, on a file system with symbolic *)
(* links (internal/adapter/fs/fs.go).  The process is a language server,   *)
(* which opens the notebook of every document it is asked about; another   *)
(* process may create a notebook meanwhile, and may be killed doing so.    *)
(*                                                                         *)
(* An absolute path is the sequence of its names, "/" being <<>>.          *)
(***************************************************************************)
EXTENDS Config, FiniteSets

CONSTANTS
  Dir,         \* the directories, by their canonical paths
  Link,        \* the symbolic links to directories: a function from paths to Dir
  File,        \* paths of notes, which need not exist
  Asked,       \* paths that Open is called with
  Dotted,      \* names that start with ".."
  Layout,      \* file systems: directories with a .zk, contents of .zk/config.toml
  GlobalToml,  \* contents of the global configuration file, or Unset
  MaxOpens,    \* bound on the calls of Open
  MaxInits,    \* bound on the calls of Init
  NoRoot

VARIABLES
  zk,        \* the directories that have a .zk directory
  toml,      \* their .zk/config.toml
  templates,  \* those that have .zk/templates/default.md
  files,     \* the notes that exist
  heap,      \* the maps and slices of the process
  global,    \* NotebookStore.config
  globalToml,\* the file it was read from
  notebooks, \* NotebookStore.notebooks: Config by root path
  last,      \* the last call of Open: its canonical path and the root of its result
  opens,     \* number of calls of Open
  parses,    \* history: the local configurations the process has parsed, in order
  init,      \* the running Init of another process: directory, options, next step
  inits      \* number of calls of Init

disk == <<zk, toml, templates, files>>
process == <<heap, global, globalToml, notebooks, last, opens, parses>>
vars == <<disk, process, init, inits>>

\* InitOpts: the answers of the user, or NewDefaultInitOpts.
InitOpts == [wikiLinks : BOOLEAN, hashtags : BOOLEAN]

\* The calls of Init that may be running.
Creation == [dir : Dir, opts : InitOpts, step : {"mkdir", "create", "write", "template"}]

\* A path is a sequence of names, the canonical path of a directory or a note
\* goes through no link, and the notebooks are directories.
ASSUME NotebookStoreAssumption ==
  /\ Dir \cup File \cup Asked \subseteq Seq(STRING)
  /\ \A p \in Dir \cup File, l \in DOMAIN Link : ~IsPrefix(l, p)
  /\ \A l \in Layout : l.zk \subseteq Dir /\ DOMAIN l.toml = Dir
  /\ NoRoot \notin Creation
-----------------------------------------------------------------------------
(* File storage.                                                           *)

\* The path with its symbolic links replaced.
Resolve(p) ==
  LET above == {l \in DOMAIN Link : IsPrefix(l, p)}
  IN  IF above = {} THEN p
      ELSE LET l == CHOOSE k \in above : TRUE IN Link[l] \o SubSeq(p, Len(l) + 1, Len(p))

\* FileStorage.Canonical: EvalSymlinks fails when there is nothing at the path,
\* which is then left as it is.
Canonical(p) == IF Resolve(p) \in Dir \cup files THEN Resolve(p) ELSE p

\* filepath.Rel(dir, path) does not start with "..".
RelInside(dir, p) ==
  IsPrefix(dir, p) /\ (dir # p => p[Len(dir) + 1] \notin Dotted)

\* FileStorage.IsDescendantOf.
IsDescendantOf(dir, p) == RelInside(Canonical(dir), Canonical(p))

\* Notebook.RelPath succeeds.
RelPathDefined(root, p) == RelInside(root, p)
-----------------------------------------------------------------------------
(* NotebookStore.                                                          *)

\* locateNotebook: the deepest directory at or above the path with a .zk.
LocateNotebook(p) ==
  LET roots == {i \in 1..Len(p) : Resolve(SubSeq(p, 1, i)) \in zk}
  IN  IF roots = {} THEN NoRoot
      ELSE SubSeq(p, 1, CHOOSE i \in roots : \A j \in roots : j <= i)

\* Mutant of CachedNotebooksAt: only the root itself is looked up.
CachedRootsOnly(p) == {r \in DOMAIN notebooks : Canonical(r) = p}

\* Mutant of CachedNotebooksAt: any notebook will do.
CachedAnywhere(p) == DOMAIN notebooks

\* cachedNotebookAt: Go iterates over the map in any order.
CachedNotebooksAt(p) == {r \in DOMAIN notebooks : IsDescendantOf(r, p)}

\* The map notebooks with one more entry.
Cached(root, config) ==
  [r \in DOMAIN notebooks \cup {root} |-> IF r = root THEN config ELSE notebooks[r]]

Return(p, root) == last' = [path |-> p, root |-> root]

\* NotebookStore.Open(path).  The notebook is cached when its configuration is
\* valid and its database opens.
Open(path) ==
  LET p == Canonical(path)
      root == LocateNotebook(p)
  IN  /\ opens < MaxOpens
      /\ opens' = opens + 1
      /\ UNCHANGED <<disk, global, globalToml, init, inits>>
      /\ \/ /\ \E r \in CachedNotebooksAt(p) : Return(p, r)
            /\ UNCHANGED <<heap, notebooks, parses>>
         \/ /\ CachedNotebooksAt(p) = {}
            /\ root = NoRoot
            /\ Return(p, NoRoot)
            /\ UNCHANGED <<heap, notebooks, parses>>
         \/ /\ CachedNotebooksAt(p) = {}
            /\ root # NoRoot
            /\ \E c \in OpenConfig(heap, global, toml[Resolve(root)], FALSE), dbOpens \in BOOLEAN :
                 /\ heap' = c.heap
                 /\ parses' = Append(parses, [path |-> p, root |-> Resolve(root),
                                              toml |-> toml[Resolve(root)],
                                              ok   |-> c.ok /\ dbOpens])
                 /\ IF c.ok /\ dbOpens
                    THEN notebooks' = Cached(root, c.config) /\ Return(p, root)
                    ELSE UNCHANGED notebooks /\ Return(p, NoRoot)

\* NotebookStore.Init(path) of another process: no notebook may enclose the
\* new one.  Write makes the directories, creates the file empty and fills it.
InitStart(d, opts) ==
  /\ init = NoRoot /\ inits < MaxInits
  /\ LocateNotebook(d) = NoRoot
  /\ init' = [dir |-> d, opts |-> opts, step |-> "mkdir"]
  /\ inits' = inits + 1
  /\ UNCHANGED <<disk, process>>

\* generateConfig: the settings that the default configuration file does not
\* leave commented out.
GenerateConfig(opts) ==
  [EmptyToml EXCEPT !.template = "default.md", !.hashtags = opts.hashtags,
                    !.linkFormat = IF opts.wikiLinks THEN "wiki" ELSE Unset,
                    !.deadLink = "error"]

InitStep ==
  /\ init # NoRoot
  /\ CASE init.step = "mkdir"    -> /\ zk' = zk \cup {init.dir}
                                    /\ init' = [init EXCEPT !.step = "create"]
                                    /\ UNCHANGED <<toml, templates>>
       [] init.step = "create"   -> /\ toml' = [toml EXCEPT ![init.dir] = EmptyToml]
                                    /\ init' = [init EXCEPT !.step = "write"]
                                    /\ UNCHANGED <<zk, templates>>
       [] init.step = "write"    -> /\ toml' = [toml EXCEPT ![init.dir] = GenerateConfig(init.opts)]
                                    /\ init' = [init EXCEPT !.step = "template"]
                                    /\ UNCHANGED <<zk, templates>>
       [] init.step = "template" -> /\ templates' = templates \cup {init.dir}
                                    /\ init' = NoRoot
                                    /\ UNCHANGED <<zk, toml>>
  /\ UNCHANGED <<files, process, inits>>

\* The process of Init is killed, or one of its writes fails.
InitKilled ==
  /\ init # NoRoot
  /\ init' = NoRoot
  /\ UNCHANGED <<disk, process, inits>>

\* The user saves a note that does not exist yet.
CreateFile(f) ==
  /\ f \notin files
  /\ files' = files \cup {f}
  /\ UNCHANGED <<zk, toml, templates, process, init, inits>>

Init ==
  /\ \E l \in Layout : zk = l.zk /\ toml = l.toml
  /\ templates = zk
  /\ files = {}
  /\ globalToml \in GlobalToml
  /\ \E c \in OpenConfig(NewDefaultHeap, NewDefaultConfig, globalToml, TRUE) :
       c.ok /\ heap = c.heap /\ global = c.config
  /\ notebooks = <<>>
  /\ last = [path |-> <<>>, root |-> NoRoot]
  /\ opens = 0 /\ parses = <<>>
  /\ init = NoRoot /\ inits = 0

Next ==
  \/ \E p \in Asked : Open(p)
  \/ \E d \in Dir, opts \in InitOpts : InitStart(d, opts)
  \/ InitStep
  \/ InitKilled
  \/ \E f \in File : CreateFile(f)

Spec == Init /\ [][Next]_vars
-----------------------------------------------------------------------------
(* Properties.                                                             *)

\* What a configuration sets, read through the references of the heap.
Effective(c) ==
  [c EXCEPT !.exclude = Elems(heap, @)] @@
  [extra |-> heap.extra, filters |-> heap.filters, aliases |-> heap.aliases,
   groups |-> [n \in DOMAIN heap.groups |->
                 [heap.groups[n] EXCEPT !.exclude = ExcludeGlobs(heap, heap.groups[n])]]]

\* The same without references: the file t over a parent.
Over(parent, t) ==
  LET root == [paths |-> <<>>, template |-> Override(t.template, parent.template),
               exclude |-> parent.exclude \o t.exclude, extra |-> t.extra @@ parent.extra]
      Group(n) ==
        LET g == IF n \in DOMAIN parent.groups THEN parent.groups[n] ELSE root
            u == t.groups[n]
        IN  [paths    |-> g.paths \o (IF u.paths = Unset THEN << <<n>> >> ELSE u.paths),
             template |-> Override(u.template, g.template),
             exclude  |-> g.exclude \o u.exclude,
             extra    |-> u.extra @@ g.extra]
  IN  IF t = Unset THEN parent
      ELSE [parent EXCEPT
              !.dir = Override(t.dir, @), !.template = root.template,
              !.exclude = root.exclude, !.hashtags = Override(t.hashtags, @), !.extra = root.extra,
              !.linkFormat = IF t.linkFormat = "" THEN "markdown" ELSE Override(t.linkFormat, @),
              !.linkEncodePath =
                 IF t.linkEncodePath # Unset THEN t.linkEncodePath
                 ELSE IF t.linkFormat # Unset THEN t.linkFormat \in {"", "markdown"} ELSE @,
              !.edits = t.edits, !.deadLink = Override(t.deadLink, @),
              !.filters = t.filters @@ @, !.aliases = t.aliases @@ @,
              !.groups = [n \in DOMAIN t.groups |-> Group(n)] @@ @]

\* The globs of each group, relative to the root of the notebook.
Globs(c) ==
  [c EXCEPT !.groups =
     [n \in DOMAIN @ |->
        [@[n] EXCEPT !.exclude = {p \o <<e>> : p \in ToSet(c.groups[n].paths), e \in ToSet(@)}]]]

Defaults ==
  [NewDefaultConfig EXCEPT !.exclude = <<>>] @@
  [extra |-> Empty, filters |-> Empty, aliases |-> Empty, groups |-> Empty]

\* The lengths at which a slice that grew by appends fills its array.
FullLengths == {0, 1, 2, 4, 8}
ExcludeLength(t) == IF t = Unset THEN 0 ELSE Len(t.exclude)

\* A process that has read one notebook's configuration has the settings of
\* that file over those of the global one (ParseConfig), unless the excluded
\* globs that groups inherit sit in an array with room left, where the appends
\* of two groups land on each other.
OwnConfig ==
  \A r \in DOMAIN notebooks :
    (/\ Len(parses) = 1
     /\ ExcludeLength(globalToml) \in FullLengths
     /\ ExcludeLength(globalToml) + ExcludeLength(parses[1].toml) \in FullLengths)
      => Effective(notebooks[r]) = Globs(Over(Over(Defaults, globalToml), parses[1].toml))

\* Opening a notebook leaves the globs excluded by the others alone, provided
\* that the globs of the global configuration fill their array.
ExcludesKept ==
  [][ExcludeLength(globalToml) \in FullLengths =>
       \A r \in DOMAIN notebooks :
         Elems(heap', notebooks[r].exclude) = Elems(heap, notebooks[r].exclude)]_vars

\* A notebook is opened once: Open makes a second instance of it, with another
\* connection to its database, only for a path that IsDescendantOf does not
\* see inside it, because a name starts with ".." or because the path goes
\* through a symbolic link to a note that does not exist.
OneInstance ==
  \A i, j \in DOMAIN parses :
    (i < j /\ parses[i].ok /\ parses[j].ok /\ parses[i].root = parses[j].root)
      => ~RelInside(parses[j].root, parses[j].path)

\* The document that Open found a notebook for has a path relative to it
\* (RelPath), unless the notebook was opened through a symbolic link to a note
\* that did not exist, or the first name below the root starts with "..".
LookupsSucceed ==
  (/\ last.root # NoRoot
   /\ last.root = Resolve(last.root)
   /\ last.root # last.path => last.path[Len(last.root) + 1] \notin Dotted)
    => RelPathDefined(last.root, last.path)

\* Open finds the one notebook that encloses the document (cachedNotebookAt,
\* locateNotebook), whichever notebooks it has in its cache and whatever another
\* process creates meanwhile.  Two exceptions: notebooks opened through a
\* symbolic link, and notebooks within one another, where the cache may give
\* the outer one for a document of the inner one: Init refuses to make a
\* notebook inside another, but not around it.
EnclosingNotebook ==
  (/\ last.root # NoRoot
   /\ last.root = Resolve(last.root)
   /\ \A d, e \in zk : IsPrefix(d, e) => d = e)
    => {d \in zk : IsPrefix(d, last.path)} = {last.root}

\* The paths that a file declares for a group.
Declared(t, n) ==
  IF t = Unset \/ n \notin DOMAIN t.groups THEN {}
  ELSE IF t.groups[n].paths = Unset THEN {<<n>>} ELSE ToSet(t.groups[n].paths)

\* A directory belongs to a group that declares it, by its name or by a glob,
\* or, failing that, to the one that declares its nearest ancestor by name, in
\* the global configuration or the notebook's own; only groups that declare
\* the same path or match the same directory are told apart by the order of a
\* Go map.  A malformed glob in any group makes the lookup fail for every
\* directory that no group declares, and perhaps for the others.
NearestGroup ==
  \A r \in DOMAIN notebooks, d \in Dir :
    Len(parses) = 1 =>
      LET names == DOMAIN heap.groups
          All(n) == Declared(globalToml, n) \cup Declared(parses[1].toml, n)
          Depth(n) == {Len(p) : p \in {q \in All(n) : IsPrefix(q, d)}}
          Nearest(n) == \E k \in Depth(n) : \A m \in names : \A i \in Depth(m) : i <= k
          matching == {n \in names : \E g \in All(n) : Matches(g, d)}
          found == GroupNameForPath(heap.groups, d)
      IN  IF \E n \in names : \E g \in All(n) : Malformed(g)
          THEN found # {} /\ found \subseteq matching \cup {Invalid}
          ELSE found = IF matching # {} THEN matching
                       ELSE IF \E n \in names : Depth(n) # {}
                       THEN {n \in names : Nearest(n)} ELSE {Unset}
=============================================================================
