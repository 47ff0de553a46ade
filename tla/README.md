# TLA+ models of zk

This directory models zk from its command line to its database: the indexing of a
notebook, the SQLite index and the queries on it, the creation of notes,
configurations and the notebooks of a process, the open documents of the language
server, and a run of the command line with the programs it starts. TLC checks the
models on small instances; TLAPS proves the most important properties for all
values of the constants.

`PROJECT.json` lists the components, the runs, the mutants, the source lines of
each definition, the findings, the hazards and the theorems.

## The system

A notebook is a directory of Markdown files. zk keeps an index of them in a
SQLite database and answers all its questions from there. Source paths are below
`src/internal`, apart from `main.go`.

| part | source | state it owns | modelled in |
|---|---|---|---|
| directory walk | `util/paths/walk.go` | agenda of the walk, a bounded channel | `Walk` |
| merge diff | `util/paths/diff.go` | two channels, the pair of files compared | `DiffLoop`, `Diff`, `PathOrder`, `WalkOrder` |
| indexing task | `core/note_index.go`, `notebook.go`, `note_parse.go` | the note being parsed, the flag `zk.reindexing_required` | `Indexing` |
| SQLite index | `adapter/sqlite` | tables notes, links, collections, notes_collections, metadata | `NoteIndex`, `NoteIndexContract` |
| queries | `cli/filtering.go`, `core/note_find.go`, `adapter/sqlite/note_dao.go` | none: they read | `Query` |
| creation of notes | `core/note_new.go`, `notebook.go`, `adapter/fs/fs.go` | the file written, the map `config.Extra` | `NewNote` |
| configuration | `core/config.go` | the maps and arrays that configurations share | `Config` |
| notebook store | `core/notebook_store.go` | the cache of open notebooks, the files of `.zk` | `NotebookStore` |
| language server | `adapter/lsp/server.go`, `document.go` | open documents, refreshes, the variables of the link search | `DocumentLinks`, `Diagnostics` |
| command line | `main.go`, `cli/container.go` | arguments, environment, processes of aliases | `CommandLine` |
| fzf, pager, editor | `adapter/fzf`, `util/pager`, `adapter/editor`, `cli/cmd` | pipes, goroutines, selection | `Interaction` |
| Markdown parser, templates, formatting | `adapter/markdown`, `adapter/handlebars`, `core/*_format.go` | none | not modelled |

A run of zk looks for a notebook, reads its configuration over the global one, and
either runs an alias, which usually starts zk again, or indexes the notebook and
carries out a command. The language server does the same for each document, and
keeps what it opened; it indexes when a document is saved.

An indexing is one transaction. In it, a goroutine walks the directory and sends
the metadata of the files to a channel; the index delivers its rows through a
second channel; `Diff` merges the two, and its callback reads, parses and stores
each file that was added or modified and removes the rows of the others.
Meanwhile the user goes on writing and deleting files. Several processes (a
server per editor, commands in terminals) share the disk and the database.

What makes this hard:

- the merge depends on the order of its two streams, which three pieces of code
  define in three ways;
- the walk, the reading of a content and the reading of its date happen at
  different times, and files change in between;
- most errors are logged and not returned, inside a transaction that is then
  committed;
- links are resolved against the notes that happen to be indexed already, and
  retargeted when others come; the matching is written twice, in SQL and in Go;
- the creation of a note is a test, a create, a write, a stat and an insert, with
  other processes between any two of them;
- configurations are copied by value, their maps and slices by reference;
- filters overwrite each other's limits while one SQL query is put together;
- the goroutines of the language server share fields and variables of the package
  without a lock;
- fzf and the pager are left by the user at any moment, also while zk writes to
  them.

## The modules

`Stream`, `DiffLoop`, `Walk`, `DocumentLinks`, `Config`, `CommandLine` and
`Interaction` are parts that other modules compose.

**Stream** defines file metadata and channels. A channel is the set of the values
still to be received: a producer sends in the order of `filepath.Walk` and no path
twice, so the head of the queue is the least element.

**DiffLoop** has one action for each statement of the loop of `Diff` that can
matter: `ReceiveSource`, `ReceiveTarget`, `Compare` (one disjunct for each case of
`diffPair.diff`) and `Return`. `opened` is the pair `sourceOpened`,
`targetOpened`. `WalkRank` and `ByteRank` are the order in which the streams come
and the order in which `diff` compares.

**Diff** runs the loop on any two streams, with a callback that records what it
gets and may fail. `ExpectedKind` is the reference: what a comparison of the two
sets has to say.

**PathOrder** has the three orders as relations between two paths, which are
sequences of bytes: `filepath.Walk`, `ORDER BY sortable_path`, and `<` on strings.
Its actions create and delete files, so that TLC visits all small trees.

**WalkOrder** has the whole sequences: what `filepath.Walk` visits, which is a
recursion over directories, and what the database returns.

**Walk** models the goroutine of `paths.Walk`. `todo` holds the entries whose
names have been read from their directory. Visiting a directory reads its names;
visiting a file does an lstat, and sends. An error ends the walk.

**Indexing** composes `Walk` and `DiffLoop` with the callback of
`indexTask.execute`, the transaction, the user, upgrades and crashes. A version
number stands for a content and for its modification date. A file may be locked or
malformed, and a statement of the database may fail before the row is written or
after it (`StoreFails`, `StoreHalf`). The rows of the
target stream are those of the start of the indexing: no SQL index covers
`sortable_path`, so SQLite sorts all rows at the first step of the cursor, before
the first write.

**NoteIndex** models `NoteIndex.Add`, `Update` and `Remove` one SQL statement at a
time, in the transaction of an indexing (`batch`) or in one of their own
(`single`). `op` and `stage` say where the operation is. The regular expressions
that match hrefs with paths are constant relations: the model says nothing about
their text, and everything it shows holds for any relation that satisfies
`NoteIndexAssumption`. Ids are given out once (AUTOINCREMENT). `RemoveNote` has
the actions of the foreign keys, or none, if the connection is one on which the
pragma was never executed.

**NoteIndexContract** is the abstract specification: a map from paths to notes
that changes by whole operations and is committed by whole transactions.
`NoteIndex` implements it under the mapping `Contract`: `committed` is read from
the saved tables, `working` from the tables when no operation is under way, and
from the state before the operation when one is.

**Query** follows a request in two actions, as `zk list` does. `NewNoteFindOpts`
expands the named filters (`ExpandNamedFilters`), resolves dates and paths and
builds the criteria; `Find` joins the recursive closure of the links, which
enumerates paths without repetition up to `RowLimit` rows, applies the criteria
and sorts. A jump to a link is `FindByHref`. Paths and hrefs are sequences of
characters, so that the matching of prefixes, file names and anchors is the one of
the code. Which notes a full-text search or a glob finds, and which titles a note
mentions, is said by the constant `Db`.

**NewNote** models `Notebook.NewNote` between system calls: `Invoke`, `Generate`
(one iteration of `generatePath`), `CreateFile` (os.Create, which truncates),
`WriteContent`, `StatFile`, `AddNote`, with the failures of each, the commit that is
lost without an error (`AddLost`), the end of the process, the other processes, and the user. A file has an inode, so that a write
to a file that has been deleted or replaced is lost. `Index` is the indexing of
another process, here as one undisturbed step; what can go wrong within it is the
subject of `Indexing`.

**Config** parses a TOML file over a parent configuration. The heap of the process
has the maps that all configurations share and the arrays behind the lists of
excluded globs; an append writes to the array of the parent when there is room
left, and to a new one of twice the size otherwise. `GroupNameForPath` gives a set:
the answers that a loop over a Go map may end with, the error of a malformed glob
included.

**NotebookStore** models `Open` with its cache, `locateNotebook`, and `Init` as the
steps of another process that may be killed between two of them. `Canonical` is
what the file system does with symbolic links: a path that does not exist is not
resolved. `parses` records what was read and when, `last` the last answer of
`Open` with the canonical path that it was computed from.

**DocumentLinks** models the search for links: one action for each line. The
variables of the package (`insideInline`, `insideFenced`, `insideIndented`,
`currentCodeBlockStart`) are shared by all threads. A line is one of the kinds
that the regular expressions tell apart. A line is searched in one step; two
searches interleave line by line.

**Diagnostics** models the handlers for documents, the refresh with its delay,
`GetLines` in the four steps in which a race can happen, and the goroutine that
sends the diagnostics. Handlers run one after the other in the thread `main`.
Which links are dead is not modelled: a diagnostic stands for the lines it was
computed from. `Close` deletes a URI from a map of paths, which deletes nothing,
and the model says so.

**CommandLine** models `main` up to the command: `findFlag` and `parseDirs` on the
arguments, `notebookSearchDirs`, `SetCurrentNotebook`, the alias with its
environment (`ZK_NOTEBOOK_DIR`, `ZK_RUNNING_ALIAS`), the parser of the arguments
with its flags, and the indexing before a command. A process may fail to start, for
want of its global configuration or its working directory (`BootFails`). The processes that wait for each other are the
variable `stack`.

**Interaction** models a command at work: `main`, the goroutine and the process of
fzf, the goroutine and the process of the pager, their pipes of `PipeSize` lines,
the channels `done`, the question before many notes are edited, and the editor.
`job` says what the command is asked and what it will meet: an error of the query,
of the format, of a line of fzf, of the pipe of the pager or of the editor, and the
answer of the user. `index`, `init` and the help are one step that may fail. fzf
and the pager may fail to start, and may end at any moment and in any way.

**CommandRun** composes the two: the last process of the stack carries out its
command, and its exit status goes back along the stack.

The modules `MC*` give values to the constants. `*Proofs` hold the theorems.

## The runs

Runs that pass:

| run | instance | shows |
|---|---|---|
| `diff_sorted` | 4 paths, 2 dates, all pairs of streams, failing callback | if both streams come in the order of the comparison, a report is exact, a report that was cut short is a part of it, and the loop ends |
| `path_order` | paths of up to 4 bytes, up to 3 files, bytes `-`, `a` and `/` | `sortable_path` gives the order of `filepath.Walk`; the comparison of `diff` differs from it exactly where a directory stands beside a name that extends its name with a byte below `/` |
| `indexing_busy` | 3 files, of which two stand in the walk and in `diff` in different orders, a hidden directory; 3 writes at any moment, a file that may be locked or excluded, malformed contents, 1 failure, 1 upgrade | every path that nobody touched is right, also beside two that `diff` compares in the wrong order; a stale row is noticed, with the three exceptions named below |
| `indexing_catchup` | 2 files in different orders, two directories that may become unreadable, 3 writes, 1 failure | every indexing ends; once changes and failures stop, the index comes to match the notebook for good, as far as the walk gets |
| `noteindex_contract` | 2 notes, hrefs that are external, an anchor or a wiki link, 1 tag, 4 ids | the tables stay sound at each statement, links are resolved in any order of indexing, and the contract is implemented |
| `noteindex_faults` | 2 notes, 3 ids, failing statements, foreign keys on or off | a link never leads to a note that its href does not match |
| `new_note` | 1 path, a command and a server, 2 calls, 4 writes, 2 attempts | no existing note is overwritten; a returned note is on the disk and indexed, or without a row if its commit was lost; whatever fails, the next indexing repairs the index |
| `diagnostics` | 2 documents, one in a notebook, 2 goroutines, 3 edits, texts that leave inline code and a fence open | no change goes without a refresh, apart from two races; the flag does not get stuck; a search that is alone is exact and does not panic |
| `notebooks` | a notebook, two directories in it, one of which may be a notebook and one with a name in `..`, a symbolic link; two notebooks side by side; globs, one malformed; 3 calls of `Open` beside one `Init` | the first configuration read is the file over the global one; a notebook is opened once, and is the one that encloses the path; groups are found; what survives the opening of the next notebook |
| `queries` | 4 notes, all graphs on 3 of them and the larger ones described in `MCQuery`, requests that combine the options, filters that refer to each other | the SQL query selects what the options mean: distances of links, related notes, paths, days, sort order, named filters; the ways to resolve a link agree |
| `commands` | 4 directories with a notebook, one of them broken; aliases that call themselves, each other, or name a directory; up to 3 notes | the run works in the right notebook, shows and opens what was chosen, ends, and reports failures, whichever program ends first |

One run finds a violation, with a finding in `PROJECT.json`:

| run | what happens |
|---|---|
| `new_note_extra` | an extra variable of one `zk.new` is expanded in the next note |

### Bounds

The interesting cases need few objects: the merge compares two files at a time,
so four paths give every order of three neighbours; a link needs two candidates,
and a third id shows what happens after a removal; a race for a filename needs
two writers; the shared maps need two notebooks and a global configuration, of
which three calls open every order; a path of links that meets another one, or
itself, needs four notes; a list longer than the pipe of a child needs two lines.

Sizes of the code are made small so that their limit is reached: `ChannelSize` is 1
instead of 50, `MaxAttempts` 2 instead of 50, `RowLimit` 6 instead of 100000,
`PipeSize` 1 line, `Many` 2 notes instead of 5, `Day` 4 seconds. `MaxClock`,
`MaxVersion`, `MaxCalls`, `MaxEdits`, `MaxFaults`, `MaxSchema`, `MaxId`, `MaxOpens`,
`MaxInits` and `MaxDepth` bound what would go on for ever. In `diagnostics` the
goroutines are symmetric; no liveness is checked there.

In the runs of `Indexing`, the directory `d` stands beside the note `d.md`, so
`ByteRank` and `WalkRank` differ. The larger instance checks the invariants; liveness
is checked on the smaller one, since the search for cycles costs more than the states.

The largest state spaces are those of `indexing_busy` (4.9 million states, 1.5 minutes
on two cores), `notebooks` (1.2 million), `new_note`, `noteindex_faults` and
`diagnostics` (0.9 million each); the others have less than 0.4 million.

Deadlock is not checked where the bounds or the end of the work stop the model:
`Diff` returns, a query is answered, a run of zk is over, and the calls of `NewNote`
and `Open` and the edits of `Diagnostics` are used up. It is checked in `Indexing`,
`NoteIndex` and `WalkOrder`. That `commands` reaches its end is `RunEnds`.

### Fairness

- `Diff!FairSpec` assumes that the loop goes on, as any running goroutine does.
- `Indexing!FairSpec` assumes the same of the walker and of the loop together
  (`WF_vars(Run)`), and that zk is run again (`WF_vars(StartIndexing)`): each command
  and each save indexes. Nothing is assumed of the user, of crashes or of failures,
  which are bounded instead.
- `CommandRun!Spec` assumes that each zk process, each goroutine and the reading of
  the children go on, and that fzf and the pager end once they have read all their
  input and it is closed, as when the user leaves them. It does not assume that they
  end earlier, although they may. The answers to questions and the end of the editor
  are steps of main, which waits for them.

### The exceptions in the properties

Some properties name a case that the code leaves open, often with a history
variable that marks it. Each is a place where the code does less than one might
expect.

The merge and the indexing:

- `ReportExact` holds of streams in the order of Go's strings. `filepath.Walk` and
  `sortable_path` come in another order when a directory stands beside a name that
  extends its own (`foo/` and `foo.md`): `DiffOrderUnlessShadowed` says that this is
  the only case. There, `diff` compares with `<` (diff.go:131) what is not sorted by
  `<`, and may report a file that is on both sides as removed and added, although a
  comment asks for sorted sources (diff.go:63).
- `IndexMatchesDisk` excludes a path that was touched, or that the database refused,
  during the indexing (`disturbed`), a path that `diff` compares with another one in
  the wrong order (`Unshadowed`), and a walk that was cut short: an error ends the walk
  (walk.go:19), its channel is closed like any other, and the notes not yet visited are
  removed from the index. A file that cannot be read or parsed may keep its old row.
- `EventuallyInSync` says that later indexings make up for all of these, but for the
  notes that the walk visits after a directory that stays unreadable: they are lost
  from the index as long as it does.
- `StaleIsDetected` excludes three kinds of notes until they are written again
  (`overlooked`). One was written between the reading of its content and of its date
  (note_parse.go:47 and 95): its old content is in the index with the new date. One
  could not be read or stored by an indexing that was to read every note again: the
  error is logged, and the flag of the reindexing is cleared all the same. The third
  was stored with its date, but a later statement, about its links or tags, failed:
  the error is logged and the transaction committed (note_index.go:178).

The index and the queries:

- `TargetsMatch` excludes links that are only an anchor, as `[[#heading]]`:
  `FindIdsByHref` finds notes for the empty href (note_dao.go:281), which
  `linkMatchesPath` refuses (note_index.go:182).
- `UnresolvedMeansNoMatch` excludes links whose target was removed (`orphans`): the
  foreign key sets their target to NULL, and nothing resolves them again.
- `LinksFollowed` excludes two link criteria with different distances, of which the
  last replaces the first (note_dao.go:634 and 642), and allows notes to be missing
  beyond the row limit (note_dao.go:720).
- `RelatedShareALink` says of every note found that it has a linked note in common
  with a given one, as docs/notes/note-filtering.md:287 has it. The converse it says
  only of chains of two links: two notes that link to the same third one, or are linked
  by it, are not found (note_dao.go:641).
- A note is listed several times by `--mentioned-by` with several notes, since this
  join is not grouped (note_dao.go:620). No property is about it.
- `FiltersExpanded` excludes the `--match-strategy` of a named filter. It is lost: the
  one of the command line has a default and is never empty (filtering.go:22 and 122).
- `PathsHonoured` excludes the directory of the notebook itself, which selects the
  notes at the top level only (notebook.go:265), and arguments that are all outside
  the notebook, which are dropped (filtering.go:277).
- `OneDayEach` counts the last second of a day as the next day, while a comment says
  that "the day range ends at 23:59:59" (filtering.go:286).
- `LastSortDecides` excludes the sort of a named filter, which outranks the typed
  one (filtering.go:88).
- `LinksResolveAlike` allows the index and the language server to choose differently
  among several notes that match a link (note_dao.go:76 and 693).

Notebooks:

- `OwnConfig` and `NearestGroup` are about the first notebook a process reads: all
  configurations share the maps that `NewDefaultConfig` makes (config.go:346 and
  353), so each later one adds to the groups, filters and aliases of the earlier.
- `OwnConfig` and `ExcludesKept` exclude lists of globs that leave room in their
  array, where the appends of two groups or notebooks overwrite each other.
- `NearestGroup` allows any of several groups that declare the same path or whose globs
  match the same directory. With a malformed glob in any group, the lookup fails for
  every directory that no group declares, and for the others as the order of the map
  has it (config.go:121).
- `EnclosingNotebook` excludes notebooks within one another, where the cache gives the
  outer one for a note of the inner one once the outer one is open: `Init` refuses to
  make a notebook inside another, but not around it.
- `OneInstance` and `LookupsSucceed` exclude names that start with `..` and, like
  `EnclosingNotebook`, paths through a symbolic link to a note that does not exist yet.
  `LookupsSucceed` is about
  the path as `Open` saw it: once the note is created, the same path leads elsewhere.
- An `Init` that is killed half-way leaves a configuration that names a template which
  is not there, and `Init` refuses to run again. No property is about it.

Notes, documents and commands:

- `ReturnedNoteIsIndexed` excludes paths that somebody else touched during the call
  (`touched`). After a commit that was lost (transaction.go:62) it says that the file is
  there and has no row, so that the next indexing adds it.
- `NextIndexingRepairs` excludes paths that two writers raced for (`raced`): the
  slower call can pair its own content with the date of the other write.
- `DiagnosticsCurrent` excludes stale cached lines (`stale`) and diagnostics that
  overtook each other (`latest`); `ScanExact` excludes searches at the same time
  (`overlapped`), which can panic.
- `AliasOnce` and `RunEnds` exclude aliases that call one another in a circle: only
  the last one is remembered (main.go:177). An alias that starts with a flag counts
  as one that can call any other, since the user's next word may name it.
- `AliasKeepsNotebook` excludes a child whose arguments name a directory. They are the
  alias's own, and the user's if a flag is repeated: `findFlag` takes out its first
  occurrence only (main.go:281), and the others are passed on.
- `RightNotebook` is about flags given once. A flag without its value ends zk, and so
  does a notebook that cannot be opened, both with status 1, and so does a zk that
  cannot start, which `AliasKeepsNotebook` excludes too. A value attached to the short
  flag, `-Wpath`, is understood by the parser, but too late to change the notebook.
- `OrderlyEnd` excludes a line of fzf that cannot be rendered: zk returns without
  closing fzf (note_filter.go:142).

## The proofs

| module | theorem | about |
|---|---|---|
| `DiffProofs` | `TypeCorrect`, `ReportExactTheorem` | the merge, for all streams |
| `PathOrderProofs` | `SortedAsWalkedTheorem`, `DiffOrderTheorem` | the three orders, for paths of any length and all trees |
| `IndexingProofs` | `StaleIsDetectedTheorem`, `IndexMatchesDiskTheorem` | an indexing with its walk, its merge and its user, for all notebooks |
| `NoteIndexProofs` | `TypeCorrect`, `ReferentialIntegrityTheorem`, `TargetsMatchTheorem`, `UnresolvedTheorem` | the tables, for all notes, hrefs and matching relations |
| `NoteIndexProofs` | `ImplementsContractTheorem` | the statements implement the contract of the index |
| `NewNoteProofs` | `TypeCorrect`, `NextIndexingRepairsTheorem`, `KeepsExistingNotesTheorem`, `ReturnedNoteIsIndexedTheorem` | the creation of notes, for any number of processes and paths |
| `NotebookStoreProofs` | `OneInstanceTheorem`, `LookupsSucceedTheorem`, `EnclosingNotebookTheorem` | the cache and `Init`, for all trees of directories and links |
| `DiagnosticsProofs` | `SingleRefreshTheorem`, `DiagnosticsCurrentTheorem`, `ScanExactTheorem` | refreshes and link searches, for any number of documents, lines and goroutines |
| `CommandRunProofs` | `SelectionKeptTheorem`, `OrderlyEndTheorem` | fzf, pager and editor, for all command lines, lists and sizes of pipes |
| `CommandRunProofs` | `AliasKeepsNotebookTheorem`, `AliasOnceTheorem`, `RightNotebookTheorem` | the notebook of a run and its aliases, for all trees and configurations |

The assumptions on constants have a name in the module that declares them, and TLC
evaluates them on the instances. They say what kind of thing a constant is, and
where a section below says so, a little more. Each theorem holds for every value of
the bounds.

**DiffProofs.** The assumption is `OrdersAgree`: both orders on paths are the same.
It does not hold of every notebook (`DiffOrderUnlessShadowed`); the theorem says
that it is the only thing missing. The report is exact at the end because, at each
moment, the two streams split into a part that was received and a part that was
not, and every path received and no longer in the pair was reported with its
`ExpectedKind`. The step that needs the order is the one that reports a file as
added or removed: that its path cannot still come from the other stream follows
from its being smaller than the head of that stream, and the head being the least
of what is left.

**PathOrderProofs.** All three comparisons are decided by the first position at which
two paths differ (`Differ`): by the bytes there for `<`, by the same with a slash
below every other byte for `sortable_path`, and by the names around this position for
the walk. The only assumption is that a name has no byte 0 or 1: `sortable_path` puts
the byte 1 for a slash. The invariant `TreeInv` is needed: if a file could be a
directory of another, neither order would say which comes first. `DiffOrderTheorem`
describes the notebooks of which the hypothesis `OrdersAgree` is true.

**IndexingProofs.** `WalkAssumption` says that the entries are a tree (every set of
entries with the directory of each of them has the root) and that `filepath.Walk`
visits a directory before, and as one block with, what is in it.
*A stale row is detected* (`DetectInv`): all dates are in the past (`VersionInv`), so
a new write gets a date that no row has; and for each path that is not overlooked
(`NotStale`), the row in the transaction is fine, or it is still to be compared, or
the callback is at it, wherever the run stops. No order is needed for this.
*The index matches the notebook* (`MatchInv`): both streams are in the order of the
walk, and what the walk has yet to visit comes after what it has sent (`OrderInv`);
the rows still to come are those of the database (`TargetInv`); and for each path
that nobody touched (`PathInv`), the row is up to date, unless file or row are still
to come, in which case both are, if both exist. Only the last fact needs an order, and
only of the path itself: that it stands on the same side of every other path for the
walk and for `diff` (`Unshadowed`). Nothing is assumed of how the others are ordered.
The source is not a set given beforehand but a walk under way: a file is still to come
as long as a directory above it is on the agenda.

**NoteIndexProofs.** `TypeCorrect` and `TargetsMatchTheorem` need no assumption on
failures or foreign keys. `TargetsMatch` is not inductive alone: a link may have an
id that no note has, and a later note must not get this id. The invariant adds
that ids in use are below `nextId`, in the tables and in `saved`, that an operation
past its insertion has its note, and that the saved links match as well. `ReferentialIntegrityTheorem` assumes
foreign keys on all connections; `UnresolvedTheorem` assumes that the errors the
code drops do not occur, and its invariant says which links may be unresolved
while an Add has inserted its note and not yet fixed the links to it.

*The contract.* The assumptions are foreign keys on all connections and no
dropped error: without either, an operation can end with a part of its work done,
and the contract does not allow that. While an operation is under way the abstract
map is the one from before it, so each statement but the last must be a stutter,
and the last one must make the whole change at once. The invariant `CInv` therefore
says what the statements so far have done: nothing to any other path, and to the
path of the operation what the stage tells (`Own`). It is carried along with the
invariant of referential integrity, which gives each path at most one row.

**NewNoteProofs.** The invariant `IInv` adds three facts to the properties. `Stamps`:
dates and inodes are not in the future. `Young`: between the test for a free name
and the create, a file at this path is younger than the test. `Own`: after the
write, unless somebody touched the path, the file has the content and the inode of
the call, and its date once it was read. With these, each action keeps each
conjunct; there is one lemma for each action. That only `AddNote` and `AddLost` return
a note of this call (`OnlyAddReturns`) gives `ReturnedNoteIsIndexedTheorem`.

**NotebookStoreProofs.** `NotebookStoreAssumption` says that the canonical path of a
directory or a note goes through no symbolic link. The invariant adds to the
properties that each notebook ever opened is in the cache under a path that leads to
it (`CacheInv`), that notebooks are directories (`DiskInv`), and that the last answer
is a notebook above the path (`LastInv`). Two notebooks above one path lie within one
another, which gives `EnclosingNotebookTheorem`. `Canonical` applied
twice is `Canonical`; so if `Open` finds the root of an opened notebook and yet makes
a new instance, `IsDescendantOf` did not see the path below the cached one.

**DiagnosticsProofs.** `SingleRefresh` and its invariant say that the flag is set
exactly while one goroutine sleeps (`Debounced`), for every document object ever
made, also those that were replaced. `Shape` adds that threads and open documents
refer to objects that exist.
*Diagnostics are current* (`CurrentInv`): as long as the cached lines of a document
are not stale, a change is about to be applied, or the last refresh of its path has
the current content, wherever it is: asleep, in one of the four steps of `GetLines`,
in the search, as a notification on its way, or shown. `Leads` says that a refresh is
the last one; the numbers of the refreshes (`NumberInv`) make that a fact about
integers. That a sleeping refresh always leads is what debouncing gives.
*The search is exact* (`ScanInv`): until two searches overlap there is at most one,
and it has found the links of the lines before its index, with the four variables of
the package in the state that `CodeAfter` gives for these lines, and the start of an
open fence among them (`FenceOpen`), so that the slice is in range. That the recursive
function `CodeAfter` exists is proved from the well-foundedness of the numbers.

**CommandRunProofs.** `FzfInv`: what the goroutine stored is the outcome of fzf, and
main is past the filter only if fzf ended with a selection. `PagerInv`: main is past
the pager only if its goroutine saw it end well. `ConsentInv`: the notes on their way
to the editor are few, or the user wants them. `StackInv`: only the last process
works, and all the others wait. The proofs never look at the lines in the pipes, which
is why the size of the pipe does not matter.
*Aliases and notebooks.* `CommandRunAssumption` says that arguments and paths are
sequences, that each notebook has its aliases, and that one notebook is deepest;
`TypedAssumption`, that a command line is what the user means by it: words, with the
flags of directories at any place, in any order and spelling. `AliasInv`: each process
is the child that the one before has started, with its notebook and its alias. If an
alias occurred twice in the stack, the aliases between the two would be a circle,
since a process never runs the alias it was started by. `FirstInv`: the first process
is as it was started, or has settled on its notebook and its words; the proof takes
the flags out of the arguments one after the other, whichever comes first.

Checked by TLC only, because the prover does not reach them:

- the liveness properties `Terminates`, `EveryRunEnds`, `EventuallyInSync`, `RunEnds`;
- the properties of `Query`, and `IndexedInWalkOrder`, which are about recursive
  operators. `SortedAsWalkedTheorem` is the latter for two files at a time;
- `OwnConfig`, `NearestGroup` and `ExcludesKept`: a configuration is a fold over the
  settings of a file, and what a fold computes needs induction over data.

## What is not modelled

- The Markdown parser and the grammars of tags and wiki links, templates, the
  formatting of notes and links, the styles of the terminal: pure functions on text,
  whose result is a free choice or a parameter of the models.
- Completion, hover, references and code actions of the language server: they read
  the document and query the index. The searches for links they do are the action
  `Request` of `Diagnostics`, the jump to a note is `FindByHref` of `Query`, `zk.new`
  is `NewNote`. The positions of what they find and insert are left out.
- The single migrations of the database, and the full-text index, which triggers keep
  equal to the table notes. An upgrade of the schema is an action of `Indexing`.
- The syntax of full-text searches, the ranking, and the snippets around links.
- SQLite itself: a transaction is atomic, and a crash rolls it back.
- The precision of modification dates: two writes have two dates.
- Data races finer than a line of the link search.
- Settings that are read like one that is modelled: options of ids, tools, completion.
