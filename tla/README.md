# TTFM in TLA+

TTFM (Typed Tag File Manager) keeps an index of the user's files in parquet
tables under `~/.ttfm/db`, lets the user tag what it finds, and answers queries
over both. Every `ttfm` command is a process of its own that reads some tables,
computes with DuckDB, and replaces tables by `save_parquet` (COPY to a `.tmp`
file, rename it). There is no lock and no transaction across tables.

Two kinds of question are asked here. One is what survives that: files that
change between and during runs, processes that die between two saves, background
workers that outlive an update, ids that must never change hands. The other is
whether the long way from a query to its answer, through five rewritings and
SQL, ends where the query says: there the specification is a machine with one
action per pass, and a meaning written down beside it.

## 1. Inventory

| Component | State it keeps | Operations | Properties that make it correct | Modelled in |
|---|---|---|---|---|
| Indexer (`indexing/`) | `file_references`, `locations`, `base_tags`, `tags_by_location`, `removed_files`; two temporary files of a run | `run`: scan, diff (with rediscover), triage, merge | an item is one file for ever; after a run the tables are the files there are; tags and ranks follow their file | `Indexing` |
| Item ids (`db/identifier.rs`) | none: ids are MAX + 1 over tables | `next`, `within` | an id in use is never given out again | `Indexing` (File block), `EditWrite` (User block) |
| Index store (`db/`, `util.rs`) | the parquet files | `save_parquet`, `clear_index` | a table is replaced whole or not at all | `EditWrite` (COPY and rename), `Indexing` (one step) |
| Result cache (`search/cache.rs`) | `db/cache`: `.job`, `.parquet.tmp`, `.parquet` per cid | `search`, workers, `cleanup`, `clear_cache` | a page answers its query; no result survives an update that clears; a cid does not stay in generation | `ResultCache`; what a page holds: `Search` |
| Write engine (`edit/write.rs`, `sql.rs`, `cast.rs`, `modify.rs`) | `user_tags`, `item_references` | `tag`, `untag`, `note`: plan, draw ids, save | a command acts on all it selected and is seen whole; nothing refers to a deleted item | `EditWrite`, against `TagStore` |
| File operations (`edit/fs_operate.rs`, `confirm.rs`) | the user's files | plan, confirm, apply, abort, rebind, re-index | no file is lost; the index ends where the files are | `FsOperate` |
| Edit expressions (`edit/parse.rs`, `glob_capture.rs`, `search_and_apply_captures.rs`) | none | captures of globs and dates, substitution | what was found is what is captured | `CaptureEdit`, `Globs` |
| Labels, dates, types (`tag.rs`, `types.rs`, `lens_schema.rs`, `format.rs`) | registries built at start-up | reading a label, in a search and in a capture | three ways of writing a term mean one thing; a period is local time | `Labels`, `Dates` |
| Query: sets, nests, aggregations (`logical_resolver.rs`, `lens_resolver.rs`, `lens_optimizer.rs`, `sql/nest.rs`, ...) | none | expand, resolve, optimize, SQL | the SQL picks what the query means | `NestQuery` |
| Query: comparisons and calculations (the same, `sql/agg_pieces.rs`, `scalar.rs`, `precompute.rs`, ...) | none | fold, split, order operands, dispatch, SQL | the same | `Calculations` |
| Search (`oneview.rs`, `search/`, `sql/definition.rs`, `sql/order.rs`) | the view of all tables | pick, fetch, count, `q()`, pages | a search lists each thing once; pages share it out | `Search` |
| Ranks (`rank.rs`, `tagging.rs`) | `rank` columns | `set_rank_by_id`, `add_item` | no rank is lost | `Indexing`, `EditWrite` |
| Plugins, command line | | | | not modelled |

How they interact: every command but `clear` opens the store and builds the tag
registry; `index` runs the indexer; `tag` and `untag` search for items, plan
file operations, carry them out (which re-indexes the paths touched), then write
tags; all of these clear the result cache, the indexer before it saves and the
others after, if they get that far. `search` may start a worker
that outlives it. The only shared state is the directory `~/.ttfm/db`.

What is hard here:

- *time between looking and acting*: the scan, the diff, the triage and the five
  merges each look at another moment; an edit is planned from a search, confirmed
  by a user, and carried out;
- *partial failure*: a run saves up to seven tables in sequence, an edit up to six
  after it moved files one by one;
- *identity*: a file is recognised by inode, by path + mtime + size, or by
  basename + mtime + size + inode, and each can be reused; a copy to another
  device is a new file;
- *background work*: a cache worker reads at one moment and publishes at another;
- *ids*: handed out as MAX + 1, so that forgetting an id gives it away;
- *many ways to one meaning*: fifteen arms order the operands of a comparison, a
  label is read by three pieces of code, a filter is SQL of its own.

`PROJECT.json` lists the hazards at the lines where they bite.

## 2. Modules

| Module | What it is |
|---|---|
| `Indexing`, `MCIndexing` | the indexer, its five tables, the file system, the user's commands on the same tables |
| `IndexingProofs` | its types; a complete quiet run lists the files there are |
| `LocationProofs` | locations and items agree and keep their keys; ranks are kept |
| `ItemProofs` | items, tags and stems follow their files |
| `ResultCache`, `MCResultCache`, `ResultCacheProofs` | searches, cache workers, updates and the cache directory |
| `TagStore` | what tag, untag and note promise: one command at a time, seen whole |
| `EditWrite`, `MCEditWrite`, `EditProofs` | how they are carried out, save by save, by processes that may die |
| `TagStoreProofs` | this implements `TagStore` |
| `FsOperate`, `MCFsOperate` | edits that move files, while other programs create some |
| `FsOperateProofs` | no file is lost by them; the index, the identity of items and the tags follow the files; none stops half way of itself |
| `Globs`, `Dates`, `Labels` | pure definitions: globs and captures, calendar and clock shifts, label conditions |
| `DatesProofs` | periods and intervals against local time |
| `CaptureEdit`, `MCCaptureEdit` | a search and an edit that refers to what it captured; extends `Labels` |
| `NestQuery`, `MCNestQuery` | sets, projections, nests, counts and sums, pass by pass |
| `Calculations`, `MCCalculations` | comparisons of types, calculations and aggregations, pass by pass |
| `Search`, `MCSearch` | OneView, definitions, `q()`, counts and pages |

### 2.1 Indexing

*State.* A table is a set of records with the columns the properties tell apart;
the two temporary files (`current_scan`, `live_ids`) are `scan` and `live`. The
in-memory values of a run (`cache`, `dirChanged`, `toProcess`, `deletedIds`,
`results`, `dirResults`) are variables because a crash loses them and because
files change while they exist. `pc` is the place in `Indexer::run`.

*Files.* `fs` maps a path (directory, name) to the file there. A file has an
inode, the stamp `born` of its creation, and a stamp `ver` for (mtime, size).
`born` is not visible to the code: it is how the properties tell two files
apart that had the same inode. A creation and a change draw a new stamp, a
rename keeps both, a link shares both. Directories as items, and a change that
preserves mtime and size, are left out.

*Actions and code.* One action per save and one per phase that only computes:

| Action | Code | Writes |
|---|---|---|
| `Begin` | `Indexer::run`, `load_metadata_cache` | the hash map (one row per hash, whichever DuckDB delivers last) |
| `Scan` | `run_scan`, `process_entry` | `scan` or `live`, one path at a time, in any order |
| `AppendRestored`, `DropRestored` | `rediscover` | `file_references`; `removed_files` |
| `Diff` | `run_diff` | `dirChanged`, `toProcess`, `deletedIds` |
| `Triage` | `run_triage`, `identifier::next` | `results`, `dirResults`; a file that is gone is skipped |
| `RecordRemoved` | `record_removed_files` | `removed_files` |
| `SyncEntities` | `FileEntityMerger` | `file_references` (rank inherited) |
| `SyncLocations` | `LocationMerger` | `locations` (by path, live by scan hash, outside the roots untouched) |
| `SyncBaseTags`, `SyncLocationTags` | `BaseTagMerger`, `LocationTagMerger` | the tag tables |
| `Crash` | a death, or an extraction error, between two saves | the run is forgotten, the tables stay |
| `TagItem`, `SetRank`, `Forget`, `ClearIndex` | `tag`, `set_rank_by_id`, `untag item_id:`, `clear` | between runs |

Not every run allows everything: `FsDuringIndex` lets files change while a run
is in progress (then the scan goes path by path; otherwise nothing can tell the
orders apart and it is one step), `HardLinks` allows links, `EarlyReuse` lets
the file system hand out an inode that `file_references` still remembers,
`Commands` chooses the user's commands, `MaxCrashes` bounds the deaths.

*An assumption the code makes.* `query_with_existing_ids` takes a file with a
known inode for the known item. An inode that is reused before a run has seen
its first owner gone therefore keeps the item, and its tags, for the new file;
only `removed_files` is guarded against it (the comment at `diff.rs:70`). The
properties about tags are therefore checked with `EarlyReuse = FALSE`.

*History variables.* `synced` is true after a run over every root during which no
file changed, until something changes; `quiet` says that no file changed since
the run began. `doubled` is true once `rediscover` has restored an item to a file
that has another one by then (`GivesSecondItem`): the properties about tags and
identity speak of the time before that, and `IndexTwoItems` shows what happens
after it. The code reads none of the three.

### 2.2 ResultCache

*State.* The tables are a `version`; a cached result is the version it was read
at and the query it is for. `job`, `tmp`, `parquet` are the three kinds of file
in `db/cache`, `expired` the temporary files that are over an hour old. Each
client is a search in progress (it compares the query of the cached file, then
opens the path again and reads the page, or reads the tables and decides about a
worker), each cid has at most one worker process (claims the job, creates the
`.tmp` file, copies, publishes). That a search reads the tables has no effect but
to tell whether there is more, so that it is one step with the decision.

An update saves several tables, one step each, and a `version` goes with each
save. The order is that of the code: `Indexer::run` clears the cache and then
saves (`IndexClears`, `Saves`, `IndexEnds`, which is also where a run that failed
or was killed ends); everything else saves and then clears (`EditSaves`, `Saves`,
`EditClears`) or does not get there (`EditStops`): `write_and_refresh` returns by
`?` when a later save, a CAST, `load_type_configs` or `OneView::recreate` fails
(write.rs:201), does not clear when it counted nothing (write.rs:215; a cast whose
items were all skipped still saves), and may be killed; `set_rank_by_id` and
`add_item` rebuild the view with `?` before the clear (rank.rs:82, tagging.rs:93).
The run of the indexer inside an edit that moved files is an update of its own.

`settled`, a history variable, is the version at the end of the last update that
cleared the cache, and `FreshUnlessOverlapped` says that no result is older, the
results of `overlapped` workers excepted. What an edit leaves behind that stops
before the clear is older than the tables, and not older than `settled`: that is
what the code guarantees, less than TTFM.md:168 promises (section 3).

`CacheAnswersQuery` is about the two looks of a search at the cache. What it finds
usable is compared at one moment and read at a later one, when the file may be
gone or another one may have been renamed there; that the page is still one of
the query asked rests on every worker getting a cid nobody had. A result that is
made anew in place (`DecideInPlace`, the mutant) breaks it.

`clear_cache` is one step: what a query sees that reads several tables while they
are being replaced is not modelled. Access times order the eviction in the code;
they depend on the mount options, so `Cleanup` may evict any results, as many as
it takes.

*Fairness.* `FairSpec` asks that a worker that can take a step eventually does:
it is an operating-system process that waits for no one. Nothing is asked of
clients, updates or time. A worker may be killed at any moment; `killed` is a
history variable, and `GenerationEnds` excepts its members: the `.tmp` file of a
killed worker stays until a later spawn finds it an hour old.

### 2.3 EditWrite and TagStore

*State.* A row of `user_tags` is a record [item, type, col, text], where `col` is
the one of the label columns that is not NULL: half of what can go wrong here is
a comparison with a column that is. `item_references` counts its rows, `files`
keeps of the four file tables only which items they have rows of, `tmp` is what a
`.tmp` file holds, `job` the command a client runs: what `modify` and `confirm`
planned, and its phase.

*Actions and code.* `PlanTag`, `PlanUntag`, `PlanForget` and `PlanNote` are
`plan()` and `confirm_with_prompt()` with any items a search may have found,
stored ones and types nobody registered (Volatile items); they fold the
directives by strategy, settle conflicts by any answer, validate values against
the configured type and find the casts. `ResolveVolatiles` draws ids. `CopyRefs`,
`RenameRefs`, `CopyTags`, `RenameTags` and `CascadeFile` are the two halves of
each `save_parquet` of `write()`, in its order; `Stops` is a failing CAST or
rename, `Crash` a kill.

`TagStore` knows none of this: its state is which items there are and the set of
tags of each, and a command acts on all of it at one moment, or, if its process
fails, not at all, on the items only, or wholly. `TagStoreSpec` is the
refinement. While a command runs, the abstract state is that before its first
save; `before` is a history variable for it, as `request` (what was asked),
`torn` (ids whose deletion was cut short) and `cut` (ids whose deletion ever was)
are. `ConfigMatchesRows` and the refinement hold until a deletion of an item that
a user made is cut short (`NothingCut`): `ConfigMatchesRows` says so itself, and
`TagStoreSpec`, which no run of three commands refutes, is proved for such
behaviours.

*Bounds and limits.* One client: two clients share the `.tmp` files and refute
every property, and the documents promise nothing for them (TTFM.md:22). Two User
ids, one file, two types (one with `strategy:replace`), one note, a text and a
numeral, two selected items, three commands, one kill; tag and untag queries of
one node of each kind and of the pairs that clash. What one command writes of a
type is in one column (`MixedColumns = FALSE`); `EditUntagNull` lifts that. No
definition is of type `name`, `bitical_type` or "none" (`TypesAssumption`: the
first two are built in, the third is how the model writes that there is no
content). Rows
are a set: the same tag twice is once, as in every query of the code. `add_item`
loads and saves in one step with the rest of the write. Only definitions are
configured, with one node per command. An edit of a built-in type whose
definition is not stored adds its row once per tag (EDIT.md:270 says once): the
properties count contents, not rows, for it; the instance has no built-in id, the
theorems have any.

### 2.4 FsOperate

*State.* `fs` maps a path to [ino, what, dir]: the file_id, the item whose
contents it has, whether it is a directory; two paths of one ino are links.
`refs` and `locations` are the index, `tagged` the items that got the edit's
tags. `job` is the edit: its moves, attributes, questions, and how far it came.

*Actions and code.* `Plan` computes and checks targets; `Confirm` answers the
questions about conflicts in any way (skip, serial suffix, abort) and those about
hard links with none, all, or a list of numbers as a user may type it, in any order
and with repeats, up to `MaxTyped` of them (`Typed`); `Decline` aborts; `Mkdirs`;
`Rename`, `CopyAndDelete` one move at a time, `CopyFails` after the copy and before
the deletion; `SetAttrs`;
`Rebind`; `Reindex` (a run of the indexer over the touched directories, as a
function: `Indexing` is about its steps); `WriteTags` (`EditWrite` is about
those). `Appear` is another program that creates a file at any moment, `Crash` a
kill.

*Limits.* A name is one model value, with its serial suffixes; permissions are
modelled only as a file in the place of a directory, lack of space as an edit
that is not planned. Known and excepted: a rename replaces a file that appears
after the question (FilesKept speaks of items, not of alien files); a link whose
number was typed twice is moved twice, and the second move fails
(`NoPartialFailure` excepts it, section 3); a link that
stays behind when another was copied to a different device keeps the item; a kill
between the copy and `rebind` loses the identity; a directory that is copied
across devices rebinds only itself (EDIT.md:383; `DirCopies = FALSE`); moves
through each other's directories can replace files (EDIT.md:335 and 344;
`Nested = FALSE`); attributes are set for skipped items, and not for the second
link of an item. When an edit that copied a file to another device left a link of
it behind, a later edit may move that link: it is a file the index does not know
and becomes a new item, while the tags of that edit go to the old one. So
`TagsFollowFiles` is about the first edit of an index, or about files without
links; TLC refutes it for two edits of linked files.

*Assumptions.* `Tree` is a file system: finite, what is above an entry is a
directory, ids below `FirstIno`, each item has a file, and an item has the number
of its file_id (the index is up to date when the first edit is given; the numbers
themselves mean nothing). A file that is new to the index gets a number of its own,
`NewItem`. `NamesAssumption` says what names, requests and serial suffixes are made
of, and that an edit names an item once: what is edited are the rows of one search
(edit/mod.rs:350). What the code does in a loop (nodes applied to a
path, conflicts settled one by one) is a recursive function over the numbers of
its steps, so that it can be proved about.

### 2.5 Globs, Dates, Labels, CaptureEdit

`Globs` reads a pattern and gives its captures, `Dates` has calendar, clock
shifts, periods and patterns, `Labels` the condition a term becomes in a lens,
for each kind of type and column. They hold definitions only. `CaptureEdit` is
the machine: a search at one moment, the edit applied at another (`now` moves in
between: the offset of local time may change), captures read a second time by
code of their own, the product of the captures, the nodes of the edit.

*Bounds.* 8 items, 762 queries alone and in pairs, 6 edits, 2 times. A year has
two months of 3 and 2 days of 4 hours, one shift forward and one back; a kilobyte
has 4 bytes: the boundaries are what matters, and there all of them occur.

*Known differences*, named in `ReadsOtherwise`, `WrittenOtherwise` and the
properties: patterns of mtime, sizes with a unit, globs on numbers and Booleans,
doubles, words for is_dir, letters of extensions and escapes are read otherwise
by captures than by the search; `is_dir: := true` finds nothing
(lens_schema.rs:449), a swapped mtime period stands for its start only, a swapped
size range is refused; operators of order ignore globs; the last hour of a period
that clocks show twice ends at its first showing; a pattern is read with today's
offset. Against documents: `size:1k` is 1024 bytes (QUERY.md:224–237 has 1000),
a date pattern with time is written with `T`, captures are not always shortest
(EDIT.md:413–427).

*Not modelled here*: minutes and seconds, relative dates, years beyond one
calendar, negative numbers, two or more fraction digits, dates in types other
than mtime, the meta types `type` and `tag`, literals of item_id, name, path and
origin, nodes without label.

### 2.6 NestQuery and Calculations

Both take a query as parsed through one action per pass: `NestQuery` through
expansion (`logical_resolver`), resolution (`lens_resolver`), optimization
(`lens_optimizer`) and SQL; `Calculations` through expansion, resolution and
dispatch, and SQL. The SQL is evaluated by what it selects: groups, HAVING, pivots,
joins, ANY_VALUE with any of the rows (two scan orders), NULL. Beside it stands
`Meaning`, written from QUERY.md: what the query asks of items and labels. Where
the two are known to differ a predicate names the case, and `AnswerIsMeaning`
says that there is no other. The names say which:

| Departure of `NestQuery` | |
|---|---|
| `CountsLabels`, `CountsOnOneRow`, `CountsNothing` | a count with a projection counts labels (sql/nest.rs:369 against QUERY.md:46); a filter on one row becomes a CASE over label_str, which numbers have NULL in (nest.rs:290); a filter that leaves nothing gives no row instead of 0 |
| `FilterBeside` | a filter beside a projection is taken for its context (lens_optimizer.rs:195) |
| `SeveralKeys`, `OneGroup`, `RightSideLost` | of two values compared by several keys only the first key counts (nest.rs:766, 1047); a filter of one group; keys and filters of a nest on the right are ignored (nest.rs:749) |
| `OperandKeepsBoth` | a comparison inside an operand is dropped (lens_resolver.rs:2810) |
| `NotPrepared` | a merged comparison whose right value is a filtered aggregation panics (precompute.rs:94) |

| Departure of `Calculations` | |
|---|---|
| `Singly`, `OneLabelEach`, `RowHoldsOneType` | rows grouped by item show one label of a type, and not a text; each link of a chain may be true of another label (QUERY.md:137); ANY_VALUE adds one of several labels; two types in one row are NULL |
| `AggregationIsOwnValue`, `TypesAreZero` | beside a calculation an aggregation is of the item in a search and of all items in a filter; a type an item lacks is 0 there |
| `NoRowToRead`, `NoCommonRow`, `VolatileIsNoItem` | a comparison with an aggregation fails for want of a row: `(size: + 1) :> max(size:)`, chains of scalars, `size: :> 1 :< max(size:)` |
| `FilterPanics`, `OneSideRefused`, `LiteralsDivideWhole` | an aggregation compared in another's filter reaches unreachable! (precompute.rs:373); one order of operands is refused and the other is not (error.rs:716); literals divide without remainder |

*Bounds.* NestQuery: 48 tables of three items with every combination of up to
three types that tells groups apart, 377 queries of depth up to three, with every
pair of sides. Calculations: 18 tables of two items, 904 queries, numbers in
twelfths, so that halves and averages are exact.

*Not modelled*: set operations between projections, label groupings, calculations
as values of nests, the rows a nest shows (nest.rs from 1152), aggregations inside
aggregations, the aggregation of texts, remainders, division by zero, powers.

### 2.7 Search

*State.* The tables (constant here; `ResultCache` is about tables that change),
the search, the rows of the pages read, `more`, and the cached result. `Next`
reads the next page from the tables or from the cache. OneView is built from its
sources, definitions come from four places (stored, registered, in use, asked
for by name), `q()` is replaced by terms for what it found, `count()` is computed
by SQL of its own.

*Departures*: `EvalMisreads` (q() takes a definition that is not stored, or has a
name, for something else), `CountsUnlisted` (a built-in type inside And or Minus
is counted and not listed), `FillsWithNothing` (ids without rows fill LIMIT, and
has_more turns false early, TTFM.md:158), `CacheLacksNames` (a cached page does
not know names in use).

*Bounds.* 6 tables, 766 searches, pages of 1, 2 and 3 rows, several orders. *Not
modelled*: offsets other than the rows read, order keys with several labels per
item, tags of items that are gone, the columns and the text of a row.

## 3. Runs

All runs allow the program to stop (`CHECK_DEADLOCK FALSE`): the stamps, ids,
commands and versions of an instance are used up in the end, and the query
machines end with an answer.

| Run | Question | Instance | Distinct states |
|---|---|---|---|
| `IndexQuiet` | what keys and identity the index keeps when files hold still during a run | 2 roots and a third directory, 1 name, 2 inodes, 3 ids, links, tags and forgetting | 1.18 M |
| `IndexRename` | do tags, stems and ranks follow a file through renames onto other names, changes, removal and return? | 1 root, 2 names (symmetric), 3 stamps, 2 ids, tags and ranks | 1.47 M |
| `IndexFaults` | files change at any step, a run dies between two saves, the index is cleared: is the next complete quiet run exact again? | 2 roots (symmetric) and a third directory, 2 stamps, 2 ids, early reuse, 1 death | 1.96 M |
| `Cache` | what a search may be answered with, what an update leaves behind, whether generation ends | 2 cids, 2 queries, 1 client, 2 saves, limit 0, kills, fair workers | 615 k |
| `EditWrite` | do the saves of a command, with failures and kills, implement `TagStore`? | see 2.3 | 766 k |
| `FsOperate` | do files, index and identity survive an edit that is disturbed? | 4 items, 1 mount, 2 alien files, 1 failing copy, 1 kill, 1 edit, 2 numbers typed per item | 233 k |
| `NestQuery` | does the SQL pick what a query of nests means? | see 2.6 | 90 k |
| `Calculations` | and one of calculations and aggregations? | see 2.6 | 130 k |
| `CaptureEdit` | does a label mean one thing in every way of writing, and to a search and a capture? | see 2.5 | 145 k |
| `Search` | does a search list and count each thing once, over all its pages? | see 2.7 | 23 k |
| `EditUntagNull`, `IndexTwoItems` | disagreements, below | as `EditWrite`; 1 root, 2 names, 1 file | |

Two inodes are what a file and the one that takes its place need; two
directories and a third that is never scanned give moves inside the index, out
of it and back; two stamps are two files, or one file and its change, and a
third, in `IndexRename`, lets a file that was replaced be changed once more and
come back. Three ids, in `IndexQuiet`, let an id be left, skipped and followed
by a new one; the other runs hand out two. A run that would need an id more than
the bound stops before `Triage` saves anything.

In `Cache` one client asks with any cid drawn so far, and its own search is cut into
steps between which workers, updates and time move; two clients with one save
(3.2 million states, too many for the liveness property) keep the invariants too,
and the theorems have any number. Two saves let an edit stop after the first and
another update follow, or an edit stop between two. The limit of 0 makes every
spawn evict whatever was published, the most that `cleanup` may do.

In `EditWrite` the third command is what makes the interesting histories: define,
tag, then cast, untag or forget, with a kill at any of the steps. `FsOperate` has
one edit of several moves, of files with links, on two devices; a second edit of
that tree makes too many states for TLC, and the theorems of section 4 have any
number of edits. Two numbers typed for the two links of an item are all that the
code tells apart: none, one, both in either order, and one of them twice.

What the properties of the passing runs would catch:

- `NoTagLeak`, `TagsNotOrphaned`: until a file has two items, a tag given to one
  file never shows on another, and a tagged id stays in `file_references` or
  `removed_files`.
- `IndexExact`, `IdentityExact`: after a complete quiet run the tables are the
  files there are, with one item per file and no item without one.
- `LocationsReferToEntities`: a location always has its item between runs, if
  files hold still during a run and no run dies; what `query_deleted` deletes and
  what `LocationMerger` keeps or adds then agree, also for runs over a part of the
  roots. Without either condition TLC refutes it.
- `TablesKeyed`: one row per item, one item per path, and no id both in use and
  parked.
- `AttachedOrParked`: a tagged file that returned has its item back, or the item
  still waits in `removed_files`.
- `BaseTagsExact`, `RankNeverLost`: in one root without links, extracted tags are
  those of the present name; a rank survives every table it travels through.
- `FreshUnlessOverlapped`, `CacheAnswersQuery`, `GenerationEnds`: see 2.2.
- `IdsUnique`, `OneDefinition`: what a search did not find is registered once and
  under an id of its own. `TagsHaveItem`: whatever was cut short, no tag stands
  alone. `ConfigMatchesRows`: casts and checks keep all labels of a configured
  type in its column. `TagStoreSpec`: 2.3.
- `FilesKept`, `IndexFollowsFiles`, `IdentityKept`, `TagsFollowFiles`: the
  contents of each item are somewhere, the index ends at the paths that are
  there, each item stands for its contents, and tags are written last.
  `NoPartialFailure`: a confirmed plan fails half way only if disturbed or if the
  number of a link was typed twice.
- `AnswerIsMeaning` (three modules), `ConjunctionExchangeable`, `SwapKeepsAnswer`:
  2.6 and 2.7, and that neither the order of conjuncts nor of operands matters.
  `ExpandStable`: the second expansion of what an aggregation was rewritten to
  changes nothing. `CountsWhatItFinds`: the filter of a count is the search.
- `CapturesFit`, `CapturedIsPicked`, `EditsByNode`: captures fill the pattern to the
  label, leftmost shortest; what was found is captured; every node is made once
  for each choice of captures.
- `ComparisonsPartition`, `OneMeaning`, `DatesAreLocal`: six operators share out the
  labels of a column; three ways of writing are one; periods are local time.
- `ViewResolved`, `CountIsLength`, `PagesShareOut`: sources of OneView agree about
  an item; the count is the number of rows; pages are the whole in one order.

*Fairness* is used by `Cache` alone: a worker is an operating-system process that
waits for no one. Edits wait for a user, the indexer for nothing that could not
fail, and no document promises that either ends.

### Disagreements between code and documents

Each is a run that TLC must find violated; `PROJECT.json` quotes the document.

| Run | What happens |
|---|---|
| `EditUntagNull` | `untag score:5.5` compares with a column that is NULL in rows of another type of value: `NOT NULL` is not true, and these rows go too (sql.rs:84, EDIT.md:218) |
| `IndexTwoItems` | a tagged file is lost and parked, comes back under another name (a new item) and is given its old name again: `rediscover` restores the old item beside the new one (diff.rs:75), which loses its location and is then deleted without being parked (merge.rs:422 joins locations). Its tags are left behind and its id is given away (design/STORE.md:41) |

Found while modelling, and not runs because no document states what would be
violated, or because a property excepts them by name: a page from the cache lacks
the definitions nobody registered, so that it is not the rest of a first page from
the tables (cache.rs:217); after `ttfm clear` ids start over
while `user_tags` names the old ones (db/mod.rs:132); a tagged file that changes,
is scanned and moves away before triage loses its item without being parked
(merge.rs:464); a death between `file_references` and `locations` leaves a
location without an item (merge.rs:80), as does a file replaced between scan and
triage (diff.rs:264); a third link to a file with two locations is ingested twice
(diff.rs:239); with two roots, or two links of other names, a location that was
left out of a run and matches again keeps the stem of another name beside its own
(merge.rs:340); a file keeps the path tag of the directory it left (merge.rs:399);
ids of a block are not compared with its end (identifier.rs:71); a killed cache
worker keeps its cid in generation until a spawn an hour later (cache.rs:84); a
worker that overlaps an update publishes a stale result (cache.rs:277 against
TTFM.md:168), and an edit that fails or is killed between its saves and its clear
leaves all of them stale until the next update that clears (write.rs:201, the
same line of TTFM.md); the numbers `1,1` for the links of an item plan one move twice
(confirm.rs:620): the second gets a serial suffix as its target, is called verified,
and fails when the first has been made (EDIT.md:348 has failures as exceptions, since
everything was checked beforehand), so that the edit stops without its tags.

Two more were found while `TagStoreProofs` was written, each by a step that could
not be proved, and confirmed with TLC:

- A deletion that stops between `item_references` and `user_tags` (write.rs:132)
  leaves the tags of the item, its `bitical_type` among them, and the id, which no
  table of items has any more, is drawn again. The next definition with it counts
  as configured, so that a value of the other kind is taken, labels of one type
  come to be in two columns, and a later `bitical_type:string` plans no cast
  because string is what a type without one has. It takes seven commands and one
  kill: define and configure a type, forget it (killed), tag a file with a word of
  a second type, define that, tag the file with a numeral, forget the definition,
  define it again with `bitical_type:string`.
- An edit that configures a type and gives its definition two values of a type that
  replaces asks which to take. Answered with skipping the item, it still casts the
  labels (edit/mod.rs:240), while the configuration is left out with the rest of
  the item (confirm.rs:386): what is stored is then not in the configured column.

## 4. Proofs

| Theorem | States, for every value of the constants | Under |
|---|---|---|
| `IndexingProofs!TypeCorrect` | `TypeOK` | the module's assumptions |
| `IndexingProofs!IndexIsExact` | `IndexExact` | the module's assumptions |
| `LocationProofs!LocationsHaveItems`, `ItemsKeyed`, `RanksAreKept` | `LocationsReferToEntities`, `TablesKeyed`, `RankNeverLost` (an action property) | `FsDuringIndex = FALSE`, `MaxCrashes = 0` |
| `ItemProofs!TagsDoNotLeak`, `TagsAreKept`, `IdentityIsExact`, `TaggedAreAttached` | `NoTagLeak`, `TagsNotOrphaned`, `IdentityExact`, `AttachedOrParked` | these two, `EarlyReuse = FALSE` and no `clear` (`Undisturbed`) |
| `ItemProofs!StemsAreExact` | `BaseTagsExact` | `FsDuringIndex = FALSE`, `MaxCrashes = 0`, one directory, no hard links (`OneRoot`) |
| `ResultCacheProofs!TypeCorrect`, `ResultsFresh`, `AnswersMatch` | `TypeOK`, `FreshUnlessOverlapped`, `CacheAnswersQuery` | the module's assumptions |
| `EditProofs!UniqueIds`, `DefinitionsUnique`, `TagsAreBacked` | `IdsUnique`, `OneDefinition`, `TagsHaveItem` | one client |
| `TagStoreProofs!ConfigsAreKept` | `ConfigMatchesRows` | one client, `MixedColumns = FALSE`, `ConfigsAlone` |
| `TagStoreProofs!ImplementsTagStore` | `TagStoreSpec`, the refinement | these, and `[]NothingCut` |
| `FsOperateProofs!FilesAreKept` | `FilesKept` | `Nested = FALSE` |
| `FsOperateProofs!IndexIsFollowing` | `IndexFollowsFiles` | `Nested = FALSE` |
| `FsOperateProofs!IdentityIsKept` | `IdentityKept` | `Nested = FALSE`, `DirCopies = FALSE` |
| `FsOperateProofs!NothingFailsHalfWay` | `NoPartialFailure` | `Nested = FALSE` |
| `FsOperateProofs!TagsAreFollowing` | `TagsFollowFiles` (an action property) | `Nested = FALSE`; one edit, or no links in `Tree` and no kill (`Lone`) |
| `DatesProofs!PeriodIsLocal`, `IntervalSharesOut` | what a period and an interval pick | the module's assumptions |

**Indexing.** `TypeOK` is inductive as it stands; the one step that is not
bookkeeping is `Triage`, where ids are counted out to the new inodes: the count
is a number because the inodes are finitely many (`InodesAssumption`,
`FS_Subset`, `FS_CardinalityType`).

`LocationsReferToEntities` and `TablesKeyed` are not inductive: a run breaks the
relation of the two tables when it saves `file_references` and restores it when
it saves `locations`, and why it is restored was decided four steps earlier.
`LocInv` says so, part by part:

- `Keys`: the keys of the tables at every step, and that two locations with one
  basename hash are one item, without which the join of `query_dir_changed`
  could give a path two items;
- `Apart`: an id is in `file_references` or in `removed_files`, except between
  the two saves that move it;
- `ScanMade`: the rows of `scan` are files as they still are, none has the hash
  of a location, and every row of `live` is one: this is where `FsDuringIndex`
  and the lookup table of `load_metadata_cache` enter;
- `DiffMade`: what the diff computed is what it would compute now, since nothing
  it reads is saved before `file_references`;
- `ResultsMade`: an extracted file has the item of its inode or an id that no
  table knows (the lemma `NewRefsRanked` about the ids `Triage` counts out), and
  its inode is one the scan saw, which `query_deleted` spares;
- `IngestedKeys`: what is ingested keeps the keys of `locations`;
- `LocationsKnown`: every location has its item, or, between the two saves,
  every location that will be kept and every row that will be added has.

There is one lemma per action, with a step for each part it can disturb.
`RanksAreKept` needs no more: a rank moves from row to row at four saves, and at
each the row it goes to is the only one of its id (`RankKept`).

`IndexExact` holds with crashes, races and whatever they left in the tables, so its
invariant can say nothing of the tables before a run. `ExactInv` has five parts:
a stamp is of one inode wherever it is remembered (`Stamps`); nothing outside the
roots is met (`InRoots`); while no file has changed (`quiet`), every path in scope is
pending, in `scan` or in `live`, as it is now (`ScanMeets`); what is ingested has
exactly the rows of `scan` (`ScanSorted`); and from the saving of `locations` on it
is what `synced` promises (`Exact`). Under the scan hash, live rows and locations
correspond one to one, so that `locations` ends with the live rows and the ingested.

`ItemInv` is about which file an item stands for, something the code never writes
down. What holds with no regard to `doubled` is in `TablesInv`: an inode in use is one
file (`Born`), and the basename hash of a parked row is not that of a location or,
once rediscovered, of a scanned file (`HashesApart`). On it, and on `LocInv` and
`ExactInv`, four parts are proved together, as long as not `doubled`:

- `OneItem`: an inode has one item, and what a run extracted of it goes to that item;
  this is what the second item breaks;
- `Placed`: every item has a location, or a file of its inode is in `scan`: what
  `record_removed_files` joins is then there, and what it leaves out is extracted;
- `Parked`: a tagged item is in `file_references` or `removed_files`, and in the
  latter before it leaves the former;
- `Owned`: where a row of a tagged item has the inode or the stamp of a file, the
  file is the one that was tagged.

`NoTagLeak` is in `Owned`, `TagsNotOrphaned` in `Parked`; `IdentityExact` is `OneItem`
and `Placed` when nothing is in progress, with `IndexIsExact` for what `locations`
are; `AttachedOrParked` adds `HashesApart`. `StemInv` is separate and relates
`base_tags` and `locations` row by row: what a location is not extracted for, its
name did not change (`Renamed`). An item with two names, and a location left out of a
run that matches again later, are what `OneRoot` excludes; TLC refutes the property
with either.

**Result cache.** `FreshUnlessOverlapped` speaks of files only: a worker that has
copied becomes a file. `FreshInv` adds that copies of workers outside the history
set are as fresh as files, that during an update every live worker is in the set,
and that between the clearing of the indexer and its end every file is. It holds
whichever updates stop before their clear, because `settled` is about those that
did clear. `CacheAnswersQuery` needs `PathInv`: every cid with a file or a worker
was drawn, a cid with a live worker has no file, and the cid a search has found
usable has no worker, hence none ever again, so that its file may go but no other
file can come in its place.

**Edits.** None of the three properties of `EditWrite` is inductive: that an id is
free was looked up when it was drawn, that a type has no definition when the
search ran, that an item is there when its tags are saved was arranged one rename
earlier. `EditInv` carries each along the phases of a command:

- `Planned`: before ids are drawn, new tags are for items there are, or for a
  built-in type whose definition is about to be stored, and a type about to be
  defined has no definition;
- `Drawn`: the rows to be added have ids nobody has, one content each, and one id
  for each type. This rests on `NextIsFree` (the id drawn is above every id in
  use: a finite set of numbers has a greatest one, `Extremes`, by well-founded
  induction on subsets) and `DrawnAreFree` (as many ids as contents, so that a map onto the
  contents is one-to-one);
- `Copied`: what a rename finds in the `.tmp` file is what this command put there:
  the part that two clients break;
- `Backed` and `FilesBacked`: which tags and which rows of files may be without their item in which
  phase of a deletion, and that a deletion cut short is remembered in `torn`;
- `OneItem`: no id has rows of two contents; with `Drawn` it survives the
  saving of `item_references` (`SavedRefs`).

`StopInv` does every way a command can end early at once: it needs only that
nothing but `tmp` changed. Then there is one lemma per action. The invariant was
checked with TLC, with and without built-in ids, before it was proved.

**EditWrite implements TagStore.** The two modules say what a command does in
different ways. `TagStore` applies the nodes one after the other to the tags of an
item, those that a conflict leaves out excepted; the code merges them into a set of
deletions and a set of additions (for stored items), folds them over no tags at all
(for Volatile ones), draws ids, casts a column, and filters tables of rows. The
proof goes by what can be said without order:

- *Folds.* `Done` is the closed form of both folds: what no node takes away, and the
  nodes no later one replaces. `InOrderIs` and `FoldVolatileIs` are the induction,
  over the sets of places that `FoldLeft` of the community modules recurs on, by
  `SameFolds` (well-founded induction over the parts of a finite set). Where the
  conflicts are settled no node replaces another and order is gone (`SettledIs`,
  `GivenOnce`).
- *Rows.* `KeptTag` and `UntaggedTag`: the three-valued filter of `user_tags_write`
  leaves of an item's rows the tags that `TagStore` leaves. For an untag this needs
  that the labels of a type are in one column (`Uniform`), where it goes wrong in
  `EditUntagNull`.
- *Columns.* `Sound` is `Uniform`, one configuration to an item (`OneConfig`), and
  `ConfigMatchesRows` of any tables (`Configured`); `SoundTag` and `SoundWithout` say
  that plans keep it: a new value is in the column the cast moves the old ones to
  (`NewColumn`), and the type registry (`BiticalType`) sees the column of the labels
  and of the definition, since these agree.
- *Steps.* `StoreInv` relates tables, plan and request in each phase. Up to the drawing
  of ids the plan is a plan of the request (`Draft`); the drawing decides the rest
  (`DrawnPromise`), so from there on the tables are those before the command with
  the saves made so far applied to them (`ItemsSaved`, `TagsSaved`), and what is
  still to come leads to what `TagStore` says (`Promised`). One lemma per action
  shows that it keeps `StoreInv` and is a step of `TagStore` or none: `Ask` when a
  command is planned, `Perform` at its last save, `Interrupted` where it stops
  (`StopSteps`), wherever that is.

`ConfigsAlone` says that no edit query which configures a type has a conflict, and
`NothingCut` that no deletion is cut short; without either TLC finds the behaviours
described at the end of section 3. That an id drawn has no tags (`DrawnIds`) is where
`NothingCut` enters.

**File operations.** `FilesKept` is not inductive: a rename replaces what is at its
target, and that this is nothing of an item was seen to by the plan, several steps
and other programs earlier. `FilesInv` has four parts:

- `FsOK`: the file system is a tree, with ids below the next one;
- `LocationsOK`: the index has finitely many rows, with paths;
- `JobOK`: while it waits for answers the edit has moves of files that are there
  (`Confirming`, `Making`). From the answers on (`Moving`) no target is a path of
  another one or above it (`Apart`), and at the target of every move that is to come,
  or below it, there is nothing of an item and nothing with a second path (`Clear`);
- `FilesKept` itself.

Both parts of `Moving` are settled by `Confirm`: `ResolvedAccepted` is the induction
over the conflicts, each settled with a path that is neither there nor reserved
(`SerialIsFree`), so that what is left goes to free places, and a free place is
`Clear` since nothing is below what is not there (`FreeIsClear`). That equal targets
are excluded is the code's; that no target is *within* another is `~Nested`. From
there on one lemma per action keeps `Clear` for the moves to come: what `Mkdirs` and
`Appear` make is no item's and has no other path (`MadeKeeps`); a rename puts files
only below its own target, where no other move goes (`RenamedKeeps`); a copy makes
new files there (`CopiedKeeps`), and its source is deleted only after the contents
of each file are below the target (`DeletedKeeps`). A source may itself have moved
since the plan, be gone or replaced by an alien file: none of it matters, as only
what a move overwrites could be lost. The invariant was checked with TLC, also with
two edits and `DirCopies = TRUE`, before it was proved.

`~Nested` cannot be left out: a directory that one move of an edit moves can bring
files to where another one goes (`fs_operate.rs:577`, 2.4).

The other four properties of `FsOperate` need an invariant that relates the index to
the moves made (`Done`) and those to come (`Left`):

- `EditInv` says what the moves of an edit are to each other and to the index. A path
  is of one item and a file_id of one (`Keyed`, `RefsOK`); what is offered has sources
  of its own, indexed as its items (`Offered`). What is confirmed goes through nothing
  that another move takes or makes (`Separate`, in `Routed`), which follows from
  `Offered`, the settling of conflicts and `~Nested`; the exception are moves of one
  link, chosen again, which have different targets. Of these the first counts as made
  or to come (`First`, in `Done` and `Left`). What a later one finds at the path
  afterwards is nothing, or a file of another program, which the index does not know
  and which goes to a place unknown to it (`Repeated`). At the target of a move made is
  its file, which the index does not know yet if it was copied (`Arrived`); the source
  of a move to come is there, and nothing of the index is at its target (`Ahead`).
- `IndexInv` is what the index is worth meanwhile, until a kill: a file known by its
  file_id has the contents of its item (`Honest`); a row is true (`RowOK`) or below the
  source of a move made (`Gone`), so that `reindex` will redo it; and an item stands for
  a file that has its row or lies below a target (`Anchored`), so that it will be found
  there by its file_id, or is one `rebind` will see to.

`IndexFollowsFiles` and `IdentityKept` are `IndexInv` when no edit runs: `Reindex`
scans the directories above every source and target, which are all the places where a
row may be false (`Gone`) or missing (`Anchored`). After a kill nothing is claimed
about the rows, `EditInv` holds all the same. `DirCopies = FALSE` is needed by
`Anchored` alone: `rebind` knows the items that were asked to move, not those in a
directory that is copied.

- `Sound` is for `NoPartialFailure`, as long as nothing disturbs the edit and no path
  is moved twice (`Doubled`): each move
  offered can be made (`Fitting`), no target of a move to come is taken and its
  directory is there or still to be made (`Open`), a directory to be made is wanted by
  such a move (`Wanted`), and an item that is given an attribute is where it was or
  went with a move of its own, not with a directory (`Attributed`).
- `Aligned` is for `TagsFollowFiles`: before an edit is confirmed, each row is of the
  very file its item stands for (`Exact`); then each source is, and each target that
  was not copied, until `rebind` gives every item moved a target that it stands for,
  and `Reindex` makes rows of these. For later edits `Exact` has to hold again when an
  edit ends, which `Tidy` shows where no two paths are of one file (`Linkless`) and an
  item has one row. The behaviour of 2.4 shows that without it `Exact` is lost.

Each part was checked with TLC before it was proved: on the tree of the run
`FsOperate` for one edit, and for two edits of fewer requests as far as TLC came (2
to 9 million states); `Tidy` for two edits of a tree without links, to the end.

**Dates.** `PeriodIsLocal` is over any calendar and any shifts, with the condition
that the first and last hour of the period do not fall into one; the calendar
arithmetic (`Civil` inverts `LocalHour`) is in lemmas of its own.

Beside the conditions named, the proofs use the assumptions the modules name and
no others. What stays with TLC: liveness (`GenerationEnds`) and everything with
ENABLED, which TLAPS does not do; what `RECURSIVE` definitions compute (`Globs`,
`Labels`, `CaptureEdit`, `NestQuery`, `Search`, `Calculations`), since syntax trees
are walked by recursion. Of `Indexing`, `EditWrite` and `FsOperate` every property
of a passing run is proved, those of `Indexing` mostly for quiet runs: with crashes
or races only `IndexExact` and the types hold.

## 5. Not modelled, and why

- Text: the PEG grammar of queries and edits, error messages, prompts, the format
  of responses (`format.rs`, `response.rs`), which are layout. Queries and edits
  are records, as the parser yields them.
- DuckDB: SQL is evaluated by what it selects; tables are sets, so that equal rows
  count once (`append_to_target` is a `UNION ALL`; `item_references` does count). A
  lost file with two links leaves two rows of one item in `removed_files`, one per
  path, against the primary key of `design/STORE.md`.
- Two `ttfm` processes that write the same table, except as an instance of
  `EditWrite` with two clients, which refutes its properties; the documents
  promise nothing for it.
- Plugins (WebAssembly extractors) and the extraction of tags from files, which
  `Indexing` abstracts to a stem and a path tag; directories as items of the index;
  `SafeMetadata::recovered` (a file whose metadata cannot be read counts as one of
  time 0).
- Completion (`complement_type`, `count_types`), `batch_update_rank`, the command
  line.
- What each module leaves out is listed with it in section 2.

## 6. Plan

1. Moves through each other's directories (`Nested`): which orders of them are safe,
   and the plan's check narrowed to these; what a link that was left behind should be
   to a later edit.
2. An abstract index (a partial function from files to items) and `Indexing` under
   `Undisturbed` shown to implement it, on top of `ItemInv`.
3. The rows a nest shows (`sql/nest.rs` from 1152) and set operations between
   projections in `NestQuery`; aggregations inside aggregations in `Calculations`.
4. The registry: built-in types of `initialize_tables` and `complement_type`.
