------------------------------ MODULE Indexing ------------------------------
(***************************************************************************)
(* `ttfm index`: Indexer::run and the five parquet tables it maintains,    *)
(* beside the file system it scans and the user commands that share its    *)
(* tables.  One save_parquet (write .tmp, rename) is one step, so every    *)
(* boundary between two saves is a point where the process may die.        *)
(*                                                                         *)
(* A file is what an inode holds from its creation to its last unlink; its *)
(* `born` stamp tells it from a later file that got the same inode.  `ver` *)
(* stands for (mtime, size): a new file and a changed file get a new one,  *)
(* a renamed file keeps its own.                                           *)
(***************************************************************************)
EXTENDS Naturals, FiniteSets

CONSTANTS
    Dirs,            \* directories that can be given to `ttfm index` as roots
    Away,            \* a directory no run ever scans
    Names,           \* basenames
    Inodes,          \* inode numbers, ordered as FileRef orders them
    LocTagDirs,      \* directories for which a plugin yields a path tag
    FileLo,          \* first id of the File block
    MaxId,           \* bound: ids this instance may hand out
    MaxVer,          \* bound: creations and changes of files
    Commands,        \* bound: the user commands, of "tag", "rank", "untag", "clear"
    MaxCrashes,      \* bound: runs that die half way
    HardLinks,       \* may a file have several paths?
    FsDuringIndex,   \* may files change while a run is in progress?
    EarlyReuse       \* may an inode be reused before a run saw its file gone?

NoFile == [ino |-> 0, born |-> 0, ver |-> 0]
NoId == 0

ASSUME DirsAssumption == Away \notin Dirs /\ LocTagDirs \subseteq Dirs
ASSUME InodesAssumption == Inodes \subseteq Nat \ {0} /\ IsFiniteSet(Inodes)
ASSUME BoundsAssumption ==
    /\ FileLo \in Nat \ {0}
    /\ MaxId \in Nat /\ MaxVer \in Nat /\ MaxCrashes \in Nat
ASSUME FlagsAssumption == {HardLinks, FsDuringIndex, EarlyReuse} \subseteq BOOLEAN

VARIABLES
    (* the world *)
    fs,              \* Paths -> the file there, or NoFile
    clock,           \* the last (mtime, size) stamp given out
    (* the parquet tables *)
    fileReferences,  \* rows of file_references
    locations,       \* rows of locations
    baseTags,        \* rows of base_tags: the stem extracted for an item
    tagsByLocation,  \* rows of tags_by_location: the path tag of an item
    removedFiles,    \* rows of removed_files
    userTags,        \* rows of user_tags
    (* the run in progress *)
    pc, roots, cache, pending, scan, live,
    dirChanged, toProcess, deletedIds, results, dirResults,
    (* history, never read by the code *)
    crashes,         \* runs that died so far
    quiet,           \* no file changed since the run began
    synced,          \* a run over every root ended and no file changed since
    doubled          \* rediscover has given a file a second item

world == <<fs, clock>>
tables == <<fileReferences, locations, baseTags, tagsByLocation, removedFiles,
            userTags>>
run == <<roots, cache, pending, scan, live, dirChanged, toProcess, deletedIds,
         results, dirResults>>
history == <<crashes, quiet, synced, doubled>>
vars == <<world, tables, pc, run, history>>

Paths == (Dirs \cup {Away}) \X Names
Dir(p) == p[1]
BaseName(p) == p[2]
Exists(p) == fs[p] # NoFile

InScope(p) == Dir(p) \in roots
\* Mutant: mtime and size left out of the hash.
ScanHashPathOnly(e) == <<e.path, 0>>

ScanHash(e) == <<e.path, e.ver>>
BasenameScanHash(e) == <<BaseName(e.path), e.ver, e.ino>>

Ids(rows) == {r.id : r \in rows}
PathsOf(rows) == {r.path : r \in rows}

Phases == {"idle", "scan", "rediscover", "restore", "diff", "triage",
           "recordRemoved", "syncEntities", "syncLocations", "syncBaseTags",
           "syncLocationTags"}

----------------------------------------------------------------------------
(* Types of the rows. *)

FileState == [ino : Inodes, born : Nat, ver : Nat] \cup {NoFile}
RefRow == [id : Nat, ino : Inodes, rank : {0, 1}]
LocRow == [id : Nat, path : Paths, ver : Nat, ino : Inodes]
RemovedRow == [id : Nat, path : Paths, ver : Nat, ino : Inodes, rank : {0, 1}]
ScanRow == [path : Paths, ver : Nat, ino : Inodes]
LiveRow == [id : Nat, path : Paths, ver : Nat]
CacheRow == [id : Nat, hash : Paths \X Nat]
MovedRow == [id : Nat, path : Paths, ver : Nat, ino : Inodes, from : Paths]
ResultRow == [id : Nat, path : Paths, ver : Nat, ino : Inodes, fileId : Inodes]

TypeOK ==
    /\ fs \in [Paths -> FileState] /\ clock \in Nat
    /\ fileReferences \in SUBSET RefRow
    /\ locations \in SUBSET LocRow
    /\ baseTags \in SUBSET [id : Nat, stem : Names]
    /\ tagsByLocation \in SUBSET [id : Nat, dir : Dirs \cup {Away}]
    /\ removedFiles \in SUBSET RemovedRow
    /\ userTags \in SUBSET [id : Nat, owner : Nat]
    /\ pc \in Phases
    /\ roots \in SUBSET Dirs
    /\ cache \in SUBSET CacheRow
    /\ pending \in SUBSET Paths
    /\ scan \in SUBSET ScanRow
    /\ live \in SUBSET LiveRow
    /\ dirChanged \in SUBSET MovedRow
    /\ toProcess \in SUBSET LocRow
    /\ deletedIds \in SUBSET Nat
    /\ results \in SUBSET ResultRow
    /\ dirResults \in SUBSET LocRow
    /\ crashes \in Nat
    /\ quiet \in BOOLEAN /\ synced \in BOOLEAN /\ doubled \in BOOLEAN

Init ==
    /\ fs = [p \in Paths |-> NoFile] /\ clock = 0
    /\ fileReferences = {} /\ locations = {} /\ baseTags = {}
    /\ tagsByLocation = {} /\ removedFiles = {} /\ userTags = {}
    /\ pc = "idle"
    /\ roots = {} /\ cache = {} /\ pending = {} /\ scan = {} /\ live = {}
    /\ dirChanged = {} /\ toProcess = {} /\ deletedIds = {}
    /\ results = {} /\ dirResults = {}
    /\ crashes = 0 /\ quiet = FALSE /\ synced = FALSE /\ doubled = FALSE

----------------------------------------------------------------------------
(* The file system: other programs create, change, rename, link and unlink *)
(* files, at any time or only between two runs.                            *)

FsMayChange ==
    /\ pc = "idle" \/ FsDuringIndex
    /\ quiet' = FALSE /\ synced' = FALSE
    /\ UNCHANGED <<tables, pc, run, crashes, doubled>>

InUse == {fs[p].ino : p \in {q \in Paths : Exists(q)}}
FreeInodes ==
    Inodes \ (InUse \cup (IF EarlyReuse THEN {}
                          ELSE {r.ino : r \in fileReferences}))

Create(p, i) ==
    /\ FsMayChange
    /\ ~Exists(p) /\ i \in FreeInodes
    /\ clock < MaxVer
    /\ clock' = clock + 1
    /\ fs' = [fs EXCEPT ![p] = [ino |-> i, born |-> clock', ver |-> clock']]

Modify(p) ==
    /\ FsMayChange
    /\ Exists(p)
    /\ clock < MaxVer
    /\ clock' = clock + 1
    /\ fs' = [q \in Paths |-> IF fs[q].ino = fs[p].ino
                              THEN [fs[q] EXCEPT !.ver = clock']
                              ELSE fs[q]]

\* rename(2): replaces what is at q; does nothing between two links of a file.
Move(p, q) ==
    /\ FsMayChange
    /\ Exists(p) /\ fs[q].ino # fs[p].ino
    /\ fs' = [fs EXCEPT ![q] = fs[p], ![p] = NoFile]
    /\ UNCHANGED clock

Link(p, q) ==
    /\ HardLinks /\ FsMayChange
    /\ Exists(p) /\ ~Exists(q)
    /\ fs' = [fs EXCEPT ![q] = fs[p]]
    /\ UNCHANGED clock

Unlink(p) ==
    /\ FsMayChange
    /\ Exists(p)
    /\ fs' = [fs EXCEPT ![p] = NoFile]
    /\ UNCHANGED clock

FsStep ==
    \E p, q \in Paths :
        \/ \E i \in Inodes : Create(p, i)
        \/ Modify(p)
        \/ Move(p, q)
        \/ Link(p, q)
        \/ Unlink(p)

----------------------------------------------------------------------------
(* The user: tags, ranks and forgets items while no run is in progress.    *)

UserMayEdit ==
    /\ pc = "idle"
    /\ UNCHANGED <<world, pc, run, crashes, quiet, doubled>>

\* `ttfm tag`: the file the user means is the one at a path listed for the item.
TagItem(l) ==
    /\ UserMayEdit
    /\ l.id \in Ids(fileReferences) \ Ids(userTags)
    /\ fs[l.path].ino = l.ino
    /\ userTags' = userTags \cup {[id |-> l.id, owner |-> fs[l.path].born]}
    /\ UNCHANGED <<fileReferences, locations, baseTags, tagsByLocation,
                   removedFiles, synced>>

\* set_rank_by_id
SetRank(i) ==
    /\ UserMayEdit
    /\ fileReferences' = {[r EXCEPT !.rank = IF r.id = i THEN 1 ELSE @]
                              : r \in fileReferences}
    /\ UNCHANGED <<locations, baseTags, tagsByLocation, removedFiles, userTags,
                   synced>>

\* `ttfm untag <query> item_id:`: the cascade names every table but one.
Forget(i) ==
    /\ UserMayEdit
    /\ userTags' = {t \in userTags : t.id # i}
    /\ fileReferences' = {r \in fileReferences : r.id # i}
    /\ locations' = {l \in locations : l.id # i}
    /\ baseTags' = {b \in baseTags : b.id # i}
    /\ removedFiles' = {r \in removedFiles : r.id # i}
    /\ synced' = FALSE
    /\ UNCHANGED tagsByLocation

\* `ttfm clear`: the tables of the index go; user_tags and removed_files stay.
ClearIndex ==
    /\ UserMayEdit
    /\ fileReferences' = {} /\ locations' = {} /\ baseTags' = {}
    /\ tagsByLocation' = {}
    /\ synced' = FALSE
    /\ UNCHANGED <<removedFiles, userTags>>

UserStep ==
    \/ "tag" \in Commands /\ \E l \in locations : TagItem(l)
    \/ "rank" \in Commands /\ \E i \in Ids(fileReferences) : SetRank(i)
    \/ "untag" \in Commands
       /\ \E i \in Ids(fileReferences) \cup Ids(removedFiles) : Forget(i)
    \/ "clear" \in Commands /\ ClearIndex

----------------------------------------------------------------------------
(* Indexer::run.  Scan phase: each path under the roots is looked at once, *)
(* in an order of the walker's choosing, against the hashes of the         *)
(* locations as they were when the run began.                              *)

\* The hash map load_metadata_cache builds: one row per hash.
Lookups(rows) ==
    {c \in SUBSET rows :
        /\ {r.hash : r \in c} = {r.hash : r \in rows}
        /\ \A r, q \in c : r.hash = q.hash => r = q}

Begin(rs) ==
    /\ pc = "idle" /\ rs # {}
    /\ roots' = rs
    /\ cache' \in Lookups({[id |-> l.id, hash |-> ScanHash(l)] : l \in locations})
    /\ pending' = {p \in Paths : Dir(p) \in rs}
    /\ pc' = "scan" /\ quiet' = TRUE /\ synced' = FALSE
    /\ UNCHANGED <<world, tables, scan, live, dirChanged, toProcess, deletedIds,
                   results, dirResults, crashes, doubled>>

\* The walker threads look at the paths S; those it knows by hash are live.
Walk(S) ==
    LET seen == {[path |-> p, ver |-> fs[p].ver, ino |-> fs[p].ino] :
                    p \in {q \in S : Exists(q)}}
    IN  /\ pc = "scan"
        /\ pending' = pending \ S
        /\ scan' = scan \cup
              {e \in seen : \A c \in cache : c.hash # ScanHash(e)}
        /\ live' = live \cup
              {[id |-> m[1].id, path |-> m[2].path, ver |-> m[2].ver] :
                  m \in {x \in cache \X seen : x[1].hash = ScanHash(x[2])}}
        /\ pc' = IF pending' = {} THEN "rediscover" ELSE "scan"
        /\ UNCHANGED <<world, tables, roots, cache, dirChanged, toProcess,
                       deletedIds, results, dirResults, history>>

\* One path at a time, in any order; all at once where no file can change
\* meanwhile and the order makes no difference.
Scan ==
    IF FsDuringIndex THEN \E p \in pending : Walk({p}) ELSE Walk(pending)

----------------------------------------------------------------------------
(* Diff phase. *)

\* Mutant: a lost file is recognised at its old path only.
HitsSamePath ==
    {[id |-> h[1].id, ino |-> h[2].ino, rank |-> h[1].rank] :
        h \in {m \in removedFiles \X scan : ScanHash(m[1]) = ScanHash(m[2])}}

Hits == {[id |-> h[1].id, ino |-> h[2].ino, rank |-> h[1].rank] :
            h \in {m \in removedFiles \X scan :
                       BasenameScanHash(m[1]) = BasenameScanHash(m[2])}}

\* A file that came back under another name is a new item; when it has its old
\* name again, the old item is restored beside the new one.
GivesSecondItem ==
    \E h \in Hits, r \in fileReferences \cup Hits : h.ino = r.ino /\ h.id # r.id

AppendRestored ==
    /\ pc = "rediscover"
    /\ fileReferences' = fileReferences \cup Hits
    /\ pc' = IF removedFiles = {} THEN "diff" ELSE "restore"
    /\ doubled' = (doubled \/ GivesSecondItem)
    /\ UNCHANGED <<world, locations, baseTags, tagsByLocation, removedFiles,
                   userTags, run, crashes, quiet, synced>>

DropRestored ==
    /\ pc = "restore"
    /\ removedFiles' = {r \in removedFiles : r.id \notin Ids(Hits)}
    /\ pc' = "diff"
    /\ UNCHANGED <<world, fileReferences, locations, baseTags, tagsByLocation,
                   userTags, run, history>>

\* query_dir_changed: the join yields one row per matching location.
DirChanged ==
    {[id |-> m[2].id, path |-> m[1].path, ver |-> m[1].ver, ino |-> m[1].ino,
      from |-> m[2].path] :
        m \in {x \in scan \X locations :
                  /\ BasenameScanHash(x[1]) = BasenameScanHash(x[2])
                  /\ x[1].path # x[2].path}}

\* MIN(item_id) over the rows of an inode, NoId when there is none.
KnownIds(i) == {r.id : r \in {x \in fileReferences : x.ino = i}}
IsExistingId(id, i) ==
    \/ KnownIds(i) = {} /\ id = NoId
    \/ id \in KnownIds(i) /\ \A n \in KnownIds(i) : id <= n

\* query_with_existing_ids
WithExistingIds ==
    {[id |-> m[1], path |-> m[2].path, ver |-> m[2].ver, ino |-> m[2].ino] :
        m \in {x \in (Ids(fileReferences) \cup {NoId}) \X scan :
                  /\ x[2].path \notin PathsOf(DirChanged)
                  /\ IsExistingId(x[1], x[2].ino)}}

\* Mutant: the EXCEPT of the locations outside the roots is left out.
DeletedIgnoringScope ==
    (Ids(fileReferences) \ Ids(live))
        \ Ids({r \in fileReferences : \E s \in scan : s.ino = r.ino})

\* query_deleted
Deleted ==
    ((Ids(fileReferences) \ Ids(live))
        \ Ids({r \in fileReferences : \E s \in scan : s.ino = r.ino}))
        \ Ids({l \in locations : ~InScope(l.path)})

Diff ==
    /\ pc = "diff"
    /\ dirChanged' = DirChanged
    /\ toProcess' = WithExistingIds
    /\ deletedIds' = Deleted
    /\ pc' = "triage"
    /\ UNCHANGED <<world, tables, roots, cache, pending, scan, live, results,
                   dirResults, history>>

----------------------------------------------------------------------------
(* Triage phase: a file that is gone by now is skipped; what the extraction *)
(* stores as file_id is the inode it finds now, the hashes are the scan's.  *)

\* Mutant: the ids kept in removed_files count as free.
LastIdOfReferences(last) ==
    LET used == Ids(fileReferences) \cup {FileLo - 1}
    IN  last \in used /\ \A i \in used : i <= last

\* identifier::next(File, n): one above every id of the block in use.
LastId(last) ==
    LET used == Ids(fileReferences) \cup Ids(removedFiles) \cup {FileLo - 1}
    IN  last \in used /\ \A i \in used : i <= last

Extracted(rows) == {e \in rows : Exists(e.path)}
NewRefs == {e.ino : e \in {x \in Extracted(toProcess) : x.id = NoId}}

\* Mutant: every new file of a run gets the first new id.
AssignedSame(e, last) == IF e.id # NoId THEN e.id ELSE last + 1

Assigned(e, last) ==
    IF e.id # NoId THEN e.id
    ELSE last + Cardinality({j \in NewRefs : j <= e.ino})

Triage ==
    /\ pc = "triage"
    /\ \E last \in Ids(fileReferences) \cup Ids(removedFiles) \cup {FileLo - 1} :
          /\ LastId(last)
          /\ last + Cardinality(NewRefs) <= MaxId
          /\ results' = {[id |-> Assigned(e, last), path |-> e.path,
                          ver |-> e.ver, ino |-> e.ino,
                          fileId |-> fs[e.path].ino] : e \in Extracted(toProcess)}
    /\ dirResults' = {[id |-> e.id, path |-> e.path, ver |-> e.ver, ino |-> e.ino]
                          : e \in Extracted(dirChanged)}
    /\ pc' = "recordRemoved"
    /\ UNCHANGED <<world, tables, roots, cache, pending, scan, live, dirChanged,
                   toProcess, deletedIds, history>>

----------------------------------------------------------------------------
(* Merge phase: five tables, saved one after the other. *)

\* Mutant: the lost files are recorded from the references that remain.
RecordRemovedLate ==
    /\ pc = "recordRemoved"
    /\ pc' = "syncEntities"
    /\ UNCHANGED <<world, tables, run, history>>

RecordRemoved ==
    /\ pc = "recordRemoved"
    /\ removedFiles' = removedFiles \cup
          {[id |-> m[1].id, path |-> m[1].path, ver |-> m[1].ver,
            ino |-> m[1].ino, rank |-> m[2].rank] :
              m \in {x \in locations \X fileReferences :
                        /\ x[1].id = x[2].id
                        /\ x[1].id \in deletedIds \cap Ids(userTags)}}
    /\ pc' = "syncEntities"
    /\ UNCHANGED <<world, fileReferences, locations, baseTags, tagsByLocation,
                   userTags, run, history>>

\* Mutant: a re-extracted item starts over with rank 0.
InheritedRankZero(i) == 0

InheritedRank(i) ==
    IF i \in Ids(fileReferences)
    THEN (CHOOSE r \in fileReferences : r.id = i).rank
    ELSE 0

\* Mutant: the rows of deleted ids stay.
SyncEntitiesKeepDeleted ==
    /\ pc = "syncEntities"
    /\ \E first \in SUBSET results :
          /\ Ids(first) = Ids(results)
          /\ \A a, b \in first : a.id = b.id => a = b
          /\ fileReferences' =
                {r \in fileReferences : r.id \notin Ids(results)}
                \cup {[id |-> e.id, ino |-> e.fileId,
                       rank |-> InheritedRank(e.id)] : e \in first}
    /\ pc' = "syncLocations"
    /\ UNCHANGED <<world, locations, baseTags, tagsByLocation, removedFiles,
                   userTags, run, history>>

\* One row per id, whichever of its paths was extracted first.
SyncEntities ==
    /\ pc = "syncEntities"
    /\ \E first \in SUBSET results :
          /\ Ids(first) = Ids(results)
          /\ \A a, b \in first : a.id = b.id => a = b
          /\ fileReferences' =
                {r \in fileReferences : r.id \notin Ids(results) \cup deletedIds}
                \cup {[id |-> e.id, ino |-> e.fileId,
                       rank |-> InheritedRank(e.id)] : e \in first}
    /\ pc' = "syncLocations"
    /\ UNCHANGED <<world, locations, baseTags, tagsByLocation, removedFiles,
                   userTags, run, history>>

Ingested ==
    {[id |-> e.id, path |-> e.path, ver |-> e.ver, ino |-> e.ino]
        : e \in results} \cup dirResults

\* Mutant: a location stays as long as its item is live somewhere.
SyncLocationsByItem ==
    /\ pc = "syncLocations"
    /\ locations' =
          {l \in locations :
              /\ l.path \notin PathsOf(Ingested)
              /\ ~InScope(l.path) \/ l.id \in Ids(live)}
          \cup Ingested
    /\ pc' = "syncBaseTags"
    /\ UNCHANGED <<world, fileReferences, baseTags, tagsByLocation, removedFiles,
                   userTags, run, history>>

SyncLocations ==
    /\ pc = "syncLocations"
    /\ locations' =
          {l \in locations :
              /\ l.path \notin PathsOf(Ingested)
              /\ ~InScope(l.path) \/ \E v \in live : ScanHash(v) = ScanHash(l)}
          \cup Ingested
    /\ pc' = "syncBaseTags"
    /\ UNCHANGED <<world, fileReferences, baseTags, tagsByLocation, removedFiles,
                   userTags, run, history>>

\* Mutant: the rows an item had are not replaced.
SyncBaseTagsAppend ==
    /\ pc = "syncBaseTags"
    /\ baseTags' =
          {b \in baseTags : b.id \notin deletedIds}
          \cup {[id |-> e.id, stem |-> BaseName(e.path)] : e \in results}
    /\ pc' = "syncLocationTags"
    /\ UNCHANGED <<world, fileReferences, locations, tagsByLocation,
                   removedFiles, userTags, run, history>>

SyncBaseTags ==
    /\ pc = "syncBaseTags"
    /\ baseTags' =
          {b \in baseTags : b.id \notin Ids(results) \cup deletedIds}
          \cup {[id |-> e.id, stem |-> BaseName(e.path)] : e \in results}
    /\ pc' = "syncLocationTags"
    /\ UNCHANGED <<world, fileReferences, locations, tagsByLocation,
                   removedFiles, userTags, run, history>>

\* Mutant: the tag is taken from the basename.
LocTagDiffName ==
    {[id |-> e.id, dir |-> BaseName(e.path)]
        : e \in {x \in Ingested : Dir(x.path) \in LocTagDirs}}

LocTagDiff ==
    {[id |-> e.id, dir |-> Dir(e.path)]
        : e \in {x \in Ingested : Dir(x.path) \in LocTagDirs}}

ForgetRun ==
    /\ roots' = {} /\ cache' = {} /\ pending' = {} /\ scan' = {} /\ live' = {}
    /\ dirChanged' = {} /\ toProcess' = {} /\ deletedIds' = {}
    /\ results' = {} /\ dirResults' = {}

\* The last table, after which the temporary files go and the run ends.
SyncLocationTags ==
    /\ pc = "syncLocationTags"
    /\ tagsByLocation' =
          {t \in tagsByLocation : t.id \notin Ids(LocTagDiff) \cup deletedIds}
          \cup LocTagDiff
    /\ pc' = "idle"
    /\ ForgetRun
    /\ synced' = (quiet /\ roots = Dirs)
    /\ quiet' = FALSE
    /\ UNCHANGED <<world, fileReferences, locations, baseTags, removedFiles,
                   userTags, crashes, doubled>>

\* The process dies, or an extraction fails: what was saved stays saved.
Crash ==
    /\ pc # "idle" /\ crashes < MaxCrashes
    /\ crashes' = crashes + 1
    /\ pc' = "idle"
    /\ ForgetRun
    /\ quiet' = FALSE /\ synced' = FALSE
    /\ UNCHANGED <<world, tables, doubled>>

RunStep ==
    \/ Scan
    \/ AppendRestored \/ DropRestored
    \/ Diff
    \/ Triage
    \/ RecordRemoved \/ SyncEntities \/ SyncLocations
    \/ SyncBaseTags \/ SyncLocationTags

Next ==
    \/ FsStep
    \/ UserStep
    \/ \E rs \in SUBSET Dirs : Begin(rs)
    \/ RunStep
    \/ Crash

Spec == Init /\ [][Next]_vars

----------------------------------------------------------------------------
(* Properties *)

\* A location row whose file is, right now, the file the row was made from.
Current(l) == fs[l.path].ino = l.ino /\ fs[l.path].ver = l.ver

\* A tag the user gave to one file never shows on another one, whatever was
\* renamed, replaced, removed or brought back in between (the item_id carried
\* through diff, triage and merge; diff.rs names the inode reuse it must survive).
NoTagLeak ==
    ~doubled =>
        \A t \in userTags, l \in locations :
            l.id = t.id /\ Current(l) => fs[l.path].born = t.owner

\* A tagged item whose file is lost is kept in removed_files (STORE.md 1.5).
TaggedKept ==
    \A t \in userTags : t.id \in Ids(fileReferences) \cup Ids(removedFiles)

\* So it is as long as no file has had two items: else its tags are unreachable
\* and identifier::next may give the id away.
TagsNotOrphaned == ~doubled => TaggedKept

\* After a run over every root during which no file changed, locations holds
\* exactly the files there are: none missed, none stale.
IndexExact ==
    synced => {[path |-> l.path, ver |-> l.ver, ino |-> l.ino] : l \in locations}
              = {[path |-> p, ver |-> fs[p].ver, ino |-> fs[p].ino] :
                    p \in {q \in Paths : Dir(q) \in Dirs /\ Exists(q)}}

\* After such a run, if no file has been given a second item, two paths have one
\* item exactly when they are links to one file, and file_references has exactly
\* the items that have a path, under the inode the file has.
IdentityExact ==
    synced /\ ~doubled =>
        /\ \A l, m \in locations :
              (l.id = m.id) <=> (fs[l.path].born = fs[m.path].born)
        /\ {[id |-> l.id, ino |-> l.ino] : l \in locations}
              = {[id |-> r.id, ino |-> r.ino] : r \in fileReferences}

\* Between runs every location row has its file_references row (STORE.md 1.2
\* calls locations.item_id a foreign key): what query_deleted spares and what
\* LocationMerger keeps or adds must agree.
LocationsReferToEntities ==
    pc = "idle" => Ids(locations) \subseteq Ids(fileReferences)

\* An item has one row in file_references and a path one item in locations; and
\* an id given out is not waiting in removed_files for the file it belongs to
\* (rediscover, identifier::next, FileEntityMerger's filter and dedup).
TablesKeyed ==
    /\ \A r, q \in fileReferences : r.id = q.id => r = q
    /\ \A l, m \in locations : l.path = m.path => l = m
    /\ pc = "idle" => Ids(fileReferences) \cap Ids(removedFiles) = {}

\* After such a run, if no file has been given a second item, a tagged file is
\* found under its item, unless it came back changed or renamed after a run missed
\* it: then the item is still parked.
AttachedOrParked ==
    synced /\ ~doubled => \A t \in userTags, l \in locations :
        fs[l.path].born = t.owner =>
            \/ l.id = t.id
            \/ /\ t.id \in Ids(removedFiles)
               /\ \A r \in removedFiles :
                      r.id = t.id => BasenameScanHash(r) # BasenameScanHash(l)

\* A rank the user set survives every re-extraction, removal and return of its
\* item (inherit_rank, record_removed_files, rediscover).
RankNeverLost ==
    [][\A i \in Ids(fileReferences) \cup Ids(removedFiles) :
          \A r \in fileReferences \cup removedFiles,
             q \in fileReferences' \cup removedFiles' :
              r.id = i /\ q.id = i => q.rank >= r.rank]_vars

\* After such a run an item carries the stems of its paths and no others.
BaseTagsExact ==
    synced => {b \in baseTags : b.id \in Ids(locations)}
              = {[id |-> l.id, stem |-> BaseName(l.path)] : l \in locations}

=============================================================================
