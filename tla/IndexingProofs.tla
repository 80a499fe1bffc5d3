--------------------------- MODULE IndexingProofs ---------------------------
(***************************************************************************)
(* What holds of Indexing for every set of directories, names and inodes   *)
(* and every bound, whatever the user, the file system and crashes do.     *)
(***************************************************************************)
EXTENDS Indexing, FiniteSetTheorems, TLAPS

USE DEF world, tables, run, history, NoFile, NoId

\* Ids(rows) and PathsOf(rows) are typed when the rows are.
LEMMA IdsType ==
    ASSUME NEW rows, \A r \in rows : r.id \in Nat
    PROVE  Ids(rows) \in SUBSET Nat
  BY DEF Ids

\* The inodes that want a new id are finitely many, so counting them is sound.
LEMMA NewRefsCount ==
    ASSUME toProcess \in SUBSET LocRow
    PROVE  \A i \in Inodes : Cardinality({j \in NewRefs : j <= i}) \in Nat
  <1> TAKE i \in Inodes
  <1>1. NewRefs \subseteq Inodes
    BY DEF NewRefs, Extracted, LocRow
  <1>2. {j \in NewRefs : j <= i} \subseteq Inodes
    BY <1>1
  <1>3. IsFiniteSet({j \in NewRefs : j <= i})
    BY <1>2, InodesAssumption, FS_Subset
  <1> QED
    BY <1>3, FS_CardinalityType

\* The empty tables and the idle program are typed.
LEMMA InitType == Init => TypeOK
  <1> SUFFICES ASSUME Init PROVE TypeOK
    OBVIOUS
  <1>1. fs \in [Paths -> FileState]
    BY DEF Init, FileState
  <1> QED
    BY <1>1 DEF Init, TypeOK, Phases

LEMMA FsStepType == TypeOK /\ FsStep => TypeOK'
  <1> SUFFICES ASSUME TypeOK, FsStep PROVE TypeOK'
    OBVIOUS
  <1>1. PICK p \in Paths, q \in Paths :
           \/ \E i \in Inodes : Create(p, i)
           \/ Modify(p)
           \/ Move(p, q)
           \/ Link(p, q)
           \/ Unlink(p)
    BY DEF FsStep
  <1>2. FsMayChange
    BY <1>1 DEF Create, Modify, Move, Link, Unlink
  <1>3. fs' \in [Paths -> FileState] /\ clock' \in Nat
    <2>1. fs \in [Paths -> FileState] /\ clock \in Nat
      BY DEF TypeOK
    <2>2. CASE \E i \in Inodes : Create(p, i)
      BY <2>1, <2>2 DEF Create, FileState
    <2>3. CASE Modify(p)
      <3>1. clock' \in Nat
        BY <2>1, <2>3 DEF Modify
      <3>2. fs[p].ino # 0
        BY <2>1, <2>3, InodesAssumption DEF Modify, Exists, FileState
      <3>3. \A r \in Paths : fs[r].ino = fs[p].ino =>
               [fs[r] EXCEPT !.ver = clock'] \in FileState
        <4> TAKE r \in Paths
        <4> HAVE fs[r].ino = fs[p].ino
        <4>1. fs[r] \in [ino : Inodes, born : Nat, ver : Nat]
          BY <2>1, <3>2 DEF FileState
        <4> QED
          BY <3>1, <4>1 DEF FileState
      <3> QED
        BY <2>1, <2>3, <3>1, <3>3 DEF Modify
    <2>4. CASE Move(p, q)
      BY <2>1, <2>4 DEF Move, FileState
    <2>5. CASE Link(p, q)
      BY <2>1, <2>5 DEF Link
    <2>6. CASE Unlink(p)
      BY <2>1, <2>6 DEF Unlink, FileState
    <2> QED
      BY <1>1, <2>2, <2>3, <2>4, <2>5, <2>6
  <1> QED
    BY <1>2, <1>3 DEF TypeOK, FsMayChange

LEMMA UserStepType == TypeOK /\ UserStep => TypeOK'
  <1> SUFFICES ASSUME TypeOK, UserStep PROVE TypeOK'
    OBVIOUS
  <1>1. UserMayEdit
    BY DEF UserStep, TagItem, SetRank, Forget, ClearIndex
  <1>2. CASE \E l \in locations : TagItem(l)
    <2>1. PICK l \in locations : TagItem(l)
      BY <1>2
    <2>2. l \in LocRow /\ l.path \in Paths /\ l.id \in Nat /\ l.ino \in Inodes
      BY DEF TypeOK, LocRow
    <2>3. fs[l.path].born \in Nat
      BY <2>2 DEF TypeOK, FileState
    <2>4. userTags' \in SUBSET [id : Nat, owner : Nat]
      BY <2>1, <2>2, <2>3 DEF TypeOK, TagItem
    <2> QED
      BY <1>1, <2>1, <2>4 DEF TypeOK, UserMayEdit, TagItem
  <1>3. CASE \E i \in Ids(fileReferences) : SetRank(i)
    <2>1. PICK i : SetRank(i)
      BY <1>3
    <2>2. fileReferences' \in SUBSET RefRow
      BY <2>1 DEF TypeOK, SetRank, RefRow
    <2> QED
      BY <1>1, <2>1, <2>2 DEF TypeOK, UserMayEdit, SetRank
  <1>4. CASE \E i \in Ids(fileReferences) \cup Ids(removedFiles) : Forget(i)
    <2>1. PICK i : Forget(i)
      BY <1>4
    <2> QED
      BY <1>1, <2>1 DEF TypeOK, UserMayEdit, Forget
  <1>5. CASE ClearIndex
    BY <1>1, <1>5 DEF TypeOK, UserMayEdit, ClearIndex
  <1> QED
    BY <1>2, <1>3, <1>4, <1>5 DEF UserStep

LEMMA BeginType == TypeOK /\ (\E rs \in SUBSET Dirs : Begin(rs)) => TypeOK'
  <1> SUFFICES ASSUME TypeOK, NEW rs \in SUBSET Dirs, Begin(rs) PROVE TypeOK'
    OBVIOUS
  <1>1. cache' \in SUBSET CacheRow
    <2>1. {[id |-> l.id, hash |-> ScanHash(l)] : l \in locations}
             \in SUBSET CacheRow
      BY DEF TypeOK, LocRow, CacheRow, ScanHash
    <2> QED
      BY <2>1 DEF Begin, Lookups
  <1> QED
    BY <1>1 DEF TypeOK, Begin, Phases

LEMMA WalkType ==
    ASSUME TypeOK, NEW S \in SUBSET pending, Walk(S)
    PROVE  TypeOK'
  <1> DEFINE seen == {[path |-> p, ver |-> fs[p].ver, ino |-> fs[p].ino] :
                         p \in {q \in S : Exists(q)}}
  <1>1. seen \in SUBSET ScanRow
    <2>1. \A p \in S : p \in Paths
      BY DEF TypeOK
    <2>2. \A p \in S : Exists(p) => fs[p] \in [ino : Inodes, born : Nat, ver : Nat]
      BY <2>1 DEF TypeOK, FileState, Exists
    <2> QED
      BY <2>1, <2>2 DEF ScanRow
  <1>2. scan' \in SUBSET ScanRow
    BY <1>1 DEF TypeOK, Walk
  <1>3. live' \in SUBSET LiveRow
    <2>1. {[id |-> m[1].id, path |-> m[2].path, ver |-> m[2].ver] :
              m \in {x \in cache \X seen : x[1].hash = ScanHash(x[2])}}
             \in SUBSET LiveRow
      BY <1>1 DEF TypeOK, CacheRow, ScanRow, LiveRow
    <2> QED
      BY <2>1 DEF TypeOK, Walk
  <1>4. pending' \in SUBSET Paths /\ pc' \in Phases
    BY DEF TypeOK, Walk, Phases
  <1> QED
    BY <1>2, <1>3, <1>4 DEF TypeOK, Walk

\* The rows a hit of rediscover puts back are typed.
LEMMA HitsType ==
    ASSUME TypeOK
    PROVE  Hits \in SUBSET RefRow
  BY DEF TypeOK, Hits, RefRow, RemovedRow, ScanRow

LEMMA DirChangedType ==
    ASSUME TypeOK
    PROVE  DirChanged \in SUBSET MovedRow
  BY DEF TypeOK, DirChanged, MovedRow, LocRow, ScanRow

LEMMA WithExistingIdsType ==
    ASSUME TypeOK
    PROVE  WithExistingIds \in SUBSET LocRow
  <1>1. Ids(fileReferences) \in SUBSET Nat
    BY DEF TypeOK, Ids, RefRow
  <1> QED
    BY <1>1 DEF TypeOK, WithExistingIds, LocRow, ScanRow

LEMMA DeletedType ==
    ASSUME TypeOK
    PROVE  Deleted \in SUBSET Nat
  <1>1. Ids(fileReferences) \in SUBSET Nat
    BY DEF TypeOK, Ids, RefRow
  <1> QED
    BY <1>1 DEF Deleted

\* What triage hands on is typed: the id of a new file is a number because the
\* inodes that want one can be counted.
LEMMA TriageType ==
    ASSUME TypeOK, Triage
    PROVE  TypeOK'
  <1>1. PICK last \in Ids(fileReferences) \cup Ids(removedFiles) \cup {FileLo - 1} :
           results' = {[id |-> Assigned(e, last), path |-> e.path,
                        ver |-> e.ver, ino |-> e.ino,
                        fileId |-> fs[e.path].ino] : e \in Extracted(toProcess)}
    BY DEF Triage
  <1>2. last \in Nat
    BY BoundsAssumption DEF TypeOK, Ids, RefRow, RemovedRow
  <1>3. \A e \in Extracted(toProcess) :
           /\ e \in LocRow
           /\ fs[e.path].ino \in Inodes
           /\ Assigned(e, last) \in Nat
    <2> TAKE e \in Extracted(toProcess)
    <2>1. e \in LocRow /\ Exists(e.path)
      BY DEF TypeOK, Extracted
    <2>2. e.path \in Paths /\ e.ino \in Inodes /\ e.id \in Nat
      BY <2>1 DEF LocRow
    <2>3. fs[e.path].ino \in Inodes
      BY <2>1, <2>2 DEF TypeOK, FileState, Exists
    <2>4. Cardinality({j \in NewRefs : j <= e.ino}) \in Nat
      BY <2>2, NewRefsCount DEF TypeOK
    <2> QED
      BY <1>2, <2>1, <2>2, <2>3, <2>4 DEF Assigned
  <1>4. results' \in SUBSET ResultRow
    BY <1>1, <1>3 DEF ResultRow, LocRow
  <1>5. dirResults' \in SUBSET LocRow
    BY DEF TypeOK, Triage, Extracted, MovedRow, LocRow
  <1> QED
    BY <1>4, <1>5 DEF TypeOK, Triage, Phases

LEMMA IngestedType ==
    ASSUME TypeOK
    PROVE  Ingested \in SUBSET LocRow
  BY DEF TypeOK, Ingested, ResultRow, LocRow

LEMMA MergeType ==
    ASSUME TypeOK,
           RecordRemoved \/ SyncEntities \/ SyncLocations \/ SyncBaseTags
              \/ SyncLocationTags
    PROVE  TypeOK'
  <1>1. CASE RecordRemoved
    <2>1. removedFiles' \in SUBSET RemovedRow
      BY <1>1 DEF TypeOK, RecordRemoved, RemovedRow, LocRow, RefRow
    <2> QED
      BY <1>1, <2>1 DEF TypeOK, RecordRemoved, Phases
  <1>2. CASE SyncEntities
    <2>1. \A i : InheritedRank(i) \in {0, 1}
      <3> TAKE i
      <3>1. CASE i \in Ids(fileReferences)
        <4>1. \E r \in fileReferences : r.id = i
          BY <3>1 DEF Ids
        <4>2. (CHOOSE r \in fileReferences : r.id = i) \in RefRow
          BY <4>1 DEF TypeOK
        <4> QED
          BY <3>1, <4>2 DEF InheritedRank, RefRow
      <3> QED
        BY <3>1 DEF InheritedRank
    <2>2. PICK first \in SUBSET results :
             fileReferences' =
                {r \in fileReferences : r.id \notin Ids(results) \cup deletedIds}
                \cup {[id |-> e.id, ino |-> e.fileId,
                       rank |-> InheritedRank(e.id)] : e \in first}
      BY <1>2 DEF SyncEntities
    <2>3. \A e \in first : e.id \in Nat /\ e.fileId \in Inodes
      BY DEF TypeOK, ResultRow
    <2>4. fileReferences' \in SUBSET RefRow
      BY <2>1, <2>2, <2>3 DEF TypeOK, RefRow
    <2> QED
      BY <1>2, <2>4 DEF TypeOK, SyncEntities, Phases
  <1>3. CASE SyncLocations
    <2>1. locations' \in SUBSET LocRow
      BY <1>3, IngestedType DEF TypeOK, SyncLocations
    <2> QED
      BY <1>3, <2>1 DEF TypeOK, SyncLocations, Phases
  <1>4. CASE SyncBaseTags
    <2>1. {[id |-> e.id, stem |-> BaseName(e.path)] : e \in results}
             \in SUBSET [id : Nat, stem : Names]
      BY DEF TypeOK, ResultRow, Paths, BaseName
    <2>2. baseTags' \in SUBSET [id : Nat, stem : Names]
      BY <1>4, <2>1 DEF TypeOK, SyncBaseTags
    <2> QED
      BY <1>4, <2>2 DEF TypeOK, SyncBaseTags, Phases
  <1>5. CASE SyncLocationTags
    <2>1. LocTagDiff \in SUBSET [id : Nat, dir : Dirs \cup {Away}]
      BY IngestedType DEF LocTagDiff, LocRow, Paths, Dir
    <2>2. tagsByLocation' \in SUBSET [id : Nat, dir : Dirs \cup {Away}]
      BY <1>5, <2>1 DEF TypeOK, SyncLocationTags
    <2>3. synced' \in BOOLEAN /\ quiet' \in BOOLEAN
      BY <1>5 DEF TypeOK, SyncLocationTags
    <2> QED
      BY <1>5, <2>2, <2>3 DEF TypeOK, SyncLocationTags, ForgetRun, Phases
  <1> QED
    BY <1>1, <1>2, <1>3, <1>4, <1>5

\* Every table and every intermediate result of a run has the rows its schema
\* says, for every instance of the model and with crashes and races allowed.
THEOREM TypeCorrect == Spec => []TypeOK
  <1>1. TypeOK /\ [Next]_vars => TypeOK'
    <2> SUFFICES ASSUME TypeOK, [Next]_vars PROVE TypeOK'
      OBVIOUS
    <2>1. CASE Scan
      <3>1. PICK S \in SUBSET pending : Walk(S)
        BY <2>1 DEF Scan
      <3> QED
        BY <3>1, WalkType
    <2>2. CASE AppendRestored
      <3>1. fileReferences' \in SUBSET RefRow
        BY <2>2, HitsType DEF TypeOK, AppendRestored
      <3> QED
        BY <2>2, <3>1 DEF TypeOK, AppendRestored, Phases
    <2>3. CASE DropRestored
      BY <2>3 DEF TypeOK, DropRestored, Phases
    <2>4. CASE Diff
      BY <2>4, DirChangedType, WithExistingIdsType, DeletedType
         DEF TypeOK, Diff, Phases
    <2>5. CASE Crash
      <3>1. crashes' \in Nat
        BY <2>5 DEF TypeOK, Crash
      <3>2. /\ fs' \in [Paths -> FileState] /\ clock' \in Nat
            /\ userTags' \in SUBSET [id : Nat, owner : Nat]
        BY <2>5 DEF TypeOK, Crash
      <3> QED
        BY <2>5, <3>1, <3>2 DEF TypeOK, Crash, ForgetRun, Phases
    <2>6. CASE UNCHANGED vars
      BY <2>6 DEF TypeOK, vars, Ids, Exists
    <2> QED
      BY <2>1, <2>2, <2>3, <2>4, <2>5, <2>6, FsStepType, UserStepType, BeginType,
         TriageType, MergeType DEF Next, RunStep
  <1> QED
    BY <1>1, InitType, PTL DEF Spec

----------------------------------------------------------------------------
(* What a run knows about files.  As long as no file changes, the scan     *)
(* meets each path once and as it is, the diff and the triage drop none of *)
(* them, and the merge keeps or replaces the location of each.             *)

ScanPhases == {"scan", "rediscover", "restore", "diff", "triage",
               "recordRemoved", "syncEntities", "syncLocations"}
MergePhases == {"recordRemoved", "syncEntities", "syncLocations"}

SameFile(a, b) == a.path = b.path /\ a.ver = b.ver /\ a.ino = b.ino

\* Whatever has a file's stamp and inode.
Sightings ==
    {fs[p] : p \in {q \in Paths : Exists(q)}} \cup locations \cup removedFiles
    \cup scan \cup toProcess \cup dirChanged \cup results \cup dirResults

\* A stamp is of one inode, and none is from the future.
Stamps ==
    \A a, b \in Sightings : a.ver <= clock /\ (a.ver = b.ver => a.ino = b.ino)

\* Nothing outside the roots is met, and nothing outside Dirs is stored.
InRoots ==
    /\ pc = "idle" => roots = {}
    /\ \A l \in locations : Dir(l.path) \in Dirs
    /\ \A p \in pending : InScope(p)
    /\ \A e \in scan \cup toProcess \cup dirChanged \cup results \cup dirResults :
          InScope(e.path)

Seen(p) ==
    \/ \E e \in scan : e.path = p /\ e.ver = fs[p].ver
    \/ \E v \in live : v.path = p /\ v.ver = fs[p].ver

\* What is live has a location, and as long as no file changes every path
\* looked at is met as it is.
ScanMeets ==
    /\ pc = "idle" => live = {}
    /\ pc # "scan" => pending = {}
    /\ pc = "scan" => \A c \in cache : \E l \in locations : c.hash = ScanHash(l)
    /\ pc \in ScanPhases =>
          /\ \A v \in live : \E l \in locations : ScanHash(v) = ScanHash(l)
          /\ quiet =>
                /\ \A e \in scan \cup live :
                      Exists(e.path) /\ e.ver = fs[e.path].ver
                /\ \A p \in Paths :
                      InScope(p) /\ Exists(p) => p \in pending \/ Seen(p)

\* What the diff and the triage pass on are files of the scan: all of them, as
\* long as none went away.
ScanSorted ==
    /\ pc = "triage" /\ quiet =>
          \A e \in scan : \E t \in toProcess \cup dirChanged : SameFile(e, t)
    /\ pc \in {"triage"} \cup MergePhases =>
          \A t \in toProcess \cup dirChanged : \E e \in scan : SameFile(e, t)
    /\ pc \in MergePhases =>
          /\ \A i \in Ingested : \E e \in scan : SameFile(e, i)
          /\ quiet => \A e \in scan : \E i \in Ingested : SameFile(e, i)

ExactNow ==
    /\ \A l \in locations : /\ Exists(l.path) /\ Dir(l.path) \in Dirs
                            /\ l.ver = fs[l.path].ver /\ l.ino = fs[l.path].ino
    /\ \A p \in Paths : Dir(p) \in Dirs /\ Exists(p) =>
          \E l \in locations : l.path = p

Exact ==
    /\ pc \in {"syncBaseTags", "syncLocationTags"} /\ quiet /\ roots = Dirs
          => ExactNow
    /\ synced => pc = "idle" /\ ExactNow

ExactInv == Stamps /\ InRoots /\ ScanMeets /\ ScanSorted /\ Exact

----------------------------------------------------------------------------

\* No new stamp is seen.
LEMMA StampsStay ==
    ASSUME Stamps, clock' = clock,
           \A s \in Sightings' : \E t \in Sightings : t.ver = s.ver /\ t.ino = s.ino
    PROVE  Stamps'
  BY DEF Stamps

\* A set of numbers that has a member has a least one.
LEMMA LeastNumber ==
    ASSUME NEW S \in SUBSET Nat, S # {}
    PROVE  \E m \in S : \A n \in S : m <= n
  <1>1. PICK m \in S : \A n \in S : <<n, m>> \notin OpToRel(<, Nat)
    BY NatLessThanWellFounded, WFMin
  <1>2. \A n \in S : ~(n < m)
    BY <1>1 DEF OpToRel
  <1> QED
    BY <1>2

\* The rows of a scan at paths where no row is moved are all processed.
LEMMA DiffKeepsScan ==
    ASSUME TypeOK, NEW e \in scan, e.path \notin PathsOf(DirChanged)
    PROVE  \E t \in WithExistingIds : SameFile(e, t)
  <1>1. KnownIds(e.ino) \in SUBSET Nat /\ KnownIds(e.ino) \subseteq Ids(fileReferences)
    BY DEF KnownIds, TypeOK, RefRow, Ids
  <1>2. \E n \in Ids(fileReferences) \cup {NoId} : IsExistingId(n, e.ino)
    <2>1. CASE KnownIds(e.ino) = {}
      BY <2>1 DEF IsExistingId
    <2>2. CASE KnownIds(e.ino) # {}
      BY <1>1, <2>2, LeastNumber DEF IsExistingId
    <2> QED
      BY <2>1, <2>2
  <1>3. PICK n \in Ids(fileReferences) \cup {NoId} : IsExistingId(n, e.ino)
    BY <1>2
  <1> DEFINE t == [id |-> n, path |-> e.path, ver |-> e.ver, ino |-> e.ino]
             m == <<n, e>>
  <1>4. /\ m \in (Ids(fileReferences) \cup {NoId}) \X scan
        /\ m[2].path \notin PathsOf(DirChanged)
        /\ IsExistingId(m[1], m[2].ino)
        /\ t = [id |-> m[1], path |-> m[2].path, ver |-> m[2].ver, ino |-> m[2].ino]
        /\ SameFile(e, t)
    BY <1>3 DEF SameFile
  <1> HIDE DEF t, m
  <1>5. t \in WithExistingIds
    BY <1>4 DEF WithExistingIds
  <1> QED
    BY <1>4, <1>5

LEMMA ExactInit == Init => ExactInv
  <1> SUFFICES ASSUME Init PROVE ExactInv
    OBVIOUS
  <1>1. Sightings = {}
    BY DEF Init, Sightings, Exists
  <1> QED
    BY <1>1 DEF Init, ExactInv, Stamps, InRoots, ScanMeets, ScanSorted, Exact,
       ScanPhases, MergePhases

LEMMA FsSightings ==
    ASSUME TypeOK, Stamps, FsStep
    PROVE  Stamps'
  <1>1. PICK p \in Paths, q \in Paths :
           \/ \E i \in Inodes : Create(p, i)
           \/ Modify(p)
           \/ Move(p, q)
           \/ Link(p, q)
           \/ Unlink(p)
    BY DEF FsStep
  <1>2. UNCHANGED <<locations, removedFiles, scan, toProcess, dirChanged, results,
                    dirResults>>
    <2>1. FsMayChange
      BY <1>1 DEF Create, Modify, Move, Link, Unlink
    <2> QED
      BY <2>1 DEF FsMayChange
  <1>3. fs \in [Paths -> FileState] /\ clock \in Nat
    BY DEF TypeOK
  <1> DEFINE Tabled == locations \cup removedFiles \cup scan \cup toProcess
                       \cup dirChanged \cup results \cup dirResults
             Shown == {fs[x] : x \in {y \in Paths : Exists(y)}}
  <1>4. Sightings = Shown \cup Tabled /\ Sightings' = Shown' \cup Tabled
    BY <1>2 DEF Sightings
  <1>5. \A s \in Shown' : \E x \in Paths : s = fs'[x] /\ fs'[x] # NoFile
    BY DEF Exists
  <1>6. \A x \in Paths : fs[x] # NoFile => fs[x] \in Sightings
    BY DEF Sightings, Exists
  <1> HIDE DEF Shown, Tabled
  <1>7. CASE \E i \in Inodes : Create(p, i)
    <2>1. PICK i \in Inodes : Create(p, i)
      BY <1>7
    <2>2. /\ clock' = clock + 1
          /\ fs' = [fs EXCEPT ![p] = [ino |-> i, born |-> clock', ver |-> clock']]
      BY <2>1 DEF Create
    <2>3. \A s \in Sightings' : \/ s.ver = clock' /\ s.ino = i
                                \/ s \in Sightings
      BY <1>3, <1>4, <1>5, <1>6, <2>2
    <2>4. \A s \in Sightings : s.ver <= clock
      BY DEF Stamps
    <2>5. \A s \in Sightings : s.ver # clock'
      BY <1>3, <2>2, <2>4
    <2>6. \A s \in Sightings' : s.ver <= clock'
      <3>1. \A s \in Sightings : s.ver \in Nat
        BY DEF Sightings, TypeOK, LocRow, RemovedRow, ScanRow, MovedRow, ResultRow,
               FileState, Exists
      <3> QED
        BY <1>3, <2>2, <2>3, <2>4, <3>1
    <2> QED
      BY <2>3, <2>5, <2>6 DEF Stamps
  <1>8. CASE Modify(p)
    <2>1. /\ clock' = clock + 1 /\ fs[p] # NoFile
          /\ fs' = [x \in Paths |-> IF fs[x].ino = fs[p].ino
                                    THEN [fs[x] EXCEPT !.ver = clock']
                                    ELSE fs[x]]
      BY <1>8 DEF Modify, Exists
    <2>2. \A x \in Paths : fs[x].ino = fs[p].ino =>
             fs'[x].ver = clock' /\ fs'[x].ino = fs[p].ino
      <3>1. fs[p].ino # 0
        BY <1>3, <2>1, InodesAssumption DEF FileState
      <3>2. \A x \in Paths : fs[x].ino = fs[p].ino =>
               fs[x] \in [ino : Inodes, born : Nat, ver : Nat]
        BY <1>3, <3>1 DEF FileState
      <3> QED
        BY <2>1, <3>2
    <2>3. \A s \in Sightings' : \/ s.ver = clock' /\ s.ino = fs[p].ino
                                \/ s \in Sightings
      <3>1. \A x \in Paths : fs[x].ino # fs[p].ino => fs'[x] = fs[x]
        BY <2>1
      <3> QED
        BY <1>4, <1>5, <1>6, <2>2, <3>1
    <2>4. \A s \in Sightings : s.ver <= clock
      BY DEF Stamps
    <2>5. \A s \in Sightings : s.ver # clock'
      BY <1>3, <2>1, <2>4
    <2>6. \A s \in Sightings' : s.ver <= clock'
      <3>1. \A s \in Sightings : s.ver \in Nat
        BY DEF Sightings, TypeOK, LocRow, RemovedRow, ScanRow, MovedRow, ResultRow,
               FileState, Exists
      <3> QED
        BY <1>3, <2>1, <2>3, <2>4, <3>1
    <2> QED
      BY <2>3, <2>5, <2>6 DEF Stamps
  <1>9. CASE Move(p, q) \/ Link(p, q) \/ Unlink(p)
    <2>1. clock' = clock
      BY <1>9 DEF Move, Link, Unlink
    <2>2. \A x \in Paths : fs'[x] # NoFile => \E y \in Paths : fs'[x] = fs[y]
      BY <1>3, <1>9 DEF Move, Link, Unlink
    <2>3. Sightings' \subseteq Sightings
      BY <1>4, <1>5, <1>6, <2>2
    <2> QED
      BY <2>1, <2>3, StampsStay
  <1> QED
    BY <1>1, <1>7, <1>8, <1>9

LEMMA FsExact ==
    ASSUME TypeOK, ExactInv, FsStep
    PROVE  ExactInv'
  <1>1. /\ quiet' = FALSE /\ synced' = FALSE
        /\ UNCHANGED <<tables, pc, run>>
    BY DEF FsStep, FsMayChange, Create, Modify, Move, Link, Unlink
  <1>2. Stamps'
    BY FsSightings DEF ExactInv
  <1>3. InRoots'
    BY <1>1 DEF ExactInv, InRoots, InScope
  <1>4. ScanMeets'
    BY <1>1 DEF ExactInv, ScanMeets, ScanHash
  <1>5. ScanSorted'
    BY <1>1 DEF ExactInv, ScanSorted, SameFile, Ingested
  <1>6. Exact'
    BY <1>1 DEF Exact
  <1> QED
    BY <1>2, <1>3, <1>4, <1>5, <1>6 DEF ExactInv

LEMMA UserExact ==
    ASSUME ExactInv, UserStep
    PROVE  ExactInv'
  <1>1. /\ pc = "idle" /\ UNCHANGED <<world, pc, run, quiet>>
        /\ locations' \subseteq locations /\ removedFiles' \subseteq removedFiles
        /\ synced' => synced /\ locations' = locations
    BY DEF UserStep, TagItem, SetRank, Forget, ClearIndex, UserMayEdit
  <1>2. Stamps'
    <2>1. Sightings' \subseteq Sightings
      BY <1>1 DEF Sightings, Exists
    <2> QED
      BY <1>1, <2>1, StampsStay DEF ExactInv
  <1>3. InRoots'
    BY <1>1 DEF ExactInv, InRoots, InScope
  <1>4. ScanMeets' /\ ScanSorted'
    BY <1>1 DEF ExactInv, ScanMeets, ScanSorted, ScanPhases, MergePhases
  <1>5. Exact'
    BY <1>1 DEF ExactInv, Exact, ExactNow, Exists
  <1> QED
    BY <1>2, <1>3, <1>4, <1>5 DEF ExactInv

LEMMA BeginExact ==
    ASSUME ExactInv, NEW rs \in SUBSET Dirs, Begin(rs)
    PROVE  ExactInv'
  <1>1. /\ pc = "idle" /\ pc' = "scan" /\ roots' = rs /\ synced' = FALSE
        /\ pending' = {p \in Paths : Dir(p) \in rs}
        /\ UNCHANGED <<world, tables, scan, live, dirChanged, toProcess,
                       deletedIds, results, dirResults>>
    BY DEF Begin
  <1>2. /\ scan = {} /\ toProcess = {} /\ dirChanged = {} /\ results = {}
        /\ dirResults = {} /\ live = {}
    BY <1>1 DEF ExactInv, InRoots, InScope, ScanMeets
  <1>3. Stamps'
    <2>1. Sightings' = Sightings
      BY <1>1 DEF Sightings, Exists
    <2> QED
      BY <1>1, <2>1, StampsStay DEF ExactInv
  <1>4. InRoots'
    BY <1>1, <1>2 DEF ExactInv, InRoots, InScope
  <1>5. ScanMeets'
    <2>1. \A c \in cache' : \E l \in locations : c.hash = ScanHash(l)
      BY DEF Begin, Lookups
    <2>2. \A p \in Paths : InScope(p)' => p \in pending'
      BY <1>1 DEF InScope
    <2> QED
      BY <1>1, <1>2, <2>1, <2>2 DEF ScanMeets, ScanHash
  <1>6. ScanSorted' /\ Exact'
    BY <1>1 DEF ScanSorted, Exact, MergePhases
  <1> QED
    BY <1>3, <1>4, <1>5, <1>6 DEF ExactInv

LEMMA WalkExact ==
    ASSUME TypeOK, ExactInv, NEW S \in SUBSET pending, Walk(S)
    PROVE  ExactInv'
  <1> DEFINE seen == {[path |-> p, ver |-> fs[p].ver, ino |-> fs[p].ino] :
                         p \in {q \in S : Exists(q)}}
             met == {[id |-> m[1].id, path |-> m[2].path, ver |-> m[2].ver] :
                        m \in {x \in cache \X seen : x[1].hash = ScanHash(x[2])}}
  <1>1. /\ pc = "scan" /\ pc' \in {"scan", "rediscover"}
        /\ pc' = "scan" \/ pending' = {}
        /\ pending' = pending \ S
        /\ scan' = scan \cup {e \in seen : \A c \in cache : c.hash # ScanHash(e)}
        /\ live' = live \cup met
        /\ UNCHANGED <<world, tables, roots, cache, dirChanged, toProcess,
                       deletedIds, results, dirResults, history>>
    BY DEF Walk
  <1>2. \A e \in seen : /\ e.path \in S /\ Exists(e.path)
                        /\ e.ver = fs[e.path].ver /\ e.ino = fs[e.path].ino
    OBVIOUS
  <1>3. ASSUME NEW p \in S, Exists(p)
        PROVE  \E e \in seen : e.path = p
    <2>1. [path |-> p, ver |-> fs[p].ver, ino |-> fs[p].ino] \in seen
      BY <1>3
    <2> QED
      BY <2>1
  <1>4. \A v \in met : \E c \in cache, e \in seen :
           /\ c.hash = ScanHash(e) /\ v.path = e.path /\ v.ver = e.ver
           /\ ScanHash(v) = ScanHash(e)
    <2> TAKE v \in met
    <2> HIDE DEF seen
    <2>1. PICK m \in cache \X seen :
             /\ m[1].hash = ScanHash(m[2])
             /\ v = [id |-> m[1].id, path |-> m[2].path, ver |-> m[2].ver]
      OBVIOUS
    <2> QED
      BY <2>1 DEF ScanHash
  <1>5. \A c \in cache, e \in seen : c.hash = ScanHash(e) =>
           \E v \in met : v.path = e.path /\ v.ver = e.ver
    <2> TAKE c \in cache, e \in seen
    <2> HAVE c.hash = ScanHash(e)
    <2> DEFINE m == <<c, e>>
               v == [id |-> m[1].id, path |-> m[2].path, ver |-> m[2].ver]
    <2>1. m \in cache \X seen /\ m[1].hash = ScanHash(m[2]) /\ m[2] = e
      OBVIOUS
    <2> HIDE DEF m, seen
    <2>2. v \in met /\ v.path = e.path /\ v.ver = e.ver
      BY <2>1
    <2> QED
      BY <2>2
  <1> HIDE DEF seen, met
  <1>6. \A p \in S : p \in Paths /\ InScope(p)
    BY DEF TypeOK, ExactInv, InRoots
  <1>7. Stamps'
    <2>1. \A e \in seen : \E t \in Sightings : t.ver = e.ver /\ t.ino = e.ino
      BY <1>2, <1>6 DEF Sightings
    <2>2. \A s \in Sightings' : s \in Sightings \/ s \in seen
      BY <1>1 DEF Sightings, Exists
    <2> QED
      BY <1>1, <2>1, <2>2, StampsStay DEF ExactInv
  <1>8. InRoots'
    BY <1>1, <1>2, <1>6 DEF ExactInv, InRoots, InScope
  <1>9. ScanMeets'
    <2>1. \A c \in cache : \E l \in locations : c.hash = ScanHash(l)
      BY <1>1 DEF ExactInv, ScanMeets
    <2>2. /\ \A v \in live : \E l \in locations : ScanHash(v) = ScanHash(l)
          /\ quiet =>
                /\ \A e \in scan \cup live :
                      Exists(e.path) /\ e.ver = fs[e.path].ver
                /\ \A p \in Paths :
                      InScope(p) /\ Exists(p) => p \in pending \/ Seen(p)
      BY <1>1 DEF ExactInv, ScanMeets, ScanPhases
    <2>3. \A v \in live' : \E l \in locations : ScanHash(v) = ScanHash(l)
      BY <1>1, <1>4, <2>1, <2>2
    <2>4. quiet => \A e \in scan' \cup live' :
                      Exists(e.path) /\ e.ver = fs[e.path].ver
      BY <1>1, <1>2, <1>4, <2>2
    <2>5. ASSUME quiet, NEW p \in Paths, InScope(p), Exists(p)
          PROVE  \/ p \in pending'
                 \/ \E e \in scan' : e.path = p /\ e.ver = fs[p].ver
                 \/ \E v \in live' : v.path = p /\ v.ver = fs[p].ver
      <3>1. CASE p \in S
        <4>1. PICK e \in seen : e.path = p /\ e.ver = fs[p].ver
          BY <1>2, <1>3, <2>5, <3>1
        <4>2. CASE \A c \in cache : c.hash # ScanHash(e)
          BY <1>1, <4>1, <4>2
        <4>3. CASE \E c \in cache : c.hash = ScanHash(e)
          BY <1>1, <1>5, <4>1, <4>3
        <4> QED
          BY <4>2, <4>3
      <3>2. CASE p \in pending /\ p \notin S
        BY <1>1, <3>2
      <3>3. CASE Seen(p)
        BY <1>1, <3>3 DEF Seen
      <3> QED
        BY <2>2, <2>5, <3>1, <3>2, <3>3
    <2>6. quiet => \A p \in Paths :
             (InScope(p) /\ Exists(p))' => (p \in pending \/ Seen(p))'
      BY <1>1, <2>5 DEF InScope, Exists, Seen
    <2> QED
      BY <1>1, <2>1, <2>3, <2>4, <2>6 DEF ScanMeets, ScanHash, Exists
  <1>10. ScanSorted' /\ Exact'
    BY <1>1 DEF ExactInv, ScanSorted, Exact, MergePhases
  <1> QED
    BY <1>7, <1>8, <1>9, <1>10 DEF ExactInv

\* From the scan to the merge of locations, what the scan met stays met.
LEMMA MeetsStay ==
    ASSUME ScanMeets, pc \in ScanPhases \ {"scan"}, pc' \in ScanPhases \ {"scan"},
           UNCHANGED <<fs, locations, roots, pending, scan, live, quiet>>
    PROVE  ScanMeets'
  BY DEF ScanMeets, ScanPhases, ScanHash, Exists, InScope, Seen

LEMMA RestoreExact ==
    ASSUME ExactInv, AppendRestored \/ DropRestored
    PROVE  ExactInv'
  <1>1. /\ pc \in {"rediscover", "restore"} /\ pc' \in {"restore", "diff"}
        /\ removedFiles' \subseteq removedFiles
        /\ UNCHANGED <<world, locations, run, quiet, synced>>
    BY DEF AppendRestored, DropRestored
  <1>2. Stamps'
    <2>1. Sightings' \subseteq Sightings
      BY <1>1 DEF Sightings, Exists
    <2> QED
      BY <1>1, <2>1, StampsStay DEF ExactInv
  <1>3. InRoots'
    BY <1>1 DEF ExactInv, InRoots, InScope
  <1>4. ScanMeets'
    BY <1>1, MeetsStay DEF ExactInv, ScanPhases
  <1>5. ScanSorted' /\ Exact'
    BY <1>1 DEF ExactInv, ScanSorted, Exact, MergePhases
  <1> QED
    BY <1>2, <1>3, <1>4, <1>5 DEF ExactInv

LEMMA DiffExact ==
    ASSUME TypeOK, ExactInv, Diff
    PROVE  ExactInv'
  <1>1. /\ pc = "diff" /\ pc' = "triage"
        /\ dirChanged' = DirChanged /\ toProcess' = WithExistingIds
        /\ UNCHANGED <<world, tables, roots, pending, scan, live, results,
                       dirResults, history>>
    BY DEF Diff
  <1>2. \A t \in WithExistingIds \cup DirChanged : \E e \in scan : SameFile(e, t)
    <2>1. \A t \in WithExistingIds : \E e \in scan : SameFile(e, t)
      BY DEF WithExistingIds, SameFile
    <2>2. \A t \in DirChanged : \E e \in scan : SameFile(e, t)
      <3> TAKE t \in DirChanged
      <3>1. PICK m \in scan \X locations :
               t = [id |-> m[2].id, path |-> m[1].path, ver |-> m[1].ver,
                    ino |-> m[1].ino, from |-> m[2].path]
        BY DEF DirChanged
      <3> QED
        BY <3>1 DEF SameFile
    <2> QED
      BY <2>1, <2>2
  <1>3. Stamps'
    <2>1. \A s \in Sightings' :
             s \in Sightings \/ s \in WithExistingIds \cup DirChanged
      BY <1>1 DEF Sightings, Exists
    <2>2. \A e \in scan : e \in Sightings
      BY DEF Sightings
    <2>3. \A s \in Sightings' : \E t \in Sightings : t.ver = s.ver /\ t.ino = s.ino
      BY <1>2, <2>1, <2>2 DEF SameFile
    <2> QED
      BY <1>1, <2>3, StampsStay DEF ExactInv
  <1>4. InRoots'
    BY <1>1, <1>2 DEF ExactInv, InRoots, InScope, SameFile
  <1>5. ScanMeets'
    BY <1>1, MeetsStay DEF ExactInv, ScanPhases
  <1>6. ScanSorted'
    <2>1. ASSUME quiet, NEW e \in scan
          PROVE  \E t \in WithExistingIds \cup DirChanged : SameFile(e, t)
      <3>1. CASE e.path \notin PathsOf(DirChanged)
        BY <3>1, DiffKeepsScan
      <3>2. CASE e.path \in PathsOf(DirChanged)
        <4>1. PICK d \in DirChanged : d.path = e.path
          BY <3>2 DEF PathsOf
        <4>2. PICK f \in scan : SameFile(f, d)
          BY <1>2
        <4>3. f.ver = e.ver
          BY <1>1, <2>1, <4>1, <4>2 DEF ExactInv, ScanMeets, ScanPhases, SameFile
        <4>4. f.ino = e.ino
          BY <4>3 DEF ExactInv, Stamps, Sightings
        <4> QED
          BY <4>1, <4>2, <4>3, <4>4 DEF SameFile
      <3> QED
        BY <3>1, <3>2
    <2> QED
      BY <1>1, <1>2, <2>1 DEF ScanSorted, MergePhases, SameFile
  <1>7. Exact'
    BY <1>1 DEF ExactInv, Exact
  <1> QED
    BY <1>3, <1>4, <1>5, <1>6, <1>7 DEF ExactInv

LEMMA TriageExact ==
    ASSUME TypeOK, ExactInv, Triage
    PROVE  ExactInv'
  <1>1. /\ pc = "triage" /\ pc' = "recordRemoved"
        /\ dirResults' = {[id |-> e.id, path |-> e.path, ver |-> e.ver,
                           ino |-> e.ino] : e \in Extracted(dirChanged)}
        /\ UNCHANGED <<world, tables, roots, pending, scan, live, dirChanged,
                       toProcess, history>>
    BY DEF Triage
  <1>2. PICK last :
           results' = {[id |-> Assigned(e, last), path |-> e.path,
                        ver |-> e.ver, ino |-> e.ino,
                        fileId |-> fs[e.path].ino] : e \in Extracted(toProcess)}
    BY DEF Triage
  <1>3. /\ \A r \in results' : \E t \in toProcess : SameFile(t, r)
        /\ \A r \in dirResults' : \E t \in dirChanged : SameFile(t, r)
        /\ \A t \in toProcess : Exists(t.path) => \E r \in results' : SameFile(t, r)
        /\ \A t \in dirChanged : Exists(t.path) => \E r \in dirResults' : SameFile(t, r)
    <2>1. \A r \in results' : \E t \in toProcess : SameFile(t, r)
      BY <1>2 DEF Extracted, SameFile
    <2>2. \A r \in dirResults' : \E t \in dirChanged : SameFile(t, r)
      BY <1>1 DEF Extracted, SameFile
    <2>3. ASSUME NEW t \in toProcess, Exists(t.path)
          PROVE  \E r \in results' : SameFile(t, r)
      <3>1. t \in Extracted(toProcess)
        BY <2>3 DEF Extracted
      <3>2. [id |-> Assigned(t, last), path |-> t.path, ver |-> t.ver,
             ino |-> t.ino, fileId |-> fs[t.path].ino] \in results'
        BY <1>2, <3>1
      <3> QED
        BY <3>2 DEF SameFile
    <2>4. ASSUME NEW t \in dirChanged, Exists(t.path)
          PROVE  \E r \in dirResults' : SameFile(t, r)
      <3>1. t \in Extracted(dirChanged)
        BY <2>4 DEF Extracted
      <3>2. [id |-> t.id, path |-> t.path, ver |-> t.ver, ino |-> t.ino]
               \in dirResults'
        BY <1>1, <3>1
      <3> QED
        BY <3>2 DEF SameFile
    <2> QED
      BY <2>1, <2>2, <2>3, <2>4
  <1>4. /\ \A i \in Ingested' : \E r \in results' \cup dirResults' : SameFile(r, i)
        /\ \A r \in results' \cup dirResults' : \E i \in Ingested' : SameFile(r, i)
    <2>1. \A i \in Ingested' : \E r \in results' \cup dirResults' : SameFile(r, i)
      BY DEF Ingested, SameFile
    <2>2. ASSUME NEW r \in results'
          PROVE  \E i \in Ingested' : SameFile(r, i)
      <3>1. [id |-> r.id, path |-> r.path, ver |-> r.ver, ino |-> r.ino]
               \in Ingested'
        BY DEF Ingested
      <3> QED
        BY <3>1 DEF SameFile
    <2>3. \A r \in dirResults' : \E i \in Ingested' : SameFile(r, i)
      BY DEF Ingested, SameFile
    <2> QED
      BY <2>1, <2>2, <2>3
  <1>5. \A t \in toProcess \cup dirChanged : \E e \in scan : SameFile(e, t)
    BY <1>1 DEF ExactInv, ScanSorted
  <1>6. Stamps'
    <2>1. \A s \in Sightings' : s \in Sightings \/ s \in results' \cup dirResults'
      BY <1>1 DEF Sightings, Exists
    <2>2. \A t \in toProcess \cup dirChanged : t \in Sightings
      BY DEF Sightings
    <2>3. \A s \in Sightings' : \E t \in Sightings : t.ver = s.ver /\ t.ino = s.ino
      BY <1>3, <2>1, <2>2 DEF SameFile
    <2> QED
      BY <1>1, <2>3, StampsStay DEF ExactInv
  <1>7. InRoots'
    BY <1>1, <1>3 DEF ExactInv, InRoots, InScope, SameFile
  <1>8. ScanMeets'
    BY <1>1, MeetsStay DEF ExactInv, ScanPhases
  <1>9. ScanSorted'
    <2>1. \A i \in Ingested' : \E e \in scan : SameFile(e, i)
      BY <1>3, <1>4, <1>5 DEF SameFile
    <2>2. ASSUME quiet, NEW e \in scan
          PROVE  \E i \in Ingested' : SameFile(e, i)
      <3>1. PICK t \in toProcess \cup dirChanged : SameFile(e, t)
        BY <1>1, <2>2 DEF ExactInv, ScanSorted
      <3>2. Exists(t.path)
        BY <1>1, <2>2, <3>1 DEF ExactInv, ScanMeets, ScanPhases, SameFile
      <3>3. PICK r \in results' \cup dirResults' : SameFile(t, r)
        BY <1>3, <3>2
      <3> QED
        BY <1>4, <3>1, <3>3 DEF SameFile
    <2> QED
      BY <1>1, <1>5, <2>1, <2>2 DEF ScanSorted, MergePhases, SameFile
  <1>10. Exact'
    BY <1>1 DEF ExactInv, Exact
  <1> QED
    BY <1>6, <1>7, <1>8, <1>9, <1>10 DEF ExactInv

LEMMA MergeItemsExact ==
    ASSUME TypeOK, ExactInv, RecordRemoved \/ SyncEntities
    PROVE  ExactInv'
  <1>1. /\ pc \in {"recordRemoved", "syncEntities"}
        /\ pc' \in {"syncEntities", "syncLocations"}
        /\ UNCHANGED <<world, locations, run, history>>
    BY DEF RecordRemoved, SyncEntities
  <1>2. \A r \in removedFiles' : r \in removedFiles
                                 \/ \E l \in locations : l.ver = r.ver /\ l.ino = r.ino
    <2>1. CASE RecordRemoved
      BY <2>1 DEF RecordRemoved
    <2>2. CASE SyncEntities
      BY <2>2 DEF SyncEntities
    <2> QED
      BY <2>1, <2>2
  <1>3. Stamps'
    <2>1. \A s \in Sightings' : s \in Sightings \/ s \in removedFiles'
      BY <1>1 DEF Sightings, Exists
    <2>2. locations \subseteq Sightings /\ removedFiles \subseteq Sightings
      BY DEF Sightings
    <2>3. \A s \in Sightings' : \E t \in Sightings : t.ver = s.ver /\ t.ino = s.ino
      BY <1>2, <2>1, <2>2
    <2> QED
      BY <1>1, <2>3, StampsStay DEF ExactInv
  <1>4. InRoots'
    BY <1>1 DEF ExactInv, InRoots, InScope
  <1>5. ScanMeets'
    BY <1>1, MeetsStay DEF ExactInv, ScanPhases
  <1>6. ScanSorted'
    BY <1>1 DEF ExactInv, ScanSorted, MergePhases, Ingested, SameFile
  <1>7. Exact'
    BY <1>1 DEF ExactInv, Exact
  <1> QED
    BY <1>3, <1>4, <1>5, <1>6, <1>7 DEF ExactInv

LEMMA SyncLocationsExact ==
    ASSUME TypeOK, ExactInv, SyncLocations
    PROVE  ExactInv'
  <1> DEFINE Kept(l) == /\ l.path \notin PathsOf(Ingested)
                        /\ ~InScope(l.path) \/ \E v \in live : ScanHash(v) = ScanHash(l)
  <1>1. /\ pc = "syncLocations" /\ pc' = "syncBaseTags"
        /\ locations' = {l \in locations : Kept(l)} \cup Ingested
        /\ UNCHANGED <<world, removedFiles, run, history>>
    BY DEF SyncLocations
  <1>2. \A i \in Ingested : \E e \in scan : SameFile(e, i)
    BY <1>1 DEF ExactInv, ScanSorted, MergePhases
  <1>3. \A i \in Ingested : InScope(i.path)
    BY DEF Ingested, ExactInv, InRoots
  <1>4. roots \subseteq Dirs
    BY DEF TypeOK
  <1>5. Stamps'
    <2>1. \A s \in Sightings' : s \in Sightings \/ s \in Ingested
      BY <1>1 DEF Sightings, Exists
    <2>2. scan \subseteq Sightings
      BY DEF Sightings
    <2>3. \A s \in Sightings' : \E t \in Sightings : t.ver = s.ver /\ t.ino = s.ino
      BY <1>2, <2>1, <2>2 DEF SameFile
    <2> QED
      BY <1>1, <2>3, StampsStay DEF ExactInv
  <1>6. InRoots'
    BY <1>1, <1>3, <1>4 DEF ExactInv, InRoots, InScope
  <1>7. ScanMeets'
    BY <1>1 DEF ExactInv, ScanMeets, ScanPhases
  <1>8. ScanSorted'
    BY <1>1 DEF ScanSorted, MergePhases
  <1>9. Exact'
    <2>1. ~synced
      BY <1>1 DEF ExactInv, Exact
    <2>2. ASSUME quiet, roots = Dirs
          PROVE  ExactNow'
      <3>1. /\ \A v \in live : \E l \in locations : ScanHash(v) = ScanHash(l)
            /\ \A e \in scan \cup live : Exists(e.path) /\ e.ver = fs[e.path].ver
            /\ \A p \in Paths : InScope(p) /\ Exists(p) => Seen(p)
        BY <1>1, <2>2 DEF ExactInv, ScanMeets, ScanPhases
      <3>2. \A s \in scan \cup locations : Exists(s.path) /\ s.ver = fs[s.path].ver
                  => s.ino = fs[s.path].ino
        <4> TAKE s \in scan \cup locations
        <4> HAVE Exists(s.path) /\ s.ver = fs[s.path].ver
        <4>1. s.path \in Paths
          BY DEF TypeOK, ScanRow, LocRow
        <4>2. s \in Sightings /\ fs[s.path] \in Sightings
          BY <4>1 DEF Sightings
        <4> QED
          BY <4>2 DEF ExactInv, Stamps
      <3>3. ASSUME NEW l \in locations, Kept(l)
            PROVE  Exists(l.path) /\ l.ver = fs[l.path].ver
        <4>1. InScope(l.path)
          BY <2>2 DEF ExactInv, InRoots, InScope
        <4>2. PICK v \in live : ScanHash(v) = ScanHash(l)
          BY <3>3, <4>1
        <4> QED
          BY <3>1, <4>2 DEF ScanHash
      <3>4. ASSUME NEW i \in Ingested
            PROVE  /\ Exists(i.path) /\ i.ver = fs[i.path].ver
                   /\ i.ino = fs[i.path].ino
        BY <1>2, <3>1, <3>2 DEF SameFile
      <3>5. ASSUME NEW l \in locations'
            PROVE  /\ Exists(l.path) /\ Dir(l.path) \in Dirs
                   /\ l.ver = fs[l.path].ver /\ l.ino = fs[l.path].ino
        <4>1. Dir(l.path) \in Dirs
          BY <1>6 DEF InRoots
        <4> QED
          BY <1>1, <3>2, <3>3, <3>4, <4>1
      <3>6. ASSUME NEW p \in Paths, Dir(p) \in Dirs, Exists(p)
            PROVE  \E l \in locations' : l.path = p
        <4>1. Seen(p)
          BY <2>2, <3>1, <3>6 DEF InScope
        <4>2. CASE \E e \in scan : e.path = p
          <5>1. \E i \in Ingested : i.path = p
            BY <1>1, <2>2, <4>2 DEF ExactInv, ScanSorted, MergePhases, SameFile
          <5> QED
            BY <1>1, <5>1
        <4>3. CASE \E v \in live : v.path = p
          <5>1. PICK v \in live, l \in locations :
                   ScanHash(v) = ScanHash(l) /\ v.path = p /\ l.path = p
            BY <3>1, <4>3 DEF ScanHash
          <5> QED
            BY <1>1, <5>1 DEF PathsOf
        <4> QED
          BY <4>1, <4>2, <4>3 DEF Seen
      <3> QED
        BY <1>1, <3>5, <3>6 DEF ExactNow, Exists
    <2> QED
      BY <1>1, <2>1, <2>2 DEF Exact
  <1> QED
    BY <1>5, <1>6, <1>7, <1>8, <1>9 DEF ExactInv

LEMMA EndExact ==
    ASSUME ExactInv, SyncBaseTags \/ SyncLocationTags \/ Crash
    PROVE  ExactInv'
  <1>1. CASE SyncBaseTags
    <2>1. /\ pc = "syncBaseTags" /\ pc' = "syncLocationTags"
          /\ UNCHANGED <<world, locations, removedFiles, run, quiet, synced>>
      BY <1>1 DEF SyncBaseTags
    <2>2. Sightings' = Sightings
      BY <2>1 DEF Sightings, Exists
    <2>3. Stamps'
      BY <2>1, <2>2, StampsStay DEF ExactInv
    <2>4. Exact'
      BY <2>1 DEF ExactInv, Exact, ExactNow, Exists
    <2> QED
      BY <2>1, <2>3, <2>4 DEF ExactInv, InRoots, InScope, ScanMeets, ScanPhases,
         ScanSorted, MergePhases
  <1>2. CASE SyncLocationTags \/ Crash
    <2>1. /\ pc' = "idle" /\ ForgetRun
          /\ UNCHANGED <<world, locations, removedFiles>>
          /\ synced' => pc = "syncLocationTags" /\ quiet /\ roots = Dirs
      BY <1>2 DEF SyncLocationTags, Crash
    <2>2. Stamps'
      <3>1. Sightings' \subseteq Sightings
        BY <2>1 DEF Sightings, Exists, ForgetRun
      <3> QED
        BY <2>1, <3>1, StampsStay DEF ExactInv
    <2>3. InRoots' /\ ScanMeets' /\ ScanSorted'
      BY <2>1 DEF ExactInv, InRoots, ScanMeets, ScanSorted, ForgetRun, ScanPhases,
         MergePhases
    <2>4. Exact'
      BY <2>1 DEF ExactInv, Exact, ExactNow, Exists
    <2> QED
      BY <2>2, <2>3, <2>4 DEF ExactInv
  <1> QED
    BY <1>1, <1>2

LEMMA ExactNext ==
    ASSUME TypeOK, ExactInv, [Next]_vars
    PROVE  ExactInv'
  <1>1. CASE Scan
    <2>1. PICK S \in SUBSET pending : Walk(S)
      BY <1>1 DEF Scan
    <2> QED
      BY <2>1, WalkExact
  <1>2. CASE UNCHANGED vars
    <2>1. UNCHANGED <<world, tables, pc, run, history>>
      BY <1>2 DEF vars
    <2>2. Sightings' = Sightings
      BY <2>1 DEF Sightings, Exists
    <2>3. Stamps'
      BY <2>1, <2>2, StampsStay DEF ExactInv
    <2>4. InRoots' /\ ScanMeets'
      BY <2>1 DEF ExactInv, InRoots, InScope, ScanMeets, Seen, Exists, ScanHash
    <2>5. ScanSorted'
      BY <2>1 DEF ExactInv, ScanSorted, Ingested, SameFile
    <2>6. Exact'
      BY <2>1 DEF ExactInv, Exact, ExactNow, Exists
    <2> QED
      BY <2>3, <2>4, <2>5, <2>6 DEF ExactInv
  <1> QED
    BY <1>1, <1>2, FsExact, UserExact, BeginExact, RestoreExact, DiffExact,
       TriageExact, MergeItemsExact, SyncLocationsExact, EndExact
       DEF Next, RunStep

\* A run over every root during which no file changes leaves in locations
\* exactly the files there are, for any directories, names and inodes and
\* whatever crashes, races, renames and clearings came before it.
THEOREM IndexIsExact == Spec => []IndexExact
  <1>1. TypeOK /\ ExactInv => IndexExact
    <2> SUFFICES ASSUME TypeOK, ExactNow
                 PROVE  {[path |-> l.path, ver |-> l.ver, ino |-> l.ino] :
                            l \in locations}
                        = {[path |-> p, ver |-> fs[p].ver, ino |-> fs[p].ino] :
                              p \in {q \in Paths : Dir(q) \in Dirs /\ Exists(q)}}
      BY DEF ExactInv, Exact, IndexExact
    <2>1. \A l \in locations : l.path \in Paths
      BY DEF TypeOK, LocRow
    <2> QED
      BY <2>1 DEF ExactNow
  <1>2. TypeOK /\ ExactInv /\ [Next]_vars => ExactInv'
    BY ExactNext
  <1> QED
    BY <1>1, <1>2, ExactInit, TypeCorrect, PTL DEF Spec

=============================================================================
