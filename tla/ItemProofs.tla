----------------------------- MODULE ItemProofs -----------------------------
(***************************************************************************)
(* Whose item a file is: an item follows its file through renames, links   *)
(* and edits, a tag never shows on another file, and a lost file that has  *)
(* tags keeps its item.  For any directories, names and inodes and any     *)
(* history, as long as files hold still during a run, no run dies, no      *)
(* inode is reused before a run saw its file gone, `ttfm clear` is not     *)
(* used, and no file has been given two items (`doubled`).  At the end:    *)
(* the stem of an item's path, where there is one root and no hard link.   *)
(***************************************************************************)
EXTENDS LocationProofs

USE DEF world, tables, run, history, NoFile, NoId

Undisturbed ==
    /\ FsDuringIndex = FALSE /\ MaxCrashes = 0
    /\ EarlyReuse = FALSE /\ "clear" \notin Commands

\* An inode in use is one file.
Born ==
    \A p, q \in {x \in Paths : Exists(x)} :
        /\ fs[p].born <= clock
        /\ fs[p].ino = fs[q].ino <=> fs[p].born = fs[q].born

\* No id is NoId.
Numbered ==
    NoId \notin Ids(fileReferences) \cup Ids(removedFiles) \cup Ids(results)

\* What is parked has the hash of nothing that is there.
HashesApart ==
    /\ pc \notin {"syncEntities", "syncLocations"} =>
          \A m \in removedFiles, l \in locations :
              BasenameScanHash(m) # BasenameScanHash(l)
    /\ pc \in {"syncEntities", "syncLocations"} =>
          \A m \in removedFiles, l \in locations :
              BasenameScanHash(m) = BasenameScanHash(l) => l.id \in deletedIds
    /\ pc \in {"diff", "triage"} \cup MergePhases =>
          \A m \in removedFiles, e \in scan :
              BasenameScanHash(m) # BasenameScanHash(e)
    /\ pc = "syncLocations" => Ids(fileReferences) \cap deletedIds = {}

TablesInv ==
    /\ pc # "idle" => quiet
    /\ Born
    /\ Numbered
    /\ HashesApart

\* An inode has one item, and what was extracted of it goes to that item.
OneItem ==
    /\ \A r, q \in fileReferences : r.ino = q.ino => r.id = q.id
    /\ pc \in {"recordRemoved", "syncEntities"} =>
          /\ \A e \in results, r \in fileReferences : r.ino = e.ino => r.id = e.id
          /\ \A e, f \in results : e.ino = f.ino => e.id = f.id

Stays(l) == l.path \notin PathsOf(Ingested) /\ Kept(l)

\* Every item has a path, or one is on its way.
Placed ==
    \A r \in fileReferences :
        IF pc = "syncLocations"
        THEN \/ \E l \in locations : l.id = r.id /\ Stays(l)
             \/ r.id \in Ids(Ingested)
        ELSE \/ r.id \in Ids(locations)
             \/ /\ pc \in {"restore", "diff", "triage", "recordRemoved",
                           "syncEntities"}
                /\ \E e \in scan : e.ino = r.ino

\* A tagged item is known or parked, and is parked before it is forgotten.
Parked ==
    /\ TaggedKept
    /\ pc = "restore" => Ids(Hits) \subseteq Ids(fileReferences)
    /\ pc = "syncEntities" =>
          Ids(userTags) \cap deletedIds \subseteq Ids(removedFiles)

\* Where the file is that a user tagged, its inode and its stamps are in the
\* rows of its item, and no other file has them.
Owned ==
    \A t \in userTags, p \in {x \in Paths : Exists(x)} :
        /\ \A r \in fileReferences :
              r.id = t.id /\ r.ino = fs[p].ino => fs[p].born = t.owner
        /\ \A l \in locations \cup removedFiles :
              l.id = t.id /\ l.ver = fs[p].ver => fs[p].born = t.owner

ItemInv == ~doubled => OneItem /\ Placed /\ Parked /\ Owned

Known == TypeOK /\ ExactInv /\ LocInv /\ TablesInv

----------------------------------------------------------------------------
(* What the invariants of the index already say, in the words used below.  *)

\* A location's item has the inode of the location.
LEMMA RefOfLocation ==
    ASSUME LocInv, pc # "syncLocations", NEW l \in locations
    PROVE  /\ \E r \in fileReferences : r.id = l.id /\ r.ino = l.ino
           /\ \A r \in fileReferences : r.id = l.id => r.ino = l.ino
  <1>1. HasRef(l)
    BY DEF LocInv, LocationsKnown
  <1> QED
    BY <1>1 DEF HasRef, LocInv, Keys

\* A scan row is a file that is there.
LEMMA ScanIsThere ==
    ASSUME TypeOK, LocInv, pc \in ScanPhases, NEW e \in scan
    PROVE  /\ e.path \in Paths /\ Exists(e.path)
           /\ fs[e.path].ino = e.ino /\ fs[e.path].ver = e.ver
  <1>1. e.path \in Paths /\ e.ino \in Inodes
    BY DEF TypeOK, ScanRow
  <1>2. fs[e.path].ino = e.ino /\ fs[e.path].ver = e.ver
    BY DEF LocInv, ScanMade
  <1> QED
    BY <1>1, <1>2, InodesAssumption DEF Exists

LEMMA IngestedIsScan ==
    ASSUME ExactInv, pc \in MergePhases
    PROVE  \A i \in Ingested : \E e \in scan : SameFile(e, i)
  BY DEF ExactInv, ScanSorted

----------------------------------------------------------------------------
(* Inodes, ids and hashes. *)

LEMMA TablesInit == Init => TablesInv
  <1> SUFFICES ASSUME Init PROVE TablesInv
    OBVIOUS
  <1> QED
    BY DEF Init, TablesInv, Born, Exists, Numbered, HashesApart, Ids, MergePhases

LEMMA TablesFs ==
    ASSUME FsDuringIndex = FALSE, TypeOK, TablesInv, FsStep
    PROVE  TablesInv'
  <1>1. PICK p \in Paths, q \in Paths :
           \/ \E i \in Inodes : Create(p, i)
           \/ Modify(p)
           \/ Move(p, q)
           \/ Link(p, q)
           \/ Unlink(p)
    BY DEF FsStep
  <1>2. pc = "idle" /\ UNCHANGED <<tables, pc, run>>
    BY <1>1 DEF FsMayChange, Create, Modify, Move, Link, Unlink
  <1>3. fs \in [Paths -> FileState] /\ clock \in Nat
    BY DEF TypeOK
  <1>4. \A x \in Paths : fs[x] # NoFile => fs[x].ino \in Inodes /\ fs[x].born \in Nat
    BY <1>3 DEF FileState
  <1>5. Born'
    <2>1. CASE \E i \in Inodes : Create(p, i)
      <3>1. PICK i \in Inodes : Create(p, i)
        BY <2>1
      <3>2. /\ clock' = clock + 1 /\ \A x \in Paths : Exists(x) => fs[x].ino # i
            /\ fs' = [fs EXCEPT ![p] = [ino |-> i, born |-> clock', ver |-> clock']]
        BY <3>1 DEF Create, FreeInodes, InUse
      <3>3. \A x \in Paths : x # p => fs'[x] = fs[x]
        BY <1>3, <3>2
      <3>4. fs'[p].ino = i /\ fs'[p].born = clock'
        BY <1>3, <3>2
      <3>5. \A x \in Paths : Exists(x) => fs[x].born < clock' /\ fs[x].ino # i
        BY <1>3, <1>4, <3>2 DEF TablesInv, Born, Exists
      <3>6. \A x, y \in {z \in Paths : fs'[z] # NoFile} :
               /\ fs'[x].born <= clock'
               /\ fs'[x].ino = fs'[y].ino <=> fs'[x].born = fs'[y].born
        <4> TAKE x, y \in {z \in Paths : fs'[z] # NoFile}
        <4>1. CASE x = p /\ y = p
          BY <1>3, <3>2, <3>4, <4>1
        <4>2. CASE x = p /\ y # p
          BY <1>3, <1>4, <3>2, <3>3, <3>4, <3>5, <4>2 DEF Exists
        <4>3. CASE x # p /\ y = p
          BY <1>3, <1>4, <3>2, <3>3, <3>4, <3>5, <4>3 DEF Exists
        <4>4. CASE x # p /\ y # p
          BY <1>3, <1>4, <3>2, <3>3, <3>5, <4>4 DEF Exists, TablesInv, Born
        <4> QED
          BY <4>1, <4>2, <4>3, <4>4
      <3> QED
        BY <3>6 DEF Born, Exists
    <2>2. CASE Modify(p)
      <3>1. /\ clock' = clock + 1
            /\ fs' = [x \in Paths |-> IF fs[x].ino = fs[p].ino
                                      THEN [fs[x] EXCEPT !.ver = clock']
                                      ELSE fs[x]]
            /\ fs[p] # NoFile
        BY <2>2 DEF Modify, Exists
      <3>2. fs[p].ino # 0
        BY <1>3, <3>1, InodesAssumption DEF FileState
      <3>3. \A x \in Paths : fs[x].ino = fs[p].ino =>
               /\ fs[x] # NoFile
               /\ fs'[x].ino = fs[x].ino /\ fs'[x].born = fs[x].born
        <4>1. \A x \in Paths : fs[x].ino = fs[p].ino =>
                 fs[x] # NoFile /\ fs[x] \in [ino : Inodes, born : Nat, ver : Nat]
          BY <1>3, <3>2 DEF FileState
        <4> QED
          BY <3>1, <4>1
      <3>4. \A x \in Paths : fs[x].ino # fs[p].ino => fs'[x] = fs[x]
        BY <3>1
      <3>5. \A x \in Paths : fs'[x] # NoFile =>
               /\ fs[x] # NoFile
               /\ fs'[x].ino = fs[x].ino /\ fs'[x].born = fs[x].born
        BY <3>3, <3>4
      <3> QED
        BY <1>3, <1>4, <3>1, <3>5 DEF TablesInv, Born, Exists
    <2>3. CASE Move(p, q) \/ Link(p, q) \/ Unlink(p)
      <3>1. clock' = clock
        BY <2>3 DEF Move, Link, Unlink
      <3>2. \A x \in Paths : fs'[x] # NoFile => \E y \in Paths : fs'[x] = fs[y]
        BY <1>3, <2>3 DEF Move, Link, Unlink
      <3> QED
        BY <3>1, <3>2 DEF TablesInv, Born, Exists
    <2> QED
      BY <1>1, <2>1, <2>2, <2>3
  <1>6. Numbered' /\ HashesApart'
    BY <1>2 DEF TablesInv, Numbered, HashesApart, Ids, BasenameScanHash, MergePhases
  <1> QED
    BY <1>2, <1>5, <1>6 DEF TablesInv

LEMMA TablesUser ==
    ASSUME TypeOK, TablesInv, UserStep
    PROVE  TablesInv'
  <1>1. /\ pc = "idle" /\ UNCHANGED <<world, pc, run, quiet>>
        /\ locations' \subseteq locations /\ removedFiles' \subseteq removedFiles
    BY DEF UserStep, TagItem, SetRank, Forget, ClearIndex, UserMayEdit
  <1>2. \A r \in fileReferences' : \E q \in fileReferences : r.id = q.id
    <2>1. CASE \E i \in Ids(fileReferences) : SetRank(i)
      <3>1. PICK i \in Ids(fileReferences) :
               fileReferences' = {[r EXCEPT !.rank = IF r.id = i THEN 1 ELSE @] :
                                     r \in fileReferences}
        BY <2>1 DEF SetRank
      <3> QED
        BY <3>1 DEF TypeOK, RefRow
    <2>2. CASE ~\E i \in Ids(fileReferences) : SetRank(i)
      BY <2>2 DEF UserStep, TagItem, Forget, ClearIndex
    <2> QED
      BY <2>1, <2>2
  <1>3. Born' /\ HashesApart'
    BY <1>1 DEF TablesInv, Born, Exists, HashesApart, BasenameScanHash, MergePhases
  <1>4. Numbered'
    BY <1>1, <1>2 DEF TablesInv, Numbered, Ids
  <1> QED
    BY <1>1, <1>3, <1>4 DEF TablesInv

LEMMA TablesScan ==
    ASSUME TablesInv,
           (\E rs \in SUBSET Dirs : Begin(rs)) \/ Scan
    PROVE  TablesInv'
  <1>1. /\ pc \in {"idle", "scan"} /\ pc' \in {"scan", "rediscover"}
        /\ pc = "idle" => quiet'
        /\ pc = "scan" => quiet' = quiet
        /\ UNCHANGED <<world, tables, deletedIds, results>>
    BY DEF Begin, Scan, Walk
  <1>2. Born' /\ Numbered' /\ HashesApart'
    BY <1>1 DEF TablesInv, Born, Exists, Numbered, Ids, HashesApart,
       BasenameScanHash, MergePhases
  <1> QED
    BY <1>1, <1>2 DEF TablesInv

LEMMA TablesRestore ==
    ASSUME TablesInv, AppendRestored \/ DropRestored
    PROVE  TablesInv'
  <1>1. /\ pc \in {"rediscover", "restore"} /\ pc' \in {"restore", "diff"}
        /\ UNCHANGED <<world, locations, run, quiet>>
        /\ removedFiles' \subseteq removedFiles
        /\ fileReferences' \subseteq fileReferences \cup Hits
    BY DEF AppendRestored, DropRestored
  <1>2. Ids(Hits) \subseteq Ids(removedFiles)
    BY HitRow DEF Ids
  <1>3. Born'
    BY <1>1 DEF TablesInv, Born, Exists
  <1>4. Numbered'
    <2>1. \A r \in fileReferences' : r.id \in Ids(fileReferences) \cup Ids(removedFiles)
      BY <1>1, <1>2 DEF Ids
    <2> QED
      BY <1>1, <2>1 DEF TablesInv, Numbered, Ids
  <1>5. HashesApart'
    <2>1. ASSUME pc' = "diff", NEW m \in removedFiles', NEW e \in scan
          PROVE  BasenameScanHash(m) # BasenameScanHash(e)
      <3>1. CASE AppendRestored
        BY <2>1, <3>1 DEF AppendRestored
      <3>2. CASE DropRestored
        <4> SUFFICES ASSUME BasenameScanHash(m) = BasenameScanHash(e)
                     PROVE  m.id \in Ids(Hits)
          BY <3>2 DEF DropRestored
        <4> DEFINE h == <<m, e>>
                   row == [id |-> h[1].id, ino |-> h[2].ino, rank |-> h[1].rank]
        <4>1. /\ h \in removedFiles \X scan
              /\ BasenameScanHash(h[1]) = BasenameScanHash(h[2])
              /\ row.id = m.id
          BY <1>1
        <4> HIDE DEF h
        <4>2. row \in Hits
          BY <4>1 DEF Hits
        <4> QED
          BY <4>1, <4>2 DEF Ids
      <3> QED
        BY <3>1, <3>2
    <2> QED
      BY <1>1, <2>1 DEF TablesInv, HashesApart, BasenameScanHash, MergePhases
  <1> QED
    BY <1>1, <1>3, <1>4, <1>5 DEF TablesInv

LEMMA TablesDiff ==
    ASSUME TypeOK, LocInv, TablesInv, Diff \/ Triage
    PROVE  TablesInv'
  <1>1. /\ pc \in {"diff", "triage"} /\ pc' \in {"triage", "recordRemoved"}
        /\ UNCHANGED <<world, tables, roots, scan, live, quiet>>
    BY DEF Diff, Triage
  <1>2. Born'
    BY <1>1 DEF TablesInv, Born, Exists
  <1>3. HashesApart'
    BY <1>1 DEF TablesInv, HashesApart, BasenameScanHash, MergePhases
  <1>4. \A e \in results' : e.id # NoId
    <2>1. CASE Diff
      BY <2>1 DEF Diff, TablesInv, Numbered, Ids
    <2>2. CASE Triage
      <3>1. PICK last \in Ids(fileReferences) \cup Ids(removedFiles) \cup {FileLo - 1} :
               results' = {[id |-> Assigned(e, last), path |-> e.path,
                            ver |-> e.ver, ino |-> e.ino,
                            fileId |-> fs[e.path].ino] : e \in Extracted(toProcess)}
        BY <2>2 DEF Triage
      <3>2. last \in Nat
        BY BoundsAssumption DEF TypeOK, Ids, RefRow, RemovedRow
      <3>3. ASSUME NEW e \in Extracted(toProcess)
            PROVE  Assigned(e, last) # NoId
        <4>1. CASE e.id # NoId
          BY <4>1 DEF Assigned
        <4>2. CASE e.id = NoId
          <5>1. toProcess \in SUBSET LocRow /\ e.ino \in NewRefs
            BY <3>3, <4>2 DEF TypeOK, NewRefs
          <5>2. Cardinality({j \in NewRefs : j <= e.ino}) \in Nat \ {0}
            BY <5>1, NewRefsRanked
          <5> QED
            BY <3>2, <4>2, <5>2 DEF Assigned
        <4> QED
          BY <4>1, <4>2
      <3> QED
        BY <3>1, <3>3
    <2> QED
      BY <2>1, <2>2
  <1>5. Numbered'
    BY <1>1, <1>4 DEF TablesInv, Numbered, Ids
  <1> QED
    BY <1>1, <1>2, <1>3, <1>5 DEF TablesInv

LEMMA TablesRecord ==
    ASSUME TypeOK, LocInv, TablesInv, RecordRemoved
    PROVE  TablesInv'
  <1>1. /\ pc = "recordRemoved" /\ pc' = "syncEntities"
        /\ UNCHANGED <<world, fileReferences, locations, run, quiet>>
    BY DEF RecordRemoved
  <1>2. \A m \in removedFiles' : \/ m \in removedFiles
           \/ \E l \in locations : /\ l.id = m.id /\ l.path = m.path
                                   /\ l.ver = m.ver /\ l.ino = m.ino
                                   /\ l.id \in deletedIds
    BY DEF RecordRemoved
  <1>3. deletedIds = Deleted /\ pc \in ScanPhases
    BY <1>1 DEF LocInv, DiffMade, ScanPhases
  <1>4. Born'
    BY <1>1 DEF TablesInv, Born, Exists
  <1>5. Numbered'
    <2>1. \A l \in locations : l.id \in Ids(fileReferences)
      BY <1>1, RefOfLocation DEF Ids
    <2> QED
      BY <1>1, <1>2, <2>1 DEF TablesInv, Numbered, Ids
  <1>6. HashesApart'
    <2>1. ASSUME NEW m \in removedFiles', NEW l \in locations,
                 BasenameScanHash(m) = BasenameScanHash(l)
          PROVE  l.id \in deletedIds
      <3>1. m \notin removedFiles
        BY <1>1, <2>1 DEF TablesInv, HashesApart
      <3>2. PICK k \in locations : /\ BasenameScanHash(k) = BasenameScanHash(m)
                                   /\ k.id \in deletedIds
        BY <1>2, <3>1 DEF BasenameScanHash
      <3> QED
        BY <2>1, <3>2 DEF LocInv, Keys
    <2>2. ASSUME NEW m \in removedFiles', NEW e \in scan
          PROVE  BasenameScanHash(m) # BasenameScanHash(e)
      <3>1. CASE m \in removedFiles
        BY <1>1, <3>1 DEF TablesInv, HashesApart, MergePhases
      <3>2. CASE m \notin removedFiles
        <4>1. PICK k \in locations : k.ino = m.ino /\ k.id \in deletedIds
          BY <1>2, <3>2
        <4>2. PICK r \in fileReferences : r.id = k.id /\ r.ino = k.ino
          BY <1>1, RefOfLocation
        <4>3. m.ino # e.ino
          BY <1>3, <4>1, <4>2, DeletedSpares
        <4> QED
          BY <4>3, SameBasenameScanHash
      <3> QED
        BY <3>1, <3>2
    <2> QED
      BY <1>1, <2>1, <2>2 DEF HashesApart, BasenameScanHash
  <1> QED
    BY <1>1, <1>4, <1>5, <1>6 DEF TablesInv

LEMMA TablesEntities ==
    ASSUME TypeOK, LocInv, TablesInv, SyncEntities
    PROVE  TablesInv'
  <1>1. /\ pc = "syncEntities" /\ pc' = "syncLocations"
        /\ UNCHANGED <<world, locations, removedFiles, run, quiet>>
    BY DEF SyncEntities
  <1>2. \A q \in fileReferences' :
           \/ q \in fileReferences /\ q.id \notin deletedIds
           \/ \E e \in results : q.id = e.id
    BY DEF SyncEntities
  <1>3. Born'
    BY <1>1 DEF TablesInv, Born, Exists
  <1>4. Numbered'
    BY <1>1, <1>2 DEF TablesInv, Numbered, Ids
  <1>5. HashesApart'
    <2>1. ASSUME NEW e \in results
          PROVE  e.id \notin deletedIds
      <3>1. deletedIds = Deleted /\ Deleted \subseteq Ids(fileReferences)
        BY <1>1 DEF LocInv, DiffMade, Deleted
      <3>2. CASE \E r \in fileReferences : r.id = e.id /\ r.ino = e.ino
        BY <1>1, <3>1, <3>2, DeletedSpares DEF LocInv, ResultsMade
      <3>3. CASE e.id \notin Ids(fileReferences)
        BY <3>1, <3>3
      <3> QED
        BY <1>1, <3>2, <3>3 DEF LocInv, ResultsMade
    <2>2. Ids(fileReferences') \cap deletedIds = {}
      BY <1>2, <2>1 DEF Ids
    <2> QED
      BY <1>1, <2>2 DEF TablesInv, HashesApart, BasenameScanHash, MergePhases
  <1> QED
    BY <1>1, <1>3, <1>4, <1>5 DEF TablesInv

LEMMA TablesLocations ==
    ASSUME ExactInv, LocInv, TablesInv, SyncLocations
    PROVE  TablesInv'
  <1>1. /\ pc = "syncLocations" /\ pc' = "syncBaseTags"
        /\ locations' = {l \in locations : l.path \notin PathsOf(Ingested) /\ Kept(l)}
                        \cup Ingested
        /\ UNCHANGED <<world, fileReferences, removedFiles, run, quiet>>
    BY DEF SyncLocations, Kept
  <1>2. Born'
    BY <1>1 DEF TablesInv, Born, Exists
  <1>3. Numbered'
    BY <1>1 DEF TablesInv, Numbered, Ids
  <1>4. ASSUME NEW m \in removedFiles, NEW l \in locations'
        PROVE  BasenameScanHash(m) # BasenameScanHash(l)
    <2>1. CASE l \in locations /\ Kept(l)
      <3>1. l.id \in Ids(fileReferences)
        BY <1>1, <2>1 DEF LocInv, LocationsKnown, HasRef, Ids
      <3> QED
        BY <1>1, <2>1, <3>1 DEF TablesInv, HashesApart
    <2>2. CASE l \in Ingested
      <3>1. PICK e \in scan : SameFile(e, l)
        BY <1>1, <2>2, IngestedIsScan DEF MergePhases
      <3>2. BasenameScanHash(e) = BasenameScanHash(l)
        BY <3>1 DEF SameFile, BasenameScanHash
      <3> QED
        BY <1>1, <3>2 DEF TablesInv, HashesApart, MergePhases
    <2> QED
      BY <1>1, <2>1, <2>2
  <1>5. HashesApart'
    BY <1>1, <1>4 DEF HashesApart, BasenameScanHash, MergePhases
  <1> QED
    BY <1>1, <1>2, <1>3, <1>5 DEF TablesInv

LEMMA TablesEnd ==
    ASSUME TablesInv, SyncBaseTags \/ SyncLocationTags
    PROVE  TablesInv'
  <1>1. /\ pc \in {"syncBaseTags", "syncLocationTags"}
        /\ pc' \in {"syncLocationTags", "idle"}
        /\ pc' # "idle" => quiet' = quiet
        /\ UNCHANGED <<world, fileReferences, locations, removedFiles>>
        /\ results' \subseteq results
    BY DEF SyncBaseTags, SyncLocationTags, ForgetRun
  <1>2. Born' /\ Numbered' /\ HashesApart'
    BY <1>1 DEF TablesInv, Born, Exists, Numbered, Ids, HashesApart,
       BasenameScanHash, MergePhases
  <1> QED
    BY <1>1, <1>2 DEF TablesInv

LEMMA TablesNext ==
    ASSUME FsDuringIndex = FALSE, MaxCrashes = 0, TypeOK, ExactInv, LocInv,
           TablesInv, [Next]_vars
    PROVE  TablesInv'
  <1>1. ~Crash
    BY DEF Crash, LocInv
  <1>2. CASE UNCHANGED vars
    <2>1. UNCHANGED <<world, tables, pc, run, history>>
      BY <1>2 DEF vars
    <2> QED
      BY <2>1 DEF TablesInv, Born, Exists, Numbered, Ids, HashesApart,
         BasenameScanHash
  <1>3. CASE RunStep
    BY <1>3, TablesScan, TablesRestore, TablesDiff, TablesRecord, TablesEntities,
       TablesLocations, TablesEnd DEF RunStep
  <1> QED
    BY <1>1, <1>2, <1>3, TablesFs, TablesUser, TablesScan DEF Next

----------------------------------------------------------------------------
(* Items and tags, as long as no file has two items. *)

Items == OneItem /\ Placed /\ Parked /\ Owned

\* Two paths that show one inode, or one stamp, show one file.
LEMMA SameInodeSameFile ==
    ASSUME TablesInv, NEW p \in Paths, NEW q \in Paths, Exists(p), Exists(q),
           fs[p].ino = fs[q].ino
    PROVE  fs[p].born = fs[q].born
  BY DEF TablesInv, Born

LEMMA StampOfInode ==
    ASSUME ExactInv, NEW p \in Paths, Exists(p),
           NEW l \in locations \cup removedFiles \cup scan, l.ver = fs[p].ver
    PROVE  l.ino = fs[p].ino
  <1>1. l \in Sightings /\ fs[p] \in Sightings
    BY DEF Sightings
  <1> QED
    BY <1>1 DEF ExactInv, Stamps

LEMMA FsItems ==
    ASSUME Undisturbed, Known, Items, FsStep
    PROVE  Items'
  <1>1. PICK p \in Paths, q \in Paths :
           \/ \E i \in Inodes : Create(p, i)
           \/ Modify(p)
           \/ Move(p, q)
           \/ Link(p, q)
           \/ Unlink(p)
    BY DEF FsStep
  <1>2. pc = "idle" /\ UNCHANGED <<tables, pc, run>>
    BY <1>1 DEF FsMayChange, Create, Modify, Move, Link, Unlink, Undisturbed
  <1>3. fs \in [Paths -> FileState] /\ clock \in Nat
    BY DEF Known, TypeOK
  <1>4. OneItem' /\ Placed'
    BY <1>2 DEF Items, OneItem, Placed, Ids
  <1>5. Parked'
    BY <1>2 DEF Items, Parked, TaggedKept, Ids
  <1>6. \A l \in locations \cup removedFiles : l.ver <= clock /\ l.ver \in Nat
    BY DEF Known, TypeOK, LocRow, RemovedRow, ExactInv, Stamps, Sightings
  \* A path that shows a file it showed before, or one of another path.
  <1>7. ASSUME NEW x \in Paths, NEW y \in Paths, fs[y] # NoFile,
               fs'[x].ino = fs[y].ino, fs'[x].born = fs[y].born,
               fs'[x].ver = fs[y].ver \/ fs'[x].ver = clock + 1,
               NEW t \in userTags
        PROVE  /\ \A r \in fileReferences :
                     r.id = t.id /\ r.ino = fs'[x].ino => fs'[x].born = t.owner
               /\ \A l \in locations \cup removedFiles :
                     l.id = t.id /\ l.ver = fs'[x].ver => fs'[x].born = t.owner
    <2>1. \A l \in locations \cup removedFiles : l.ver # clock + 1
      BY <1>3, <1>6
    <2> QED
      BY <1>7, <2>1 DEF Items, Owned, Exists
  <1>8. Owned'
    <2>1. ASSUME NEW x \in Paths, fs'[x] # NoFile
          PROVE  \/ \E y \in Paths :
                       /\ fs[y] # NoFile
                       /\ fs'[x].ino = fs[y].ino /\ fs'[x].born = fs[y].born
                       /\ fs'[x].ver = fs[y].ver \/ fs'[x].ver = clock + 1
                 \/ /\ \A r \in fileReferences : r.ino # fs'[x].ino
                    /\ fs'[x].ver = clock + 1
      <3>1. CASE \E i \in Inodes : Create(p, i)
        <4>1. PICK i \in Inodes : Create(p, i)
          BY <3>1
        <4>2. /\ clock' = clock + 1 /\ \A r \in fileReferences : r.ino # i
              /\ fs' = [fs EXCEPT ![p] = [ino |-> i, born |-> clock', ver |-> clock']]
          BY <4>1 DEF Create, FreeInodes, Undisturbed
        <4> QED
          BY <1>3, <2>1, <4>2
      <3>2. CASE Modify(p)
        <4>1. /\ clock' = clock + 1 /\ fs[p] # NoFile
              /\ fs' = [z \in Paths |-> IF fs[z].ino = fs[p].ino
                                        THEN [fs[z] EXCEPT !.ver = clock']
                                        ELSE fs[z]]
          BY <3>2 DEF Modify, Exists
        <4>2. fs[p].ino # 0
          BY <1>3, <4>1, InodesAssumption DEF FileState
        <4>3. CASE fs[x].ino = fs[p].ino
          <5>1. fs[x] # NoFile /\ fs[x] \in [ino : Inodes, born : Nat, ver : Nat]
            BY <1>3, <4>2, <4>3 DEF FileState
          <5>2. /\ fs'[x].ino = fs[x].ino /\ fs'[x].born = fs[x].born
                /\ fs'[x].ver = clock + 1
            BY <4>1, <4>3, <5>1
          <5> QED
            BY <5>1, <5>2
        <4>4. CASE fs[x].ino # fs[p].ino
          BY <2>1, <4>1, <4>4
        <4> QED
          BY <4>3, <4>4
      <3>3. CASE Move(p, q) \/ Link(p, q) \/ Unlink(p)
        <4>1. \E y \in Paths : fs'[x] = fs[y]
          BY <1>3, <2>1, <3>3 DEF Move, Link, Unlink
        <4> QED
          BY <2>1, <4>1
      <3> QED
        BY <1>1, <3>1, <3>2, <3>3
    <2>2. \A l \in locations \cup removedFiles : l.ver # clock + 1
      BY <1>3, <1>6
    <2>3. ASSUME NEW x \in Paths, fs'[x] # NoFile, NEW t \in userTags
          PROVE  /\ \A r \in fileReferences :
                       r.id = t.id /\ r.ino = fs'[x].ino => fs'[x].born = t.owner
                 /\ \A l \in locations \cup removedFiles :
                       l.id = t.id /\ l.ver = fs'[x].ver => fs'[x].born = t.owner
      BY <1>7, <2>1, <2>2, <2>3
    <2> QED
      BY <1>2, <2>3 DEF Owned, Exists
  <1> QED
    BY <1>4, <1>5, <1>8 DEF Items

LEMMA UserItems ==
    ASSUME Undisturbed, Known, Items, UserStep
    PROVE  Items'
  <1>1. /\ pc = "idle" /\ UNCHANGED <<world, pc, run>>
    BY DEF UserStep, TagItem, SetRank, Forget, ClearIndex, UserMayEdit
  <1>2. CASE \E l \in locations : TagItem(l)
    <2>1. PICK l \in locations : TagItem(l)
      BY <1>2
    <2> DEFINE new == [id |-> l.id, owner |-> fs[l.path].born]
    <2>2. /\ l.id \in Ids(fileReferences) /\ fs[l.path].ino = l.ino
          /\ userTags' = userTags \cup {new}
          /\ UNCHANGED <<fileReferences, locations, removedFiles>>
      BY <2>1 DEF TagItem
    <2>3. OneItem' /\ Placed'
      BY <1>1, <2>2 DEF Items, OneItem, Placed, Ids
    <2>4. Parked'
      BY <1>1, <2>2 DEF Items, Parked, TaggedKept, Ids
    <2>5. l.path \in Paths /\ Exists(l.path)
      <3>1. l.path \in Paths /\ l.ino \in Inodes
        BY DEF Known, TypeOK, LocRow
      <3> QED
        BY <2>2, <3>1, InodesAssumption DEF Exists
    <2>6. ASSUME NEW p \in Paths, Exists(p), NEW r \in fileReferences,
                 r.id = l.id, r.ino = fs[p].ino
          PROVE  fs[p].born = fs[l.path].born
      <3>1. r.ino = l.ino
        BY <1>1, <2>6, RefOfLocation DEF Known
      <3> QED
        BY <2>2, <2>5, <2>6, <3>1, SameInodeSameFile DEF Known
    <2>7. ASSUME NEW p \in Paths, Exists(p), NEW k \in locations \cup removedFiles,
                 k.id = l.id, k.ver = fs[p].ver
          PROVE  fs[p].born = fs[l.path].born
      <3>1. k \in locations
        BY <1>1, <2>2, <2>7 DEF Known, LocInv, Apart, Ids
      <3>2. PICK r \in fileReferences : r.id = k.id /\ r.ino = k.ino
        BY <1>1, <3>1, RefOfLocation DEF Known
      <3>3. k.ino = fs[p].ino
        BY <2>7, StampOfInode DEF Known
      <3> QED
        BY <2>6, <2>7, <3>2, <3>3
    <2>8. Owned'
      BY <1>1, <2>2, <2>6, <2>7 DEF Items, Owned, Exists
    <2> QED
      BY <2>3, <2>4, <2>8 DEF Items
  <1>3. CASE \E i \in Ids(fileReferences) : SetRank(i)
    <2>1. PICK i \in Ids(fileReferences) : SetRank(i)
      BY <1>3
    <2> DEFINE Ranked(r) == [r EXCEPT !.rank = IF r.id = i THEN 1 ELSE @]
    <2>2. /\ fileReferences' = {Ranked(r) : r \in fileReferences}
          /\ UNCHANGED <<locations, removedFiles, userTags>>
      BY <2>1 DEF SetRank
    <2>3. \A r \in fileReferences : Ranked(r).id = r.id /\ Ranked(r).ino = r.ino
      BY DEF Known, TypeOK, RefRow
    <2> HIDE DEF Ranked
    <2>4. Ids(fileReferences') = Ids(fileReferences)
      BY <2>2, <2>3 DEF Ids
    <2>5. OneItem' /\ Placed'
      BY <1>1, <2>2, <2>3 DEF Items, OneItem, Placed, Ids
    <2>6. Parked'
      BY <1>1, <2>2, <2>4 DEF Items, Parked, TaggedKept, Ids
    <2>7. Owned'
      BY <1>1, <2>2, <2>3 DEF Items, Owned, Exists
    <2> QED
      BY <2>5, <2>6, <2>7 DEF Items
  <1>4. CASE \E i \in Ids(fileReferences) \cup Ids(removedFiles) : Forget(i)
    <2>1. PICK i : Forget(i)
      BY <1>4
    <2>2. /\ userTags' = {t \in userTags : t.id # i}
          /\ fileReferences' = {r \in fileReferences : r.id # i}
          /\ locations' = {l \in locations : l.id # i}
          /\ removedFiles' = {r \in removedFiles : r.id # i}
      BY <2>1 DEF Forget
    <2>3. OneItem' /\ Placed'
      BY <1>1, <2>2 DEF Items, OneItem, Placed, Ids
    <2>4. Parked'
      BY <1>1, <2>2 DEF Items, Parked, TaggedKept, Ids
    <2>5. Owned'
      BY <1>1, <2>2 DEF Items, Owned, Exists
    <2> QED
      BY <2>3, <2>4, <2>5 DEF Items
  <1> QED
    BY <1>2, <1>3, <1>4 DEF UserStep, Undisturbed

LEMMA ScanItems ==
    ASSUME Items, (\E rs \in SUBSET Dirs : Begin(rs)) \/ Scan
    PROVE  Items'
  <1>1. /\ pc \in {"idle", "scan"} /\ pc' \in {"scan", "rediscover"}
        /\ UNCHANGED <<world, tables>>
    BY DEF Begin, Scan, Walk
  <1>2. OneItem' /\ Placed'
    BY <1>1 DEF Items, OneItem, Placed, Ids
  <1>3. Parked'
    BY <1>1 DEF Items, Parked, TaggedKept, Ids
  <1>4. Owned'
    BY <1>1 DEF Items, Owned, Exists
  <1> QED
    BY <1>2, <1>3, <1>4 DEF Items

LEMMA AppendItems ==
    ASSUME Known, Items, AppendRestored, ~doubled'
    PROVE  Items'
  <1>1. /\ pc = "rediscover" /\ pc' \in {"diff", "restore"}
        /\ fileReferences' = fileReferences \cup Hits
        /\ ~GivesSecondItem
        /\ UNCHANGED <<world, locations, removedFiles, userTags, run>>
    BY DEF AppendRestored
  <1>2. Hits' = Hits
    BY <1>1 DEF Hits, BasenameScanHash
  <1>3. OneItem'
    BY <1>1 DEF Items, OneItem, GivesSecondItem
  <1>4. Placed'
    <2>1. \A h \in Hits : \E e \in scan : e.ino = h.ino
      BY DEF Hits
    <2> QED
      BY <1>1, <2>1 DEF Items, Placed, Ids
  <1>5. Parked'
    BY <1>1, <1>2 DEF Items, Parked, TaggedKept, Ids
  <1>6. Owned'
    <2>1. ASSUME NEW t \in userTags, NEW p \in Paths, Exists(p), NEW h \in Hits,
                 h.id = t.id, h.ino = fs[p].ino
          PROVE  fs[p].born = t.owner
      <3>1. PICK m \in removedFiles, e \in scan :
               /\ BasenameScanHash(m) = BasenameScanHash(e)
               /\ h.id = m.id /\ h.ino = e.ino
        BY DEF Hits
      <3>2. /\ e.path \in Paths /\ Exists(e.path)
            /\ fs[e.path].ino = e.ino /\ fs[e.path].ver = e.ver
        BY <1>1, ScanIsThere DEF Known, ScanPhases
      <3>3. fs[e.path].born = t.owner
        BY <2>1, <3>1, <3>2, SameBasenameScanHash DEF Items, Owned
      <3> QED
        BY <2>1, <3>1, <3>2, <3>3, SameInodeSameFile DEF Known
    <2> QED
      BY <1>1, <2>1 DEF Items, Owned, Exists
  <1> QED
    BY <1>3, <1>4, <1>5, <1>6 DEF Items

LEMMA DropItems ==
    ASSUME Items, DropRestored
    PROVE  Items'
  <1>1. /\ pc = "restore" /\ pc' = "diff"
        /\ removedFiles' = {r \in removedFiles : r.id \notin Ids(Hits)}
        /\ UNCHANGED <<world, fileReferences, locations, userTags, run>>
    BY DEF DropRestored
  <1>2. OneItem' /\ Placed'
    BY <1>1 DEF Items, OneItem, Placed, Ids
  <1>3. Parked'
    <2>1. \A t \in userTags : t.id \in Ids(fileReferences) \cup Ids(removedFiles')
      BY <1>1 DEF Items, Parked, TaggedKept, Ids
    <2> QED
      BY <1>1, <2>1 DEF Parked, TaggedKept, Ids
  <1>4. Owned'
    BY <1>1 DEF Items, Owned, Exists
  <1> QED
    BY <1>2, <1>3, <1>4 DEF Items

LEMMA DiffItems ==
    ASSUME Items, Diff
    PROVE  Items'
  <1>1. /\ pc = "diff" /\ pc' = "triage"
        /\ UNCHANGED <<world, tables, scan>>
    BY DEF Diff
  <1>2. OneItem' /\ Placed'
    BY <1>1 DEF Items, OneItem, Placed, Ids
  <1>3. Parked' /\ Owned'
    BY <1>1 DEF Items, Parked, TaggedKept, Ids, Owned, Exists
  <1> QED
    BY <1>2, <1>3 DEF Items

\* An inode that is known is extracted for its item, two paths of one new inode
\* for one new item.
LEMMA TriageItems ==
    ASSUME Known, Items, Triage
    PROVE  Items'
  <1>1. /\ pc = "triage" /\ pc' = "recordRemoved"
        /\ UNCHANGED <<world, tables, scan, toProcess>>
    BY DEF Triage
  <1>2. PICK last \in Ids(fileReferences) \cup Ids(removedFiles) \cup {FileLo - 1} :
           results' = {[id |-> Assigned(e, last), path |-> e.path,
                        ver |-> e.ver, ino |-> e.ino,
                        fileId |-> fs[e.path].ino] : e \in Extracted(toProcess)}
    BY DEF Triage
  <1>3. \A a \in results' : \E e \in Extracted(toProcess) :
           a.id = Assigned(e, last) /\ a.ino = e.ino
    BY <1>2
  <1>4. ASSUME NEW e \in Extracted(toProcess)
        PROVE  IsExistingId(e.id, e.ino) /\ e.id \in Nat
    <2>1. e \in WithExistingIds /\ e \in LocRow
      BY <1>1 DEF Known, LocInv, DiffMade, Extracted, TypeOK
    <2> QED
      BY <2>1, ToProcessRow DEF LocRow
  <1>5. ASSUME NEW e \in Extracted(toProcess), NEW r \in fileReferences,
               r.ino = e.ino
        PROVE  r.id = Assigned(e, last)
    <2>1. r.id \in KnownIds(e.ino)
      BY <1>5 DEF KnownIds
    <2>2. e.id \in KnownIds(e.ino)
      BY <1>4, <2>1 DEF IsExistingId
    <2>3. PICK q \in fileReferences : q.id = e.id /\ q.ino = e.ino
      BY <2>2 DEF KnownIds
    <2>4. e.id = r.id /\ e.id # NoId
      BY <1>5, <2>3 DEF Items, OneItem, Known, TablesInv, Numbered, Ids
    <2> QED
      BY <2>4 DEF Assigned
  <1>6. ASSUME NEW e \in Extracted(toProcess), NEW f \in Extracted(toProcess),
               e.ino = f.ino
        PROVE  Assigned(e, last) = Assigned(f, last)
    <2>1. e.id = f.id
      BY <1>4, <1>6, OneExistingId DEF Known
    <2> QED
      BY <1>6, <2>1 DEF Assigned
  <1>7. OneItem'
    BY <1>1, <1>3, <1>5, <1>6 DEF Items, OneItem
  <1>8. Placed'
    BY <1>1 DEF Items, Placed, Ids
  <1>9. Parked' /\ Owned'
    BY <1>1 DEF Items, Parked, TaggedKept, Ids, Owned, Exists
  <1> QED
    BY <1>7, <1>8, <1>9 DEF Items

\* What is deleted was not scanned, so it has a location to be recorded from.
LEMMA RecordItems ==
    ASSUME Known, Items, RecordRemoved
    PROVE  Items'
  <1> DEFINE Lost == {[id |-> m[1].id, path |-> m[1].path, ver |-> m[1].ver,
                       ino |-> m[1].ino, rank |-> m[2].rank] :
                         m \in {x \in locations \X fileReferences :
                                   /\ x[1].id = x[2].id
                                   /\ x[1].id \in deletedIds \cap Ids(userTags)}}
  <1>1. /\ pc = "recordRemoved" /\ pc' = "syncEntities"
        /\ removedFiles' = removedFiles \cup Lost
        /\ UNCHANGED <<world, fileReferences, locations, userTags, run>>
    BY DEF RecordRemoved
  <1>2. \A m \in Lost : \E l \in locations : l.id = m.id /\ l.ver = m.ver
    OBVIOUS
  <1>3. ASSUME NEW id \in Ids(userTags) \cap deletedIds
        PROVE  id \in Ids(Lost)
    <2>1. deletedIds = Deleted
      BY <1>1 DEF Known, LocInv, DiffMade
    <2>2. PICK r \in fileReferences : r.id = id
      BY <1>3, <2>1 DEF Deleted, Ids
    <2>3. \A e \in scan : e.ino # r.ino
      BY <1>3, <2>1, <2>2, DeletedSpares
    <2>4. PICK l \in locations : l.id = id
      BY <1>1, <2>2, <2>3 DEF Items, Placed, Ids
    <2> DEFINE m == <<l, r>>
               row == [id |-> m[1].id, path |-> m[1].path, ver |-> m[1].ver,
                       ino |-> m[1].ino, rank |-> m[2].rank]
    <2>5. /\ m \in locations \X fileReferences /\ m[1].id = m[2].id
          /\ m[1].id \in deletedIds \cap Ids(userTags) /\ row.id = id
      BY <1>3, <2>2, <2>4
    <2> HIDE DEF m
    <2>6. row \in Lost
      BY <2>5
    <2> QED
      BY <2>5, <2>6 DEF Ids
  <1> HIDE DEF Lost
  <1>4. OneItem' /\ Placed'
    BY <1>1 DEF Items, OneItem, Placed, Ids
  <1>5. Parked'
    <2>1. Ids(removedFiles') = Ids(removedFiles) \cup Ids(Lost)
      BY <1>1 DEF Ids
    <2>2. Ids(fileReferences') = Ids(fileReferences) /\ Ids(userTags') = Ids(userTags)
      BY <1>1 DEF Ids
    <2> QED
      BY <1>1, <1>3, <2>1, <2>2 DEF Items, Parked, TaggedKept
  <1>6. Owned'
    BY <1>1, <1>2 DEF Items, Owned, Exists
  <1> QED
    BY <1>4, <1>5, <1>6 DEF Items

\* What is ingested goes to the item its inode has.
LEMMA IngestedItem ==
    ASSUME Known, Items, pc = "syncEntities", NEW i \in Ingested,
           NEW r \in fileReferences, r.ino = i.ino
    PROVE  i.id = r.id
  <1>1. CASE \E e \in results : i.id = e.id /\ i.ino = e.ino
    BY <1>1 DEF Items, OneItem
  <1>2. CASE i \in dirResults
    <2>1. PICK l \in locations : l.id = i.id /\ l.ino = i.ino
      BY <1>2 DEF Known, LocInv, ResultsMade
    <2>2. PICK q \in fileReferences : q.id = l.id /\ q.ino = l.ino
      BY RefOfLocation DEF Known
    <2> QED
      BY <2>1, <2>2 DEF Items, OneItem
  <1> QED
    BY <1>1, <1>2 DEF Ingested

\* A location that is live or outside the roots is neither dropped nor replaced.
LEMMA LiveStays ==
    ASSUME Known, pc \in MergePhases, NEW l \in locations,
           ~InScope(l.path) \/ \E v \in live : v.path = l.path /\ v.ver = l.ver
    PROVE  Stays(l)
  <1>1. Kept(l)
    BY SameScanHash DEF Kept
  <1>2. l.path \notin PathsOf(Ingested)
    <2> SUFFICES ASSUME NEW i \in Ingested, i.path = l.path
                 PROVE  FALSE
      BY DEF PathsOf
    <2>1. PICK e \in scan : SameFile(e, i)
      BY IngestedIsScan DEF Known
    <2>2. InScope(l.path)
      BY <2>1 DEF Known, ExactInv, InRoots, SameFile
    <2>3. PICK v \in live : v.path = l.path /\ v.ver = l.ver
      BY <2>2
    <2>4. pc \in ScanPhases /\ quiet
      BY DEF MergePhases, ScanPhases, Known, TablesInv
    <2>5. v.ver = fs[v.path].ver /\ e.ver = fs[e.path].ver
      BY <2>4 DEF Known, ExactInv, ScanMeets
    <2>6. ScanHash(e) = ScanHash(l)
      <3>1. e.path = l.path /\ e.ver = l.ver
        BY <2>1, <2>3, <2>5 DEF SameFile
      <3> QED
        BY <3>1, SameScanHash
    <2> QED
      BY <2>4, <2>6 DEF Known, LocInv, ScanMade
  <1> QED
    BY <1>1, <1>2 DEF Stays

LEMMA EntitiesItems ==
    ASSUME Known, Items, SyncEntities
    PROVE  Items'
  <1>1. /\ pc = "syncEntities" /\ pc' = "syncLocations"
        /\ UNCHANGED <<world, locations, removedFiles, userTags, run, quiet>>
    BY DEF SyncEntities
  <1>2. PICK first \in SUBSET results :
           /\ Ids(first) = Ids(results)
           /\ fileReferences' =
                 {r \in fileReferences : r.id \notin Ids(results) \cup deletedIds}
                 \cup {[id |-> e.id, ino |-> e.fileId,
                        rank |-> InheritedRank(e.id)] : e \in first}
    BY DEF SyncEntities
  <1>3. /\ deletedIds = Deleted /\ ResultsMade /\ Keys /\ ScanMade
        /\ pc \in ScanPhases /\ pc \in MergePhases
    BY <1>1 DEF Known, LocInv, DiffMade, ScanPhases, MergePhases
  <1>4. \A q \in fileReferences' :
           \/ /\ q \in fileReferences
              /\ q.id \notin Ids(results) /\ q.id \notin deletedIds
           \/ \E e \in results : q.id = e.id /\ q.ino = e.ino
    BY <1>1, <1>2, <1>3 DEF ResultsMade
  <1>5. OneItem'
    <2>1. ASSUME NEW r \in fileReferences', NEW q \in fileReferences', r.ino = q.ino
          PROVE  r.id = q.id
      BY <1>1, <1>4, <2>1 DEF Items, OneItem
    <2> QED
      BY <1>1, <2>1 DEF OneItem
  <1>6. Placed'
    <2>1. ASSUME NEW r \in fileReferences, r.id \notin Ids(results),
                 r.id \notin deletedIds
          PROVE  (\E l \in locations : l.id = r.id /\ Stays(l)) \/ r.id \in Ids(Ingested)
      <3>1. CASE \E v \in live : v.id = r.id
        <4>1. PICK v \in live : v.id = r.id
          BY <3>1
        <4>2. PICK l \in locations : v.id = l.id /\ v.path = l.path /\ v.ver = l.ver
          BY <1>3 DEF ScanMade
        <4> QED
          BY <1>3, <4>1, <4>2, LiveStays
      <3>2. CASE \E e \in scan : e.ino = r.ino
        <4>1. PICK e \in scan, i \in Ingested : e.ino = r.ino /\ SameFile(e, i)
          BY <1>1, <1>3, <3>2 DEF Known, TablesInv, ExactInv, ScanSorted
        <4>2. i.id = r.id
          BY <1>1, <4>1, IngestedItem DEF SameFile
        <4> QED
          BY <4>2 DEF Ids
      <3>3. CASE \E l \in locations : ~InScope(l.path) /\ l.id = r.id
        BY <1>3, <3>3, LiveStays
      <3>4. \/ r.id \in Ids(live)
            \/ r.id \in Ids({q \in fileReferences : \E s \in scan : s.ino = q.ino})
            \/ r.id \in Ids({l \in locations : ~InScope(l.path)})
        BY <1>3, <2>1 DEF Deleted, Ids
      <3>5. r.id \in Ids({q \in fileReferences : \E s \in scan : s.ino = q.ino})
               => \E e \in scan : e.ino = r.ino
        BY <1>3 DEF Keys, Ids
      <3> QED
        BY <3>1, <3>2, <3>3, <3>4, <3>5 DEF Ids
    <2>2. \A e \in results : e.id \in Ids(Ingested)
      <3> TAKE e \in results
      <3>1. [id |-> e.id, path |-> e.path, ver |-> e.ver, ino |-> e.ino] \in Ingested
        BY DEF Ingested
      <3> QED
        BY <3>1 DEF Ids
    <2>3. Ingested' = Ingested /\ \A l : Stays(l)' <=> Stays(l)
      BY <1>1 DEF Ingested, Stays, Kept, PathsOf, InScope, ScanHash
    <2>4. \A r \in fileReferences' :
             (\E l \in locations : l.id = r.id /\ Stays(l)) \/ r.id \in Ids(Ingested)
      BY <1>4, <2>1, <2>2
    <2> QED
      BY <1>1, <2>3, <2>4 DEF Placed, Ids
  <1>7. Parked'
    <2>1. ASSUME NEW id \in Ids(fileReferences), id \notin deletedIds
          PROVE  id \in Ids(fileReferences')
      <3>1. CASE id \in Ids(results)
        <4>1. PICK e \in first : e.id = id
          BY <1>2, <3>1 DEF Ids
        <4>2. [id |-> e.id, ino |-> e.fileId, rank |-> InheritedRank(e.id)]
                 \in fileReferences'
          BY <1>2
        <4> QED
          BY <4>1, <4>2 DEF Ids
      <3>2. CASE id \notin Ids(results)
        BY <1>2, <2>1, <3>2 DEF Ids
      <3> QED
        BY <3>1, <3>2
    <2>2. \A t \in userTags : t.id \in Ids(fileReferences') \cup Ids(removedFiles)
      <3>1. \A t \in userTags : t.id \in deletedIds => t.id \in Ids(removedFiles)
        BY <1>1 DEF Items, Parked, Ids
      <3>2. \A t \in userTags : t.id \in Ids(fileReferences) \cup Ids(removedFiles)
        BY DEF Items, Parked, TaggedKept
      <3> QED
        BY <2>1, <3>1, <3>2
    <2> QED
      BY <1>1, <2>2 DEF Parked, TaggedKept, Ids
  <1>8. Owned'
    <2>1. ASSUME NEW t \in userTags, NEW p \in Paths, Exists(p),
                 NEW e \in results, e.id = t.id, e.ino = fs[p].ino
          PROVE  fs[p].born = t.owner
      <3>1. e.id \in Ids(fileReferences) \cup Ids(removedFiles)
        BY <2>1 DEF Items, Parked, TaggedKept
      <3>2. PICK r \in fileReferences : r.id = e.id /\ r.ino = e.ino
        BY <1>1, <1>3, <3>1 DEF ResultsMade
      <3> QED
        BY <2>1, <3>2 DEF Items, Owned
    <2> QED
      BY <1>1, <1>4, <2>1 DEF Items, Owned, Exists
  <1> QED
    BY <1>5, <1>6, <1>7, <1>8 DEF Items

LEMMA LocationsItems ==
    ASSUME Known, Items, SyncLocations
    PROVE  Items'
  <1>1. /\ pc = "syncLocations" /\ pc' = "syncBaseTags"
        /\ locations' = {l \in locations : Stays(l)} \cup Ingested
        /\ UNCHANGED <<world, fileReferences, removedFiles, userTags, run, quiet>>
    BY DEF SyncLocations, Stays, Kept
  <1>2. OneItem'
    BY <1>1 DEF Items, OneItem
  <1>3. Placed'
    BY <1>1 DEF Items, Placed, Ids
  <1>4. Parked'
    BY <1>1 DEF Items, Parked, TaggedKept, Ids
  <1>5. Owned'
    <2>1. ASSUME NEW t \in userTags, NEW p \in Paths, Exists(p),
                 NEW i \in Ingested, i.id = t.id, i.ver = fs[p].ver
          PROVE  fs[p].born = t.owner
      <3>1. PICK e \in scan : SameFile(e, i)
        BY <1>1, IngestedIsScan DEF Known, MergePhases
      <3>2. i.ino = fs[p].ino
        BY <2>1, <3>1, StampOfInode DEF Known, SameFile
      <3>3. PICK r \in fileReferences : r.id = i.id /\ r.ino = i.ino
        BY <1>1 DEF Known, LocInv, LocationsKnown, HasRef
      <3> QED
        BY <2>1, <3>2, <3>3 DEF Items, Owned
    <2> QED
      BY <1>1, <2>1 DEF Items, Owned, Exists
  <1> QED
    BY <1>2, <1>3, <1>4, <1>5 DEF Items

LEMMA EndItems ==
    ASSUME Items, SyncBaseTags \/ SyncLocationTags
    PROVE  Items'
  <1>1. /\ pc \in {"syncBaseTags", "syncLocationTags"}
        /\ pc' \in {"syncLocationTags", "idle"}
        /\ UNCHANGED <<world, fileReferences, locations, removedFiles, userTags>>
    BY DEF SyncBaseTags, SyncLocationTags
  <1>2. OneItem' /\ Placed'
    BY <1>1 DEF Items, OneItem, Placed, Ids
  <1>3. Parked' /\ Owned'
    BY <1>1 DEF Items, Parked, TaggedKept, Ids, Owned, Exists
  <1> QED
    BY <1>2, <1>3 DEF Items

LEMMA ItemsStutter ==
    ASSUME Items, UNCHANGED vars
    PROVE  Items'
  <1>1. UNCHANGED <<world, tables, pc, run>>
    BY DEF vars
  <1>2. OneItem'
    BY <1>1 DEF Items, OneItem
  <1>3. Placed'
    BY <1>1 DEF Items, Placed, Ids, Stays, Kept, Ingested, PathsOf, InScope, ScanHash
  <1>4. Parked'
    BY <1>1 DEF Items, Parked, TaggedKept, Ids, Hits, BasenameScanHash
  <1>5. Owned'
    BY <1>1 DEF Items, Owned, Exists
  <1> QED
    BY <1>2, <1>3, <1>4, <1>5 DEF Items

LEMMA DoubledStays ==
    ASSUME [Next]_vars, doubled
    PROVE  doubled'
  <1>1. CASE FsStep
    BY <1>1 DEF FsStep, FsMayChange, Create, Modify, Move, Link, Unlink
  <1>2. CASE UserStep
    BY <1>2 DEF UserStep, UserMayEdit, TagItem, SetRank, Forget, ClearIndex
  <1>3. CASE RunStep
    BY <1>3 DEF RunStep, Scan, Walk, AppendRestored, DropRestored, Diff, Triage,
       RecordRemoved, SyncEntities, SyncLocations, SyncBaseTags, SyncLocationTags
  <1>4. CASE UNCHANGED vars
    BY <1>4 DEF vars
  <1> QED
    BY <1>1, <1>2, <1>3, <1>4 DEF Next, Begin, Crash

LEMMA ItemNext ==
    ASSUME Undisturbed, Known, ItemInv, [Next]_vars
    PROVE  ItemInv'
  <1> SUFFICES ASSUME ~doubled'
               PROVE  Items'
    BY DEF ItemInv, Items
  <1>1. Items
    BY DoubledStays DEF ItemInv, Items
  <1>2. ~Crash
    BY DEF Crash, Undisturbed, Known, LocInv
  <1>3. CASE RunStep
    BY <1>1, <1>3, ScanItems, AppendItems, DropItems, DiffItems, TriageItems,
       RecordItems, EntitiesItems, LocationsItems, EndItems DEF RunStep
  <1> QED
    BY <1>1, <1>2, <1>3, FsItems, UserItems, ScanItems, ItemsStutter DEF Next

LEMMA ItemInit == Init => ItemInv
  <1> SUFFICES ASSUME Init PROVE Items
    BY DEF ItemInv, Items
  <1> QED
    BY DEF Init, Items, OneItem, Placed, Parked, TaggedKept, Owned

\* Everything above is invariant.
LEMMA KnownItems ==
    ASSUME Undisturbed
    PROVE  Spec => [](Known /\ ItemInv)
  <1>1. Init => ExactInv /\ LocInv /\ TablesInv /\ ItemInv
    BY ExactInit, LocInit, TablesInit, ItemInit
  <1>2. TypeOK /\ ExactInv /\ LocInv /\ TablesInv /\ ItemInv /\ [Next]_vars
           => ExactInv' /\ LocInv' /\ TablesInv' /\ ItemInv'
    BY ExactNext, LocNext, TablesNext, ItemNext DEF Undisturbed, Known
  <1> QED
    BY <1>1, <1>2, TypeCorrect, PTL DEF Spec, Known

----------------------------------------------------------------------------
(* The properties. *)

\* A tag the user gave to one file never shows on another, whatever was
\* renamed, replaced, removed or brought back in between.
THEOREM TagsDoNotLeak ==
    ASSUME Undisturbed
    PROVE  Spec => []NoTagLeak
  <1>1. Known /\ ItemInv => NoTagLeak
    <2> SUFFICES ASSUME Known, Items, NEW t \in userTags, NEW l \in locations,
                        l.id = t.id, Current(l)
                 PROVE  fs[l.path].born = t.owner
      BY DEF ItemInv, Items, NoTagLeak
    <2>1. l.path \in Paths /\ l.ino \in Inodes
      BY DEF Known, TypeOK, LocRow
    <2>2. Exists(l.path)
      BY <2>1, InodesAssumption DEF Current, Exists
    <2> QED
      BY <2>1, <2>2 DEF Items, Owned, Current
  <1> QED
    BY <1>1, KnownItems, PTL

\* A tagged item is always known or parked.
THEOREM TagsAreKept ==
    ASSUME Undisturbed
    PROVE  Spec => []TagsNotOrphaned
  <1>1. ItemInv => TagsNotOrphaned
    BY DEF ItemInv, Parked, TagsNotOrphaned
  <1> QED
    BY <1>1, KnownItems, PTL

\* After a full run the items of the paths are the files at the paths.
LEMMA SyncedItems ==
    ASSUME Known, Items, synced
    PROVE  /\ pc = "idle" /\ ExactNow
           /\ \A l, m \in locations :
                 (l.id = m.id) <=> (fs[l.path].born = fs[m.path].born)
           /\ \A r \in fileReferences : \E l \in locations :
                 l.id = r.id /\ l.ino = r.ino
  <1>1. pc = "idle" /\ ExactNow
    BY DEF Known, ExactInv, Exact
  <1>2. ASSUME NEW l \in locations, NEW m \in locations
        PROVE  (l.id = m.id) <=> (fs[l.path].born = fs[m.path].born)
    <2>1. /\ l.path \in Paths /\ m.path \in Paths
          /\ Exists(l.path) /\ Exists(m.path)
          /\ fs[l.path].ino = l.ino /\ fs[m.path].ino = m.ino
      BY <1>1 DEF ExactNow, Known, TypeOK, LocRow
    <2>2. PICK r \in fileReferences : r.id = l.id /\ r.ino = l.ino
      BY <1>1, RefOfLocation DEF Known
    <2>3. PICK q \in fileReferences : q.id = m.id /\ q.ino = m.ino
      BY <1>1, RefOfLocation DEF Known
    <2>4. l.id = m.id <=> l.ino = m.ino
      BY <2>2, <2>3 DEF Known, LocInv, Keys, Items, OneItem
    <2> QED
      BY <2>1, <2>4 DEF Known, TablesInv, Born
  <1>3. ASSUME NEW r \in fileReferences
        PROVE  \E l \in locations : l.id = r.id /\ l.ino = r.ino
    <2>1. PICK l \in locations : l.id = r.id
      BY <1>1 DEF Items, Placed, Ids
    <2>2. r.ino = l.ino
      BY <1>1, <2>1, RefOfLocation DEF Known
    <2> QED
      BY <2>1, <2>2
  <1> QED
    BY <1>1, <1>2, <1>3

\* After a full run two paths have one item exactly when they are links to one
\* file, and the items are those that have a path.
THEOREM IdentityIsExact ==
    ASSUME Undisturbed
    PROVE  Spec => []IdentityExact
  <1>1. Known /\ ItemInv => IdentityExact
    <2> SUFFICES ASSUME Known, Items, synced
                 PROVE  /\ \A l, m \in locations :
                              (l.id = m.id) <=> (fs[l.path].born = fs[m.path].born)
                        /\ {[id |-> l.id, ino |-> l.ino] : l \in locations}
                              = {[id |-> r.id, ino |-> r.ino] : r \in fileReferences}
      BY DEF ItemInv, Items, IdentityExact
    <2>1. pc = "idle"
      BY SyncedItems
    <2>2. \A l \in locations : \E r \in fileReferences : r.id = l.id /\ r.ino = l.ino
      BY <2>1, RefOfLocation DEF Known
    <2> QED
      BY <2>2, SyncedItems
  <1> QED
    BY <1>1, KnownItems, PTL

\* After a full run a tagged file is found under its item, unless that is parked
\* under a hash no path has.
THEOREM TaggedAreAttached ==
    ASSUME Undisturbed
    PROVE  Spec => []AttachedOrParked
  <1>1. Known /\ ItemInv => AttachedOrParked
    <2> SUFFICES ASSUME Known, Items, synced, NEW t \in userTags,
                        NEW l \in locations, fs[l.path].born = t.owner
                 PROVE  \/ l.id = t.id
                        \/ /\ t.id \in Ids(removedFiles)
                           /\ \A r \in removedFiles : r.id = t.id =>
                                 BasenameScanHash(r) # BasenameScanHash(l)
      BY DEF ItemInv, Items, AttachedOrParked
    <2>1. pc = "idle" /\ ExactNow
      BY SyncedItems
    <2>2. CASE t.id \in Ids(fileReferences)
      <3>1. PICK m \in locations : m.id = t.id
        BY <2>2, SyncedItems DEF Ids
      <3>2. m.path \in Paths /\ Exists(m.path) /\ m.ver = fs[m.path].ver
        BY <2>1 DEF ExactNow, Known, TypeOK, LocRow
      <3>3. fs[m.path].born = t.owner
        BY <3>1, <3>2 DEF Items, Owned
      <3> QED
        BY <3>1, <3>3, SyncedItems
    <2>3. CASE t.id \in Ids(removedFiles)
      BY <2>1, <2>3 DEF Known, TablesInv, HashesApart
    <2> QED
      BY <2>2, <2>3 DEF Items, Parked, TaggedKept
  <1> QED
    BY <1>1, KnownItems, PTL

----------------------------------------------------------------------------
(* Stems.  Where there is one root and no file has two paths, an item has  *)
(* one path and the stem extracted from it.                                *)

OneRoot == HardLinks = FALSE /\ \E d : Dirs = {d}

OneLink ==
    \A p, q \in {x \in Paths : Exists(x)} : fs[p].ino = fs[q].ino => p = q

\* What is not extracted again keeps the name its stem was taken from.
Renamed ==
    pc \in MergePhases =>
        /\ \A d \in dirResults : \E l \in locations :
              l.id = d.id /\ BaseName(l.path) = BaseName(d.path)
        /\ \A e \in results, d \in dirResults : e.path # d.path

HasStem(l) ==
    /\ \E b \in baseTags : b.id = l.id
    /\ \A b \in baseTags : b.id = l.id => b.stem = BaseName(l.path)

Extracts(l) ==
    /\ \E e \in results : e.id = l.id
    /\ \A e \in results : e.id = l.id => e.path = l.path

Stems ==
    \A l \in locations :
        \/ HasStem(l) /\ (pc = "syncBaseTags" => l.id \notin Ids(results) \cup deletedIds)
        \/ pc = "syncBaseTags" /\ Extracts(l)

Rooted == pc # "idle" => roots # {}

StemInv == OneLink /\ Rooted /\ Renamed /\ Stems

LEMMA StemInit == Init => StemInv
  <1> SUFFICES ASSUME Init PROVE StemInv
    OBVIOUS
  <1> QED
    BY DEF Init, StemInv, OneLink, Exists, Rooted, Renamed, MergePhases, Stems

LEMMA StemFs ==
    ASSUME OneRoot, FsDuringIndex = FALSE, TypeOK, StemInv, FsStep
    PROVE  StemInv'
  <1>1. PICK p \in Paths, q \in Paths :
           \/ \E i \in Inodes : Create(p, i)
           \/ Modify(p)
           \/ Move(p, q)
           \/ Unlink(p)
    BY DEF FsStep, Link, OneRoot
  <1>2. pc = "idle" /\ UNCHANGED <<tables, pc, run>>
    BY <1>1 DEF FsMayChange, Create, Modify, Move, Unlink
  <1>3. fs \in [Paths -> FileState]
    BY DEF TypeOK
  <1>4. \A x, y \in Paths : fs[x] # NoFile /\ fs[y] # NoFile /\ fs[x].ino = fs[y].ino
           => x = y
    BY DEF StemInv, OneLink, Exists
  <1>5. \A x, y \in Paths : fs'[x] # NoFile /\ fs'[y] # NoFile /\ fs'[x].ino = fs'[y].ino
           => x = y
    <2>1. CASE \E i \in Inodes : Create(p, i)
      <3>1. PICK i \in Inodes : Create(p, i)
        BY <2>1
      <3>2. /\ \A x \in Paths : fs[x] # NoFile => fs[x].ino # i
            /\ fs' = [fs EXCEPT ![p] = [ino |-> i, born |-> clock', ver |-> clock']]
        BY <3>1 DEF Create, FreeInodes, InUse, Exists
      <3> QED
        BY <1>3, <1>4, <3>2
    <2>2. CASE Modify(p)
      <3>1. /\ fs[p] # NoFile
            /\ fs' = [x \in Paths |-> IF fs[x].ino = fs[p].ino
                                      THEN [fs[x] EXCEPT !.ver = clock']
                                      ELSE fs[x]]
        BY <2>2 DEF Modify, Exists
      <3>2. fs[p].ino # 0
        BY <1>3, <3>1, InodesAssumption DEF FileState
      <3>3. \A x \in Paths : fs[x].ino = fs[p].ino =>
               fs[x] # NoFile /\ fs[x] \in [ino : Inodes, born : Nat, ver : Nat]
        BY <1>3, <3>2 DEF FileState
      <3>4. \A x \in Paths : fs'[x] # NoFile =>
               fs[x] # NoFile /\ fs'[x].ino = fs[x].ino
        BY <3>1, <3>3
      <3> QED
        BY <1>4, <3>4
    <2>3. CASE Move(p, q) \/ Unlink(p)
      BY <1>3, <1>4, <2>3 DEF Move, Unlink
    <2> QED
      BY <1>1, <2>1, <2>2, <2>3
  <1>6. OneLink'
    BY <1>5 DEF OneLink, Exists
  <1>7. Rooted' /\ Renamed' /\ Stems'
    BY <1>2 DEF StemInv, Rooted, Renamed, MergePhases, Stems, HasStem
  <1> QED
    BY <1>6, <1>7 DEF StemInv

LEMMA StemUser ==
    ASSUME StemInv, UserStep
    PROVE  StemInv'
  <1>1. /\ pc = "idle" /\ UNCHANGED <<world, pc, run>>
    BY DEF UserStep, TagItem, SetRank, Forget, ClearIndex, UserMayEdit
  <1>2. OneLink' /\ Rooted' /\ Renamed'
    BY <1>1 DEF StemInv, OneLink, Exists, Rooted, Renamed, MergePhases
  <1>3. Stems'
    <2>1. CASE UNCHANGED <<locations, baseTags>>
      BY <1>1, <2>1 DEF StemInv, Stems, HasStem
    <2>2. ASSUME NEW i, Forget(i)
          PROVE  Stems'
      <3>1. /\ locations' = {l \in locations : l.id # i}
            /\ baseTags' = {b \in baseTags : b.id # i}
        BY <2>2 DEF Forget
      <3> QED
        BY <1>1, <3>1 DEF StemInv, Stems, HasStem
    <2>3. CASE ClearIndex
      BY <2>3 DEF ClearIndex, Stems
    <2>4. \/ UNCHANGED <<locations, baseTags>> \/ ClearIndex \/ \E i : Forget(i)
      BY DEF UserStep, TagItem, SetRank
    <2> QED
      BY <2>1, <2>2, <2>3, <2>4
  <1> QED
    BY <1>2, <1>3 DEF StemInv

LEMMA StemTriage ==
    ASSUME LocInv, StemInv, Triage
    PROVE  StemInv'
  <1>1. /\ pc = "triage" /\ pc' = "recordRemoved"
        /\ dirResults' = {[id |-> e.id, path |-> e.path, ver |-> e.ver,
                           ino |-> e.ino] : e \in Extracted(dirChanged)}
        /\ UNCHANGED <<world, tables, roots>>
    BY DEF Triage
  <1>2. dirChanged = DirChanged /\ toProcess = WithExistingIds
    BY <1>1 DEF LocInv, DiffMade
  <1>3. ASSUME NEW d \in dirResults'
        PROVE  /\ d.path \in PathsOf(DirChanged)
               /\ \E l \in locations :
                     l.id = d.id /\ BaseName(l.path) = BaseName(d.path)
    <2>1. PICK c \in DirChanged : d.id = c.id /\ d.path = c.path
      BY <1>1, <1>2, <1>3 DEF Extracted
    <2>2. PICK s \in scan, l \in locations :
             /\ c.path = s.path /\ c.id = l.id
             /\ BasenameScanHash(s) = BasenameScanHash(l)
      BY DirChangedRow
    <2> QED
      BY <2>1, <2>2, SameBasenameScanHash DEF PathsOf
  <1>4. \A e \in results' : e.path \notin PathsOf(DirChanged)
    <2>1. \A e \in results' : \E t \in WithExistingIds : e.path = t.path
      BY <1>2 DEF Triage, Extracted
    <2> QED
      BY <2>1, ToProcessRow
  <1>5. OneLink' /\ Rooted' /\ Stems'
    BY <1>1 DEF StemInv, OneLink, Exists, Rooted, Stems, HasStem
  <1>6. Renamed'
    BY <1>1, <1>3, <1>4 DEF Renamed
  <1> QED
    BY <1>5, <1>6 DEF StemInv

\* What is ingested for one item is one file at one path.
LEMMA IngestedOnce ==
    ASSUME Known, StemInv, pc = "syncLocations", NEW i \in Ingested,
           NEW p \in Paths, Exists(p), NEW l \in locations \cup Ingested,
           Kept(l) \/ l \in Ingested, l.id = i.id, l.ino = fs[p].ino
    PROVE  i.path = p
  <1>1. PICK r \in fileReferences : r.id = i.id /\ r.ino = i.ino
    BY DEF Known, LocInv, LocationsKnown, HasRef
  <1>2. PICK q \in fileReferences : q.id = l.id /\ q.ino = l.ino
    BY DEF Known, LocInv, LocationsKnown, HasRef
  <1>3. i.ino = l.ino
    BY <1>1, <1>2 DEF Known, LocInv, Keys
  <1>4. PICK e \in scan : SameFile(e, i)
    BY IngestedIsScan DEF Known, MergePhases
  <1>5. e.path \in Paths /\ Exists(e.path) /\ fs[e.path].ino = e.ino
    BY ScanIsThere DEF Known, ScanPhases
  <1> QED
    BY <1>3, <1>4, <1>5 DEF StemInv, OneLink, SameFile

LEMMA StemLocations ==
    ASSUME OneRoot, Known, StemInv, SyncLocations
    PROVE  StemInv'
  <1>1. /\ pc = "syncLocations" /\ pc' = "syncBaseTags"
        /\ locations' = {l \in locations : Stays(l)} \cup Ingested
        /\ UNCHANGED <<world, baseTags, run>>
    BY DEF SyncLocations, Stays, Kept
  <1>2. OneLink' /\ Rooted' /\ Renamed'
    BY <1>1 DEF StemInv, OneLink, Exists, Rooted, Renamed, MergePhases
  <1>3. /\ \A i \in Ingested : HasRef(i)
        /\ \A l \in locations : Kept(l) => HasRef(l)
        /\ \A r \in fileReferences : r.id \notin deletedIds
    BY <1>1 DEF Known, LocInv, LocationsKnown, TablesInv, HashesApart, Ids
  <1>4. \A e \in results : \E i \in Ingested : i.id = e.id /\ i.path = e.path
    <2> TAKE e \in results
    <2>1. [id |-> e.id, path |-> e.path, ver |-> e.ver, ino |-> e.ino] \in Ingested
      BY DEF Ingested
    <2> QED
      BY <2>1
  <1>5. \A l \in locations : HasStem(l)
    BY <1>1 DEF StemInv, Stems
  <1>6. ASSUME NEW l \in locations, Stays(l)
        PROVE  HasStem(l) /\ l.id \notin Ids(results) \cup deletedIds
    <2>1. l.path \in Paths /\ Exists(l.path) /\ l.ver = fs[l.path].ver
      <3>1. l.path \in Paths
        BY DEF Known, TypeOK, LocRow
      <3>2. InScope(l.path)
        <4>1. Dir(l.path) \in Dirs /\ roots \subseteq Dirs
          BY DEF Known, ExactInv, InRoots, TypeOK
        <4>2. roots # {}
          BY <1>1 DEF StemInv, Rooted
        <4> QED
          BY <4>1, <4>2 DEF OneRoot, InScope
      <3>3. PICK v \in live : ScanHash(v) = ScanHash(l)
        BY <1>6, <3>2 DEF Stays, Kept
      <3>4. Exists(v.path) /\ v.ver = fs[v.path].ver
        BY <1>1 DEF Known, TablesInv, ExactInv, ScanMeets, ScanPhases
      <3> QED
        BY <3>1, <3>3, <3>4, SameScanHash
    <2>2. l.ino = fs[l.path].ino
      BY <2>1, StampOfInode DEF Known
    <2>3. \A i \in Ingested : i.id # l.id
      <3> SUFFICES ASSUME NEW i \in Ingested, i.id = l.id PROVE FALSE
        OBVIOUS
      <3>1. i.path = l.path
        BY <1>1, <1>6, <2>1, <2>2, IngestedOnce DEF Stays
      <3> QED
        BY <1>6, <3>1 DEF Stays, PathsOf
    <2>4. l.id \notin deletedIds
      BY <1>3, <1>6 DEF Stays, HasRef
    <2> QED
      BY <1>4, <1>5, <2>3, <2>4 DEF Ids
  <1>7. ASSUME NEW l \in Ingested
        PROVE  \/ HasStem(l) /\ l.id \notin Ids(results) \cup deletedIds
               \/ Extracts(l)
    <2>1. \A i \in Ingested : i.id = l.id => i.path = l.path
      <3>1. PICK e \in scan : SameFile(e, l)
        BY <1>1, IngestedIsScan DEF Known, MergePhases
      <3>2. e.path \in Paths /\ Exists(e.path) /\ fs[e.path].ino = e.ino
        BY <1>1, ScanIsThere DEF Known, ScanPhases
      <3> QED
        BY <1>1, <3>1, <3>2, IngestedOnce DEF SameFile
    <2>2. CASE \E e \in results : e.id = l.id
      BY <1>4, <2>1, <2>2 DEF Extracts
    <2>3. CASE ~\E e \in results : e.id = l.id
      <3>1. l \in dirResults
        BY <2>3 DEF Ingested
      <3>2. PICK k \in locations : k.id = l.id /\ BaseName(k.path) = BaseName(l.path)
        BY <1>1, <3>1 DEF StemInv, Renamed, MergePhases
      <3>3. HasStem(l)
        BY <1>5, <3>2 DEF HasStem
      <3> QED
        BY <1>3, <2>3, <3>3 DEF HasRef, Ids
    <2> QED
      BY <2>2, <2>3
  <1>8. Stems'
    BY <1>1, <1>6, <1>7 DEF Stems, HasStem, Extracts, Ids
  <1> QED
    BY <1>2, <1>8 DEF StemInv

LEMMA StemBaseTags ==
    ASSUME StemInv, SyncBaseTags
    PROVE  StemInv'
  <1>1. /\ pc = "syncBaseTags" /\ pc' = "syncLocationTags"
        /\ baseTags' = {b \in baseTags : b.id \notin Ids(results) \cup deletedIds}
                       \cup {[id |-> e.id, stem |-> BaseName(e.path)] : e \in results}
        /\ UNCHANGED <<world, locations, run>>
    BY DEF SyncBaseTags
  <1>2. ASSUME NEW l \in locations
        PROVE  /\ \E b \in baseTags' : b.id = l.id
               /\ \A b \in baseTags' : b.id = l.id => b.stem = BaseName(l.path)
    <2>1. CASE HasStem(l) /\ l.id \notin Ids(results) \cup deletedIds
      BY <1>1, <2>1 DEF HasStem, Ids
    <2>2. CASE Extracts(l)
      <3>1. PICK e \in results : e.id = l.id
        BY <2>2 DEF Extracts
      <3>2. [id |-> e.id, stem |-> BaseName(e.path)] \in baseTags'
        BY <1>1
      <3>3. l.id \in Ids(results)
        BY <3>1 DEF Ids
      <3> QED
        BY <1>1, <2>2, <3>1, <3>2, <3>3 DEF Extracts
    <2> QED
      BY <1>1, <2>1, <2>2 DEF StemInv, Stems
  <1>3. OneLink' /\ Rooted' /\ Renamed'
    BY <1>1 DEF StemInv, OneLink, Exists, Rooted, Renamed, MergePhases
  <1> QED
    BY <1>1, <1>2, <1>3 DEF StemInv, Stems, HasStem

LEMMA StemNext ==
    ASSUME OneRoot, FsDuringIndex = FALSE, MaxCrashes = 0, Known, StemInv,
           [Next]_vars
    PROVE  StemInv'
  <1>1. ~Crash
    BY DEF Crash, Known, LocInv
  <1>2. CASE \/ \E rs \in SUBSET Dirs : Begin(rs)
             \/ Scan \/ AppendRestored \/ DropRestored \/ Diff
    <2>1. /\ pc' \notin MergePhases \cup {"syncBaseTags"} /\ pc # "syncBaseTags"
          /\ UNCHANGED <<world, locations, baseTags>>
          /\ roots' # {} \/ (pc # "idle" /\ roots' = roots)
      <3>1. CASE \E rs \in SUBSET Dirs : Begin(rs)
        <4>1. PICK rs \in SUBSET Dirs : Begin(rs)
          BY <3>1
        <4>2. roots' = rs /\ rs # {}
          BY <4>1 DEF Begin
        <4>3. pc = "idle" /\ pc' = "scan" /\ UNCHANGED <<world, locations, baseTags>>
          BY <4>1 DEF Begin
        <4> QED
          BY <4>2, <4>3 DEF MergePhases
      <3>2. CASE Scan
        <4>1. (\E p \in pending : Walk({p})) \/ Walk(pending)
          BY <3>2 DEF Scan
        <4>2. /\ pc = "scan" /\ pc' \in {"scan", "rediscover"}
              /\ UNCHANGED <<world, locations, baseTags, roots>>
          BY <4>1 DEF Walk
        <4> QED
          BY <4>2 DEF MergePhases
      <3>3. CASE AppendRestored \/ DropRestored \/ Diff
        BY <3>3 DEF AppendRestored, DropRestored, Diff, MergePhases
      <3> QED
        BY <1>2, <3>1, <3>2, <3>3
    <2> QED
      BY <2>1 DEF StemInv, OneLink, Exists, Rooted, Renamed, Stems, HasStem
  <1>3. CASE RecordRemoved \/ SyncEntities
    <2>1. /\ pc \in MergePhases /\ pc' # "syncBaseTags"
          /\ UNCHANGED <<world, locations, baseTags, run>>
      BY <1>3 DEF RecordRemoved, SyncEntities, MergePhases
    <2>2. pc # "syncBaseTags"
      BY <2>1 DEF MergePhases
    <2>3. OneLink' /\ Rooted'
      BY <2>1 DEF StemInv, OneLink, Exists, Rooted, MergePhases
    <2>4. Renamed'
      BY <2>1 DEF StemInv, Renamed
    <2>5. Stems'
      BY <2>1, <2>2 DEF StemInv, Stems, HasStem
    <2> QED
      BY <2>3, <2>4, <2>5 DEF StemInv
  <1>4. CASE SyncLocationTags
    <2>1. /\ pc = "syncLocationTags" /\ pc' = "idle"
          /\ UNCHANGED <<world, locations, baseTags>>
      BY <1>4 DEF SyncLocationTags
    <2> QED
      BY <2>1 DEF StemInv, OneLink, Exists, Rooted, Renamed, MergePhases, Stems, HasStem
  <1>5. CASE UNCHANGED vars
    <2>1. UNCHANGED <<world, tables, pc, run>>
      BY <1>5 DEF vars
    <2> QED
      BY <2>1 DEF StemInv, OneLink, Exists, Rooted, Renamed, Stems, HasStem, Extracts, Ids
  <1> QED
    BY <1>1, <1>2, <1>3, <1>4, <1>5, StemFs, StemUser, StemTriage, StemLocations,
       StemBaseTags DEF Next, RunStep, Known

\* With one root and no hard links an item carries, after a full run, the stem
\* of its path and no other.
THEOREM StemsAreExact ==
    ASSUME OneRoot, FsDuringIndex = FALSE, MaxCrashes = 0
    PROVE  Spec => []BaseTagsExact
  <1>1. Known /\ StemInv => BaseTagsExact
    <2> SUFFICES ASSUME Known, StemInv, synced
                 PROVE  {b \in baseTags : b.id \in Ids(locations)}
                        = {[id |-> l.id, stem |-> BaseName(l.path)] : l \in locations}
      BY DEF BaseTagsExact
    <2>1. pc = "idle"
      BY DEF Known, ExactInv, Exact
    <2>2. \A l \in locations : HasStem(l)
      BY <2>1 DEF StemInv, Stems
    <2>3. \A b \in baseTags : b = [id |-> b.id, stem |-> b.stem]
      BY DEF Known, TypeOK
    <2> QED
      BY <2>2, <2>3 DEF HasStem, Ids
  <1>2. Init => ExactInv /\ LocInv /\ TablesInv /\ StemInv
    BY ExactInit, LocInit, TablesInit, StemInit
  <1>3. TypeOK /\ ExactInv /\ LocInv /\ TablesInv /\ StemInv /\ [Next]_vars
           => ExactInv' /\ LocInv' /\ TablesInv' /\ StemInv'
    BY ExactNext, LocNext, TablesNext, StemNext DEF Known
  <1> QED
    BY <1>1, <1>2, <1>3, TypeCorrect, PTL DEF Spec, Known

=============================================================================
