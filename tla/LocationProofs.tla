--------------------------- MODULE LocationProofs ---------------------------
(***************************************************************************)
(* Between runs every location has its item and no rank is ever lowered,   *)
(* for any directories, names and inodes and any history of files, tags    *)
(* and forgetting, as long as files hold still during a run and no run     *)
(* dies.                                                                   *)
(***************************************************************************)
EXTENDS IndexingProofs

USE DEF world, tables, run, history, NoFile, NoId

HasRef(l) == \E r \in fileReferences : r.id = l.id /\ r.ino = l.ino

\* The keys of the tables: one reference per id, one location per path, one id
\* per version of a file under a name, one inode and rank per lost id.
Keys ==
    /\ \A r, q \in fileReferences : r.id = q.id => r = q
    /\ \A l, m \in locations : l.path = m.path => l = m
    /\ \A l, m \in locations :
          BasenameScanHash(l) = BasenameScanHash(m) => l.id = m.id
    /\ \A r, q \in removedFiles :
          r.id = q.id => r.ino = q.ino /\ r.rank = q.rank

\* An id is in file_references or in removed_files, except while it moves.
Apart ==
    \A id \in Ids(fileReferences) \cap Ids(removedFiles) :
        \/ pc = "restore" /\ id \in Ids(Hits)
        \/ pc = "syncEntities" /\ id \in deletedIds

\* What the scan has found so far, against files and locations that hold still.
ScanMade ==
    /\ pc = "idle" => scan = {} /\ live = {}
    /\ pc = "scan" => cache \in
          Lookups({[id |-> l.id, hash |-> ScanHash(l)] : l \in locations})
    /\ pc \in ScanPhases =>
          /\ \A e \in scan :
                fs[e.path].ino = e.ino /\ fs[e.path].ver = e.ver
          /\ \A e \in scan, l \in locations : ScanHash(e) # ScanHash(l)
          /\ \A v \in live : \E l \in locations :
                v.id = l.id /\ v.path = l.path /\ v.ver = l.ver

DiffMade ==
    pc \in {"triage", "recordRemoved", "syncEntities"} =>
        /\ dirChanged = DirChanged
        /\ toProcess = WithExistingIds
        /\ deletedIds = Deleted

\* An extracted file has the item of its inode, or a new one.
ResultsMade ==
    pc \in {"recordRemoved", "syncEntities"} =>
        /\ \A e \in results :
              \/ \E r \in fileReferences : r.id = e.id /\ r.ino = e.ino
              \/ e.id \notin Ids(fileReferences) \cup Ids(removedFiles)
        /\ \A e, f \in results : e.id = f.id => e.ino = f.ino
        /\ \A e \in results :
              e.fileId = e.ino /\ \E s \in scan : s.ino = e.ino
        /\ \A d \in dirResults :
              /\ \E s \in scan : s.ino = d.ino
              /\ \E l \in locations : l.id = d.id /\ l.ino = d.ino

\* What is ingested keeps the keys of locations.
IngestedKeys ==
    pc \in MergePhases =>
        /\ \A a, b \in Ingested : a.path = b.path => a = b
        /\ \A a \in Ingested, b \in Ingested \cup locations :
              BasenameScanHash(a) = BasenameScanHash(b) => a.id = b.id

Kept(l) == ~InScope(l.path) \/ \E v \in live : ScanHash(v) = ScanHash(l)

LocationsKnown ==
    IF pc = "syncLocations"
    THEN /\ \A l \in Ingested : HasRef(l)
         /\ \A l \in locations : Kept(l) => HasRef(l)
    ELSE \A l \in locations : HasRef(l)

LocInv ==
    /\ crashes = 0
    /\ Keys
    /\ Apart
    /\ ScanMade
    /\ DiffMade
    /\ ResultsMade
    /\ IngestedKeys
    /\ LocationsKnown

----------------------------------------------------------------------------
(* Rows and hashes. *)

LEMMA SameScanHash ==
    ASSUME NEW a, NEW b
    PROVE  ScanHash(a) = ScanHash(b) <=> a.path = b.path /\ a.ver = b.ver
  BY DEF ScanHash

LEMMA SameBasenameScanHash ==
    ASSUME NEW a, NEW b
    PROVE  BasenameScanHash(a) = BasenameScanHash(b)
              <=> /\ BaseName(a.path) = BaseName(b.path)
                  /\ a.ver = b.ver /\ a.ino = b.ino
  BY DEF BasenameScanHash

\* Two rows of a scan at one path are one row, files holding still.
LEMMA OneRowPerPath ==
    ASSUME ScanMade, pc \in ScanPhases, NEW e \in scan, NEW s \in scan,
           e.path = s.path
    PROVE  e.ver = s.ver /\ e.ino = s.ino
  BY DEF ScanMade

\* Every inode has one smallest known id, or none.
LEMMA OneExistingId ==
    ASSUME TypeOK, NEW i, NEW m \in Nat, NEW n \in Nat,
           IsExistingId(m, i), IsExistingId(n, i)
    PROVE  m = n
  <1>1. KnownIds(i) \subseteq Nat
    BY DEF KnownIds, TypeOK, RefRow
  <1> QED
    BY <1>1 DEF IsExistingId

\* The new ids count the new inodes: none is zero, and no two are the same.
LEMMA NewRefsRanked ==
    ASSUME toProcess \in SUBSET LocRow, NEW i \in NewRefs, NEW k \in NewRefs
    PROVE  /\ Cardinality({j \in NewRefs : j <= i}) \in Nat \ {0}
           /\ Cardinality({j \in NewRefs : j <= i})
                 = Cardinality({j \in NewRefs : j <= k}) => i = k
  <1> DEFINE UpTo(x) == {j \in NewRefs : j <= x}
  <1>1. NewRefs \subseteq Inodes
    BY DEF NewRefs, Extracted, LocRow
  <1>2. IsFiniteSet(NewRefs)
    BY <1>1, InodesAssumption, FS_Subset
  <1>3. \A x \in Nat : IsFiniteSet(UpTo(x)) /\ Cardinality(UpTo(x)) \in Nat
    BY <1>2, FS_Subset, FS_CardinalityType
  <1>4. \A x \in NewRefs : x \in Nat
    BY <1>1, InodesAssumption
  <1>5. Cardinality(UpTo(i)) # 0
    BY <1>3, <1>4, FS_EmptySet
  <1>6. ASSUME NEW x \in NewRefs, NEW y \in NewRefs, x < y
        PROVE  Cardinality(UpTo(x)) # Cardinality(UpTo(y))
    <2>1. x \in Nat /\ y \in Nat
      BY <1>4
    <2>2. UpTo(x) \in SUBSET UpTo(y)
      <3>1. \A z \in NewRefs : z <= x => z <= y
        BY <1>4, <1>6, <2>1
      <3> QED
        BY <3>1
    <2>3. y \in UpTo(y) /\ y \notin UpTo(x)
      BY <1>6, <2>1
    <2> QED
      BY <1>3, <2>1, <2>2, <2>3, FS_Subset
  <1>7. Cardinality(UpTo(i)) = Cardinality(UpTo(k)) => i = k
    <2>1. i < k \/ k < i \/ i = k
      BY <1>4
    <2> QED
      BY <1>6, <2>1
  <1>8. Cardinality(UpTo(i)) \in Nat
    BY <1>3, <1>4
  <1> QED
    BY <1>5, <1>7, <1>8

----------------------------------------------------------------------------
(* What does not touch the tables of a run. *)

LEMMA LocInit == Init => LocInv
  <1> SUFFICES ASSUME Init PROVE LocInv
    OBVIOUS
  <1>1. Keys
    BY DEF Init, Keys
  <1>4. Apart
    BY DEF Init, Apart, Ids
  <1>2. ScanMade /\ DiffMade /\ ResultsMade /\ IngestedKeys
    <2>1. pc = "idle" /\ scan = {} /\ live = {}
      BY DEF Init
    <2>2. pc \notin ScanPhases /\ pc \notin MergePhases
      BY <2>1 DEF ScanPhases, MergePhases
    <2> QED
      BY <2>1, <2>2 DEF ScanMade, DiffMade, ResultsMade, IngestedKeys
  <1>3. LocationsKnown
    BY DEF Init, LocationsKnown
  <1> QED
    BY <1>1, <1>2, <1>3, <1>4 DEF Init, LocInv

LEMMA LocFs ==
    ASSUME FsDuringIndex = FALSE, LocInv, FsStep
    PROVE  LocInv'
  <1>1. pc = "idle" /\ UNCHANGED <<tables, pc, run, crashes>>
    BY DEF FsStep, FsMayChange, Create, Modify, Move, Link, Unlink
  <1>2. Keys'
    BY <1>1 DEF LocInv, Keys, BasenameScanHash
  <1>3. Apart'
    BY <1>1 DEF LocInv, Apart, Hits, Ids
  <1>4. ScanMade'
    BY <1>1 DEF LocInv, ScanMade, ScanPhases
  <1>5. DiffMade' /\ ResultsMade' /\ IngestedKeys'
    BY <1>1 DEF DiffMade, ResultsMade, IngestedKeys, MergePhases
  <1>6. LocationsKnown'
    BY <1>1 DEF LocInv, LocationsKnown, HasRef
  <1> QED
    BY <1>1, <1>2, <1>3, <1>4, <1>5, <1>6 DEF LocInv

LEMMA LocUser ==
    ASSUME TypeOK, LocInv, UserStep
    PROVE  LocInv'
  <1>1. pc = "idle" /\ UNCHANGED <<world, pc, run, crashes>>
    BY DEF UserStep, TagItem, SetRank, Forget, ClearIndex, UserMayEdit
  <1>2. ScanMade' /\ DiffMade' /\ ResultsMade' /\ IngestedKeys'
    BY <1>1 DEF LocInv, ScanMade, ScanPhases, DiffMade, ResultsMade,
               IngestedKeys, MergePhases
  <1>3. ASSUME locations' \subseteq locations, removedFiles' \subseteq removedFiles,
               \A r \in fileReferences' : \E q \in fileReferences :
                   r.id = q.id /\ r.ino = q.ino,
               \A r, q \in fileReferences' : r.id = q.id => r = q,
               \A l \in locations' : \E r \in fileReferences' :
                   r.id = l.id /\ r.ino = l.ino
        PROVE  LocInv'
    <2>1. Keys'
      BY <1>3 DEF LocInv, Keys, BasenameScanHash
    <2>2. Apart'
      BY <1>1, <1>3 DEF LocInv, Apart, Ids
    <2>3. LocationsKnown'
      BY <1>1, <1>3 DEF LocationsKnown, HasRef
    <2> QED
      BY <1>1, <1>2, <2>1, <2>2, <2>3 DEF LocInv
  <1>4. \A l \in locations : HasRef(l)
    BY <1>1 DEF LocInv, LocationsKnown
  <1>5. ASSUME NEW l \in locations, TagItem(l)
        PROVE  LocInv'
    BY <1>3, <1>4, <1>5 DEF TagItem, LocInv, Keys, HasRef
  <1>6. ASSUME NEW i, SetRank(i)
        PROVE  LocInv'
    <2> DEFINE Ranked(r) == [r EXCEPT !.rank = IF r.id = i THEN 1 ELSE @]
    <2>1. fileReferences' = {Ranked(r) : r \in fileReferences}
      BY <1>6 DEF SetRank
    <2>2. \A r \in fileReferences : Ranked(r).id = r.id /\ Ranked(r).ino = r.ino
      BY DEF TypeOK, RefRow
    <2> HIDE DEF Ranked
    <2>3. \A r, q \in fileReferences' : r.id = q.id => r = q
      BY <2>1, <2>2 DEF LocInv, Keys
    <2>4. UNCHANGED <<locations, removedFiles>>
      BY <1>6 DEF SetRank
    <2> QED
      BY <1>3, <1>4, <2>1, <2>2, <2>3, <2>4 DEF HasRef
  <1>7. ASSUME NEW i, Forget(i)
        PROVE  LocInv'
    BY <1>3, <1>4, <1>7 DEF Forget, LocInv, Keys, HasRef
  <1>8. CASE ClearIndex
    BY <1>3, <1>8 DEF ClearIndex
  <1> QED
    BY <1>5, <1>6, <1>7, <1>8 DEF UserStep

----------------------------------------------------------------------------
(* The scan and the restoring of lost items. *)

LEMMA LocBegin ==
    ASSUME LocInv, NEW rs \in SUBSET Dirs, Begin(rs)
    PROVE  LocInv'
  <1>1. pc' = "scan" /\ pc = "idle" /\ UNCHANGED <<tables, scan, live, crashes>>
    BY DEF Begin
  <1>2. scan' = {} /\ live' = {}
    BY <1>1 DEF LocInv, ScanMade
  <1>3. Keys'
    BY <1>1 DEF LocInv, Keys, BasenameScanHash
  <1>4. Apart'
    BY <1>1 DEF LocInv, Apart, Ids
  <1>5. ScanMade'
    <2>1. cache' \in Lookups({[id |-> l.id, hash |-> ScanHash(l)] :
                                  l \in locations'})
      BY <1>1 DEF Begin, Lookups, ScanHash
    <2> QED
      BY <1>1, <1>2, <2>1 DEF ScanMade
  <1>6. DiffMade' /\ ResultsMade' /\ IngestedKeys'
    BY <1>1 DEF DiffMade, ResultsMade, IngestedKeys, MergePhases
  <1>7. LocationsKnown'
    BY <1>1 DEF LocInv, LocationsKnown, HasRef
  <1> QED
    BY <1>1, <1>3, <1>4, <1>5, <1>6, <1>7 DEF LocInv

LEMMA LocScan ==
    ASSUME FsDuringIndex = FALSE, LocInv, Scan
    PROVE  LocInv'
  <1> DEFINE seen == {[path |-> p, ver |-> fs[p].ver, ino |-> fs[p].ino] :
                         p \in {q \in pending : Exists(q)}}
             known == {[id |-> l.id, hash |-> ScanHash(l)] : l \in locations}
  <1>1. Walk(pending)
    BY DEF Scan
  <1>2. /\ pc = "scan" /\ pc' \in {"scan", "rediscover"}
        /\ UNCHANGED <<fs, tables, cache, crashes>>
        /\ scan' = scan \cup {e \in seen : \A c \in cache : c.hash # ScanHash(e)}
        /\ live' = live \cup
              {[id |-> m[1].id, path |-> m[2].path, ver |-> m[2].ver] :
                  m \in {x \in cache \X seen : x[1].hash = ScanHash(x[2])}}
    BY <1>1 DEF Walk
  <1>3. Keys'
    BY <1>2 DEF LocInv, Keys, BasenameScanHash
  <1>4. Apart'
    BY <1>2 DEF LocInv, Apart, Ids
  <1>5. cache \in Lookups(known)
    BY <1>2 DEF LocInv, ScanMade
  <1>6. /\ \A l \in locations : \E c \in cache : c.hash = ScanHash(l)
        /\ \A c \in cache : \E l \in locations :
              c.id = l.id /\ c.hash = ScanHash(l)
    <2>1. cache \subseteq known
      BY <1>5 DEF Lookups
    <2>2. \A k \in known : \E c \in cache : c.hash = k.hash
      BY <1>5 DEF Lookups
    <2>3. ASSUME NEW l \in locations
          PROVE  \E c \in cache : c.hash = ScanHash(l)
      <3>1. [id |-> l.id, hash |-> ScanHash(l)] \in known
        OBVIOUS
      <3> QED
        BY <2>2, <3>1
    <2>4. ASSUME NEW c \in cache
          PROVE  \E l \in locations : c.id = l.id /\ c.hash = ScanHash(l)
      BY <2>1
    <2> QED
      BY <2>3, <2>4
  <1>7. /\ \A e \in scan : fs[e.path].ino = e.ino /\ fs[e.path].ver = e.ver
        /\ \A e \in scan, l \in locations : ScanHash(e) # ScanHash(l)
        /\ \A v \in live : \E l \in locations :
              v.id = l.id /\ v.path = l.path /\ v.ver = l.ver
    BY <1>2 DEF LocInv, ScanMade, ScanPhases
  <1>8. \A e \in seen : fs[e.path].ino = e.ino /\ fs[e.path].ver = e.ver
    OBVIOUS
  <1>9. \A v \in live' : \E l \in locations :
           v.id = l.id /\ v.path = l.path /\ v.ver = l.ver
    <2> SUFFICES ASSUME NEW c \in cache, NEW e \in seen, c.hash = ScanHash(e)
                 PROVE  \E l \in locations :
                           c.id = l.id /\ e.path = l.path /\ e.ver = l.ver
      BY <1>2, <1>7
    <2>1. PICK l \in locations : c.id = l.id /\ c.hash = ScanHash(l)
      BY <1>6
    <2> QED
      BY <2>1, SameScanHash
  <1> HIDE DEF seen, known
  <1>10. ScanMade'
    <2>1. \A e \in scan' : fs[e.path].ino = e.ino /\ fs[e.path].ver = e.ver
      BY <1>2, <1>7, <1>8
    <2>2. \A e \in scan', l \in locations : ScanHash(e) # ScanHash(l)
      BY <1>2, <1>6, <1>7
    <2>3. (cache \in Lookups(known))'
      BY <1>2, <1>5 DEF Lookups, known, ScanHash
    <2> QED
      BY <1>2, <1>9, <2>1, <2>2, <2>3 DEF ScanMade, known, ScanHash
  <1>11. DiffMade' /\ ResultsMade' /\ IngestedKeys'
    BY <1>2 DEF DiffMade, ResultsMade, IngestedKeys, MergePhases
  <1>12. LocationsKnown'
    BY <1>2 DEF LocInv, LocationsKnown, HasRef
  <1> QED
    BY <1>2, <1>3, <1>4, <1>10, <1>11, <1>12 DEF LocInv

\* What Hits holds of an id is what every row of removed_files says of it.
LEMMA HitRow ==
    ASSUME NEW h \in Hits
    PROVE  \E r \in removedFiles :
              r.id = h.id /\ r.ino = h.ino /\ r.rank = h.rank
  <1>1. PICK m \in removedFiles \X scan :
           /\ BasenameScanHash(m[1]) = BasenameScanHash(m[2])
           /\ h = [id |-> m[1].id, ino |-> m[2].ino, rank |-> m[1].rank]
    BY DEF Hits
  <1>2. m[1].ino = m[2].ino
    BY <1>1, SameBasenameScanHash
  <1> QED
    BY <1>1, <1>2

LEMMA ScanStays ==
    ASSUME ScanMade, pc \in ScanPhases, pc' \in ScanPhases \ {"scan"},
           UNCHANGED <<fs, scan, live, locations>>
    PROVE  ScanMade'
  BY DEF ScanMade, ScanPhases, ScanHash

LEMMA LocAppendRestored ==
    ASSUME TypeOK, LocInv, AppendRestored
    PROVE  LocInv'
  <1>1. /\ pc = "rediscover" /\ pc' \in {"diff", "restore"}
        /\ removedFiles # {} => pc' = "restore"
        /\ fileReferences' = fileReferences \cup Hits
        /\ UNCHANGED <<world, locations, removedFiles, run, crashes>>
    BY DEF AppendRestored
  <1>2. Ids(Hits) \subseteq Ids(removedFiles)
    BY HitRow DEF Ids
  <1>3. Ids(fileReferences) \cap Ids(removedFiles) = {}
    BY <1>1 DEF LocInv, Apart
  <1>4. Keys'
    <2>1. \A h, k \in Hits : h.id = k.id => h = k
      <3> SUFFICES ASSUME NEW h \in Hits, NEW k \in Hits, h.id = k.id
                   PROVE  h = k
        OBVIOUS
      <3>1. h.ino = k.ino /\ h.rank = k.rank
        BY HitRow DEF LocInv, Keys
      <3> QED
        BY <3>1 DEF Hits
    <2>2. \A h \in Hits, r \in fileReferences : h.id # r.id
      BY <1>2, <1>3 DEF Ids
    <2>3. \A r, q \in fileReferences' : r.id = q.id => r = q
      BY <1>1, <2>1, <2>2 DEF LocInv, Keys
    <2> QED
      BY <1>1, <2>3 DEF LocInv, Keys, BasenameScanHash
  <1>5. Apart'
    <2>1. Hits' = Hits
      BY <1>1 DEF Hits, BasenameScanHash
    <2>2. Ids(removedFiles') # {} => pc' = "restore"
      BY <1>1 DEF Ids
    <2>3. Ids(fileReferences') = Ids(fileReferences) \cup Ids(Hits)
      BY <1>1 DEF Ids
    <2> QED
      BY <1>1, <1>3, <2>1, <2>2, <2>3 DEF Apart
  <1>6. ScanMade'
    BY <1>1, ScanStays DEF LocInv, ScanPhases
  <1>7. DiffMade' /\ ResultsMade' /\ IngestedKeys'
    BY <1>1 DEF DiffMade, ResultsMade, IngestedKeys, MergePhases
  <1>8. LocationsKnown'
    BY <1>1 DEF LocInv, LocationsKnown, HasRef
  <1> QED
    BY <1>1, <1>4, <1>5, <1>6, <1>7, <1>8 DEF LocInv

LEMMA LocDropRestored ==
    ASSUME LocInv, DropRestored
    PROVE  LocInv'
  <1>1. /\ pc = "restore" /\ pc' = "diff"
        /\ removedFiles' = {r \in removedFiles : r.id \notin Ids(Hits)}
        /\ UNCHANGED <<world, fileReferences, locations, run, history>>
    BY DEF DropRestored
  <1>2. Keys'
    BY <1>1 DEF LocInv, Keys, BasenameScanHash
  <1>3. Apart'
    <2>1. \A id \in Ids(removedFiles') : id \in Ids(removedFiles) \ Ids(Hits)
      BY <1>1 DEF Ids
    <2>2. Ids(fileReferences') = Ids(fileReferences)
      BY <1>1 DEF Ids
    <2> QED
      BY <1>1, <2>1, <2>2 DEF LocInv, Apart
  <1>4. ScanMade'
    BY <1>1, ScanStays DEF LocInv, ScanPhases
  <1>5. DiffMade' /\ ResultsMade' /\ IngestedKeys'
    BY <1>1 DEF DiffMade, ResultsMade, IngestedKeys, MergePhases
  <1>6. LocationsKnown'
    BY <1>1 DEF LocInv, LocationsKnown, HasRef
  <1> QED
    BY <1>1, <1>2, <1>3, <1>4, <1>5, <1>6 DEF LocInv

LEMMA LocDiff ==
    ASSUME LocInv, Diff
    PROVE  LocInv'
  <1>1. /\ pc = "diff" /\ pc' = "triage"
        /\ dirChanged' = DirChanged /\ toProcess' = WithExistingIds
        /\ deletedIds' = Deleted
        /\ UNCHANGED <<world, tables, roots, scan, live, history>>
    BY DEF Diff
  <1>2. DirChanged' = DirChanged
    BY <1>1 DEF DirChanged, BasenameScanHash
  <1>3. WithExistingIds' = WithExistingIds
    BY <1>1, <1>2 DEF WithExistingIds, Ids, PathsOf, IsExistingId, KnownIds
  <1>4. Deleted' = Deleted
    BY <1>1 DEF Deleted, Ids, InScope
  <1>5. Keys'
    BY <1>1 DEF LocInv, Keys, BasenameScanHash
  <1>6. Apart'
    BY <1>1 DEF LocInv, Apart, Ids
  <1>7. ScanMade'
    BY <1>1, ScanStays DEF LocInv, ScanPhases
  <1>8. DiffMade'
    BY <1>1, <1>2, <1>3, <1>4 DEF DiffMade
  <1>9. ResultsMade' /\ IngestedKeys'
    BY <1>1 DEF ResultsMade, IngestedKeys, MergePhases
  <1>10. LocationsKnown'
    BY <1>1 DEF LocInv, LocationsKnown, HasRef
  <1> QED
    BY <1>1, <1>5, <1>6, <1>7, <1>8, <1>9, <1>10 DEF LocInv

----------------------------------------------------------------------------
(* The triage: which item an extracted file gets. *)

\* Where a row to be ingested comes from: a scan row whose version no location
\* has under its name, or one that a location of another path has.
LEMMA ToProcessRow ==
    ASSUME NEW x \in WithExistingIds
    PROVE  /\ \E s \in scan : x.path = s.path /\ x.ver = s.ver /\ x.ino = s.ino
           /\ x.path \notin PathsOf(DirChanged)
           /\ IsExistingId(x.id, x.ino)
  BY DEF WithExistingIds

LEMMA DirChangedRow ==
    ASSUME NEW d \in DirChanged
    PROVE  \E s \in scan, l \in locations :
              /\ d.path = s.path /\ d.ver = s.ver /\ d.ino = s.ino
              /\ d.id = l.id /\ BasenameScanHash(s) = BasenameScanHash(l)
  <1>1. PICK m \in scan \X locations :
           /\ BasenameScanHash(m[1]) = BasenameScanHash(m[2])
           /\ d = [id |-> m[2].id, path |-> m[1].path, ver |-> m[1].ver,
                   ino |-> m[1].ino, from |-> m[2].path]
    BY DEF DirChanged
  <1> QED
    BY <1>1

LEMMA ToProcessIsNew ==
    ASSUME ScanMade, pc \in ScanPhases, NEW x \in WithExistingIds,
           NEW l \in locations
    PROVE  BasenameScanHash(x) # BasenameScanHash(l)
  <1> SUFFICES ASSUME BasenameScanHash(x) = BasenameScanHash(l) PROVE FALSE
    OBVIOUS
  <1>1. PICK s \in scan : x.path = s.path /\ x.ver = s.ver /\ x.ino = s.ino
    BY ToProcessRow
  <1>2. BasenameScanHash(s) = BasenameScanHash(l)
    BY <1>1, SameBasenameScanHash
  <1>3. s.path # l.path
    BY <1>2, SameBasenameScanHash, SameScanHash DEF ScanMade
  <1>4. s.path \in PathsOf(DirChanged)
    <2> DEFINE d == [id |-> l.id, path |-> s.path, ver |-> s.ver,
                     ino |-> s.ino, from |-> l.path]
            m == <<s, l>>
    <2>1. /\ m \in scan \X locations
          /\ BasenameScanHash(m[1]) = BasenameScanHash(m[2])
          /\ m[1].path # m[2].path
          /\ d = [id |-> m[2].id, path |-> m[1].path, ver |-> m[1].ver,
                  ino |-> m[1].ino, from |-> m[2].path]
          /\ d.path = s.path
      BY <1>2, <1>3
    <2> HIDE DEF d, m
    <2>2. d \in DirChanged
      BY <2>1 DEF DirChanged
    <2> QED
      BY <2>1, <2>2 DEF PathsOf
  <1> QED
    BY <1>1, <1>4, ToProcessRow

LEMMA LocTriage ==
    ASSUME TypeOK, LocInv, Triage
    PROVE  LocInv'
  <1>1. /\ pc = "triage" /\ pc' = "recordRemoved"
        /\ UNCHANGED <<world, tables, roots, scan, live, dirChanged, toProcess,
                       deletedIds, history>>
        /\ dirResults' = {[id |-> e.id, path |-> e.path, ver |-> e.ver,
                           ino |-> e.ino] : e \in Extracted(dirChanged)}
    BY DEF Triage
  <1>2. PICK last \in Ids(fileReferences) \cup Ids(removedFiles) \cup {FileLo - 1} :
           /\ LastId(last)
           /\ results' = {[id |-> Assigned(e, last), path |-> e.path,
                           ver |-> e.ver, ino |-> e.ino,
                           fileId |-> fs[e.path].ino] : e \in Extracted(toProcess)}
    BY DEF Triage
  <1>3. dirChanged = DirChanged /\ toProcess = WithExistingIds
    BY <1>1 DEF LocInv, DiffMade
  <1>4. ScanMade /\ pc \in ScanPhases /\ Keys
    BY <1>1 DEF LocInv, ScanPhases
  <1>5. /\ toProcess \in SUBSET LocRow /\ dirChanged \in SUBSET MovedRow
        /\ \A id \in Ids(fileReferences) \cup Ids(removedFiles) : id \in Nat
    BY DEF TypeOK, Ids, RefRow, RemovedRow
  <1>6. /\ last \in Nat
        /\ \A id \in Ids(fileReferences) \cup Ids(removedFiles) : id <= last
    BY <1>2, <1>5, BoundsAssumption DEF LastId
  <1>7. ASSUME NEW e \in Extracted(toProcess)
        PROVE  IF e.id # NoId
               THEN \E r \in fileReferences : r.id = e.id /\ r.ino = e.ino
               ELSE e.ino \in NewRefs
    <2>1. e \in toProcess /\ e \in WithExistingIds
      BY <1>3, <1>7 DEF Extracted
    <2>2. IsExistingId(e.id, e.ino)
      BY <2>1, ToProcessRow
    <2>3. e.id # NoId => e.id \in KnownIds(e.ino)
      BY <2>2 DEF IsExistingId
    <2> QED
      BY <1>7, <2>3 DEF KnownIds, NewRefs
  <1> DEFINE Id(e) == Assigned(e, last)
  <1>8. ASSUME NEW e \in Extracted(toProcess), e.id = NoId
        PROVE  Id(e) \in Nat /\ Id(e) > last
    <2>1. Cardinality({j \in NewRefs : j <= e.ino}) \in Nat \ {0}
      BY <1>5, <1>7, <1>8, NewRefsRanked
    <2> QED
      BY <1>6, <1>8, <2>1 DEF Assigned
  <1>9. ASSUME NEW e \in Extracted(toProcess), NEW f \in Extracted(toProcess)
        PROVE  Id(e) = Id(f) <=> e.ino = f.ino
    <2>1. e \in LocRow /\ f \in LocRow
      BY <1>5 DEF Extracted
    <2>2. e.id = f.id \/ e.ino # f.ino
      <3>1. e \in WithExistingIds /\ f \in WithExistingIds
        BY <1>3 DEF Extracted
      <3>2. IsExistingId(e.id, e.ino) /\ IsExistingId(f.id, f.ino)
        BY <3>1, ToProcessRow
      <3> QED
        BY <2>1, <3>2, OneExistingId DEF LocRow
    <2>3. CASE e.id # NoId /\ f.id # NoId
      <3>1. Id(e) = e.id /\ Id(f) = f.id
        BY <2>3 DEF Assigned
      <3>2. e.id = f.id => e.ino = f.ino
        BY <1>4, <1>7, <2>3 DEF Keys
      <3> QED
        BY <2>2, <3>1, <3>2
    <2>4. CASE e.id = NoId /\ f.id = NoId
      <3>1. e.ino \in NewRefs /\ f.ino \in NewRefs
        BY <1>7, <2>4
      <3> DEFINE Rank(i) == Cardinality({j \in NewRefs : j <= i})
      <3>2. /\ Rank(e.ino) \in Nat /\ Rank(f.ino) \in Nat
            /\ Rank(e.ino) = Rank(f.ino) => e.ino = f.ino
        BY <1>5, <3>1, NewRefsRanked
      <3>3. Id(e) = last + Rank(e.ino) /\ Id(f) = last + Rank(f.ino)
        BY <2>4 DEF Assigned
      <3> HIDE DEF Rank, Id
      <3> QED
        BY <1>6, <3>2, <3>3
    <2>5. ASSUME NEW g \in Extracted(toProcess), NEW n \in Extracted(toProcess),
                 g.id # NoId, n.id = NoId
          PROVE  Id(g) # Id(n)
      <3>1. Id(g) = g.id /\ g.id \in Ids(fileReferences)
        BY <1>7, <2>5 DEF Assigned, Ids
      <3>2. g.id \in Nat /\ g.id <= last
        BY <1>5, <1>6, <3>1
      <3> QED
        BY <1>6, <1>8, <2>5, <3>1, <3>2
    <2> QED
      BY <2>2, <2>3, <2>4, <2>5
  <1> HIDE DEF Id
  <1>10. \A a \in results' : \E e \in Extracted(toProcess) :
            a = [id |-> Id(e), path |-> e.path, ver |-> e.ver, ino |-> e.ino,
                 fileId |-> fs[e.path].ino]
    BY <1>2 DEF Id
  <1>11. ASSUME NEW e \in Extracted(toProcess)
         PROVE  /\ \E s \in scan : e.path = s.path /\ e.ver = s.ver /\ e.ino = s.ino
                /\ e.path \notin PathsOf(DirChanged)
                /\ fs[e.path].ino = e.ino
                /\ \A l \in locations :
                      BasenameScanHash(e) # BasenameScanHash(l)
    <2>1. e \in WithExistingIds
      BY <1>3 DEF Extracted
    <2> QED
      BY <1>4, <2>1, ToProcessRow, ToProcessIsNew DEF ScanMade
  <1>12. \A d \in dirResults' : \E e \in DirChanged :
            d = [id |-> e.id, path |-> e.path, ver |-> e.ver, ino |-> e.ino]
    BY <1>1, <1>3 DEF Extracted
  <1>13. Keys'
    BY <1>1 DEF LocInv, Keys, BasenameScanHash
  <1>14. Apart'
    BY <1>1 DEF LocInv, Apart, Ids
  <1>15. ScanMade'
    BY <1>1, ScanStays DEF LocInv, ScanPhases
  <1>16. DiffMade'
    <2>1. DirChanged' = DirChanged
      BY <1>1 DEF DirChanged, BasenameScanHash
    <2>2. WithExistingIds' = WithExistingIds
      BY <1>1, <2>1 DEF WithExistingIds, Ids, PathsOf, IsExistingId, KnownIds
    <2>3. Deleted' = Deleted
      BY <1>1 DEF Deleted, Ids, InScope
    <2> QED
      BY <1>1, <2>1, <2>2, <2>3 DEF LocInv, DiffMade
  <1>17. ResultsMade'
    <2>1. ASSUME NEW a \in results'
          PROVE  /\ \/ \E r \in fileReferences : r.id = a.id /\ r.ino = a.ino
                    \/ a.id \notin Ids(fileReferences) \cup Ids(removedFiles)
                 /\ a.fileId = a.ino /\ \E s \in scan : s.ino = a.ino
      <3>1. PICK e \in Extracted(toProcess) :
               a = [id |-> Id(e), path |-> e.path, ver |-> e.ver, ino |-> e.ino,
                    fileId |-> fs[e.path].ino]
        BY <1>10
      <3>2. CASE e.id # NoId
        <4>1. Id(e) = e.id
          BY <3>2 DEF Id, Assigned
        <4> QED
          BY <1>7, <1>11, <3>1, <3>2, <4>1
      <3>3. CASE e.id = NoId
        <4>1. Id(e) \notin Ids(fileReferences) \cup Ids(removedFiles)
          BY <1>5, <1>6, <1>8, <3>3
        <4> QED
          BY <1>11, <3>1, <4>1
      <3> QED
        BY <3>2, <3>3
    <2>2. \A a, b \in results' : a.id = b.id => a.ino = b.ino
      BY <1>9, <1>10
    <2>3. ASSUME NEW d \in dirResults'
          PROVE  /\ \E s \in scan : s.ino = d.ino
                 /\ \E l \in locations : l.id = d.id /\ l.ino = d.ino
      <3>1. PICK e \in DirChanged :
               d = [id |-> e.id, path |-> e.path, ver |-> e.ver, ino |-> e.ino]
        BY <1>12
      <3>2. PICK s \in scan, l \in locations :
               /\ e.path = s.path /\ e.ver = s.ver /\ e.ino = s.ino
               /\ e.id = l.id /\ BasenameScanHash(s) = BasenameScanHash(l)
        BY DirChangedRow
      <3> QED
        BY <3>1, <3>2, SameBasenameScanHash
    <2> QED
      BY <1>1, <2>1, <2>2, <2>3 DEF ResultsMade, Ids
  <1>18. IngestedKeys'
    <2> DEFINE New(a) ==
                 /\ \E e \in Extracted(toProcess) :
                       /\ a.id = Id(e) /\ a.path = e.path
                       /\ a.ver = e.ver /\ a.ino = e.ino
               Moved(a) ==
                 /\ a.path \in PathsOf(DirChanged)
                 /\ \E l \in locations :
                       /\ a.id = l.id
                       /\ BasenameScanHash(a) = BasenameScanHash(l)
    <2>1. ASSUME NEW a \in Ingested'
          PROVE  /\ a = [id |-> a.id, path |-> a.path, ver |-> a.ver, ino |-> a.ino]
                 /\ \E s \in scan :
                       a.path = s.path /\ a.ver = s.ver /\ a.ino = s.ino
                 /\ New(a) \/ Moved(a)
      <3>1. CASE \E e \in results' : a = [id |-> e.id, path |-> e.path,
                                          ver |-> e.ver, ino |-> e.ino]
        <4>1. PICK e \in Extracted(toProcess) :
                 a = [id |-> Id(e), path |-> e.path, ver |-> e.ver, ino |-> e.ino]
          BY <1>10, <3>1
        <4> QED
          BY <1>11, <4>1
      <3>2. CASE a \in dirResults'
        <4>1. PICK e \in DirChanged :
                 a = [id |-> e.id, path |-> e.path, ver |-> e.ver, ino |-> e.ino]
          BY <1>12, <3>2
        <4>2. PICK s \in scan, l \in locations :
                 /\ e.path = s.path /\ e.ver = s.ver /\ e.ino = s.ino
                 /\ e.id = l.id /\ BasenameScanHash(s) = BasenameScanHash(l)
          BY DirChangedRow
        <4>3. BasenameScanHash(a) = BasenameScanHash(l)
          BY <4>1, <4>2, SameBasenameScanHash
        <4>4. a.path \in PathsOf(DirChanged)
          BY <4>1 DEF PathsOf
        <4> QED
          BY <4>1, <4>2, <4>3, <4>4
      <3> QED
        BY <3>1, <3>2 DEF Ingested
    <2>2. ASSUME NEW a, New(a)
          PROVE  /\ a.path \notin PathsOf(DirChanged)
                 /\ \A l \in locations :
                       BasenameScanHash(a) # BasenameScanHash(l)
      BY <1>11, <2>2, SameBasenameScanHash
    <2>3. ASSUME NEW a, NEW b, New(a), New(b), a.ino = b.ino
          PROVE  a.id = b.id
      BY <1>9, <2>3
    <2> HIDE DEF New
    <2>4. ASSUME NEW a, NEW b, New(a) \/ Moved(a), New(b) \/ Moved(b),
                 BasenameScanHash(a) = BasenameScanHash(b)
          PROVE  a.id = b.id
      <3>1. CASE New(a) /\ New(b)
        BY <2>3, <2>4, <3>1, SameBasenameScanHash
      <3>2. CASE Moved(a) /\ Moved(b)
        BY <1>4, <2>4, <3>2 DEF Keys
      <3>3. CASE New(a) /\ Moved(b)
        BY <2>2, <2>4, <3>3
      <3>4. CASE New(b) /\ Moved(a)
        BY <2>2, <2>4, <3>4
      <3> QED
        BY <2>4, <3>1, <3>2, <3>3, <3>4
    <2>5. ASSUME NEW a \in Ingested', NEW b \in Ingested', a.path = b.path
          PROVE  a = b
      <3>1. a.ver = b.ver /\ a.ino = b.ino
        BY <1>4, <2>1, <2>5, OneRowPerPath
      <3>2. a.id = b.id
        BY <2>1, <2>4, <2>5, <3>1, SameBasenameScanHash
      <3> QED
        BY <2>1, <2>5, <3>1, <3>2
    <2>6. ASSUME NEW a \in Ingested', NEW l \in locations,
                 BasenameScanHash(a) = BasenameScanHash(l)
          PROVE  a.id = l.id
      <3>1. Moved(a)
        BY <2>1, <2>2, <2>6
      <3> QED
        BY <1>4, <2>6, <3>1 DEF Keys
    <2> QED
      BY <1>1, <2>1, <2>4, <2>5, <2>6 DEF IngestedKeys, BasenameScanHash
  <1>19. LocationsKnown'
    BY <1>1 DEF LocInv, LocationsKnown, HasRef
  <1> QED
    BY <1>1, <1>13, <1>14, <1>15, <1>16, <1>17, <1>18, <1>19 DEF LocInv

----------------------------------------------------------------------------
(* The merges. *)

LEMMA LocRecordRemoved ==
    ASSUME TypeOK, LocInv, RecordRemoved
    PROVE  LocInv'
  <1> DEFINE Lost == {[id |-> m[1].id, path |-> m[1].path, ver |-> m[1].ver,
                       ino |-> m[1].ino, rank |-> m[2].rank] :
                         m \in {x \in locations \X fileReferences :
                                   /\ x[1].id = x[2].id
                                   /\ x[1].id \in deletedIds \cap Ids(userTags)}}
  <1>1. /\ pc = "recordRemoved" /\ pc' = "syncEntities"
        /\ removedFiles' = removedFiles \cup Lost
        /\ UNCHANGED <<world, fileReferences, locations, run, history>>
    BY DEF RecordRemoved
  <1>2. \A n \in Lost : n.id \in deletedIds /\ n.id \in Ids(fileReferences)
    BY DEF Ids
  <1>3. \A n \in Lost : \E r \in fileReferences :
           r.id = n.id /\ r.rank = n.rank /\ r.ino = n.ino
    <2> SUFFICES ASSUME NEW l \in locations, NEW r \in fileReferences,
                        l.id = r.id
                 PROVE  r.ino = l.ino
      OBVIOUS
    <2>1. PICK q \in fileReferences : q.id = l.id /\ q.ino = l.ino
      BY <1>1 DEF LocInv, LocationsKnown, HasRef
    <2> QED
      BY <2>1 DEF LocInv, Keys
  <1> HIDE DEF Lost
  <1>4. Ids(fileReferences) \cap Ids(removedFiles) = {}
    BY <1>1 DEF LocInv, Apart
  <1>5. Keys'
    <2>1. \A r, q \in removedFiles' : r.id = q.id => r.ino = q.ino /\ r.rank = q.rank
      <3>1. \A n, m \in Lost : n.id = m.id => n.ino = m.ino /\ n.rank = m.rank
        BY <1>3 DEF LocInv, Keys
      <3>2. \A n \in Lost, r \in removedFiles : n.id # r.id
        BY <1>2, <1>4 DEF Ids
      <3> QED
        BY <1>1, <3>1, <3>2 DEF LocInv, Keys
    <2> QED
      BY <1>1, <2>1 DEF LocInv, Keys, BasenameScanHash
  <1>6. Ids(removedFiles') = Ids(removedFiles) \cup Ids(Lost)
    BY <1>1 DEF Ids
  <1>7. Ids(Lost) \subseteq deletedIds \cap Ids(fileReferences)
    BY <1>2 DEF Ids
  <1>8. Apart'
    <2>1. Ids(fileReferences') = Ids(fileReferences)
      BY <1>1 DEF Ids
    <2> QED
      BY <1>1, <1>4, <1>6, <1>7, <2>1 DEF Apart
  <1>9. ScanMade'
    BY <1>1, ScanStays DEF LocInv, ScanPhases
  <1>10. DiffMade'
    <2>1. DirChanged' = DirChanged
      BY <1>1 DEF DirChanged, BasenameScanHash
    <2>2. WithExistingIds' = WithExistingIds
      BY <1>1, <2>1 DEF WithExistingIds, Ids, PathsOf, IsExistingId, KnownIds
    <2>3. Deleted' = Deleted
      BY <1>1 DEF Deleted, Ids, InScope
    <2> QED
      BY <1>1, <2>1, <2>2, <2>3 DEF LocInv, DiffMade
  <1>11. ResultsMade'
    <2>1. Ids(fileReferences') \cup Ids(removedFiles')
             = Ids(fileReferences) \cup Ids(removedFiles)
      BY <1>1, <1>6, <1>7 DEF Ids
    <2> QED
      BY <1>1, <2>1 DEF LocInv, ResultsMade
  <1>12. IngestedKeys'
    BY <1>1 DEF LocInv, IngestedKeys, MergePhases, Ingested, BasenameScanHash
  <1>13. LocationsKnown'
    BY <1>1 DEF LocInv, LocationsKnown, HasRef
  <1> QED
    BY <1>1, <1>5, <1>8, <1>9, <1>10, <1>11, <1>12, <1>13 DEF LocInv

\* query_deleted spares the items of the roots' other side, of the live
\* locations and of the inodes that were scanned.
LEMMA DeletedSpares ==
    /\ \A l \in locations : ~InScope(l.path) => l.id \notin Deleted
    /\ \A v \in live : v.id \notin Deleted
    /\ \A r \in fileReferences, s \in scan : r.ino = s.ino => r.id \notin Deleted
  BY DEF Deleted, Ids

LEMMA LocSyncEntities ==
    ASSUME TypeOK, LocInv, SyncEntities
    PROVE  LocInv'
  <1>1. /\ pc = "syncEntities" /\ pc' = "syncLocations"
        /\ UNCHANGED <<world, locations, removedFiles, run, history>>
    BY DEF SyncEntities
  <1>2. PICK first \in SUBSET results :
           /\ Ids(first) = Ids(results)
           /\ \A a, b \in first : a.id = b.id => a = b
           /\ fileReferences' =
                 {r \in fileReferences : r.id \notin Ids(results) \cup deletedIds}
                 \cup {[id |-> e.id, ino |-> e.fileId,
                        rank |-> InheritedRank(e.id)] : e \in first}
    BY DEF SyncEntities
  <1>3. deletedIds = Deleted /\ ScanMade /\ Keys /\ ResultsMade
    BY <1>1 DEF LocInv, DiffMade
  <1>4. ASSUME NEW e \in results
        PROVE  \E r \in fileReferences' : r.id = e.id /\ r.ino = e.ino
    <2>1. PICK f \in first : f.id = e.id
      BY <1>2 DEF Ids
    <2>2. f.fileId = e.ino
      BY <1>1, <1>2, <1>3, <2>1 DEF ResultsMade
    <2>3. [id |-> f.id, ino |-> f.fileId, rank |-> InheritedRank(f.id)]
             \in fileReferences'
      BY <1>2
    <2> QED
      BY <2>1, <2>2, <2>3
  <1>5. ASSUME NEW r \in fileReferences, r.id \notin deletedIds
        PROVE  \E q \in fileReferences' : q.id = r.id /\ q.ino = r.ino
    <2>1. CASE r.id \notin Ids(results)
      BY <1>2, <1>5, <2>1
    <2>2. CASE r.id \in Ids(results)
      <3>1. PICK e \in results : e.id = r.id
        BY <2>2 DEF Ids
      <3>2. e.ino = r.ino
        BY <1>1, <1>3, <3>1 DEF ResultsMade, Keys, Ids
      <3> QED
        BY <1>4, <3>1, <3>2
    <2> QED
      BY <2>1, <2>2
  <1>6. Keys'
    <2>1. ASSUME NEW r \in fileReferences', NEW q \in fileReferences', r.id = q.id
          PROVE  r = q
      <3>1. \A e \in first : e.id \in Ids(results)
        BY DEF Ids
      <3> QED
        BY <1>2, <1>3, <2>1, <3>1 DEF Keys
    <2> QED
      BY <1>1, <1>3, <2>1 DEF Keys, BasenameScanHash
  <1>7. Apart'
    <2>1. ASSUME NEW r \in fileReferences', r.id \in Ids(removedFiles)
          PROVE  FALSE
      <3>1. CASE r \in fileReferences /\ r.id \notin deletedIds
        BY <1>1, <2>1, <3>1 DEF LocInv, Apart, Ids
      <3>2. CASE \E e \in results : e.id = r.id
        <4>1. PICK e \in results : e.id = r.id
          BY <3>2
        <4>2. PICK q \in fileReferences : q.id = e.id /\ q.ino = e.ino
          BY <1>1, <1>3, <2>1, <4>1 DEF ResultsMade
        <4>3. q.id \notin deletedIds
          BY <1>1, <1>3, <4>2, DeletedSpares DEF ResultsMade
        <4> QED
          BY <1>1, <2>1, <4>1, <4>2, <4>3 DEF LocInv, Apart, Ids
      <3> QED
        BY <1>2, <3>1, <3>2
    <2> QED
      BY <1>1, <2>1 DEF Apart, Ids
  <1>8. ScanMade'
    BY <1>1, ScanStays DEF LocInv, ScanPhases
  <1>9. DiffMade' /\ ResultsMade'
    BY <1>1 DEF DiffMade, ResultsMade
  <1>10. IngestedKeys'
    BY <1>1 DEF LocInv, IngestedKeys, MergePhases, Ingested, BasenameScanHash
  <1>11. ASSUME NEW l \in locations, l.id \notin deletedIds
         PROVE  \E q \in fileReferences' : q.id = l.id /\ q.ino = l.ino
    <2>1. PICK r \in fileReferences : r.id = l.id /\ r.ino = l.ino
      BY <1>1 DEF LocInv, LocationsKnown, HasRef
    <2> QED
      BY <1>5, <1>11, <2>1
  <1>12. LocationsKnown'
    <2>1. ASSUME NEW a \in Ingested
          PROVE  \E q \in fileReferences' : q.id = a.id /\ q.ino = a.ino
      <3>1. CASE \E e \in results : a = [id |-> e.id, path |-> e.path,
                                         ver |-> e.ver, ino |-> e.ino]
        BY <1>4, <3>1
      <3>2. CASE a \in dirResults
        <4>1. PICK s \in scan, l \in locations :
                 s.ino = a.ino /\ l.id = a.id /\ l.ino = a.ino
          BY <1>1, <1>3, <3>2 DEF ResultsMade
        <4>2. PICK r \in fileReferences : r.id = l.id /\ r.ino = l.ino
          BY <1>1 DEF LocInv, LocationsKnown, HasRef
        <4>3. l.id \notin deletedIds
          BY <1>3, <4>1, <4>2, DeletedSpares
        <4> QED
          BY <1>11, <4>1, <4>3
      <3> QED
        BY <3>1, <3>2 DEF Ingested
    <2>2. ASSUME NEW l \in locations, Kept(l)
          PROVE  l.id \notin deletedIds
      <3>1. CASE ~InScope(l.path)
        BY <1>3, <3>1, DeletedSpares
      <3>2. CASE \E v \in live : ScanHash(v) = ScanHash(l)
        <4>1. PICK v \in live : v.path = l.path /\ v.ver = l.ver
          BY <3>2, SameScanHash
        <4>2. PICK m \in locations : v.id = m.id /\ v.path = m.path
          BY <1>1, <1>3 DEF ScanMade, ScanPhases
        <4>3. m = l
          BY <1>3, <4>1, <4>2 DEF Keys
        <4> QED
          BY <1>3, <4>2, <4>3, DeletedSpares
      <3> QED
        BY <2>2, <3>1, <3>2 DEF Kept
    <2>3. Ingested' = Ingested
      BY <1>1 DEF Ingested
    <2>4. \A l \in locations : Kept(l)' <=> Kept(l)
      BY <1>1 DEF Kept, InScope, ScanHash
    <2> QED
      BY <1>1, <1>11, <2>1, <2>2, <2>3, <2>4 DEF LocationsKnown, HasRef
  <1> QED
    BY <1>1, <1>6, <1>7, <1>8, <1>9, <1>10, <1>12 DEF LocInv

LEMMA LocSyncLocations ==
    ASSUME LocInv, SyncLocations
    PROVE  LocInv'
  <1>1. /\ pc = "syncLocations" /\ pc' = "syncBaseTags"
        /\ locations' = {l \in locations : l.path \notin PathsOf(Ingested) /\ Kept(l)}
                        \cup Ingested
        /\ UNCHANGED <<world, fileReferences, removedFiles, run, history>>
    BY DEF SyncLocations, Kept
  <1>2. \A l \in locations, a \in Ingested :
           l.path \notin PathsOf(Ingested) => l.path # a.path
    BY DEF PathsOf
  <1>3. Keys'
    <2>1. \A l, m \in locations' : l.path = m.path => l = m
      BY <1>1, <1>2 DEF LocInv, Keys, IngestedKeys, MergePhases
    <2>2. \A l, m \in locations' :
             BasenameScanHash(l) = BasenameScanHash(m) => l.id = m.id
      BY <1>1 DEF LocInv, Keys, IngestedKeys, MergePhases
    <2> QED
      BY <1>1, <2>1, <2>2 DEF LocInv, Keys, BasenameScanHash
  <1>4. Apart'
    BY <1>1 DEF LocInv, Apart, Ids
  <1>5. ScanMade' /\ DiffMade' /\ ResultsMade' /\ IngestedKeys'
    BY <1>1 DEF ScanMade, ScanPhases, DiffMade, ResultsMade, IngestedKeys,
               MergePhases
  <1>6. LocationsKnown'
    BY <1>1 DEF LocInv, LocationsKnown, HasRef
  <1> QED
    BY <1>1, <1>3, <1>4, <1>5, <1>6 DEF LocInv

LEMMA LocSyncTags ==
    ASSUME LocInv, SyncBaseTags \/ SyncLocationTags
    PROVE  LocInv'
  <1>1. /\ pc \in {"syncBaseTags", "syncLocationTags"}
        /\ pc' \in {"syncLocationTags", "idle"}
        /\ pc' = "idle" => scan' = {} /\ live' = {}
        /\ UNCHANGED <<fileReferences, locations, removedFiles, crashes>>
    BY DEF SyncBaseTags, SyncLocationTags, ForgetRun
  <1>2. Keys'
    BY <1>1 DEF LocInv, Keys, BasenameScanHash
  <1>3. Apart'
    BY <1>1 DEF LocInv, Apart, Ids
  <1>4. ScanMade' /\ DiffMade' /\ ResultsMade' /\ IngestedKeys'
    BY <1>1 DEF ScanMade, ScanPhases, DiffMade, ResultsMade, IngestedKeys,
               MergePhases
  <1>5. LocationsKnown'
    BY <1>1 DEF LocInv, LocationsKnown, HasRef
  <1> QED
    BY <1>1, <1>2, <1>3, <1>4, <1>5 DEF LocInv

LEMMA LocStutter ==
    ASSUME LocInv, UNCHANGED vars
    PROVE  LocInv'
  <1>1. UNCHANGED <<fs, fileReferences, locations, removedFiles, pc, roots, cache,
                    scan, live, dirChanged, toProcess, deletedIds, results,
                    dirResults, crashes>>
    BY DEF vars
  <1>2. Keys' /\ ScanMade'
    BY <1>1 DEF LocInv, Keys, ScanMade, BasenameScanHash, ScanHash, Lookups
  <1>3. Apart'
    BY <1>1 DEF LocInv, Apart, Ids, Hits, BasenameScanHash
  <1>4. DiffMade'
    <2>1. DirChanged' = DirChanged
      BY <1>1 DEF DirChanged, BasenameScanHash
    <2>2. WithExistingIds' = WithExistingIds
      BY <1>1, <2>1 DEF WithExistingIds, Ids, PathsOf, IsExistingId, KnownIds
    <2>3. Deleted' = Deleted
      BY <1>1 DEF Deleted, Ids, InScope
    <2> QED
      BY <1>1, <2>1, <2>2, <2>3 DEF LocInv, DiffMade
  <1>5. ResultsMade'
    BY <1>1 DEF LocInv, ResultsMade, Ids
  <1>6. IngestedKeys'
    BY <1>1 DEF LocInv, IngestedKeys, Ingested, BasenameScanHash
  <1>7. LocationsKnown'
    BY <1>1 DEF LocInv, LocationsKnown, HasRef, Kept, Ingested, InScope, ScanHash
  <1> QED
    BY <1>1, <1>2, <1>3, <1>4, <1>5, <1>6, <1>7 DEF LocInv

LEMMA LocNext ==
    ASSUME FsDuringIndex = FALSE, MaxCrashes = 0, TypeOK, LocInv, [Next]_vars
    PROVE  LocInv'
  <1>1. ~Crash
    BY DEF Crash, LocInv
  <1>2. CASE RunStep
    BY <1>2, LocScan, LocAppendRestored, LocDropRestored, LocDiff, LocTriage,
       LocRecordRemoved, LocSyncEntities, LocSyncLocations, LocSyncTags
       DEF RunStep
  <1> QED
    BY <1>1, <1>2, LocFs, LocUser, LocBegin, LocStutter DEF Next

\* Between runs every location has its item, whatever roots are scanned and in
\* whatever order files are linked, renamed, tagged and forgotten between runs.
THEOREM LocationsHaveItems ==
    ASSUME FsDuringIndex = FALSE, MaxCrashes = 0
    PROVE  Spec => []LocationsReferToEntities
  <1>1. LocInv => LocationsReferToEntities
    BY DEF LocInv, LocationsKnown, HasRef, LocationsReferToEntities, Ids
  <1>2. TypeOK /\ LocInv /\ [Next]_vars => LocInv'
    BY LocNext
  <1> QED
    BY <1>1, <1>2, LocInit, TypeCorrect, PTL DEF Spec

\* In the same circumstances an item has one reference and a path one location,
\* and an id is known or removed, never both.
THEOREM ItemsKeyed ==
    ASSUME FsDuringIndex = FALSE, MaxCrashes = 0
    PROVE  Spec => []TablesKeyed
  <1>1. LocInv => TablesKeyed
    BY DEF LocInv, Keys, Apart, TablesKeyed
  <1>2. TypeOK /\ LocInv /\ [Next]_vars => LocInv'
    BY LocNext
  <1> QED
    BY <1>1, <1>2, LocInit, TypeCorrect, PTL DEF Spec

----------------------------------------------------------------------------
(* Ranks.  While an id moves between file_references and removed_files     *)
(* both tables give it one rank.                                           *)

SameRank ==
    \A r \in fileReferences, m \in removedFiles : r.id = m.id => r.rank = m.rank

Rows == fileReferences \cup removedFiles

RankKept ==
    \A i \in Ids(fileReferences) \cup Ids(removedFiles) :
        \A r \in fileReferences \cup removedFiles,
           q \in fileReferences' \cup removedFiles' :
            r.id = i /\ q.id = i => q.rank >= r.rank

LEMMA OneRank ==
    ASSUME TypeOK, Keys, SameRank, NEW r \in Rows, NEW q \in Rows, r.id = q.id
    PROVE  r.rank = q.rank /\ r.rank \in {0, 1}
  BY DEF Keys, SameRank, Rows, TypeOK, RefRow, RemovedRow

\* Tables whose new rows have the rank an old row of their id had, or more.
LEMMA RankFromRow ==
    ASSUME TypeOK, Keys, SameRank,
           \A q \in Rows' : \/ \E s \in Rows : s.id = q.id /\ (q.rank = s.rank \/ q.rank = 1)
                            \/ q.id \notin Ids(fileReferences) \cup Ids(removedFiles)
    PROVE  RankKept
  <1> SUFFICES ASSUME NEW r \in Rows, NEW q \in Rows', r.id = q.id
               PROVE  q.rank >= r.rank
    BY DEF RankKept, Rows
  <1>1. r.id \in Ids(fileReferences) \cup Ids(removedFiles)
    BY DEF Ids, Rows
  <1>2. PICK s \in Rows : s.id = q.id /\ (q.rank = s.rank \/ q.rank = 1)
    BY <1>1
  <1>3. r.rank = s.rank /\ r.rank \in {0, 1}
    BY <1>2, OneRank
  <1> QED
    BY <1>2, <1>3

LEMMA RankStep ==
    ASSUME FsDuringIndex = FALSE, MaxCrashes = 0, TypeOK, LocInv, SameRank,
           [Next]_vars
    PROVE  RankKept
  <1>1. TypeOK /\ Keys /\ ~Crash
    BY DEF LocInv, Crash
  <1>2. CASE UNCHANGED <<fileReferences, removedFiles>>
    BY <1>1, <1>2, RankFromRow DEF Rows
  <1>3. CASE AppendRestored
    <2>1. \A h \in Hits : \E m \in removedFiles : m.id = h.id /\ m.rank = h.rank
      BY HitRow
    <2>2. fileReferences' = fileReferences \cup Hits /\ removedFiles' = removedFiles
      BY <1>3 DEF AppendRestored
    <2> QED
      BY <1>1, <2>1, <2>2, RankFromRow DEF Rows
  <1>4. CASE DropRestored
    BY <1>1, <1>4, RankFromRow DEF Rows, DropRestored
  <1>5. CASE RecordRemoved
    <2>1. \A m \in removedFiles' : \E s \in Rows : s.id = m.id /\ s.rank = m.rank
      BY <1>5 DEF RecordRemoved, Rows
    <2>2. fileReferences' = fileReferences
      BY <1>5 DEF RecordRemoved
    <2> QED
      BY <1>1, <2>1, <2>2, RankFromRow DEF Rows
  <1>6. CASE SyncEntities
    <2>1. PICK first \in SUBSET results :
             fileReferences' =
                {r \in fileReferences : r.id \notin Ids(results) \cup deletedIds}
                \cup {[id |-> e.id, ino |-> e.fileId,
                       rank |-> InheritedRank(e.id)] : e \in first}
      BY <1>6 DEF SyncEntities
    <2>2. pc = "syncEntities" /\ removedFiles' = removedFiles
      BY <1>6 DEF SyncEntities
    <2>3. ASSUME NEW e \in results
          PROVE  \/ \E s \in Rows : s.id = e.id /\ InheritedRank(e.id) = s.rank
                 \/ e.id \notin Ids(fileReferences) \cup Ids(removedFiles)
      <3>1. CASE e.id \in Ids(fileReferences)
        <4>1. PICK r \in fileReferences : r.id = e.id
          BY <3>1 DEF Ids
        <4> DEFINE c == CHOOSE s \in fileReferences : s.id = e.id
        <4>2. c \in fileReferences /\ c.id = e.id
          BY <4>1
        <4> QED
          BY <3>1, <4>2 DEF InheritedRank, Rows
      <3>2. CASE e.id \notin Ids(fileReferences)
        BY <2>2, <3>2 DEF LocInv, ResultsMade, Ids
      <3> QED
        BY <3>1, <3>2
    <2>4. \A q \in Rows' : \/ q \in Rows
                           \/ \E e \in results :
                                 q.id = e.id /\ q.rank = InheritedRank(e.id)
      BY <2>1, <2>2 DEF Rows
    <2> QED
      BY <1>1, <2>3, <2>4, RankFromRow
  <1>7. CASE UserStep
    <2>1. CASE \E i \in Ids(fileReferences) : SetRank(i)
      <3>1. PICK i \in Ids(fileReferences) : SetRank(i)
        BY <2>1
      <3> DEFINE Ranked(r) == [r EXCEPT !.rank = IF r.id = i THEN 1 ELSE @]
      <3>2. /\ fileReferences' = {Ranked(r) : r \in fileReferences}
            /\ removedFiles' = removedFiles
        BY <3>1 DEF SetRank
      <3>3. \A r \in fileReferences : /\ Ranked(r).id = r.id
                                      /\ Ranked(r).rank \in {1, r.rank}
        BY DEF TypeOK, RefRow
      <3> HIDE DEF Ranked
      <3> QED
        BY <1>1, <3>2, <3>3, RankFromRow DEF Rows
    <2>2. CASE ~\E i \in Ids(fileReferences) : SetRank(i)
      <3>1. fileReferences' \subseteq fileReferences /\ removedFiles' \subseteq removedFiles
        BY <1>7, <2>2 DEF UserStep, TagItem, Forget, ClearIndex
      <3> QED
        BY <1>1, <3>1, RankFromRow DEF Rows
    <2> QED
      BY <2>1, <2>2
  <1>8. CASE FsStep
    <2>1. UNCHANGED <<fileReferences, removedFiles>>
      BY <1>8 DEF FsStep, FsMayChange, Create, Modify, Move, Link, Unlink
    <2> QED
      BY <1>2, <2>1
  <1>9. CASE \/ \E rs \in SUBSET Dirs : Begin(rs)
             \/ Scan \/ Diff \/ Triage \/ SyncLocations \/ SyncBaseTags
             \/ SyncLocationTags \/ UNCHANGED vars
    <2>1. UNCHANGED <<fileReferences, removedFiles>>
      BY <1>9 DEF Begin, Scan, Walk, Diff, Triage, SyncLocations, SyncBaseTags,
         SyncLocationTags, vars
    <2> QED
      BY <1>2, <2>1
  <1> QED
    BY <1>1, <1>3, <1>4, <1>5, <1>6, <1>7, <1>8, <1>9 DEF Next, RunStep

\* Only restoring and recording bring an id into both tables, and both copy its
\* rank.
LEMMA SameRankNext ==
    ASSUME FsDuringIndex = FALSE, MaxCrashes = 0, TypeOK, LocInv, SameRank,
           [Next]_vars
    PROVE  SameRank'
  <1>1. LocInv'
    BY LocNext
  <1>2. CASE Ids(fileReferences') \cap Ids(removedFiles') = {}
    BY <1>2 DEF SameRank, Ids
  <1>3. CASE UNCHANGED <<fileReferences, removedFiles>>
    BY <1>3 DEF SameRank
  <1>4. CASE AppendRestored
    <2>1. /\ fileReferences' = fileReferences \cup Hits
          /\ removedFiles' = removedFiles
      BY <1>4 DEF AppendRestored
    <2>2. \A h \in Hits, m \in removedFiles : h.id = m.id => h.rank = m.rank
      BY HitRow DEF LocInv, Keys
    <2> QED
      BY <2>1, <2>2 DEF SameRank
  <1>5. CASE RecordRemoved
    <2>1. fileReferences' = fileReferences
      BY <1>5 DEF RecordRemoved
    <2>2. \A m \in removedFiles' : m \in removedFiles \/
             \E r \in fileReferences : r.id = m.id /\ r.rank = m.rank
      BY <1>5 DEF RecordRemoved
    <2> QED
      BY <2>1, <2>2 DEF SameRank, LocInv, Keys
  <1>6. CASE pc' \notin {"restore", "syncEntities"}
    BY <1>1, <1>2, <1>6 DEF LocInv, Apart
  <1>7. \/ AppendRestored \/ RecordRemoved
        \/ pc' \notin {"restore", "syncEntities"}
        \/ UNCHANGED <<fileReferences, removedFiles>>
    <2>1. ~Crash
      BY DEF Crash, LocInv
    <2>2. CASE FsStep
      BY <2>2 DEF FsStep, FsMayChange, Create, Modify, Move, Link, Unlink
    <2>3. CASE UserStep
      BY <2>3 DEF UserStep, TagItem, SetRank, Forget, ClearIndex, UserMayEdit
    <2>4. CASE UNCHANGED vars
      BY <2>4 DEF vars
    <2>5. CASE RunStep
      BY <2>5 DEF RunStep, Scan, Walk, DropRestored, Diff, Triage, SyncEntities,
         SyncLocations, SyncBaseTags, SyncLocationTags
    <2>6. CASE \E rs \in SUBSET Dirs : Begin(rs)
      BY <2>6 DEF Begin
    <2> QED
      BY <2>1, <2>2, <2>3, <2>4, <2>5, <2>6 DEF Next
  <1> QED
    BY <1>3, <1>4, <1>5, <1>6, <1>7

\* In the same circumstances no step of a run, and no other command, lowers the
\* rank of an item that is known or parked.
THEOREM RanksAreKept ==
    ASSUME FsDuringIndex = FALSE, MaxCrashes = 0
    PROVE  Spec => RankNeverLost
  <1>1. Init => LocInv /\ SameRank
    BY LocInit DEF Init, SameRank
  <1>2. TypeOK /\ LocInv /\ SameRank /\ [Next]_vars => LocInv' /\ SameRank'
    BY LocNext, SameRankNext
  <1>3. TypeOK /\ LocInv /\ SameRank /\ [Next]_vars =>
           [\A i \in Ids(fileReferences) \cup Ids(removedFiles) :
               \A r \in fileReferences \cup removedFiles,
                  q \in fileReferences' \cup removedFiles' :
                   r.id = i /\ q.id = i => q.rank >= r.rank]_vars
    BY RankStep DEF RankKept
  <1> QED
    BY <1>1, <1>2, <1>3, TypeCorrect, PTL DEF Spec, RankNeverLost

=============================================================================
