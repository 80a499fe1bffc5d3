------------------------- MODULE ResultCacheProofs -------------------------
(***************************************************************************)
(* What holds of ResultCache for any number of cids, searching processes,  *)
(* queries and updates, workers being killed at any moment.                *)
(***************************************************************************)
EXTENDS ResultCache, TLAPS

USE DEF files

WorkerRow == [phase : WorkerPhases, version : Nat, query : Queries]
SearchRow == [phase : ClientPhases, cid : Cids \cup {NoCid}, query : Queries]

LEMMA InitType == Init => TypeOK
  BY DEF Init, TypeOK

\* An idle client or worker is told from a busy one by its phase.
LEMMA Busy ==
    ASSUME TypeOK
    PROVE  /\ \A k \in Clients :
                 client[k].phase \in ClientPhases => client[k] \in SearchRow
           /\ \A c \in Cids :
                 worker[c].phase \in WorkerPhases => worker[c] \in WorkerRow
  BY DEF TypeOK, NoSearch, NoWorker, ClientPhases, WorkerPhases, SearchRow,
         WorkerRow

LEMMA SearchType ==
    ASSUME TypeOK, NEW k \in Clients, Search(k)
    PROVE  TypeOK'
  <1>1. CASE \E q \in Queries, c \in issued \cup {NoCid} : Ask(k, q, c)
    BY <1>1 DEF TypeOK, Ask, ClientPhases
  <1>2. CASE Resolve(k)
    <2>1. client[k] \in SearchRow
      BY <1>2, Busy DEF Resolve, ClientPhases
    <2>2. PICK next \in ClientPhases :
             client' = [client EXCEPT ![k].phase = next]
      BY <1>2 DEF Resolve, ClientPhases
    <2>3. [client[k] EXCEPT !.phase = next] \in SearchRow
      BY <2>1, <2>2 DEF SearchRow
    <2>4. client' \in [Clients -> SearchRow \cup {NoSearch}]
      BY <2>2, <2>3 DEF TypeOK, SearchRow
    <2> QED
      BY <1>2, <2>4 DEF TypeOK, Resolve, SearchRow
  <1>3. CASE Fetch(k)
    <2>1. client[k] \in SearchRow
      BY <1>3, Busy DEF Fetch, ClientPhases
    <2>2. [client[k] EXCEPT !.phase = "core"] \in SearchRow
      BY <2>1 DEF SearchRow, ClientPhases
    <2>3. \/ client' = [client EXCEPT ![k].phase = "core"]
          \/ client' = [client EXCEPT ![k] = NoSearch]
      BY <1>3 DEF Fetch, Ends
    <2>4. client' \in [Clients -> SearchRow \cup {NoSearch}]
      BY <2>2, <2>3 DEF TypeOK, SearchRow
    <2> QED
      BY <1>3, <2>4 DEF TypeOK, Fetch, SearchRow
  <1>4. CASE Decide(k)
    <2>1. client[k] \in SearchRow
      BY <1>4, Busy DEF Decide, Answers, ClientPhases
    <2>2. client' \in [Clients -> SearchRow \cup {NoSearch}]
      BY <1>4 DEF TypeOK, Decide, Answers, Ends, SearchRow
    <2>3. CASE Stays
      BY <1>4, <2>2, <2>3 DEF TypeOK, Decide, Answers, Stays, SearchRow
    <2>4. ASSUME NEW c \in Cids \ issued, issued' = issued \cup {c},
                 Spawn(c, client[k].query)
          PROVE  TypeOK'
      <3>1. client[k].query \in Queries
        BY <2>1 DEF SearchRow
      <3>2. [phase |-> "spawned", version |-> 0, query |-> client[k].query]
               \in WorkerRow
        BY <3>1 DEF WorkerRow, WorkerPhases
      <3>3. worker' \in [Cids -> WorkerRow \cup {NoWorker}]
        BY <2>4, <3>2 DEF TypeOK, Spawn, WorkerRow
      <3>4. job' \in SUBSET [cid : Cids, query : Queries]
        BY <2>4, <3>1 DEF TypeOK, Spawn
      <3>5. /\ tmp' \in SUBSET Cids /\ expired' \in SUBSET Cids
            /\ parquet' \in SUBSET [cid : Cids, query : Queries, version : Nat]
        BY <2>4 DEF TypeOK, Spawn, Cleanup
      <3>6. overlapped' \in SUBSET Cids
        BY <2>4 DEF TypeOK, Spawn
      <3> QED
        BY <1>4, <2>2, <2>4, <3>3, <3>4, <3>5, <3>6
           DEF TypeOK, Decide, Answers, SearchRow, WorkerRow
    <2>5. ASSUME NEW c \in Cids \ issued, issued' = issued \cup {c}, SpawnFails
          PROVE  TypeOK'
      BY <1>4, <2>2, <2>5
         DEF TypeOK, Decide, Answers, SpawnFails, Cleanup, SearchRow
    <2> QED
      BY <1>4, <2>3, <2>4, <2>5 DEF Decide
  <1> QED
    BY <1>1, <1>2, <1>3, <1>4 DEF Search

LEMMA WorkerType ==
    ASSUME TypeOK, NEW c \in Cids, WorkerRuns(c) \/ Kill(c) \/ Expire(c)
    PROVE  TypeOK'
  <1>1. ASSUME NEW from \in WorkerPhases, NEW to \in WorkerPhases,
               Moves(c, from, to)
        PROVE  worker' \in [Cids -> WorkerRow \cup {NoWorker}]
    <2>1. worker[c] \in WorkerRow
      BY <1>1, Busy DEF Moves
    <2>2. [worker[c] EXCEPT !.phase = to] \in WorkerRow
      BY <2>1 DEF WorkerRow
    <2> QED
      BY <1>1, <2>2 DEF TypeOK, Moves, WorkerRow
  <1>2. ASSUME NEW from, Exits(c, from)
        PROVE  worker' \in [Cids -> WorkerRow \cup {NoWorker}]
    BY <1>2 DEF TypeOK, Exits, WorkerRow
  <1>3. CASE Claim(c)
    <2>1. worker' \in [Cids -> WorkerRow \cup {NoWorker}]
      BY <1>1, <1>2, <1>3 DEF Claim, WorkerPhases
    <2> QED
      BY <1>3, <2>1 DEF TypeOK, Claim, Moves, Exits, WorkerRow
  <1>4. CASE Start(c)
    <2>1. worker' \in [Cids -> WorkerRow \cup {NoWorker}]
      BY <1>1, <1>4 DEF Start, WorkerPhases
    <2> QED
      BY <1>4, <2>1 DEF TypeOK, Start, Moves, WorkerRow
  <1>5. CASE Copy(c)
    <2>1. worker[c] \in WorkerRow /\ version \in Nat
      BY <1>5, Busy DEF TypeOK, Copy, WorkerPhases
    <2>2. worker' \in [Cids -> WorkerRow \cup {NoWorker}]
      BY <1>5, <2>1 DEF TypeOK, Copy, WorkerRow, WorkerPhases
    <2> QED
      BY <1>5, <2>2 DEF TypeOK, Copy, WorkerRow
  <1>6. CASE Publish(c)
    <2>1. worker' \in [Cids -> WorkerRow \cup {NoWorker}]
      BY <1>2, <1>6 DEF Publish
    <2>2. worker[c] \in WorkerRow
      BY <1>6, Busy DEF Publish, Moves, Exits, WorkerPhases
    <2>3. parquet' \in SUBSET [cid : Cids, query : Queries, version : Nat]
      BY <1>6, <2>2 DEF TypeOK, Publish, WorkerRow
    <2> QED
      BY <1>6, <2>1, <2>3 DEF TypeOK, Publish, Exits, WorkerRow
  <1>7. CASE Fail(c)
    <2>1. worker' \in [Cids -> WorkerRow \cup {NoWorker}]
      BY <1>2, <1>7 DEF Fail
    <2> QED
      BY <1>7, <2>1 DEF TypeOK, Fail, Exits, WorkerRow
  <1>8. CASE Kill(c)
    BY <1>8 DEF TypeOK, Kill
  <1>9. CASE Expire(c)
    BY <1>9 DEF TypeOK, Expire
  <1> QED
    BY <1>3, <1>4, <1>5, <1>6, <1>7, <1>8, <1>9 DEF WorkerRuns

LEMMA UpdateType == TypeOK /\ Update => TypeOK'
  BY DEF TypeOK, Update, IndexClears, IndexEnds, EditSaves, EditClears,
         EditStops, Saves, SavesTable, UpdateBegins, UpdateEnds, ClearCache,
         AliveCids

LEMMA NextType == TypeOK /\ [Next]_vars => TypeOK'
  <1> SUFFICES ASSUME TypeOK, [Next]_vars PROVE TypeOK'
    OBVIOUS
  <1>1. CASE UNCHANGED vars
    BY <1>1 DEF TypeOK, vars
  <1> QED
    BY <1>1, SearchType, WorkerType, UpdateType DEF Next

\* The files of the cache directory and the states of the processes are those
\* the code can make, for every number of processes and updates.
THEOREM TypeCorrect == Spec => []TypeOK
  BY InitType, NextType, PTL DEF Spec

----------------------------------------------------------------------------
(* The inductive form of FreshUnlessOverlapped: a worker that has read the  *)
(* tables carries what it read until it publishes, so its copy must be as   *)
(* fresh as a file; while an update runs, every worker counts as overlapped *)
(* and, once Indexer::run has cleared the cache, so does every file.        *)

FreshInv ==
    /\ settled <= version
    /\ \A r \in parquet : r.cid \notin overlapped => r.version >= settled
    /\ \A c \in Cids \ overlapped :
          worker[c].phase = "copied" => worker[c].version >= settled
    /\ updater # "idle" =>
          \A c \in Cids : worker[c].phase # "none" => c \in overlapped
    /\ updater = "index" => \A r \in parquet : r.cid \in overlapped

LEMMA FreshSearch ==
    ASSUME TypeOK, FreshInv, NEW k \in Clients, Search(k)
    PROVE  FreshInv'
  <1>1. CASE UNCHANGED <<version, updater, parquet, worker, overlapped, settled>>
    BY <1>1 DEF FreshInv
  <1>2. ASSUME Decide(k), NEW c \in Cids \ issued, Spawn(c, client[k].query)
        PROVE  FreshInv'
    <2>1. /\ parquet' \subseteq parquet /\ overlapped \subseteq overlapped'
          /\ UNCHANGED <<version, updater, settled>>
      BY <1>2 DEF Decide, Answers, Spawn, Cleanup
    <2>2. worker'[c].phase = "spawned"
      BY <1>2 DEF TypeOK, Spawn
    <2>3. \A d \in Cids \ {c} : worker'[d] = worker[d]
      BY <1>2 DEF TypeOK, Spawn
    <2>4. updater # "idle" => c \in overlapped'
      BY <1>2 DEF Spawn
    <2> QED
      BY <2>1, <2>2, <2>3, <2>4 DEF FreshInv
  <1>3. ASSUME Decide(k), SpawnFails
        PROVE  FreshInv'
    BY <1>3 DEF FreshInv, Decide, Answers, SpawnFails, Cleanup
  <1> QED
    BY <1>1, <1>2, <1>3 DEF Search, Ask, Resolve, Fetch, Decide, Answers, Stays

LEMMA FreshWorker ==
    ASSUME TypeOK, FreshInv, NEW c \in Cids,
           WorkerRuns(c) \/ Kill(c) \/ Expire(c)
    PROVE  FreshInv'
  <1>1. CASE Expire(c)
    BY <1>1 DEF FreshInv, Expire
  <1>2. CASE Copy(c)
    <2>1. /\ worker'[c].version = version
          /\ \A d \in Cids \ {c} : worker'[d] = worker[d]
          /\ worker[c].phase = "started"
          /\ UNCHANGED <<version, updater, parquet, overlapped, settled>>
      <3>1. worker[c] \in WorkerRow
        BY <1>2, Busy DEF Copy, WorkerPhases
      <3> QED
        BY <1>2, <3>1 DEF TypeOK, Copy, WorkerRow
    <2> QED
      BY <2>1 DEF TypeOK, FreshInv
  <1>3. ASSUME WorkerRuns(c) \/ Kill(c), ~Copy(c)
        PROVE  /\ \A d \in Cids \ {c} : worker'[d] = worker[d]
               /\ worker'[c].phase # "copied"
               /\ worker[c].phase # "none"
               /\ UNCHANGED <<version, updater, overlapped, settled>>
    <2>1. ASSUME NEW from \in WorkerPhases, NEW to \in WorkerPhases \ {"copied"},
                 Moves(c, from, to)
          PROVE  /\ \A d \in Cids \ {c} : worker'[d] = worker[d]
                 /\ worker'[c].phase # "copied"
                 /\ worker[c].phase # "none"
                 /\ UNCHANGED <<version, updater, overlapped, settled>>
      <3>1. worker[c] \in WorkerRow
        BY <2>1, Busy DEF Moves
      <3> QED
        BY <2>1, <3>1 DEF TypeOK, Moves, WorkerRow, WorkerPhases
    <2>2. ASSUME NEW from \in WorkerPhases, Exits(c, from)
          PROVE  /\ \A d \in Cids \ {c} : worker'[d] = worker[d]
                 /\ worker'[c].phase # "copied"
                 /\ worker[c].phase # "none"
                 /\ UNCHANGED <<version, updater, overlapped, settled>>
      BY <2>2 DEF TypeOK, Exits, NoWorker, WorkerPhases
    <2>3. ASSUME Kill(c)
          PROVE  /\ \A d \in Cids \ {c} : worker'[d] = worker[d]
                 /\ worker'[c].phase # "copied"
                 /\ worker[c].phase # "none"
                 /\ UNCHANGED <<version, updater, overlapped, settled>>
      BY <2>3 DEF TypeOK, Kill, AliveCids, NoWorker, WorkerPhases
    <2> QED
      BY <1>3, <2>1, <2>2, <2>3
         DEF WorkerRuns, Claim, Start, Publish, Fail, WorkerPhases
  <1>4. CASE Publish(c)
    <2>1. worker[c].phase = "copied" /\ ~Copy(c)
      BY <1>4 DEF Publish, Exits, Copy
    <2>2. parquet' \subseteq parquet \cup {[cid |-> c, query |-> worker[c].query,
                                            version |-> worker[c].version]}
      BY <1>4 DEF Publish
    <2> QED
      BY <1>3, <1>4, <2>1, <2>2 DEF FreshInv, WorkerRuns
  <1>5. CASE (Claim(c) \/ Start(c) \/ Fail(c) \/ Kill(c)) /\ ~Copy(c)
    <2>1. UNCHANGED parquet
      BY <1>5 DEF Claim, Start, Fail, Kill
    <2> QED
      BY <1>3, <1>5, <2>1 DEF FreshInv, WorkerRuns
  <1> QED
    BY <1>1, <1>2, <1>4, <1>5 DEF WorkerRuns

LEMMA FreshUpdate ==
    ASSUME TypeOK, FreshInv, Update
    PROVE  FreshInv'
  <1>1. \A c \in Cids : worker[c].phase # "none" => c \in AliveCids
    BY DEF AliveCids, NoWorker
  <1>2. CASE IndexClears
    BY <1>1, <1>2 DEF FreshInv, IndexClears, UpdateBegins, ClearCache
  <1>3. CASE IndexEnds
    <2>1. \A c \in Cids : worker[c].phase = "copied" => c \in overlapped
      BY <1>3 DEF FreshInv, IndexEnds, UpdateEnds
    <2> QED
      BY <1>3, <2>1 DEF TypeOK, FreshInv, IndexEnds, UpdateEnds
  <1>4. CASE EditSaves
    BY <1>1, <1>4 DEF TypeOK, FreshInv, EditSaves, UpdateBegins, SavesTable
  <1>5. CASE EditClears
    <2>1. \A c \in Cids : worker[c].phase = "copied" => c \in overlapped
      BY <1>5 DEF FreshInv, EditClears, UpdateEnds
    <2> QED
      BY <1>5, <2>1 DEF TypeOK, FreshInv, EditClears, UpdateEnds, ClearCache
  <1>6. CASE EditStops
    BY <1>6 DEF FreshInv, EditStops, UpdateEnds
  <1>7. CASE Saves
    BY <1>7 DEF TypeOK, FreshInv, Saves, SavesTable
  <1> QED
    BY <1>2, <1>3, <1>4, <1>5, <1>6, <1>7 DEF Update

\* No cached result is older than the last update that cleared the cache, unless
\* its worker was at work while an update ran: for any number of searches,
\* workers and updates, of which any may stop between two saves.
THEOREM ResultsFresh == Spec => []FreshUnlessOverlapped
  <1>1. Init => FreshInv
    BY DEF Init, FreshInv, NoWorker
  <1>2. TypeOK /\ FreshInv /\ [Next]_vars => FreshInv'
    <2> SUFFICES ASSUME TypeOK, FreshInv, [Next]_vars PROVE FreshInv'
      OBVIOUS
    <2>1. CASE UNCHANGED vars
      BY <2>1 DEF FreshInv, vars
    <2> QED
      BY <2>1, FreshSearch, FreshWorker, FreshUpdate DEF Next
  <1>3. FreshInv => FreshUnlessOverlapped
    BY DEF FreshInv, FreshUnlessOverlapped
  <1> QED
    BY <1>1, <1>2, <1>3, TypeCorrect, PTL DEF Spec

----------------------------------------------------------------------------
(* The inductive form of CacheAnswersQuery: a cid is given to one worker in *)
(* its life, so a path that a search has found usable can lose its file but *)
(* never get another one.                                                   *)

HeldFor(k) ==
    /\ client[k].cid \in issued
    /\ worker[client[k].cid] = NoWorker
    /\ \A r \in parquet : r.cid = client[k].cid => r.query = client[k].query

PathInv ==
    /\ CidsOf(parquet) \subseteq issued
    /\ \A r, s \in parquet : r.cid = s.cid => r.query = s.query
    /\ \A c \in AliveCids : c \in issued /\ c \notin CidsOf(parquet)
    /\ \A k \in Clients : client[k].phase = "fetch" => HeldFor(k)

\* Files that go and workers that end disturb nothing.
LEMMA PathShrinks ==
    ASSUME TypeOK, PathInv,
           parquet' \subseteq parquet, UNCHANGED issued,
           \A c \in Cids : worker'[c] # NoWorker => worker[c] # NoWorker,
           \A k \in Clients : client'[k].phase = "fetch" =>
              \/ client'[k] = client[k]
              \/ /\ client'[k].cid \in Cids
                 /\ HeldFor(k)'
    PROVE  PathInv'
  <1>1. CidsOf(parquet') \subseteq CidsOf(parquet)
    BY DEF CidsOf
  <1>2. \A c \in AliveCids' : c \in AliveCids
    BY DEF AliveCids
  <1>3. ASSUME NEW k \in Clients, client'[k].phase = "fetch",
               client'[k] = client[k]
        PROVE  HeldFor(k)'
    <2>1. HeldFor(k)
      BY <1>3 DEF PathInv
    <2>2. client[k].cid \in Cids
      BY <2>1 DEF HeldFor, TypeOK
    <2> QED
      BY <1>3, <2>1, <2>2 DEF HeldFor
  <1>4. \A k \in Clients : client'[k].phase = "fetch" => HeldFor(k)'
    BY <1>3
  <1>5. CidsOf(parquet)' \subseteq issued'
    BY <1>1 DEF PathInv
  <1>6. \A c \in AliveCids' : c \in issued' /\ c \notin CidsOf(parquet)'
    BY <1>1, <1>2 DEF PathInv
  <1> QED
    BY <1>4, <1>5, <1>6 DEF PathInv

LEMMA PathSearch ==
    ASSUME TypeOK, PathInv, NEW k \in Clients, Search(k)
    PROVE  PathInv'
  <1>1. \A j \in Clients \ {k} : client'[j] = client[j]
    BY DEF TypeOK, Search, Ask, Resolve, Fetch, Decide, Answers, Ends
  <1>2. CASE \E q \in Queries, c \in issued \cup {NoCid} : Ask(k, q, c)
    <2>1. client'[k].phase = "resolve"
      BY <1>2 DEF TypeOK, Ask
    <2> QED
      BY <1>1, <1>2, <2>1, PathShrinks DEF Ask
  <1>3. CASE Resolve(k)
    <2>1. client[k] \in SearchRow
      BY <1>3, Busy DEF Resolve, ClientPhases
    <2>2. client'[k].cid = client[k].cid /\ client'[k].query = client[k].query
      BY <1>3, <2>1 DEF TypeOK, Resolve, SearchRow
    <2>3. ASSUME client'[k].phase = "fetch"
          PROVE  client'[k].cid \in Cids /\ HeldFor(k)'
      <3>1. PICK r \in parquet :
               r.cid = client[k].cid /\ r.query = client[k].query
        BY <1>3, <2>1, <2>3 DEF TypeOK, Resolve, Usable, SearchRow
      <3>2. r.cid \in CidsOf(parquet) /\ r.cid \in Cids
        BY <3>1 DEF CidsOf, TypeOK
      <3>3. worker[r.cid] = NoWorker /\ r.cid \in issued
        BY <3>2 DEF PathInv, AliveCids
      <3>4. \A s \in parquet : s.cid = r.cid => s.query = r.query
        BY <3>1 DEF PathInv
      <3> QED
        BY <1>3, <2>2, <3>1, <3>2, <3>3, <3>4 DEF HeldFor, Resolve
    <2> QED
      BY <1>1, <1>3, <2>3, PathShrinks DEF Resolve
  <1>4. CASE Fetch(k)
    <2>1. client[k] \in SearchRow
      BY <1>4, Busy DEF Fetch, ClientPhases
    <2>2. client'[k].phase # "fetch"
      BY <1>4, <2>1 DEF TypeOK, Fetch, Ends, NoSearch, SearchRow
    <2> QED
      BY <1>1, <1>4, <2>2, PathShrinks DEF Fetch
  <1>5. CASE Decide(k)
    <2>1. client'[k].phase # "fetch"
      BY <1>5 DEF TypeOK, Decide, Answers, Ends, NoSearch
    <2>2. CASE Stays
      BY <1>1, <2>1, <2>2, PathShrinks DEF Stays
    <2>3. ASSUME NEW c \in Cids \ issued, issued' = issued \cup {c},
                 Spawn(c, client[k].query) \/ SpawnFails
          PROVE  PathInv'
      <3>1. parquet' \subseteq parquet
        BY <2>3 DEF Spawn, SpawnFails, Cleanup
      <3>2. \A d \in Cids \ {c} : worker'[d] = worker[d]
        BY <2>3 DEF TypeOK, Spawn, SpawnFails
      <3>3. CidsOf(parquet') \subseteq CidsOf(parquet)
        BY <3>1 DEF CidsOf
      <3>4. c \notin CidsOf(parquet')
        BY <2>3, <3>3 DEF PathInv
      <3>5. \A d \in AliveCids' : d \in issued' /\ d \notin CidsOf(parquet')
        BY <2>3, <3>2, <3>3, <3>4 DEF PathInv, AliveCids
      <3>6. ASSUME NEW j \in Clients, client'[j].phase = "fetch"
            PROVE  HeldFor(j)'
        <4>1. client'[j] = client[j] /\ HeldFor(j)
          BY <1>1, <2>1, <3>6 DEF PathInv
        <4>2. client[j].cid \in Cids \ {c}
          BY <2>3, <4>1 DEF HeldFor, TypeOK
        <4> QED
          BY <2>3, <3>1, <3>2, <4>1, <4>2 DEF HeldFor
      <3>7. CidsOf(parquet') \subseteq issued'
        BY <2>3, <3>3 DEF PathInv
      <3> QED
        BY <3>1, <3>5, <3>6, <3>7 DEF PathInv
    <2> QED
      BY <1>5, <2>2, <2>3 DEF Decide
  <1> QED
    BY <1>2, <1>3, <1>4, <1>5 DEF Search

LEMMA PathWorker ==
    ASSUME TypeOK, PathInv, NEW c \in Cids,
           WorkerRuns(c) \/ Kill(c) \/ Expire(c)
    PROVE  PathInv'
  <1>1. UNCHANGED <<issued, client>>
    BY DEF WorkerRuns, Claim, Start, Copy, Publish, Fail, Kill, Expire, Moves,
           Exits
  <1>2. \A d \in Cids : worker'[d] # NoWorker => worker[d] # NoWorker
    BY DEF TypeOK, WorkerRuns, Claim, Start, Copy, Publish, Fail, Kill, Expire,
           Moves, Exits, NoWorker
  <1>3. CASE Publish(c) /\ c \in tmp
    <2>1. worker'[c] = NoWorker /\ c \in AliveCids
      BY <1>3 DEF TypeOK, Publish, Exits, AliveCids, NoWorker
    <2> DEFINE new == [cid |-> c, query |-> worker[c].query,
                       version |-> worker[c].version]
    <2>2. parquet' = {r \in parquet : r.cid # c} \cup {new}
      BY <1>3 DEF Publish
    <2>3. CidsOf(parquet') \subseteq CidsOf(parquet) \cup {c}
      BY <2>2 DEF CidsOf
    <2>4. CidsOf(parquet)' \subseteq issued'
      BY <1>1, <2>1, <2>3 DEF PathInv
    <2>5. \A r, s \in parquet' : r.cid = s.cid => r.query = s.query
      BY <2>2 DEF PathInv
    <2>6. \A d \in AliveCids' : d \in AliveCids /\ d # c
      BY <1>2, <2>1 DEF AliveCids
    <2>7. \A d \in AliveCids' : d \in issued' /\ d \notin CidsOf(parquet)'
      BY <1>1, <2>3, <2>6 DEF PathInv
    <2>8. ASSUME NEW k \in Clients, client'[k].phase = "fetch"
          PROVE  HeldFor(k)'
      <3>1. HeldFor(k)
        BY <1>1, <2>8 DEF PathInv
      <3>2. client[k].cid \in Cids /\ client[k].cid # c
        BY <2>1, <3>1 DEF HeldFor, TypeOK, AliveCids
      <3>3. worker'[client[k].cid] = NoWorker
        BY <1>2, <3>1, <3>2 DEF HeldFor
      <3>4. \A r \in parquet' : r.cid = client[k].cid => r \in parquet
        BY <2>2, <3>2
      <3> QED
        BY <1>1, <3>1, <3>3, <3>4 DEF HeldFor
    <2> QED
      BY <2>4, <2>5, <2>7, <2>8 DEF PathInv
  <1>4. CASE ~(Publish(c) /\ c \in tmp)
    <2>1. UNCHANGED parquet
      BY <1>4 DEF WorkerRuns, Claim, Start, Copy, Publish, Fail, Kill, Expire
    <2> QED
      BY <1>1, <1>2, <2>1, PathShrinks
  <1> QED
    BY <1>3, <1>4

LEMMA PathUpdate ==
    ASSUME TypeOK, PathInv, Update
    PROVE  PathInv'
  <1>1. UNCHANGED <<issued, client, worker>> /\ parquet' \subseteq parquet
    BY DEF Update, IndexClears, IndexEnds, EditSaves, EditClears, EditStops,
           Saves, UpdateBegins, UpdateEnds, ClearCache
  <1> QED
    BY <1>1, PathShrinks

\* A page from the cache comes from a result of the query asked, although the
\* file was looked at earlier than it is read: for any number of searches,
\* workers, evictions and updates in between.
THEOREM AnswersMatch == Spec => CacheAnswersQuery
  <1> DEFINE Match ==
        \A k \in Clients :
          client[k].phase = "fetch" /\ client'[k].phase = "idle" =>
              \E r \in parquet :
                  r.cid = client[k].cid /\ r.query = client[k].query
  <1>1. Init => PathInv
    BY DEF Init, PathInv, CidsOf, AliveCids, NoSearch
  <1>2. TypeOK /\ PathInv /\ [Next]_vars => PathInv'
    <2> SUFFICES ASSUME TypeOK, PathInv, [Next]_vars PROVE PathInv'
      OBVIOUS
    <2>1. CASE UNCHANGED vars
      BY <2>1, PathShrinks DEF vars
    <2> QED
      BY <2>1, PathSearch, PathWorker, PathUpdate DEF Next
  <1>3. TypeOK /\ PathInv /\ [Next]_vars => [Match]_vars
    <2> SUFFICES ASSUME TypeOK, PathInv, Next, NEW k \in Clients,
                        client[k].phase = "fetch", client'[k].phase = "idle"
                 PROVE  \E r \in parquet :
                           r.cid = client[k].cid /\ r.query = client[k].query
      OBVIOUS
    <2>1. PICK j \in Clients : Search(j)
      BY DEF Next, WorkerRuns, Claim, Start, Copy, Publish, Fail, Kill, Expire,
             Moves, Exits, Update, IndexClears, IndexEnds, EditSaves,
             EditClears, EditStops, Saves, UpdateBegins, UpdateEnds
    <2>2. j = k
      BY <2>1 DEF TypeOK, Search, Ask, Resolve, Fetch, Decide, Answers, Ends
    <2>3. Fetch(k)
      BY <2>1, <2>2 DEF Search, Ask, Resolve, Decide, Answers
    <2>4. client[k] \in SearchRow
      BY Busy DEF ClientPhases
    <2>5. client[k].cid \in CidsOf(parquet)
      BY <2>3, <2>4 DEF TypeOK, Fetch, SearchRow
    <2>6. HeldFor(k)
      BY DEF PathInv
    <2> QED
      BY <2>5, <2>6 DEF CidsOf, HeldFor
  <1> QED
    BY <1>1, <1>2, <1>3, TypeCorrect, PTL DEF Spec, CacheAnswersQuery

=============================================================================
