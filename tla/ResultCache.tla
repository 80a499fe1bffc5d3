---------------------------- MODULE ResultCache ----------------------------
(***************************************************************************)
(* The result cache: searches that page through a result, the worker each  *)
(* one may leave behind, and the updates of the index that throw all the   *)
(* cached results away.  Searches, workers and updates are processes of    *)
(* their own; what they share is the cache directory and the tables.       *)
(*                                                                         *)
(* The tables are a version number; a result is the query it is for and    *)
(* the version it was read at.  A cid names up to three files: <cid>.job,  *)
(* <cid>.parquet.tmp and <cid>.parquet.                                    *)
(***************************************************************************)
EXTENDS Naturals, FiniteSets

CONSTANTS
    Cids,         \* the uuids this instance may draw
    Clients,      \* processes that search
    Queries,
    NoCid,        \* a search without --cid
    MaxFiles,     \* CACHE_MAX_BYTES, in files of one size
    MaxVersion    \* bound: saves of the tables

ASSUME CidAssumption == NoCid \notin Cids /\ IsFiniteSet(Cids)
ASSUME LimitAssumption == MaxFiles \in Nat /\ MaxVersion \in Nat

VARIABLES
    version,      \* of the tables, one more with each save
    updater,      \* "idle", or the update in progress
    job,          \* rows [cid, query]: the .job files
    tmp,          \* cids with a .parquet.tmp file
    parquet,      \* rows [cid, query, version]: the published results
    expired,      \* cids whose .job or .tmp file is over an hour old
    worker,       \* Cids -> the worker process of the cid
    client,       \* Clients -> the search in progress
    issued,       \* cids drawn so far
    (* history, never read by the code *)
    overlapped,   \* cids whose worker lived during an update
    killed,       \* cids whose worker was killed
    settled       \* the version the last update that cleared the cache left

files == <<job, tmp, parquet, expired>>
vars == <<version, updater, files, worker, client, issued, overlapped, killed,
          settled>>

WorkerPhases == {"spawned", "claimed", "started", "copied"}
ClientPhases == {"resolve", "fetch", "core"}

NoWorker == [phase |-> "none"]
NoSearch == [phase |-> "idle"]
CidsOf(rows) == {r.cid : r \in rows}

AliveCids == {c \in Cids : worker[c] # NoWorker}

\* is_generating
IsGenerating(c) == c \in CidsOf(job) \cup tmp

TypeOK ==
    /\ version \in Nat
    /\ updater \in {"idle", "index", "edit"}
    /\ job \in SUBSET [cid : Cids, query : Queries]
    /\ tmp \in SUBSET Cids
    /\ parquet \in SUBSET [cid : Cids, query : Queries, version : Nat]
    /\ expired \in SUBSET Cids
    /\ worker \in [Cids -> [phase : WorkerPhases, version : Nat,
                            query : Queries]
                           \cup {NoWorker}]
    /\ client \in [Clients -> [phase : ClientPhases, cid : Cids \cup {NoCid},
                               query : Queries]
                              \cup {NoSearch}]
    /\ issued \in SUBSET Cids
    /\ overlapped \in SUBSET Cids /\ killed \in SUBSET Cids
    /\ settled \in Nat

Init ==
    /\ version = 0 /\ updater = "idle"
    /\ job = {} /\ tmp = {} /\ parquet = {} /\ expired = {}
    /\ worker = [c \in Cids |-> NoWorker]
    /\ client = [k \in Clients |-> NoSearch]
    /\ issued = {} /\ overlapped = {} /\ killed = {} /\ settled = 0

----------------------------------------------------------------------------
(* search(): every file or table it looks at is a step of its own. *)

Ends(k) == client' = [client EXCEPT ![k] = NoSearch]

\* `ttfm search <query> [--cid <cid>]`, with any cid an answer has named.
Ask(k, q, c) ==
    /\ client[k].phase = "idle"
    /\ client' = [client EXCEPT ![k] = [phase |-> "resolve", cid |-> c,
                                        query |-> q]]
    /\ UNCHANGED <<version, updater, files, worker, issued, overlapped,
                   killed, settled>>

\* Mutant: the query the file was made for is not compared.
UsableAnyQuery(c, q) == {r \in parquet : r.cid = c}

Usable(c, q) == {r \in parquet : r.cid = c /\ r.query = q}

\* try_resolve_cache looks for the file and compares the query it was made
\* for; with nothing to use the tables are searched.
Resolve(k) ==
    /\ client[k].phase = "resolve"
    /\ client' = [client EXCEPT ![k].phase =
                     IF Usable(client[k].cid, client[k].query) # {}
                     THEN "fetch" ELSE "core"]
    /\ UNCHANGED <<version, updater, files, worker, issued, overlapped,
                   killed, settled>>

\* Then it opens the path again to read the page from what is there by now; a
\* file that has gone sends the search to the tables.
Fetch(k) ==
    /\ client[k].phase = "fetch"
    /\ \/ client[k].cid \in CidsOf(parquet) /\ Ends(k)
       \/ /\ client[k].cid \notin CidsOf(parquet)
          /\ client' = [client EXCEPT ![k].phase = "core"]
    /\ UNCHANGED <<version, updater, files, worker, issued, overlapped,
                   killed, settled>>

\* CacheManager::cleanup: what is over an hour old goes, and as many results as
\* it takes to be under the limit (the access times that order them depend on
\* how the file system is mounted).
Cleanup ==
    /\ tmp' = tmp \ expired
    /\ expired' = {}
    /\ \E kept \in SUBSET parquet :
          /\ \/ kept = parquet /\ Cardinality(parquet) <= MaxFiles
             \/ Cardinality(parquet) > MaxFiles /\ Cardinality(kept) = MaxFiles
          /\ parquet' = kept

\* Mutant: the worker is not told the query.
SpawnWithoutQuery(c, q) ==
    /\ Cleanup
    /\ job' = {j \in job : j.cid \notin expired} \cup {[cid |-> c, query |-> q]}
    /\ worker' = [worker EXCEPT ![c] = [phase |-> "spawned", version |-> 0]]
    /\ overlapped' = IF updater = "idle" THEN overlapped
                     ELSE overlapped \cup {c}

\* spawn_cache_worker
Spawn(c, q) ==
    /\ Cleanup
    /\ job' = {j \in job : j.cid \notin expired} \cup {[cid |-> c, query |-> q]}
    /\ worker' = [worker EXCEPT ![c] = [phase |-> "spawned", version |-> 0,
                                        query |-> q]]
    /\ overlapped' = IF updater = "idle" THEN overlapped
                     ELSE overlapped \cup {c}

\* The process could not be started: its job file is taken back, and the search
\* fails without an answer.
SpawnFails ==
    /\ Cleanup
    /\ job' = {j \in job : j.cid \notin expired}
    /\ UNCHANGED <<worker, overlapped>>

KeepsCid(k) == client[k].cid # NoCid /\ IsGenerating(client[k].cid)

Stays == UNCHANGED <<files, worker, issued, overlapped>>

\* search_core reads the page from the tables, which changes nothing; the search
\* ends with it.
Answers(k) == client[k].phase = "core" /\ Ends(k)
              /\ UNCHANGED <<version, updater, killed, settled>>

\* Mutant: a cid whose result is for another query is made anew for this one.
DecideInPlace(k) ==
    LET c == client[k].cid
        q == client[k].query
    IN  /\ Answers(k)
        /\ \/ KeepsCid(k) /\ Stays
           \/ /\ ~KeepsCid(k) /\ c \in CidsOf(parquet) /\ worker[c] = NoWorker
              /\ job' = job \cup {[cid |-> c, query |-> q]}
              /\ worker' = [worker EXCEPT ![c] = [phase |-> "spawned",
                                                  version |-> 0, query |-> q]]
              /\ UNCHANGED <<tmp, parquet, expired, issued, overlapped>>
           \/ /\ ~KeepsCid(k)
              /\ \E new \in Cids \ issued :
                    issued' = issued \cup {new} /\ Spawn(new, q)
           \/ ~KeepsCid(k) /\ Stays

\* search_core asks for one item more than the page holds, and if there is one
\* the whole result is put into a new cid; a cid in generation is kept.
Decide(k) ==
    /\ Answers(k)
    /\ \/ KeepsCid(k) /\ Stays
       \/ /\ ~KeepsCid(k)
          /\ \E c \in Cids \ issued :
                /\ issued' = issued \cup {c}
                /\ \/ Spawn(c, client[k].query)
                   \/ SpawnFails
       \/ ~KeepsCid(k) /\ Stays

----------------------------------------------------------------------------
(* The worker process of a cid. *)

Moves(c, from, to) ==
    /\ worker[c].phase = from
    /\ worker' = [worker EXCEPT ![c].phase = to]
    /\ UNCHANGED <<version, updater, client, issued, overlapped, killed, settled>>

Exits(c, from) ==
    /\ worker[c].phase = from
    /\ worker' = [worker EXCEPT ![c] = NoWorker]
    /\ UNCHANGED <<version, updater, client, issued, overlapped, killed, settled>>

\* maybe_run_worker: without its job file there is nothing to do.
Claim(c) ==
    \/ /\ c \in CidsOf(job)
       /\ Moves(c, "spawned", "claimed")
       /\ job' = {j \in job : j.cid # c}
       /\ expired' = expired \ {c}
       /\ UNCHANGED <<tmp, parquet>>
    \/ /\ c \notin CidsOf(job)
       /\ Exits(c, "spawned")
       /\ UNCHANGED files

\* run_cache_worker: the .tmp file announces that the worker is at work.
Start(c) ==
    /\ Moves(c, "claimed", "started")
    /\ tmp' = tmp \cup {c}
    /\ UNCHANGED <<job, parquet, expired>>

\* COPY reads the tables and writes the .tmp file, anew if it has gone.
Copy(c) ==
    /\ worker[c].phase = "started"
    /\ worker' = [worker EXCEPT ![c].phase = "copied", ![c].version = version]
    /\ tmp' = tmp \cup {c}
    /\ expired' = expired \ {c}
    /\ UNCHANGED <<version, updater, job, parquet, client, issued, overlapped,
                   killed, settled>>

\* rename(2) of the .tmp file, over any file of that name; it fails when the
\* .tmp file has gone.
Publish(c) ==
    \/ /\ c \in tmp
       /\ Exits(c, "copied")
       /\ tmp' = tmp \ {c} /\ expired' = expired \ {c}
       /\ parquet' = {r \in parquet : r.cid # c}
                        \cup {[cid |-> c, query |-> worker[c].query,
                               version |-> worker[c].version]}
       /\ UNCHANGED job
    \/ /\ c \notin tmp
       /\ Exits(c, "copied")
       /\ UNCHANGED files

\* Mutant: the .tmp file of a worker that fails stays.
FailKeepsTmp(c) ==
    /\ Exits(c, "started")
    /\ UNCHANGED files

\* The query or COPY fails: TmpCleanupGuard removes the .tmp file.
Fail(c) ==
    /\ Exits(c, "started")
    /\ tmp' = tmp \ {c} /\ expired' = expired \ {c}
    /\ UNCHANGED <<job, parquet>>

\* The worker is killed: what it left in the directory stays there.
Kill(c) ==
    /\ c \in AliveCids
    /\ worker' = [worker EXCEPT ![c] = NoWorker]
    /\ killed' = killed \cup {c}
    /\ UNCHANGED <<version, updater, files, client, issued, overlapped, settled>>

WorkerRuns(c) == Claim(c) \/ Start(c) \/ Copy(c) \/ Publish(c) \/ Fail(c)

----------------------------------------------------------------------------
(* Updates of the tables, one at a time, and time. *)

\* Mutant: the finished results stay.
ClearKeepsResults == job' = {} /\ tmp' = {} /\ expired' = {} /\ UNCHANGED parquet

\* clear_cache
ClearCache == job' = {} /\ tmp' = {} /\ parquet' = {} /\ expired' = {}

UpdateBegins(kind) ==
    /\ updater = "idle"
    /\ updater' = kind
    /\ overlapped' = overlapped \cup AliveCids
    /\ UNCHANGED <<worker, client, issued, killed, settled>>

UpdateEnds(kind) ==
    /\ updater = kind
    /\ updater' = "idle"
    /\ UNCHANGED <<version, worker, client, issued, overlapped, killed>>

SavesTable == version < MaxVersion /\ version' = version + 1

\* An update saves several tables, one after the other.
Saves ==
    /\ updater # "idle" /\ SavesTable
    /\ UNCHANGED <<updater, files, worker, client, issued, overlapped, killed,
                   settled>>

\* Indexer::run clears the cache after the scan, before it saves its tables;
\* it ends when it has saved them, or dies before.
IndexClears == UpdateBegins("index") /\ ClearCache /\ UNCHANGED version
IndexEnds == UpdateEnds("index") /\ settled' = version /\ UNCHANGED files

\* write_and_refresh, edit, set_rank_by_id and add_item clear the cache after
\* they have saved; what they do in between may fail, and then, or when they
\* are killed or have nothing counted, they do not.
EditSaves == UpdateBegins("edit") /\ SavesTable /\ UNCHANGED files
EditClears == UpdateEnds("edit") /\ ClearCache /\ settled' = version
EditStops == UpdateEnds("edit") /\ UNCHANGED <<files, settled>>

Update ==
    IndexClears \/ IndexEnds \/ EditSaves \/ EditClears \/ EditStops \/ Saves

\* An hour passes over the .job or .tmp file of a cid.
Expire(c) ==
    /\ IsGenerating(c)
    /\ expired' = expired \cup {c}
    /\ UNCHANGED <<version, updater, job, tmp, parquet, worker, client, issued,
                   overlapped, killed, settled>>

----------------------------------------------------------------------------
Search(k) ==
    \/ \E q \in Queries, c \in issued \cup {NoCid} : Ask(k, q, c)
    \/ Resolve(k) \/ Fetch(k) \/ Decide(k)

Next ==
    \/ \E k \in Clients : Search(k)
    \/ \E c \in Cids : WorkerRuns(c) \/ Kill(c) \/ Expire(c)
    \/ Update

Spec == Init /\ [][Next]_vars

\* A worker is a process of its own that nothing it waits for can hold up.
FairSpec == Spec /\ \A c \in Cids : WF_vars(WorkerRuns(c))

----------------------------------------------------------------------------
(* Properties *)

\* No result is older than the last update that cleared the cache, whether the
\* clear came before its saves (Indexer::run) or after them (write_and_refresh,
\* set_rank_by_id, add_item), and whichever edits stopped half way in between;
\* excepted are the results whose worker was at work while an update ran.
FreshUnlessOverlapped ==
    \A r \in parquet : r.cid \notin overlapped => r.version >= settled

\* Between the moment try_resolve_cache compares the query and the moment it
\* reads the page from the path, workers publish, the cache is cleared and
\* results are evicted: the page still comes from a result of the query asked.
CacheAnswersQuery ==
    [][\A k \in Clients :
          client[k].phase = "fetch" /\ client'[k].phase = "idle" =>
              \E r \in parquet :
                  r.cid = client[k].cid /\ r.query = client[k].query]_vars

\* A cid whose worker is not killed does not stay in generation for ever: its
\* result appears, or nothing is left of it and the next search draws a new cid
\* (TmpCleanupGuard).
GenerationEnds ==
    \A c \in Cids : IsGenerating(c) ~> (~IsGenerating(c) \/ c \in killed)

=============================================================================
