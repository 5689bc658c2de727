---------------------------- MODULE MatrixCache ----------------------------
(* The face matrix and how the workers of the API see it: the sidecar      *)
(* files the indexer writes (indexer.py, sidecar.py), the memory map of    *)
(* them, the timed embedding cache and the person means derived from it    *)
(* (store.py), and the generation counter by which processes tell each     *)
(* other that the faces have changed hands.                                *)
(*                                                                         *)
(* The rows of the face table are abstracted to a generation number, one   *)
(* more with every commit that changes them; RowCount says how many rows   *)
(* each generation has.  A view is what a reader pairs up: the generations *)
(* the metadata (ids and person ids), the matrix and the photo uids come   *)
(* from.  Times to live are Booleans that a step of the clock resets.      *)
EXTENDS Integers, FiniteSets

CONSTANTS
    Workers,        \* the uvicorn workers, each a process with its caches
    MaxEvents,      \* bound: commits that change the faces, failed writes of the
                    \* sidecar and restarts of the indexer, all together
    RowCount        \* the number of faces of each generation

ASSUME EventsAssumption == MaxEvents \in Nat
ASSUME RowsAssumption == RowCount \in [0..MaxEvents -> Nat \ {0}]

Generations == 0..MaxEvents

\* What stands for a file that is not there, a cache that is None.
None == -1

Files == {"meta", "mat", "uids"}
View == [Files -> Generations]
NoView == [f \in Files |-> None]
Whole(g) == [f \in Files |-> g]

\* The two threads of a worker that build a matrix.
Builders == {"request", "refresh"}

VARIABLES
    db,                 \* generation of the committed face rows
    ingest,             \* a recognition thread is between its mark and its commit
    sidcarDirty,        \* indexer.py: _sidcar_dirty
    flush,              \* the flush thread: next file to rename, generation read
    disk,               \* the generation of each sidecar file
    failures,           \* writes of the sidecar that raised so far
    restarts,           \* restarts of the indexer so far
    peopleGeneration,   \* cache_state: the shared counter
    seenGeneration,     \* per worker: _seen_generation
    faceMmap,           \* per worker: _face_mmap while it is younger than its 120 s
    embeddingCache,     \* per worker: _embedding_cache
    embeddingFresh,     \* per worker: it is younger than its 120 s
    refreshing,         \* per worker: _embedding_cache_refreshing
    personMeans,        \* per worker: the cached means against the cached matrix
    builder,            \* per worker and thread: where its build is
    mutator             \* per worker: where a call that changes faces is

indexerVars == <<ingest, sidcarDirty, flush, disk, failures, restarts>>
cacheVars == <<faceMmap, embeddingCache, embeddingFresh, refreshing,
               personMeans>>
vars == <<db, indexerVars, peopleGeneration, seenGeneration, cacheVars, builder, mutator>>

Idle == [pc |-> "idle", view |-> NoView]

Init ==
    /\ db = 0
    /\ ingest = FALSE
    /\ sidcarDirty = FALSE
    /\ flush = [next |-> "idle", gen |-> None]
    /\ disk \in {NoView, Whole(0)}
    /\ failures = 0
    /\ restarts = 0
    /\ peopleGeneration = 0
    /\ seenGeneration = [w \in Workers |-> None]
    /\ faceMmap = [w \in Workers |-> NoView]
    /\ embeddingCache = [w \in Workers |-> NoView]
    /\ embeddingFresh = [w \in Workers |-> FALSE]
    /\ refreshing = [w \in Workers |-> FALSE]
    /\ personMeans = [w \in Workers |-> "stale"]
    /\ builder = [w \in Workers |-> [t \in Builders |-> Idle]]
    /\ mutator = [w \in Workers |-> "idle"]

MoreEvents == db + failures + restarts < MaxEvents

-----------------------------------------------------------------------------
(* The indexer: what changes the rows there, and the flush thread.         *)

\* _process_one marks the sidecar inside its transaction, before the commit.
IngestMark ==
    /\ ~ingest
    /\ MoreEvents
    /\ ingest' = TRUE
    /\ sidcarDirty' = TRUE
    /\ UNCHANGED <<db, flush, disk, failures, restarts, peopleGeneration, seenGeneration,
                   cacheVars, builder, mutator>>

IngestCommit ==
    /\ ingest
    /\ MoreEvents
    /\ ingest' = FALSE
    /\ db' = db + 1
    /\ UNCHANGED <<sidcarDirty, flush, disk, failures, restarts, peopleGeneration,
                   seenGeneration, cacheVars, builder, mutator>>

\* cleanup_deleted purges the faces, tells the other processes, then marks; the
\* clusterer's run marks after its commits too.
Cleanup ==
    /\ MoreEvents
    /\ db' = db + 1
    /\ peopleGeneration' = peopleGeneration + 1
    /\ sidcarDirty' = TRUE
    /\ UNCHANGED <<ingest, flush, disk, failures, restarts, seenGeneration, cacheVars,
                   builder, mutator>>

\* _sidcar_flush clears the flag, then reads every face row.
FlushBegin ==
    /\ flush.next = "idle"
    /\ sidcarDirty
    /\ sidcarDirty' = FALSE
    /\ flush' = [next |-> "mat", gen |-> db]
    /\ UNCHANGED <<db, ingest, disk, failures, restarts, peopleGeneration, seenGeneration,
                   cacheVars, builder, mutator>>

\* Mutant: the metadata does not come last.
AfterRenameMetaEarly == [mat |-> "meta", meta |-> "uids", uids |-> "idle"]

AfterRename == [mat |-> "uids", uids |-> "meta", meta |-> "idle"]

\* write_face_sidecar: every file is staged, then the matrix, the uids and last
\* the metadata replace the old ones, each rename on its own.
FlushRename ==
    /\ flush.next \in Files
    /\ disk' = [disk EXCEPT ![flush.next] = flush.gen]
    /\ flush' = [next |-> AfterRename[flush.next],
                 gen |-> IF AfterRename[flush.next] = "idle" THEN None ELSE flush.gen]
    /\ UNCHANGED <<db, ingest, sidcarDirty, failures, restarts, peopleGeneration, seenGeneration,
                   cacheVars, builder, mutator>>

\* Mutant: the flag stays clear.
FlushFailsForgets ==
    /\ MoreEvents
    /\ flush.next \in Files
    /\ failures' = failures + 1
    /\ flush' = [next |-> "idle", gen |-> None]
    /\ UNCHANGED <<db, ingest, sidcarDirty, disk, restarts, peopleGeneration,
                   seenGeneration, cacheVars, builder, mutator>>

\* Staging or renaming raises: the flag is set again for the next tick.
FlushFails ==
    /\ MoreEvents
    /\ flush.next \in Files
    /\ failures' = failures + 1
    /\ sidcarDirty' = TRUE
    /\ flush' = [next |-> "idle", gen |-> None]
    /\ UNCHANGED <<db, ingest, disk, restarts, peopleGeneration, seenGeneration,
                   cacheVars, builder, mutator>>

\* The flag and the open transaction live in memory; the files
\* already renamed stay.
IndexerRestart ==
    /\ MoreEvents
    /\ restarts' = restarts + 1
    /\ ingest' = FALSE
    /\ sidcarDirty' = FALSE
    /\ flush' = [next |-> "idle", gen |-> None]
    /\ UNCHANGED <<db, disk, failures, peopleGeneration, seenGeneration, cacheVars, builder, mutator>>

-----------------------------------------------------------------------------
(* A worker: the request that wants the matrix or the means.               *)

Loading(w, t) == builder[w][t].pc = "meta"

\* _face_mmap_lock is held while the files are opened.
MmapUnlocked(w) == \A t \in Builders : ~Loading(w, t)

\* _embedding_cache_lock is held through the first, synchronous build.
CacheUnlocked(w) == builder[w]["request"].pc \notin {"open", "meta"}

Goto(w, t, pc, view) == builder' = [builder EXCEPT ![w][t] = [pc |-> pc, view |-> view]]

\* Mutant: the time stamp outlives the matrix.
DropCachesKeepStamp(w) ==
    /\ embeddingCache' = [embeddingCache EXCEPT ![w] = NoView]
    /\ personMeans' = [personMeans EXCEPT ![w] = "stale"]
    /\ UNCHANGED embeddingFresh

DropCaches(w) ==
    /\ embeddingCache' = [embeddingCache EXCEPT ![w] = NoView]
    /\ embeddingFresh' = [embeddingFresh EXCEPT ![w] = FALSE]
    /\ personMeans' = [personMeans EXCEPT ![w] = "stale"]

\* A cached read begins with a look at the counter and drops the caches when
\* another process has bumped it; the first look of a process only notes it.
GenerationChanged(w) == seenGeneration[w] \notin {None, peopleGeneration}

Look(w) ==
    /\ builder[w]["request"].pc = "idle"
    /\ seenGeneration' = [seenGeneration EXCEPT ![w] = peopleGeneration]

\* Another process invalidated: this one drops its caches and builds anew.
DropCachesIfGenerationChanged(w) ==
    /\ Look(w)
    /\ GenerationChanged(w)
    /\ MmapUnlocked(w)
    /\ faceMmap' = [faceMmap EXCEPT ![w] = NoView]
    /\ DropCaches(w)
    /\ Goto(w, "request", "open", NoView)
    /\ UNCHANGED <<db, indexerVars, peopleGeneration, refreshing, mutator>>

\* Nothing cached: build under the lock.
FirstLoad(w) ==
    /\ Look(w)
    /\ ~GenerationChanged(w)
    /\ embeddingCache[w] = NoView
    /\ Goto(w, "request", "open", NoView)
    /\ UNCHANGED <<db, indexerVars, peopleGeneration, cacheVars, mutator>>

\* Expired: serve the stale matrix, start one refresh in the background.
ServeStale(w) ==
    /\ Look(w)
    /\ ~GenerationChanged(w)
    /\ embeddingCache[w] # NoView
    /\ ~embeddingFresh[w]
    /\ ~refreshing[w]
    /\ refreshing' = [refreshing EXCEPT ![w] = TRUE]
    /\ builder' = [builder EXCEPT ![w] = [request |-> [pc |-> "means", view |-> embeddingCache[w]],
                                          refresh |-> [pc |-> "open", view |-> NoView]]]
    /\ UNCHANGED <<db, indexerVars, peopleGeneration, faceMmap, embeddingCache,
                   embeddingFresh, personMeans, mutator>>

\* Fresh, or stale with a refresh under way.
ServeCached(w) ==
    /\ Look(w)
    /\ ~GenerationChanged(w)
    /\ embeddingCache[w] # NoView
    /\ embeddingFresh[w] \/ refreshing[w]
    /\ Goto(w, "request", "means", embeddingCache[w])
    /\ UNCHANGED <<db, indexerVars, peopleGeneration, cacheVars, mutator>>

\* Mutant: the means are kept beyond the matrix they were computed of.
SwapInKeepMeans(w, view) ==
    /\ embeddingCache' = [embeddingCache EXCEPT ![w] = view]
    /\ embeddingFresh' = [embeddingFresh EXCEPT ![w] = TRUE]
    /\ UNCHANGED personMeans

SwapIn(w, view) ==
    /\ embeddingCache' = [embeddingCache EXCEPT ![w] = view]
    /\ embeddingFresh' = [embeddingFresh EXCEPT ![w] = TRUE]
    /\ personMeans' = [personMeans EXCEPT ![w] = "stale"]

\* A build has its rows.  The first load swaps them in before it lets go of the
\* lock; a background refresh has yet to take the lock.
Built(w, t, view) ==
    IF t = "request"
      THEN SwapIn(w, view) /\ Goto(w, t, "means", view)
      ELSE UNCHANGED <<embeddingCache, embeddingFresh, personMeans>> /\ Goto(w, t, "built", view)

\* read_face_sidecar: a young map is served as it is.
ReuseMmap(w, t) ==
    /\ builder[w][t].pc = "open"
    /\ MmapUnlocked(w)
    /\ faceMmap[w] # NoView
    /\ Built(w, t, faceMmap[w])
    /\ UNCHANGED <<db, indexerVars, peopleGeneration, seenGeneration, faceMmap,
                   refreshing, mutator>>

\* A file is missing: the rows are read from the database.
BuildFromTable(w, t) ==
    /\ builder[w][t].pc = "open"
    /\ MmapUnlocked(w)
    /\ faceMmap[w] = NoView
    /\ \E f \in Files : disk[f] = None
    /\ Built(w, t, Whole(db))
    /\ UNCHANGED <<db, indexerVars, peopleGeneration, seenGeneration, faceMmap, refreshing, mutator>>

\* No map or an old one: the metadata is opened first.
OpenMeta(w, t) ==
    /\ builder[w][t].pc = "open"
    /\ MmapUnlocked(w)
    /\ faceMmap[w] = NoView
    /\ \A f \in Files : disk[f] # None
    /\ Goto(w, t, "meta", [NoView EXCEPT !.meta = disk.meta])
    /\ UNCHANGED <<db, indexerVars, peopleGeneration, seenGeneration, cacheVars, mutator>>

SameLength(view) == \A f, g \in Files : RowCount[view[f]] = RowCount[view[g]]

\* The matrix and the uids are opened and the lengths compared: files that disagree
\* are refused and the rows come from the database.
OpenRows(w, t) ==
    /\ builder[w][t].pc = "meta"
    /\ LET opened == [disk EXCEPT !.meta = builder[w][t].view.meta]
           agree == SameLength(opened)
       IN /\ faceMmap' = [faceMmap EXCEPT ![w] = IF agree THEN opened ELSE NoView]
          /\ Built(w, t, IF agree THEN opened ELSE Whole(db))
    /\ UNCHANGED <<db, indexerVars, peopleGeneration, seenGeneration, refreshing,
                   mutator>>

\* _background_refresh_embedding swaps its matrix in, whatever was dropped since.
RefreshDone(w) ==
    /\ builder[w]["refresh"].pc = "built"
    /\ CacheUnlocked(w)
    /\ SwapIn(w, builder[w]["refresh"].view)
    /\ refreshing' = [refreshing EXCEPT ![w] = FALSE]
    /\ Goto(w, "refresh", "idle", NoView)
    /\ UNCHANGED <<db, indexerVars, peopleGeneration, seenGeneration, faceMmap,
                   mutator>>

\* person_mean_embeddings_from_cache: the means are kept while their stamp is
\* the one of the matrix, else computed of the matrix in hand and stamped with
\* the stamp the cache has by then.
PersonMeansFromCache(w) ==
    /\ builder[w]["request"].pc = "means"
    /\ personMeans' = [personMeans EXCEPT ![w] =
          IF @ # "stale" THEN @
          ELSE IF builder[w]["request"].view = embeddingCache[w] THEN "match" ELSE "older"]
    /\ Goto(w, "request", "idle", NoView)
    /\ UNCHANGED <<db, indexerVars, peopleGeneration, seenGeneration, faceMmap,
                   embeddingCache, embeddingFresh, refreshing, mutator>>

EmbeddingExpires(w) ==
    /\ embeddingFresh[w]
    /\ embeddingFresh' = [embeddingFresh EXCEPT ![w] = FALSE]
    /\ UNCHANGED <<db, indexerVars, peopleGeneration, seenGeneration, faceMmap,
                   embeddingCache, refreshing, personMeans, builder, mutator>>

\* A map past its time is read no more.
MmapExpires(w) ==
    /\ faceMmap[w] # NoView
    /\ faceMmap' = [faceMmap EXCEPT ![w] = NoView]
    /\ UNCHANGED <<db, indexerVars, peopleGeneration, seenGeneration, embeddingCache,
                   embeddingFresh, refreshing, personMeans, builder, mutator>>

-----------------------------------------------------------------------------
(* A worker: a call that changes which person a face belongs to.           *)

\* assign, unassign, merge, bulk delete: the rows first, the caches after.
ApiCommit(w) ==
    /\ mutator[w] = "idle"
    /\ MoreEvents
    /\ db' = db + 1
    /\ mutator' = [mutator EXCEPT ![w] = "drop"]
    /\ UNCHANGED <<indexerVars, peopleGeneration, seenGeneration, cacheVars, builder>>

\* invalidate_embedding_cache: the map and the caches, each under its lock, then
\* the counter.
InvalidateCaches(w) ==
    /\ mutator[w] = "drop"
    /\ MmapUnlocked(w)
    /\ CacheUnlocked(w)
    /\ faceMmap' = [faceMmap EXCEPT ![w] = NoView]
    /\ DropCaches(w)
    /\ mutator' = [mutator EXCEPT ![w] = "bump"]
    /\ UNCHANGED <<db, indexerVars, peopleGeneration, seenGeneration, refreshing, builder>>

\* The worker takes its own bump for seen, and with it those it had not looked at.
BumpCacheGeneration(w) ==
    /\ mutator[w] = "bump"
    /\ peopleGeneration' = peopleGeneration + 1
    /\ seenGeneration' = [seenGeneration EXCEPT ![w] = peopleGeneration + 1]
    /\ mutator' = [mutator EXCEPT ![w] = "idle"]
    /\ UNCHANGED <<db, indexerVars, cacheVars, builder>>

-----------------------------------------------------------------------------
Flush == FlushBegin \/ FlushRename \/ FlushFails

Build(w, t) ==
    ReuseMmap(w, t) \/ BuildFromTable(w, t) \/ OpenMeta(w, t) \/ OpenRows(w, t)

Request(w) ==
    \/ DropCachesIfGenerationChanged(w)
    \/ FirstLoad(w)
    \/ ServeStale(w)
    \/ ServeCached(w)
    \/ Build(w, "request")
    \/ PersonMeansFromCache(w)

Refresh(w) == Build(w, "refresh") \/ RefreshDone(w)

Invalidate(w) == InvalidateCaches(w) \/ BumpCacheGeneration(w)

Next ==
    \/ IngestMark \/ IngestCommit \/ Cleanup
    \/ Flush \/ IndexerRestart
    \/ \E w \in Workers :
        \/ Request(w) \/ Refresh(w)
        \/ ApiCommit(w) \/ Invalidate(w)
        \/ EmbeddingExpires(w) \/ MmapExpires(w)

Spec == Init /\ [][Next]_vars

\* Threads that have begun go on, the flush thread ticks, clocks move and the
\* workers keep being asked; a flush that is retried is not failed forever.
\* Nothing has to change the rows or restart the indexer.
Fairness ==
    /\ WF_vars(IngestCommit)
    /\ WF_vars(FlushBegin \/ FlushRename)
    /\ \A w \in Workers :
        /\ WF_vars(Request(w))
        /\ WF_vars(Refresh(w))
        /\ WF_vars(Invalidate(w))
        /\ WF_vars(EmbeddingExpires(w))
        /\ WF_vars(MmapExpires(w))

FairSpec == Spec /\ Fairness

-----------------------------------------------------------------------------
(* Properties.                                                             *)

TypeOK ==
    /\ db \in Generations
    /\ ingest \in BOOLEAN /\ sidcarDirty \in BOOLEAN
    /\ flush \in [next : {"idle"} \cup Files, gen : Generations \cup {None}]
    /\ disk \in [Files -> Generations \cup {None}]
    /\ failures \in 0..MaxEvents /\ restarts \in 0..MaxEvents
    /\ peopleGeneration \in Generations
    /\ seenGeneration \in [Workers -> Generations \cup {None}]
    /\ faceMmap \in [Workers -> View \cup {NoView}]
    /\ embeddingCache \in [Workers -> View \cup {NoView}]
    /\ personMeans \in [Workers -> {"stale", "match", "older"}]
    /\ \A w \in Workers :
        /\ embeddingFresh[w] => embeddingCache[w] # NoView
        /\ refreshing[w] <=> builder[w]["refresh"].pc # "idle"
        /\ builder[w]["request"].pc \in {"idle", "open", "meta", "means"}
        /\ builder[w]["refresh"].pc \in {"idle", "open", "meta", "built"}
    /\ mutator \in [Workers -> {"idle", "drop", "bump"}]

Ordered(v) == v.mat >= v.meta /\ v.uids >= v.meta

\* write_face_sidecar promises "a reader that sees the new meta also sees the new
\* matrix": whatever view a worker holds, neither its matrix nor its uids are
\* older than the ids they are paired with, through failed writes and restarts.
NewMetaNewRows ==
    \A w \in Workers : Ordered(faceMmap[w]) /\ Ordered(embeddingCache[w])

\* What a reader that opens the files now would get.
Readable == IF (\E f \in Files : disk[f] = None) \/ ~SameLength(disk) THEN Whole(db) ELSE disk

\* Whatever a background refresh swapped in after an invalidation, whatever bump
\* was taken for the worker's own, and whichever stamp the means were given: once
\* the rows and the files are at rest, every worker comes to serve the matrix and
\* the means of what can be read now, and stays there.
ViewsCatchUp ==
    \A w \in Workers : <>[](embeddingCache[w] = Readable /\ personMeans[w] # "older")

\* The flush thread "retries instead of silently dropping the update": rows that
\* are committed while the flag is set reach the metadata file, whatever write
\* fails or is marked during, unless the indexer restarts.
DirtyIsWritten ==
    \A g \in Generations : (sidcarDirty /\ db = g) ~> (disk.meta >= g \/ restarts > 0)


-----------------------------------------------------------------------------
(* The inductive invariant behind NewMetaNewRows.                          *)

Shapes ==
    /\ db \in Int
    /\ disk \in [Files -> Int]
    /\ flush \in [next : {"idle"} \cup Files, gen : Int]
    /\ faceMmap \in [Workers -> [Files -> Int]]
    /\ embeddingCache \in [Workers -> [Files -> Int]]
    /\ builder \in [Workers -> [Builders -> [pc : {"idle", "open", "meta", "built", "means"},
                                            view : [Files -> Int]]]]

\* No file is ahead of the table, the metadata is ahead of neither other file,
\* and what the flush thread has in hand is at least as new as what it replaces.
FilesOrdered ==
    /\ \A f \in Files : disk[f] <= db
    /\ Ordered(disk)
    /\ flush.next # "idle" => flush.gen <= db /\ \A f \in Files : disk[f] <= flush.gen
    /\ flush.next \in {"uids", "meta"} => disk.mat = flush.gen
    /\ flush.next = "meta" => disk.uids = flush.gen

\* A thread that has opened the metadata opens rows no older; a refresh that is
\* about to swap in has done so.
BuildsOrdered ==
    \A w \in Workers : \A t \in Builders :
        /\ builder[w][t].pc = "meta" => builder[w][t].view.meta <= disk.meta
        /\ builder[w][t].pc = "built" => Ordered(builder[w][t].view)

Inv == Shapes /\ FilesOrdered /\ BuildsOrdered /\ NewMetaNewRows

=============================================================================
