---------------------------- MODULE ServerProofs ----------------------------
(***************************************************************************)
(* What the server keeps beside the photos' own table: the matrices of its *)
(* face search (MatrixCache) and, in Upkeep, coordinates and places,       *)
(* backups and their schedule, the lists of the API.  The matrices come    *)
(* first, then the three parts, then the theorems about Upkeep.            *)
(***************************************************************************)
EXTENDS MatrixCache, Upkeep, FiniteSetTheorems, FunctionTheorems,
        WellFoundedInduction, TLAPS

\* The views that stand for one generation, or for none, are ordered.
LEMMA WholeOrdered ==
    ASSUME NEW g \in Int
    PROVE  /\ Whole(g) \in [Files -> Int] /\ Ordered(Whole(g))
           /\ NoView \in [Files -> Int] /\ Ordered(NoView)
  BY DEF Whole, NoView, None, Ordered, Files

LEMMA InitInv ==
    ASSUME Init
    PROVE  Inv
  <1>1. disk \in [Files -> Int] /\ Ordered(disk) /\ \A f \in Files : disk[f] <= 0
    BY DEF Init, Ordered, Whole, NoView, None, Files
  <1>2. NoView \in [Files -> Int] /\ Ordered(NoView)
    BY WholeOrdered
  <1>3. Shapes
    BY <1>1, <1>2 DEF Init, Shapes, Idle, None
  <1>4. FilesOrdered
    BY <1>1 DEF Init, FilesOrdered
  <1>5. BuildsOrdered
    BY DEF Init, BuildsOrdered, Idle
  <1>6. NewMetaNewRows
    BY <1>2 DEF Init, NewMetaNewRows
  <1> QED BY <1>3, <1>4, <1>5, <1>6 DEF Inv

-----------------------------------------------------------------------------
(* The indexer.                                                            *)

\* A step that leaves the files, the views and the builds alone, and moves the
\* table forward if at all.
LEMMA TableForward ==
    ASSUME Inv, db' \in Int, db' >= db,
           UNCHANGED <<disk, flush, faceMmap, embeddingCache, builder>>
    PROVE  Inv'
  <1>1. Shapes'
    BY DEF Inv, Shapes
  <1>2. FilesOrdered'
    BY DEF Inv, Shapes, FilesOrdered, Ordered, Files
  <1>3. BuildsOrdered' /\ NewMetaNewRows'
    BY DEF Inv, BuildsOrdered, NewMetaNewRows, Ordered
  <1> QED BY <1>1, <1>2, <1>3 DEF Inv

LEMMA FlushBeginInv ==
    ASSUME Inv, FlushBegin
    PROVE  Inv'
  <1>1. Shapes'
    BY DEF Inv, Shapes, FlushBegin, Files, cacheVars
  <1>2. FilesOrdered'
    BY DEF Inv, Shapes, FlushBegin, FilesOrdered, Ordered, Files
  <1>3. BuildsOrdered' /\ NewMetaNewRows'
    BY DEF Inv, FlushBegin, BuildsOrdered, NewMetaNewRows, Ordered, cacheVars
  <1> QED BY <1>1, <1>2, <1>3 DEF Inv

LEMMA FlushRenameInv ==
    ASSUME Inv, FlushRename
    PROVE  Inv'
  <1>1. flush.gen \in Int /\ flush.next \in Files /\ disk \in [Files -> Int] /\ db \in Int
    BY DEF Inv, Shapes, FlushRename
  <1>2. disk' \in [Files -> Int] /\ db' = db
    BY <1>1 DEF FlushRename
  <1>3. Shapes'
    <2>1. flush' \in [next : {"idle"} \cup Files, gen : Int]
      BY <1>1 DEF FlushRename, AfterRename, Files, None
    <2> QED BY <1>1, <1>2, <2>1 DEF Inv, Shapes, FlushRename, cacheVars
  <1>4. /\ \A f \in Files : disk[f] <= flush.gen
        /\ flush.gen <= db
        /\ flush.next \in {"uids", "meta"} => disk.mat = flush.gen
        /\ flush.next = "meta" => disk.uids = flush.gen
        /\ Ordered(disk)
    BY <1>1 DEF Inv, FilesOrdered, Files
  <1>5. FilesOrdered' /\ disk.meta <= disk'.meta
    <2>1. CASE flush.next = "mat"
      <3>1. disk' = [disk EXCEPT !["mat"] = flush.gen] /\ flush' = [next |-> "uids", gen |-> flush.gen]
        BY <2>1 DEF FlushRename, AfterRename
      <3> QED BY <1>1, <1>2, <1>4, <3>1 DEF FilesOrdered, Ordered, Files
    <2>2. CASE flush.next = "uids"
      <3>1. disk' = [disk EXCEPT !["uids"] = flush.gen] /\ flush' = [next |-> "meta", gen |-> flush.gen]
        BY <2>2 DEF FlushRename, AfterRename
      <3> QED BY <1>1, <1>2, <1>4, <2>2, <3>1 DEF FilesOrdered, Ordered, Files
    <2>3. CASE flush.next = "meta"
      <3>1. disk' = [disk EXCEPT !["meta"] = flush.gen] /\ flush' = [next |-> "idle", gen |-> None]
        BY <2>3 DEF FlushRename, AfterRename
      <3> QED BY <1>1, <1>2, <1>4, <2>3, <3>1 DEF FilesOrdered, Ordered, Files
    <2> QED BY <1>1, <2>1, <2>2, <2>3 DEF Files
  <1>6. BuildsOrdered'
    <2>1. SUFFICES ASSUME NEW w \in Workers, NEW t \in Builders
                   PROVE  /\ builder[w][t].pc = "meta" => builder[w][t].view.meta <= disk'.meta
                          /\ builder[w][t].pc = "built" => Ordered(builder[w][t].view)
      BY DEF BuildsOrdered, FlushRename
    <2>2. builder[w][t].view \in [Files -> Int]
      BY DEF Inv, Shapes
    <2>3. builder[w][t].view.meta \in Int /\ disk.meta \in Int /\ disk'.meta \in Int
      BY <1>1, <1>2, <2>2 DEF Files
    <2> QED BY <1>5, <2>3 DEF Inv, BuildsOrdered
  <1>7. NewMetaNewRows'
    BY DEF Inv, FlushRename, NewMetaNewRows, Ordered, cacheVars
  <1> QED BY <1>3, <1>5, <1>6, <1>7 DEF Inv

\* A failed write and a restart leave the files as they are and forget the rest.
LEMMA FlushGivenUp ==
    ASSUME Inv, flush' = [next |-> "idle", gen |-> None],
           UNCHANGED <<db, disk, faceMmap, embeddingCache, builder>>
    PROVE  Inv'
  <1>1. Shapes'
    BY DEF Inv, Shapes, None
  <1>2. FilesOrdered'
    BY DEF Inv, FilesOrdered, Ordered
  <1>3. BuildsOrdered' /\ NewMetaNewRows'
    BY DEF Inv, BuildsOrdered, NewMetaNewRows, Ordered
  <1> QED BY <1>1, <1>2, <1>3 DEF Inv

-----------------------------------------------------------------------------
(* The workers.                                                            *)

Caches == [Workers -> [Files -> Int]]

Builds == [Workers -> [Builders -> [pc : {"idle", "open", "meta", "built", "means"},
                                    view : [Files -> Int]]]]

\* What a step of a worker has to show when the table and the files rest.
LEMMA WorkerStep ==
    ASSUME Inv, UNCHANGED <<db, flush, disk>>,
           faceMmap' \in Caches, embeddingCache' \in Caches, builder' \in Builds,
           NewMetaNewRows', BuildsOrdered'
    PROVE  Inv'
  <1>1. Shapes'
    BY DEF Inv, Shapes, Caches, Builds
  <1>2. FilesOrdered'
    BY DEF Inv, FilesOrdered, Ordered
  <1> QED BY <1>1, <1>2 DEF Inv

\* An ordered view put into an ordered cache.
LEMMA PutOrdered ==
    ASSUME NEW c \in Caches, \A x \in Workers : Ordered(c[x]),
           NEW w, NEW v \in [Files -> Int], Ordered(v)
    PROVE  /\ [c EXCEPT ![w] = v] \in Caches
           /\ \A x \in Workers : Ordered([c EXCEPT ![w] = v][x])
  BY DEF Caches

\* A thread goes on to a step whose view is fit for it.
LEMMA GotoOrdered ==
    ASSUME Inv, NEW w \in Workers, NEW t \in Builders,
           NEW to \in {"idle", "open", "meta", "built", "means"},
           NEW view \in [Files -> Int],
           to = "meta" => view.meta <= disk.meta, to = "built" => Ordered(view),
           Goto(w, t, to, view), disk' = disk
    PROVE  builder' \in Builds /\ BuildsOrdered'
  <1>1. builder \in Builds
    BY DEF Inv, Shapes, Builds
  <1>2. builder' \in Builds
    BY <1>1 DEF Goto, Builds
  <1>3. ASSUME NEW x \in Workers, NEW s \in Builders
        PROVE  /\ builder'[x][s].pc = "meta" => builder'[x][s].view.meta <= disk.meta
               /\ builder'[x][s].pc = "built" => Ordered(builder'[x][s].view)
    <2>1. CASE x = w /\ s = t
      <3>1. builder'[x][s] = [pc |-> to, view |-> view]
        BY <1>1, <2>1 DEF Goto, Builds
      <3> QED BY <3>1
    <2>2. CASE ~(x = w /\ s = t)
      <3>1. builder'[x][s] = builder[x][s]
        BY <1>1, <2>2 DEF Goto, Builds
      <3> QED BY <3>1 DEF Inv, BuildsOrdered
    <2> QED BY <2>1, <2>2
  <1> QED BY <1>2, <1>3 DEF BuildsOrdered

\* What the invariant says of the caches, in the words of the lemmas above.
LEMMA InvCaches ==
    ASSUME Inv
    PROVE  /\ faceMmap \in Caches /\ \A x \in Workers : Ordered(faceMmap[x])
           /\ embeddingCache \in Caches /\ \A x \in Workers : Ordered(embeddingCache[x])
           /\ builder \in Builds
           /\ NoView \in [Files -> Int] /\ Ordered(NoView)
  BY WholeOrdered DEF Inv, Shapes, Caches, Builds, NewMetaNewRows

\* A build that has an ordered view in hand, whichever thread it is.
LEMMA BuiltInv ==
    ASSUME Inv, NEW w \in Workers, NEW t \in Builders, NEW v \in [Files -> Int], Ordered(v),
           Built(w, t, v), UNCHANGED <<db, flush, disk>>,
           faceMmap' \in Caches, \A x \in Workers : Ordered(faceMmap'[x])
    PROVE  Inv'
  <1>1. builder' \in Builds /\ BuildsOrdered'
    <2>1. CASE t = "request"
      <3>1. Goto(w, t, "means", v)
        BY <2>1 DEF Built
      <3> QED BY <3>1, GotoOrdered
    <2>2. CASE t # "request"
      <3>1. Goto(w, t, "built", v)
        BY <2>2 DEF Built
      <3> QED BY <3>1, GotoOrdered
    <2> QED BY <2>1, <2>2
  <1>2. embeddingCache' \in Caches /\ \A x \in Workers : Ordered(embeddingCache'[x])
    <2>1. \/ embeddingCache' = [embeddingCache EXCEPT ![w] = v]
          \/ embeddingCache' = embeddingCache
      BY DEF Built, SwapIn
    <2>2. embeddingCache \in Caches /\ \A x \in Workers : Ordered(embeddingCache[x])
      BY InvCaches
    <2>3. CASE embeddingCache' = [embeddingCache EXCEPT ![w] = v]
      BY <2>2, <2>3, PutOrdered
    <2>4. CASE embeddingCache' = embeddingCache
      BY <2>2, <2>4
    <2> QED BY <2>1, <2>3, <2>4
  <1> QED BY <1>1, <1>2, WorkerStep DEF NewMetaNewRows

LEMMA BuildInv ==
    ASSUME Inv, NEW w \in Workers, NEW t \in Builders, Build(w, t)
    PROVE  Inv'
  <1> USE InvCaches
  <1>1. CASE ReuseMmap(w, t)
    <2>1. faceMmap[w] \in [Files -> Int] /\ Ordered(faceMmap[w])
      BY DEF Caches
    <2> QED BY <1>1, <2>1, BuiltInv DEF ReuseMmap, indexerVars
  <1>2. CASE BuildFromTable(w, t)
    <2>1. Whole(db) \in [Files -> Int] /\ Ordered(Whole(db))
      BY WholeOrdered DEF Inv, Shapes
    <2> QED BY <1>2, <2>1, BuiltInv DEF BuildFromTable, indexerVars
  <1>3. CASE OpenMeta(w, t)
    <2> DEFINE v == [NoView EXCEPT !.meta = disk.meta]
    <2>1. disk.meta \in Int
      BY DEF Inv, Shapes, Files
    <2>2. v \in [Files -> Int] /\ v.meta = disk.meta
      <3>1. NoView \in [Files -> Int] /\ "meta" \in Files
        BY DEF Files
      <3> QED BY <2>1, <3>1
    <2>3. Goto(w, t, "meta", v) /\ UNCHANGED <<db, flush, disk, faceMmap, embeddingCache>>
      BY <1>3 DEF OpenMeta, indexerVars, cacheVars
    <2> HIDE DEF v
    <2>4. builder' \in Builds /\ BuildsOrdered'
      BY <2>1, <2>2, <2>3, GotoOrdered
    <2> QED BY <2>3, <2>4, WorkerStep DEF NewMetaNewRows
  <1>4. CASE OpenRows(w, t)
    <2> DEFINE opened == [disk EXCEPT !.meta = builder[w][t].view.meta]
               v == IF SameLength(opened) THEN opened ELSE Whole(db)
               m == IF SameLength(opened) THEN opened ELSE NoView
    <2>1. builder[w][t].view \in [Files -> Int] /\ disk \in [Files -> Int] /\ db \in Int
      BY DEF Inv, Shapes
    <2>2. builder[w][t].view.meta <= disk.meta /\ Ordered(disk)
      BY <1>4 DEF OpenRows, Inv, BuildsOrdered, FilesOrdered
    <2>3. opened \in [Files -> Int] /\ Ordered(opened)
      BY <2>1, <2>2 DEF Files, Ordered
    <2>4. Built(w, t, v) /\ faceMmap' = [faceMmap EXCEPT ![w] = m] /\ UNCHANGED <<db, flush, disk>>
      BY <1>4 DEF OpenRows, indexerVars
    <2> HIDE DEF opened
    <2>5. v \in [Files -> Int] /\ Ordered(v) /\ m \in [Files -> Int] /\ Ordered(m)
      BY <2>1, <2>3, WholeOrdered
    <2> HIDE DEF v, m
    <2>6. faceMmap' \in Caches /\ \A x \in Workers : Ordered(faceMmap'[x])
      BY <2>4, <2>5, PutOrdered
    <2> QED BY <2>4, <2>5, <2>6, BuiltInv
  <1> QED BY <1>1, <1>2, <1>3, <1>4 DEF Build

\* Dropped caches are ordered.
LEMMA Dropped ==
    ASSUME Inv, NEW w \in Workers, DropCaches(w), faceMmap' = [faceMmap EXCEPT ![w] = NoView]
    PROVE  embeddingCache' \in Caches /\ faceMmap' \in Caches /\ NewMetaNewRows'
  <1>1. embeddingCache' = [embeddingCache EXCEPT ![w] = NoView]
    BY DEF DropCaches
  <1>2. embeddingCache' \in Caches /\ \A x \in Workers : Ordered(embeddingCache'[x])
    BY <1>1, InvCaches, PutOrdered
  <1>3. faceMmap' \in Caches /\ \A x \in Workers : Ordered(faceMmap'[x])
    BY InvCaches, PutOrdered
  <1> QED BY <1>2, <1>3 DEF NewMetaNewRows

LEMMA RequestInv ==
    ASSUME Inv, NEW w \in Workers, Request(w)
    PROVE  Inv'
  <1> USE InvCaches
  <1>0. "request" \in Builders /\ "refresh" \in Builders
    BY DEF Builders
  <1>1. CASE DropCachesIfGenerationChanged(w)
    <2>1. /\ DropCaches(w) /\ faceMmap' = [faceMmap EXCEPT ![w] = NoView]
          /\ Goto(w, "request", "open", NoView) /\ UNCHANGED <<db, flush, disk>>
      BY <1>1 DEF DropCachesIfGenerationChanged, indexerVars
    <2>2. builder' \in Builds /\ BuildsOrdered'
      BY <1>0, <2>1, GotoOrdered
    <2> QED BY <2>1, <2>2, Dropped, WorkerStep
  <1>2. CASE FirstLoad(w)
    <2>1. /\ Goto(w, "request", "open", NoView)
          /\ UNCHANGED <<db, flush, disk, faceMmap, embeddingCache>>
      BY <1>2 DEF FirstLoad, indexerVars, cacheVars
    <2>2. builder' \in Builds /\ BuildsOrdered'
      BY <1>0, <2>1, GotoOrdered
    <2> QED BY <2>1, <2>2, WorkerStep DEF NewMetaNewRows
  <1>3. CASE ServeStale(w)
    <2>1. UNCHANGED <<db, flush, disk, faceMmap, embeddingCache>>
      BY <1>3 DEF ServeStale, indexerVars
    <2>2. embeddingCache[w] \in [Files -> Int]
      BY DEF Caches
    <2>3. builder' \in Builds
      BY <1>3, <2>2 DEF ServeStale, Builds, Builders
    <2>4. BuildsOrdered'
      <3>1. ASSUME NEW x \in Workers, NEW s \in Builders
            PROVE  builder'[x][s] = builder[x][s] \/ builder'[x][s].pc \in {"means", "open"}
        BY <1>3 DEF ServeStale, Builds, Builders
      <3> QED BY <2>1, <3>1 DEF Inv, BuildsOrdered
    <2> QED BY <2>1, <2>3, <2>4, WorkerStep DEF NewMetaNewRows
  <1>4. CASE ServeCached(w)
    <2>1. /\ Goto(w, "request", "means", embeddingCache[w])
          /\ UNCHANGED <<db, flush, disk, faceMmap, embeddingCache>>
      BY <1>4 DEF ServeCached, indexerVars, cacheVars
    <2>2. embeddingCache[w] \in [Files -> Int]
      BY DEF Caches
    <2>3. builder' \in Builds /\ BuildsOrdered'
      BY <1>0, <2>1, <2>2, GotoOrdered
    <2> QED BY <2>1, <2>3, WorkerStep DEF NewMetaNewRows
  <1>5. CASE Build(w, "request")
    BY <1>0, <1>5, BuildInv
  <1>6. CASE PersonMeansFromCache(w)
    <2>1. /\ Goto(w, "request", "idle", NoView)
          /\ UNCHANGED <<db, flush, disk, faceMmap, embeddingCache>>
      BY <1>6 DEF PersonMeansFromCache, indexerVars
    <2>2. builder' \in Builds /\ BuildsOrdered'
      BY <1>0, <2>1, GotoOrdered
    <2> QED BY <2>1, <2>2, WorkerStep DEF NewMetaNewRows
  <1> QED BY <1>1, <1>2, <1>3, <1>4, <1>5, <1>6 DEF Request

LEMMA RefreshInv ==
    ASSUME Inv, NEW w \in Workers, Refresh(w)
    PROVE  Inv'
  <1> USE InvCaches
  <1>0. "refresh" \in Builders
    BY DEF Builders
  <1>1. CASE Build(w, "refresh")
    BY <1>0, <1>1, BuildInv
  <1>2. CASE RefreshDone(w)
    <2> DEFINE v == builder[w]["refresh"].view
    <2>1. v \in [Files -> Int]
      BY <1>0 DEF Builds
    <2>2. Ordered(v)
      BY <1>0, <1>2 DEF RefreshDone, Inv, BuildsOrdered
    <2>3. /\ embeddingCache' = [embeddingCache EXCEPT ![w] = v]
          /\ Goto(w, "refresh", "idle", NoView) /\ UNCHANGED <<db, flush, disk, faceMmap>>
      BY <1>2 DEF RefreshDone, SwapIn, indexerVars
    <2> HIDE DEF v
    <2>4. builder' \in Builds /\ BuildsOrdered'
      BY <1>0, <2>3, GotoOrdered
    <2>5. embeddingCache' \in Caches /\ \A x \in Workers : Ordered(embeddingCache'[x])
      BY <2>1, <2>2, <2>3, PutOrdered
    <2> QED BY <2>3, <2>4, <2>5, WorkerStep DEF NewMetaNewRows
  <1> QED BY <1>1, <1>2 DEF Refresh

\* Calls that change faces, and the clocks.
LEMMA OtherInv ==
    ASSUME Inv, NEW w \in Workers,
           \/ ApiCommit(w) \/ Invalidate(w) \/ EmbeddingExpires(w) \/ MmapExpires(w)
    PROVE  Inv'
  <1> USE InvCaches
  <1>1. CASE ApiCommit(w)
    <2>1. db' = db + 1 /\ db \in Int /\ UNCHANGED <<disk, flush, faceMmap, embeddingCache, builder>>
      BY <1>1 DEF ApiCommit, indexerVars, cacheVars, Inv, Shapes
    <2> QED BY <2>1, TableForward
  <1>2. CASE InvalidateCaches(w)
    <2>1. /\ DropCaches(w) /\ faceMmap' = [faceMmap EXCEPT ![w] = NoView]
          /\ UNCHANGED <<db, flush, disk, builder>>
      BY <1>2 DEF InvalidateCaches, indexerVars
    <2>2. BuildsOrdered'
      BY <2>1 DEF Inv, BuildsOrdered
    <2> QED BY <2>1, <2>2, Dropped, WorkerStep
  <1>3. CASE BumpCacheGeneration(w) \/ EmbeddingExpires(w)
    <2>1. UNCHANGED <<db, disk, flush, faceMmap, embeddingCache, builder>>
      BY <1>3 DEF BumpCacheGeneration, EmbeddingExpires, indexerVars, cacheVars
    <2>2. BuildsOrdered' /\ NewMetaNewRows'
      BY <2>1 DEF Inv, BuildsOrdered, NewMetaNewRows, Ordered
    <2> QED BY <2>1, <2>2, WorkerStep
  <1>4. CASE MmapExpires(w)
    <2>1. /\ faceMmap' = [faceMmap EXCEPT ![w] = NoView]
          /\ UNCHANGED <<db, flush, disk, embeddingCache, builder>>
      BY <1>4 DEF MmapExpires, indexerVars
    <2>2. faceMmap' \in Caches /\ \A x \in Workers : Ordered(faceMmap'[x])
      BY <2>1, PutOrdered
    <2>3. BuildsOrdered'
      BY <2>1 DEF Inv, BuildsOrdered
    <2> QED BY <2>1, <2>2, <2>3, WorkerStep DEF NewMetaNewRows
  <1> QED BY <1>1, <1>2, <1>3, <1>4 DEF Invalidate

LEMMA IndexerInv ==
    ASSUME Inv, IngestMark \/ IngestCommit \/ Cleanup \/ Flush \/ IndexerRestart
    PROVE  Inv'
  <1>1. CASE IngestMark \/ IngestCommit \/ Cleanup
    <2>1. /\ db' \in Int /\ db' >= db
          /\ UNCHANGED <<disk, flush, faceMmap, embeddingCache, builder>>
      BY <1>1 DEF IngestMark, IngestCommit, Cleanup, cacheVars, Inv, Shapes
    <2> QED BY <2>1, TableForward
  <1>2. CASE FlushFails \/ IndexerRestart
    <2>1. /\ flush' = [next |-> "idle", gen |-> None]
          /\ UNCHANGED <<db, disk, faceMmap, embeddingCache, builder>>
      BY <1>2 DEF FlushFails, IndexerRestart, cacheVars
    <2> QED BY <2>1, FlushGivenUp
  <1> QED BY <1>1, <1>2, FlushBeginInv, FlushRenameInv DEF Flush

LEMMA NextInv ==
    ASSUME Inv, [Next]_vars
    PROVE  Inv'
  <1>1. CASE IngestMark \/ IngestCommit \/ Cleanup \/ Flush \/ IndexerRestart
    BY <1>1, IndexerInv
  <1>2. CASE \E w \in Workers : \/ Request(w) \/ Refresh(w) \/ ApiCommit(w) \/ Invalidate(w)
                                \/ EmbeddingExpires(w) \/ MmapExpires(w)
    BY <1>2, RequestInv, RefreshInv, OtherInv
  <1>3. CASE UNCHANGED vars
    <2>1. db \in Int /\ db' = db /\ UNCHANGED <<disk, flush, faceMmap, embeddingCache, builder>>
      BY <1>3 DEF vars, indexerVars, cacheVars, Inv, Shapes
    <2> QED BY <2>1, TableForward
  <1> QED BY <1>1, <1>2, <1>3 DEF Next

\* The inductive invariant holds in every reachable state.
THEOREM Invariance == Spec => []Inv
  <1>1. Init => Inv
    BY InitInv
  <1>2. Inv /\ [Next]_vars => Inv'
    BY NextInv
  <1> QED BY <1>1, <1>2, PTL DEF Spec

\* Whatever fails, restarts or expires, no view of a worker pairs ids with rows
\* older than they are (the renames of write_face_sidecar, the opens of
\* read_face_sidecar).
THEOREM MetaNeverLeads == Spec => []NewMetaNewRows
  <1>1. Inv => NewMetaNewRows
    BY DEF Inv
  <1> QED BY <1>1, Invariance, PTL

-----------------------------------------------------------------------------
(* Type correctness.  It says more than types: the shared counter is never *)
(* bumped more often than the faces have changed, a matrix is fresh only   *)
(* if it is there, and one refresh at a time is under way in a worker.     *)

\* The calls that have changed faces and not yet bumped the counter.
Pending == {w \in Workers : mutator[w] # "idle"}

Numbers ==
    /\ db \in Nat /\ failures \in Nat /\ restarts \in Nat
    /\ db + failures + restarts <= MaxEvents
    /\ mutator \in [Workers -> {"idle", "drop", "bump"}]
    /\ IsFiniteSet(Pending)
    /\ peopleGeneration \in Nat /\ peopleGeneration + Cardinality(Pending) <= db
    /\ seenGeneration \in [Workers -> Generations \cup {None}]

Maybe == [Files -> Generations \cup {None}]

FilesFit ==
    /\ ingest \in BOOLEAN /\ sidcarDirty \in BOOLEAN
    /\ flush \in [next : {"idle"} \cup Files, gen : Generations \cup {None}]
    /\ flush.next # "idle" => flush.gen \in Generations
    /\ disk \in Maybe

CachesFit ==
    /\ faceMmap \in [Workers -> View \cup {NoView}]
    /\ embeddingCache \in [Workers -> View \cup {NoView}]
    /\ embeddingFresh \in [Workers -> BOOLEAN] /\ refreshing \in [Workers -> BOOLEAN]
    /\ personMeans \in [Workers -> {"stale", "match", "older"}]
    /\ \A w \in Workers : embeddingFresh[w] => embeddingCache[w] # NoView

\* A view a build has finished is one of the table or of files that are all there.
BuildFits(b, there) ==
    /\ b.pc \in {"built", "means"} => b.view \in View
    /\ b.pc = "meta" => b.view.meta \in Generations /\ \A f \in Files : there[f] # None

BuildsFit ==
    /\ builder \in [Workers -> [Builders -> [pc : {"idle", "open", "meta", "built", "means"},
                                             view : Maybe]]]
    /\ \A w \in Workers :
        /\ refreshing[w] <=> builder[w]["refresh"].pc # "idle"
        /\ builder[w]["request"].pc # "built" /\ builder[w]["refresh"].pc # "means"
        /\ \A t \in Builders : BuildFits(builder[w][t], disk)

Fits == Numbers /\ FilesFit /\ CachesFit /\ BuildsFit

\* Generations are numbers, and a view of one generation is a view.
LEMMA GenerationFacts ==
    /\ \A g \in Generations : g \in Int /\ g # None /\ g >= 0
    /\ \A n \in Nat : n <= MaxEvents => n \in Generations
    /\ NoView \in Maybe /\ NoView \notin View /\ View \subseteq Maybe
    /\ \A g \in Generations : Whole(g) \in View
    /\ \A v \in Maybe : (\A f \in Files : v[f] # None) => v \in View
  <1>1. MaxEvents \in Nat
    BY EventsAssumption
  <1>2. /\ \A g \in Generations : g \in Int /\ g # None /\ g >= 0
        /\ \A n \in Nat : n <= MaxEvents => n \in Generations
    BY <1>1 DEF Generations, None
  <1>3. "meta" \in Files
    BY DEF Files
  <1> QED BY <1>2, <1>3 DEF NoView, View, Maybe, Whole

\* What the caches hold when the server starts.
LEMMA InitFits ==
    ASSUME Init
    PROVE  Fits
  <1>1. Numbers
    <2>1. Pending = {}
      BY DEF Init, Pending
    <2>2. IsFiniteSet(Pending) /\ Cardinality(Pending) = 0
      BY <2>1, FS_EmptySet
    <2> QED BY <2>2, EventsAssumption DEF Init, Numbers
  <1>2. FilesFit
    <2>1. 0 \in Generations
      BY EventsAssumption, GenerationFacts
    <2>2. Whole(0) \in Maybe /\ NoView \in Maybe
      BY <2>1, GenerationFacts
    <2> QED BY <2>2 DEF Init, FilesFit
  <1>3. CachesFit
    BY DEF Init, CachesFit
  <1>4. BuildsFit
    <2>1. Idle \in [pc : {"idle", "open", "meta", "built", "means"}, view : Maybe]
      BY GenerationFacts DEF Idle
    <2>2. /\ builder = [w \in Workers |-> [t \in Builders |-> Idle]]
          /\ refreshing = [w \in Workers |-> FALSE]
          /\ "request" \in Builders /\ "refresh" \in Builders
      BY DEF Init, Builders
    <2>3. Idle.pc = "idle"
      BY DEF Idle
    <2>4. \A w \in Workers, t \in Builders : builder[w][t].pc = "idle"
      BY <2>2, <2>3
    <2> QED BY <2>1, <2>2, <2>4 DEF BuildsFit, BuildFits
  <1> QED BY <1>1, <1>2, <1>3, <1>4 DEF Fits

\* The counter stays behind the table.
LEMMA CountersFit ==
    ASSUME Numbers
    PROVE  db \in Generations /\ failures \in 0..MaxEvents /\ restarts \in 0..MaxEvents
           /\ peopleGeneration \in Generations
  <1>1. PICK n \in Nat : n = Cardinality(Pending)
    BY FS_CardinalityType DEF Numbers
  <1>2. db \in Nat /\ failures \in Nat /\ restarts \in Nat /\ peopleGeneration \in Nat
        /\ db + failures + restarts <= MaxEvents /\ peopleGeneration + n <= db
    BY <1>1 DEF Numbers
  <1>3. MaxEvents \in Nat
    BY EventsAssumption
  <1> QED BY <1>2, <1>3 DEF Generations

\* Steps of the indexer: the events are counted, one commit is at most one bump.
LEMMA NumbersIndexer ==
    ASSUME Numbers, IngestMark \/ IngestCommit \/ Cleanup \/ Flush \/ IndexerRestart
    PROVE  Numbers'
  <1>1. mutator' = mutator /\ seenGeneration' = seenGeneration
    BY DEF IngestMark, IngestCommit, Cleanup, Flush, FlushBegin, FlushRename, FlushFails,
           IndexerRestart
  <1>2. Pending' = Pending
    BY <1>1 DEF Pending
  <1>3. PICK n \in Nat : n = Cardinality(Pending)
    BY FS_CardinalityType DEF Numbers
  <1>4. MaxEvents \in Nat /\ db \in Nat /\ failures \in Nat /\ restarts \in Nat
        /\ peopleGeneration \in Nat
        /\ db + failures + restarts <= MaxEvents /\ peopleGeneration + n <= db
    BY <1>3, EventsAssumption DEF Numbers
  <1>5. \/ UNCHANGED <<db, failures, restarts, peopleGeneration>>
        \/ /\ MoreEvents
           /\ \/ db' = db + 1 /\ UNCHANGED <<failures, restarts>>
                 /\ peopleGeneration' \in {peopleGeneration, peopleGeneration + 1}
              \/ failures' = failures + 1 /\ UNCHANGED <<db, restarts, peopleGeneration>>
              \/ restarts' = restarts + 1 /\ UNCHANGED <<db, failures, peopleGeneration>>
    BY DEF IngestMark, IngestCommit, Cleanup, Flush, FlushBegin, FlushRename, FlushFails,
           IndexerRestart
  <1>6. db' \in Nat /\ failures' \in Nat /\ restarts' \in Nat /\ peopleGeneration' \in Nat
        /\ db' + failures' + restarts' <= MaxEvents /\ peopleGeneration' + n <= db'
    BY <1>4, <1>5 DEF MoreEvents
  <1>7. Cardinality(Pending') = n /\ IsFiniteSet(Pending')
    BY <1>2, <1>3 DEF Numbers
  <1> QED BY <1>1, <1>6, <1>7 DEF Numbers

\* A call commits, and owes the bump from then on.
LEMMA NumbersCommit ==
    ASSUME Numbers, NEW w \in Workers, ApiCommit(w)
    PROVE  Numbers'
  <1>1. mutator' = [mutator EXCEPT ![w] = "drop"] /\ mutator[w] = "idle"
        /\ mutator \in [Workers -> {"idle", "drop", "bump"}]
    BY DEF ApiCommit, Numbers
  <1>2. Pending' = Pending \cup {w} /\ w \notin Pending
    BY <1>1 DEF Pending
  <1>3. IsFiniteSet(Pending') /\ Cardinality(Pending') = Cardinality(Pending) + 1
    BY <1>2, FS_AddElement DEF Numbers
  <1>4. PICK n \in Nat : n = Cardinality(Pending)
    BY FS_CardinalityType DEF Numbers
  <1>5. MaxEvents \in Nat /\ db \in Nat /\ failures \in Nat /\ restarts \in Nat
        /\ peopleGeneration \in Nat
        /\ db + failures + restarts < MaxEvents /\ peopleGeneration + n <= db
        /\ db' = db + 1 /\ UNCHANGED <<failures, restarts, peopleGeneration, seenGeneration>>
    BY <1>4, EventsAssumption DEF Numbers, ApiCommit, MoreEvents, indexerVars
  <1>6. db' \in Nat /\ db' + failures' + restarts' <= MaxEvents
        /\ peopleGeneration' + (n + 1) <= db'
    BY <1>5
  <1> QED BY <1>1, <1>3, <1>4, <1>5, <1>6 DEF Numbers

\* The bump pays it.
LEMMA NumbersBump ==
    ASSUME Numbers, NEW w \in Workers, BumpCacheGeneration(w)
    PROVE  Numbers'
  <1>1. mutator' = [mutator EXCEPT ![w] = "idle"] /\ mutator[w] = "bump"
        /\ mutator \in [Workers -> {"idle", "drop", "bump"}]
    BY DEF BumpCacheGeneration, Numbers
  <1>2. Pending' = Pending \ {w} /\ w \in Pending
    BY <1>1 DEF Pending
  <1>3. IsFiniteSet(Pending') /\ Cardinality(Pending') = Cardinality(Pending) - 1
    BY <1>2, FS_RemoveElement DEF Numbers
  <1>4. PICK n \in Nat : n = Cardinality(Pending)
    BY FS_CardinalityType DEF Numbers
  <1>5. MaxEvents \in Nat /\ db \in Nat /\ failures \in Nat /\ restarts \in Nat
        /\ peopleGeneration \in Nat
        /\ db + failures + restarts <= MaxEvents /\ peopleGeneration + n <= db
        /\ peopleGeneration' = peopleGeneration + 1 /\ UNCHANGED <<db, failures, restarts>>
        /\ seenGeneration' = [seenGeneration EXCEPT ![w] = peopleGeneration + 1]
        /\ seenGeneration \in [Workers -> Generations \cup {None}]
    BY <1>4, EventsAssumption DEF Numbers, BumpCacheGeneration, indexerVars
  <1>6. peopleGeneration' \in Nat /\ peopleGeneration' + (n - 1) <= db'
    BY <1>5
  <1>7. n # 0
    <2>1. Cardinality(Pending') \in Nat
      BY <1>3, FS_CardinalityType
    <2> QED BY <1>3, <1>4, <2>1
  <1>8. peopleGeneration + 1 \in Generations
    BY <1>5, <1>7 DEF Generations
  <1> QED BY <1>1, <1>3, <1>4, <1>5, <1>6, <1>8 DEF Numbers

\* All other steps count nothing; a look notes the counter.
LEMMA NumbersLook ==
    ASSUME Numbers, UNCHANGED <<db, failures, restarts, peopleGeneration>>,
           NEW w \in Workers,
           \/ mutator' = mutator
           \/ mutator[w] = "drop" /\ mutator' = [mutator EXCEPT ![w] = "bump"],
           \/ seenGeneration' = seenGeneration
           \/ seenGeneration' = [seenGeneration EXCEPT ![w] = peopleGeneration]
    PROVE  Numbers'
  <1>1. mutator \in [Workers -> {"idle", "drop", "bump"}]
    BY DEF Numbers
  <1>2. mutator' \in [Workers -> {"idle", "drop", "bump"}]
    BY <1>1
  <1>3. Pending' = Pending
    BY <1>1 DEF Pending
  <1>4. IsFiniteSet(Pending') /\ Cardinality(Pending') = Cardinality(Pending)
    BY <1>3 DEF Numbers
  <1>5. seenGeneration' \in [Workers -> Generations \cup {None}]
    BY CountersFit DEF Numbers
  <1> QED BY <1>2, <1>4, <1>5 DEF Numbers

-----------------------------------------------------------------------------

\* Files and builds under a step of the indexer.
LEMMA FilesIndexer ==
    ASSUME Numbers, FilesFit, BuildsFit,
           IngestMark \/ IngestCommit \/ Cleanup \/ Flush \/ IndexerRestart
    PROVE  FilesFit' /\ BuildsFit'
  <1>1. builder' = builder /\ refreshing' = refreshing
    BY DEF IngestMark, IngestCommit, Cleanup, Flush, FlushBegin, FlushRename, FlushFails,
           IndexerRestart, cacheVars
  <1>2. db \in Generations /\ \A g \in Generations : g # None
    BY CountersFit, GenerationFacts
  <1>3. /\ flush \in [next : {"idle"} \cup Files, gen : Generations \cup {None}]
        /\ disk \in [Files -> Generations \cup {None}]
        /\ ingest \in BOOLEAN /\ sidcarDirty \in BOOLEAN
    BY DEF FilesFit, Maybe
  <1>4. FilesFit' /\ \A f \in Files : disk[f] # None => disk'[f] # None
    <2>1. CASE IngestMark \/ IngestCommit \/ Cleanup
      BY <1>3, <2>1 DEF FilesFit, Maybe, IngestMark, IngestCommit, Cleanup
    <2>2. CASE FlushBegin
      BY <1>2, <1>3, <2>2 DEF FilesFit, Maybe, FlushBegin, Files
    <2>3. CASE FlushRename
      <3>1. flush.gen \in Generations /\ flush.next \in Files
        BY <2>3, <1>3 DEF FilesFit, FlushRename, Files
      <3>2. disk' = [disk EXCEPT ![flush.next] = flush.gen]
        BY <2>3 DEF FlushRename
      <3>3. disk' \in [Files -> Generations \cup {None}]
            /\ \A f \in Files : disk[f] # None => disk'[f] # None
        BY <1>2, <1>3, <3>1, <3>2
      <3>4. AfterRename[flush.next] \in {"idle"} \cup Files
        BY <3>1 DEF AfterRename, Files
      <3>5. flush' = [next |-> AfterRename[flush.next],
                      gen |-> IF AfterRename[flush.next] = "idle" THEN None ELSE flush.gen]
        BY <2>3 DEF FlushRename
      <3>6. ingest' = ingest /\ sidcarDirty' = sidcarDirty
        BY <2>3 DEF FlushRename
      <3>7. flush' \in [next : {"idle"} \cup Files, gen : Generations \cup {None}]
            /\ (flush'.next # "idle" => flush'.gen \in Generations)
        BY <3>1, <3>4, <3>5
      <3> QED BY <1>3, <3>3, <3>6, <3>7 DEF FilesFit, Maybe
    <2>4. CASE FlushFails \/ IndexerRestart
      <3>1. /\ flush' = [next |-> "idle", gen |-> None] /\ disk' = disk
            /\ ingest' \in {ingest, FALSE} /\ sidcarDirty' \in BOOLEAN
        BY <2>4 DEF FlushFails, IndexerRestart
      <3>2. flush' \in [next : {"idle"} \cup Files, gen : Generations \cup {None}]
            /\ flush'.next = "idle"
        BY <3>1
      <3>3. ingest' \in BOOLEAN
        BY <1>3, <3>1
      <3> QED BY <1>3, <3>1, <3>2, <3>3 DEF FilesFit, Maybe
    <2> QED BY <2>1, <2>2, <2>3, <2>4 DEF Flush
  <1>5. BuildsFit'
    BY <1>1, <1>4 DEF BuildsFit, BuildFits
  <1> QED BY <1>4, <1>5

\* A thread that goes on to a step whose view is fit for it.
LEMMA GotoFits ==
    ASSUME BuildsFit, NEW w \in Workers, NEW t \in Builders,
           NEW to \in {"idle", "open", "meta", "built", "means"}, NEW v \in Maybe,
           Goto(w, t, to, v), disk' = disk, BuildFits([pc |-> to, view |-> v], disk),
           t = "request" => to # "built" /\ refreshing' = refreshing,
           t = "refresh" => /\ to # "means"
                            /\ \A x \in Workers \ {w} : refreshing'[x] <=> refreshing[x]
                            /\ refreshing'[w] <=> to # "idle"
    PROVE  BuildsFit'
  <1>1. "request" \in Builders /\ "refresh" \in Builders
        /\ \A s \in Builders : s = "request" \/ s = "refresh"
    BY DEF Builders
  <1>2. builder \in [Workers -> [Builders -> [pc : {"idle", "open", "meta", "built", "means"},
                                              view : Maybe]]]
    BY DEF BuildsFit
  <1>3. builder' = [builder EXCEPT ![w][t] = [pc |-> to, view |-> v]]
    BY DEF Goto
  <1>4. builder' \in [Workers -> [Builders -> [pc : {"idle", "open", "meta", "built", "means"},
                                               view : Maybe]]]
    BY <1>2, <1>3
  <1>5. /\ builder'[w][t] = [pc |-> to, view |-> v]
        /\ \A x \in Workers, s \in Builders : x # w \/ s # t => builder'[x][s] = builder[x][s]
    BY <1>2, <1>3
  <1>6. ASSUME NEW x \in Workers
        PROVE  /\ refreshing'[x] <=> builder'[x]["refresh"].pc # "idle"
               /\ builder'[x]["request"].pc # "built" /\ builder'[x]["refresh"].pc # "means"
    <2>1. CASE x # w
      <3>1. refreshing'[x] <=> refreshing[x]
        BY <1>1, <2>1
      <3> QED BY <1>1, <1>5, <2>1, <3>1 DEF BuildsFit
    <2>2. CASE x = w /\ t = "request"
      <3>1. /\ builder'[x]["refresh"] = builder[x]["refresh"] /\ refreshing' = refreshing
            /\ builder'[x]["request"].pc = to /\ to # "built"
        BY <1>1, <1>5, <2>2
      <3> QED BY <3>1 DEF BuildsFit
    <2>3. CASE x = w /\ t = "refresh"
      <3>1. /\ builder'[x]["request"] = builder[x]["request"] /\ (refreshing'[x] <=> to # "idle")
            /\ builder'[x]["refresh"].pc = to /\ to # "means"
        BY <1>1, <1>5, <2>3
      <3> QED BY <3>1 DEF BuildsFit
    <2> QED BY <1>1, <2>1, <2>2, <2>3
  <1>7. ASSUME NEW x \in Workers, NEW s \in Builders
        PROVE  BuildFits(builder'[x][s], disk)
    <2>1. CASE x = w /\ s = t
      BY <1>5, <2>1
    <2>2. CASE x # w \/ s # t
      BY <1>5, <2>2 DEF BuildsFit
    <2> QED BY <2>1, <2>2
  <1> QED BY <1>4, <1>6, <1>7 DEF BuildsFit

\* A matrix that is swapped in is there, and fresh.
LEMMA SwapInFits ==
    ASSUME CachesFit, NEW w \in Workers, NEW v \in View, SwapIn(w, v), refreshing' \in [Workers -> BOOLEAN],
           faceMmap' \in [Workers -> View \cup {NoView}]
    PROVE  CachesFit'
  <1>1. v # NoView
    BY GenerationFacts
  <1> QED BY <1>1 DEF CachesFit, SwapIn

\* A worker that drops its caches keeps nothing.
LEMMA DropFits ==
    ASSUME CachesFit, NEW w \in Workers, DropCaches(w), refreshing' = refreshing,
           faceMmap' = [faceMmap EXCEPT ![w] = NoView]
    PROVE  CachesFit'
  <1>1. faceMmap' \in [Workers -> View \cup {NoView}]
        /\ embeddingCache' \in [Workers -> View \cup {NoView}]
        /\ personMeans' \in [Workers -> {"stale", "match", "older"}]
    BY DEF CachesFit, DropCaches
  <1>2. embeddingFresh' \in [Workers -> BOOLEAN]
    BY DEF CachesFit, DropCaches
  <1>3. ASSUME NEW x \in Workers, embeddingFresh'[x]
        PROVE  embeddingCache'[x] # NoView
    <2>1. CASE x = w
      BY <1>3, <2>1 DEF CachesFit, DropCaches
    <2>2. CASE x # w
      BY <1>3, <2>2 DEF CachesFit, DropCaches
    <2> QED BY <2>1, <2>2
  <1> QED BY <1>1, <1>2, <1>3 DEF CachesFit

\* A build that has its rows, whichever thread it is.
LEMMA BuiltFits ==
    ASSUME CachesFit, BuildsFit, NEW w \in Workers, NEW t \in Builders, NEW v \in View,
           builder[w][t].pc # "idle", Built(w, t, v), disk' = disk, refreshing' = refreshing,
           faceMmap' \in [Workers -> View \cup {NoView}]
    PROVE  CachesFit' /\ BuildsFit'
  <1>1. v \in Maybe
    BY GenerationFacts
  <1>2. /\ BuildFits([pc |-> "means", view |-> v], disk)
        /\ BuildFits([pc |-> "built", view |-> v], disk)
    BY DEF BuildFits
  <1>3. CASE t = "request"
    <2>1. SwapIn(w, v) /\ Goto(w, t, "means", v)
      BY <1>3 DEF Built
    <2>2. CachesFit'
      BY <2>1, SwapInFits DEF CachesFit
    <2>3. BuildsFit'
      BY <1>1, <1>2, <1>3, <2>1, GotoFits
    <2> QED BY <2>2, <2>3
  <1>4. CASE t = "refresh"
    <2>1. /\ UNCHANGED <<embeddingCache, embeddingFresh, personMeans>>
          /\ Goto(w, t, "built", v)
      BY <1>4 DEF Built
    <2>2. CachesFit'
      BY <2>1 DEF CachesFit
    <2>3. refreshing[w]
      BY <1>4 DEF BuildsFit
    <2>4. BuildsFit'
      BY <1>1, <1>2, <1>4, <2>1, <2>3, GotoFits
    <2> QED BY <2>2, <2>4
  <1> QED BY <1>3, <1>4 DEF Builders

\* A build reads, maps and keeps views that exist.
LEMMA BuildStepFits ==
    ASSUME Numbers, FilesFit, CachesFit, BuildsFit,
           NEW w \in Workers, NEW t \in Builders, Build(w, t)
    PROVE  CachesFit' /\ BuildsFit'
  <1>0. disk' = disk /\ refreshing' = refreshing
    BY DEF Build, ReuseMmap, BuildFromTable, OpenMeta, OpenRows, indexerVars, cacheVars
  <1>1. /\ faceMmap \in [Workers -> View \cup {NoView}] /\ disk \in Maybe
        /\ Whole(db) \in View /\ \A g \in Generations : g # None
    BY CountersFit, GenerationFacts DEF CachesFit, FilesFit
  <1>2. CASE ReuseMmap(w, t)
    <2>1. faceMmap[w] \in View /\ faceMmap' = faceMmap /\ builder[w][t].pc # "idle"
          /\ Built(w, t, faceMmap[w])
      BY <1>1, <1>2 DEF ReuseMmap
    <2> QED BY <1>0, <1>1, <2>1, BuiltFits
  <1>3. CASE BuildFromTable(w, t)
    <2>1. faceMmap' = faceMmap /\ builder[w][t].pc # "idle" /\ Built(w, t, Whole(db))
      BY <1>3 DEF BuildFromTable
    <2> QED BY <1>0, <1>1, <2>1, BuiltFits
  <1>4. CASE OpenMeta(w, t)
    <2>1. PICK v : v = [NoView EXCEPT !.meta = disk.meta]
      OBVIOUS
    <2>2. Goto(w, t, "meta", v) /\ (\A f \in Files : disk[f] # None)
          /\ builder[w][t].pc = "open" /\ UNCHANGED cacheVars
      BY <1>4, <2>1 DEF OpenMeta
    <2>3. "meta" \in Files
      BY DEF Files
    <2>4. disk.meta \in Generations
      BY <1>1, <2>2, <2>3 DEF Maybe
    <2>5. v \in Maybe /\ v.meta \in Generations
      BY <2>1, <2>3, <2>4 DEF NoView, Maybe
    <2>6. BuildFits([pc |-> "meta", view |-> v], disk)
      BY <2>2, <2>5 DEF BuildFits
    <2>7. t = "refresh" => refreshing[w]
      BY <2>2 DEF BuildsFit
    <2>8. BuildsFit'
      BY <1>0, <2>2, <2>5, <2>6, <2>7, GotoFits
    <2>9. CachesFit'
      BY <2>2 DEF CachesFit, cacheVars
    <2> QED BY <2>8, <2>9
  <1>5. CASE OpenRows(w, t)
    <2>1. PICK o : o = [disk EXCEPT !.meta = builder[w][t].view.meta]
      OBVIOUS
    <2>2. PICK v : v = IF SameLength(o) THEN o ELSE Whole(db)
      OBVIOUS
    <2>3. PICK m : m = IF SameLength(o) THEN o ELSE NoView
      OBVIOUS
    <2>4. /\ builder[w][t].pc = "meta" /\ faceMmap' = [faceMmap EXCEPT ![w] = m]
          /\ Built(w, t, v)
      BY <1>5, <2>1, <2>2, <2>3 DEF OpenRows
    <2>5. builder[w][t].view.meta \in Generations /\ \A f \in Files : disk[f] # None
      BY <2>4 DEF BuildsFit, BuildFits
    <2>6. o \in Maybe /\ \A f \in Files : o[f] # None
      BY <1>1, <2>1, <2>5 DEF Maybe, Files
    <2>7. o \in View
      BY <2>6, GenerationFacts
    <2>8. v \in View /\ m \in View \cup {NoView}
      BY <1>1, <2>2, <2>3, <2>7
    <2>9. faceMmap' \in [Workers -> View \cup {NoView}]
      BY <1>1, <2>4, <2>8
    <2> QED BY <1>0, <2>4, <2>8, <2>9, BuiltFits
  <1> QED BY <1>2, <1>3, <1>4, <1>5 DEF Build

\* A request that begins or ends with the matrix it has.
LEMMA RequestBuildFits ==
    ASSUME Numbers, FilesFit, CachesFit, BuildsFit, NEW w \in Workers, Request(w)
    PROVE  CachesFit' /\ BuildsFit'
  <1>0. "request" \in Builders /\ "refresh" \in Builders /\ NoView \in Maybe
        /\ View \subseteq Maybe
    BY GenerationFacts DEF Builders
  <1>1. BuildFits([pc |-> "open", view |-> NoView], disk)
        /\ BuildFits([pc |-> "idle", view |-> NoView], disk)
        /\ \A v \in View : BuildFits([pc |-> "means", view |-> v], disk)
    BY DEF BuildFits
  <1>2. CASE DropCachesIfGenerationChanged(w)
    <2>1. /\ DropCaches(w) /\ faceMmap' = [faceMmap EXCEPT ![w] = NoView]
          /\ Goto(w, "request", "open", NoView) /\ disk' = disk /\ refreshing' = refreshing
      BY <1>2 DEF DropCachesIfGenerationChanged, indexerVars
    <2>2. BuildsFit'
      BY <1>0, <1>1, <2>1, GotoFits
    <2> QED BY <2>1, <2>2, DropFits
  <1>3. CASE FirstLoad(w)
    <2>1. Goto(w, "request", "open", NoView) /\ disk' = disk /\ UNCHANGED cacheVars
      BY <1>3 DEF FirstLoad, indexerVars
    <2>2. BuildsFit'
      BY <1>0, <1>1, <2>1, GotoFits DEF cacheVars
    <2> QED BY <2>1, <2>2 DEF CachesFit, cacheVars
  <1>4. CASE ServeCached(w)
    <2>1. PICK v : v = embeddingCache[w]
      OBVIOUS
    <2>2. Goto(w, "request", "means", v) /\ disk' = disk /\ UNCHANGED cacheVars /\ v \in View
      BY <1>4, <2>1 DEF ServeCached, indexerVars, CachesFit
    <2>3. BuildsFit'
      BY <1>0, <1>1, <2>2, GotoFits DEF cacheVars
    <2> QED BY <2>2, <2>3 DEF CachesFit, cacheVars
  <1>5. CASE ServeStale(w)
    <2>1. PICK v : v = embeddingCache[w]
      OBVIOUS
    <2>2. PICK r : r = [pc |-> "means", view |-> v]
      OBVIOUS
    <2>3. PICK f : f = [pc |-> "open", view |-> NoView]
      OBVIOUS
    <2>4. /\ v \in View /\ disk' = disk
          /\ UNCHANGED <<faceMmap, embeddingCache, embeddingFresh, personMeans>>
          /\ refreshing' = [refreshing EXCEPT ![w] = TRUE]
          /\ builder' = [builder EXCEPT ![w] = [request |-> r, refresh |-> f]]
      BY <1>5, <2>1, <2>2, <2>3 DEF ServeStale, indexerVars, CachesFit
    <2>5. refreshing' \in [Workers -> BOOLEAN] /\ refreshing'[w]
          /\ \A x \in Workers \ {w} : refreshing'[x] <=> refreshing[x]
      BY <2>4 DEF CachesFit
    <2>6. CachesFit'
      BY <2>4, <2>5 DEF CachesFit
    <2>7. builder \in [Workers -> [Builders -> [pc : {"idle", "open", "meta", "built", "means"},
                                                view : Maybe]]]
      BY DEF BuildsFit
    <2>8. PICK b : b = [request |-> r, refresh |-> f]
      OBVIOUS
    <2>9. r \in [pc : {"idle", "open", "meta", "built", "means"}, view : Maybe]
          /\ f \in [pc : {"idle", "open", "meta", "built", "means"}, view : Maybe]
          /\ BuildFits(r, disk) /\ BuildFits(f, disk) /\ r.pc = "means" /\ f.pc = "open"
      BY <1>0, <1>1, <2>2, <2>3, <2>4
    <2>10. b["request"] = r /\ b["refresh"] = f
           /\ b \in [Builders -> [pc : {"idle", "open", "meta", "built", "means"}, view : Maybe]]
      BY <2>8, <2>9 DEF Builders
    <2>11. builder' = [builder EXCEPT ![w] = b]
      BY <2>4, <2>8
    <2>12. builder' \in [Workers -> [Builders -> [pc : {"idle", "open", "meta", "built", "means"},
                                                  view : Maybe]]]
           /\ builder'[w] = b /\ \A x \in Workers \ {w} : builder'[x] = builder[x]
      BY <2>7, <2>10, <2>11
    <2>13. ASSUME NEW x \in Workers
           PROVE  /\ refreshing'[x] <=> builder'[x]["refresh"].pc # "idle"
                  /\ builder'[x]["request"].pc # "built" /\ builder'[x]["refresh"].pc # "means"
                  /\ \A t \in Builders : BuildFits(builder'[x][t], disk)
      <3>1. CASE x = w
        BY <2>5, <2>9, <2>10, <2>12, <3>1 DEF Builders
      <3>2. CASE x # w
        BY <2>5, <2>12, <3>2 DEF BuildsFit
      <3> QED BY <3>1, <3>2
    <2>14. BuildsFit'
      BY <2>4, <2>12, <2>13 DEF BuildsFit
    <2> QED BY <2>6, <2>14
  <1>6. CASE Build(w, "request")
    BY <1>0, <1>6, BuildStepFits
  <1>7. CASE PersonMeansFromCache(w)
    <2>1. /\ Goto(w, "request", "idle", NoView) /\ disk' = disk
          /\ UNCHANGED <<faceMmap, embeddingCache, embeddingFresh, refreshing>>
      BY <1>7 DEF PersonMeansFromCache, indexerVars
    <2>2. BuildsFit'
      BY <1>0, <1>1, <2>1, GotoFits
    <2>3. personMeans' \in [Workers -> {"stale", "match", "older"}]
      BY <1>7 DEF PersonMeansFromCache, CachesFit
    <2> QED BY <2>1, <2>2, <2>3 DEF CachesFit
  <1> QED BY <1>2, <1>3, <1>4, <1>5, <1>6, <1>7 DEF Request

\* So does the refresh.
LEMMA RefreshFits ==
    ASSUME Numbers, FilesFit, CachesFit, BuildsFit, NEW w \in Workers, Refresh(w)
    PROVE  CachesFit' /\ BuildsFit'
  <1>0. "refresh" \in Builders /\ NoView \in Maybe
    BY GenerationFacts DEF Builders
  <1>1. CASE Build(w, "refresh")
    BY <1>0, <1>1, BuildStepFits
  <1>2. CASE RefreshDone(w)
    <2>1. PICK v : v = builder[w]["refresh"].view
      OBVIOUS
    <2>2. /\ builder[w]["refresh"].pc = "built" /\ SwapIn(w, v) /\ faceMmap' = faceMmap
          /\ refreshing' = [refreshing EXCEPT ![w] = FALSE] /\ disk' = disk
          /\ Goto(w, "refresh", "idle", NoView)
      BY <1>2, <2>1 DEF RefreshDone, indexerVars
    <2>3. v \in View
      BY <1>0, <2>1, <2>2 DEF BuildsFit, BuildFits
    <2>4. refreshing' \in [Workers -> BOOLEAN] /\ ~refreshing'[w]
          /\ \A x \in Workers \ {w} : refreshing'[x] <=> refreshing[x]
      BY <2>2 DEF CachesFit
    <2>5. CachesFit'
      BY <2>2, <2>3, <2>4, SwapInFits DEF CachesFit
    <2>6. BuildFits([pc |-> "idle", view |-> NoView], disk)
      BY DEF BuildFits
    <2>7. BuildsFit'
      BY <1>0, <2>2, <2>4, <2>6, GotoFits
    <2> QED BY <2>5, <2>7
  <1> QED BY <1>1, <1>2 DEF Refresh

\* And a commit, a clearing, or the expiry of a cache.
LEMMA OtherFits ==
    ASSUME Numbers, FilesFit, CachesFit, BuildsFit, NEW w \in Workers,
           \/ ApiCommit(w) \/ Invalidate(w) \/ EmbeddingExpires(w) \/ MmapExpires(w)
    PROVE  CachesFit' /\ BuildsFit'
  <1>1. disk' = disk /\ builder' = builder /\ refreshing' = refreshing
    BY DEF ApiCommit, Invalidate, InvalidateCaches, BumpCacheGeneration, EmbeddingExpires,
           MmapExpires, indexerVars, cacheVars
  <1>2. BuildsFit'
    BY <1>1 DEF BuildsFit
  <1>3. CASE ApiCommit(w) \/ BumpCacheGeneration(w)
    <2>1. UNCHANGED <<faceMmap, embeddingCache, embeddingFresh, refreshing, personMeans>>
      BY <1>3 DEF ApiCommit, BumpCacheGeneration, cacheVars
    <2> QED BY <1>2, <2>1 DEF CachesFit
  <1>4. CASE InvalidateCaches(w)
    <2>1. DropCaches(w) /\ faceMmap' = [faceMmap EXCEPT ![w] = NoView]
      BY <1>4 DEF InvalidateCaches
    <2> QED BY <1>1, <1>2, <2>1, DropFits
  <1>5. CASE EmbeddingExpires(w)
    <2>1. /\ embeddingFresh' = [embeddingFresh EXCEPT ![w] = FALSE]
          /\ UNCHANGED <<faceMmap, embeddingCache, personMeans>>
      BY <1>5 DEF EmbeddingExpires
    <2>2. ASSUME NEW x \in Workers, embeddingFresh'[x]
          PROVE  embeddingCache'[x] # NoView
      <3>1. CASE x = w
        BY <2>1, <2>2, <3>1 DEF CachesFit
      <3>2. CASE x # w
        BY <2>1, <2>2, <3>2 DEF CachesFit
      <3> QED BY <3>1, <3>2
    <2>3. embeddingFresh' \in [Workers -> BOOLEAN]
      BY <2>1 DEF CachesFit
    <2> QED BY <1>1, <1>2, <2>1, <2>2, <2>3 DEF CachesFit
  <1>6. CASE MmapExpires(w)
    <2>1. /\ faceMmap' = [faceMmap EXCEPT ![w] = NoView]
          /\ UNCHANGED <<embeddingCache, embeddingFresh, refreshing, personMeans>>
      BY <1>6 DEF MmapExpires
    <2>2. faceMmap' \in [Workers -> View \cup {NoView}]
      BY <2>1 DEF CachesFit
    <2> QED BY <1>2, <2>1, <2>2 DEF CachesFit
  <1> QED BY <1>2, <1>3, <1>4, <1>5, <1>6 DEF Invalidate

\* And every step.
LEMMA NextFits ==
    ASSUME Fits, [Next]_vars
    PROVE  Fits'
  <1> USE DEF Fits
  <1>1. CASE IngestMark \/ IngestCommit \/ Cleanup \/ Flush \/ IndexerRestart
    <2>1. UNCHANGED cacheVars
      BY <1>1 DEF IngestMark, IngestCommit, Cleanup, Flush, FlushBegin, FlushRename, FlushFails,
                  IndexerRestart
    <2>2. CachesFit'
      BY <2>1 DEF CachesFit, cacheVars
    <2> QED BY <1>1, <2>2, NumbersIndexer, FilesIndexer
  <1>2. ASSUME NEW w \in Workers,
               \/ Request(w) \/ Refresh(w) \/ ApiCommit(w) \/ Invalidate(w)
               \/ EmbeddingExpires(w) \/ MmapExpires(w)
        PROVE  Fits'
    <2>1. UNCHANGED indexerVars
      BY <1>2 DEF Request, Refresh, Build, Invalidate, DropCachesIfGenerationChanged, FirstLoad,
           ServeStale, ServeCached, PersonMeansFromCache, ReuseMmap, BuildFromTable, OpenMeta,
           OpenRows, RefreshDone, ApiCommit, InvalidateCaches, BumpCacheGeneration,
           EmbeddingExpires, MmapExpires
    <2>2. FilesFit'
      BY <2>1 DEF FilesFit, indexerVars
    <2>3. CachesFit' /\ BuildsFit'
      BY <1>2, RequestBuildFits, RefreshFits, OtherFits
    <2>4. Numbers'
      <3>1. CASE ApiCommit(w) \/ BumpCacheGeneration(w)
        BY <3>1, NumbersCommit, NumbersBump
      <3>2. CASE InvalidateCaches(w)
        <4>1. mutator[w] = "drop" /\ mutator' = [mutator EXCEPT ![w] = "bump"]
              /\ UNCHANGED <<db, failures, restarts, peopleGeneration, seenGeneration>>
          BY <3>2 DEF InvalidateCaches, indexerVars
        <4> QED BY <4>1, NumbersLook
      <3>3. CASE Request(w) \/ Refresh(w) \/ EmbeddingExpires(w) \/ MmapExpires(w)
        <4>1. /\ UNCHANGED <<db, failures, restarts, peopleGeneration, mutator>>
              /\ \/ seenGeneration' = seenGeneration
                 \/ seenGeneration' = [seenGeneration EXCEPT ![w] = peopleGeneration]
          BY <2>1, <3>3 DEF Request, Refresh, Build, DropCachesIfGenerationChanged, FirstLoad,
             ServeStale, ServeCached, PersonMeansFromCache, ReuseMmap, BuildFromTable, OpenMeta,
             OpenRows, RefreshDone, EmbeddingExpires, MmapExpires, Look, indexerVars
        <4> QED BY <4>1, NumbersLook
      <3> QED BY <1>2, <3>1, <3>2, <3>3 DEF Invalidate
    <2> QED BY <2>2, <2>3, <2>4
  <1>3. CASE UNCHANGED vars
    BY <1>3 DEF vars, indexerVars, cacheVars, Numbers, Pending, FilesFit, CachesFit, BuildsFit
  <1> QED BY <1>1, <1>2, <1>3 DEF Next

\* Whatever commits, fails, restarts or expires: no worker has two refreshes under way, a
\* matrix that is gone is not served for fresh (invalidate_embedding_cache,
\* _background_refresh_embedding), and the shared counter lags behind the commits.
THEOREM TypeCorrect == Spec => []TypeOK
  <1>1. Init => Fits
    BY InitFits
  <1>2. Fits /\ [Next]_vars => Fits'
    BY NextFits
  <1>3. Fits => TypeOK
    <2> SUFFICES ASSUME Fits PROVE TypeOK
      OBVIOUS
    <2>1. Numbers /\ FilesFit /\ CachesFit /\ BuildsFit
      BY DEF Fits
    <2>2. /\ db \in Generations /\ failures \in 0..MaxEvents /\ restarts \in 0..MaxEvents
          /\ peopleGeneration \in Generations
      BY <2>1, CountersFit
    <2>3. ASSUME NEW w \in Workers
          PROVE  /\ embeddingFresh[w] => embeddingCache[w] # NoView
                 /\ refreshing[w] <=> builder[w]["refresh"].pc # "idle"
                 /\ builder[w]["request"].pc \in {"idle", "open", "meta", "means"}
                 /\ builder[w]["refresh"].pc \in {"idle", "open", "meta", "built"}
      BY <2>1 DEF CachesFit, BuildsFit, Builders
    <2> QED BY <2>1, <2>2, <2>3 DEF TypeOK, Numbers, FilesFit, CachesFit, Maybe
  <1> QED BY <1>1, <1>2, <1>3, PTL DEF Spec

----------------------------------------------------------------------------
(* Greatest and smallest numbers of a set.                                  *)

\* A set of numbers that is not empty has a smallest one.
LEMMA SmallestOf ==
    ASSUME NEW T \in SUBSET Nat, T # {}
    PROVE  Min(T) \in T /\ \A y \in T : Min(T) <= y
  <1>1. PICK x \in T : \A y \in T : ~(<<y, x>> \in OpToRel(<, Nat))
    BY NatLessThanWellFounded, WFMin
  <1>2. \A y \in T : ~(y < x)
    BY <1>1 DEF OpToRel
  <1>3. \E z \in T : \A y \in T : z =< y
    BY <1>2
  <1> QED BY <1>3 DEF Min

\* One that is bounded has a greatest.
LEMMA GreatestOf ==
    ASSUME NEW T \in SUBSET Nat, NEW n \in Nat, \A y \in T : y <= n, T # {}
    PROVE  Max(T) \in T /\ \A y \in T : y <= Max(T)
  <1>1. PICK U : U = {n - y : y \in T}
    OBVIOUS
  <1>2. U \in SUBSET Nat /\ U # {}
    <2>1. \A y \in T : n - y \in Nat
      OBVIOUS
    <2> QED BY <1>1, <2>1
  <1>3. PICK m : m = Min(U)
    OBVIOUS
  <1>4. m \in U /\ \A y \in U : m <= y
    BY <1>2, <1>3, SmallestOf
  <1>5. PICK x \in T : m = n - x
    BY <1>1, <1>4
  <1>6. \A y \in T : x >= y
    <2> SUFFICES ASSUME NEW y \in T PROVE x >= y
      OBVIOUS
    <2>1. n - y \in U /\ x \in Nat /\ y \in Nat
      BY <1>1
    <2>2. n - x <= n - y
      BY <1>4, <1>5, <2>1
    <2> QED BY <2>1, <2>2
  <1>7. \E z \in T : \A y \in T : z >= y
    BY <1>6
  <1>8. Max(T) \in T /\ \A y \in T : Max(T) >= y
    BY <1>7 DEF Max
  <1>9. Max(T) \in Nat
    BY <1>8
  <1> QED BY <1>8, <1>9

----------------------------------------------------------------------------
(* Ranks: how many members of a set of photos come up to one of them.       *)

Upto(W, u) == Cardinality({v \in W : v <= u})

\* The rank of a number in a finite set lies between 0 and the size of the set.
LEMMA UptoType ==
    ASSUME NEW W \in SUBSET Nat, IsFiniteSet(W), NEW u \in Nat
    PROVE  /\ IsFiniteSet({v \in W : v <= u}) /\ Upto(W, u) \in Nat
           /\ Upto(W, u) <= Cardinality(W) /\ (u \in W => Upto(W, u) >= 1)
  <1>1. PICK S : S = {v \in W : v <= u}
    OBVIOUS
  <1>2. S \in SUBSET W
    BY <1>1
  <1>3. IsFiniteSet(S) /\ Cardinality(S) <= Cardinality(W)
    BY <1>2, FS_Subset
  <1>4. Cardinality(S) \in Nat
    BY <1>3, FS_CardinalityType
  <1>5. ASSUME u \in W PROVE Cardinality(S) >= 1
    <2>1. u \in S
      BY <1>1, <1>5
    <2>2. Cardinality(S) # 0
      BY <1>3, <2>1, FS_EmptySet
    <2> QED BY <1>4, <2>2
  <1> QED BY <1>1, <1>3, <1>4, <1>5 DEF Upto

\* A greater member has a greater rank.
LEMMA UptoGrows ==
    ASSUME NEW W \in SUBSET Nat, IsFiniteSet(W), NEW u \in W, NEW v \in W, u < v
    PROVE  Upto(W, u) < Upto(W, v)
  <1>1. PICK S : S = {x \in W : x <= u}
    OBVIOUS
  <1>2. PICK T : T = {x \in W : x <= v}
    OBVIOUS
  <1>3. S \in SUBSET T /\ v \in T /\ v \notin S
    <2>1. u \in Nat /\ v \in Nat /\ v <= v /\ ~(v <= u)
      OBVIOUS
    <2>2. \A x \in W : x <= u => x <= v
      BY <2>1
    <2>3. v \in T /\ v \notin S
      BY <1>1, <1>2, <2>1
    <2>4. \A x \in S : x \in T
      BY <1>1, <1>2, <2>2
    <2> QED BY <2>3, <2>4
  <1>4. IsFiniteSet(T) /\ IsFiniteSet(S) /\ Cardinality(S) \in Nat /\ Cardinality(T) \in Nat
    BY <1>1, <1>2, UptoType DEF Upto
  <1>5. Cardinality(S) <= Cardinality(T) /\ Cardinality(S) # Cardinality(T)
    BY <1>3, <1>4, FS_Subset
  <1> QED BY <1>1, <1>2, <1>4, <1>5 DEF Upto

\* A page is no longer than its range of ranks.
LEMMA PageLength ==
    ASSUME NEW W \in SUBSET Nat, IsFiniteSet(W), NEW S \in SUBSET W, NEW skip \in Nat,
           NEW top \in Nat, \A u \in S : skip < Upto(W, u) /\ Upto(W, u) <= top
    PROVE  /\ IsFiniteSet(S) /\ Cardinality(S) \in Nat
           /\ skip + Cardinality(S) <= top \/ Cardinality(S) = 0
  <1>1. IsFiniteSet(S) /\ Cardinality(S) \in Nat
    BY FS_Subset, FS_CardinalityType
  <1>2. PICK f : f = [u \in S |-> Upto(W, u)]
    OBVIOUS
  <1>3. PICK first \in Nat : first = skip + 1
    OBVIOUS
  <1>4. f \in [S -> first .. top]
    <2>1. ASSUME NEW u \in S PROVE Upto(W, u) \in first .. top
      <3>1. Upto(W, u) \in Nat
        BY UptoType
      <3>2. skip < Upto(W, u) /\ Upto(W, u) <= top
        OBVIOUS
      <3> QED BY <1>3, <3>1, <3>2
    <2> QED BY <1>2, <2>1
  <1>5. \A u, v \in S : f[u] = f[v] => u = v
    <2> SUFFICES ASSUME NEW u \in S, NEW v \in S, u # v PROVE f[u] # f[v]
      OBVIOUS
    <2>1. u \in W /\ v \in W /\ u \in Nat /\ v \in Nat
      OBVIOUS
    <2>2. u < v \/ v < u
      BY <2>1
    <2>3. Upto(W, u) \in Nat /\ Upto(W, v) \in Nat
      BY <2>1, UptoType
    <2>4. Upto(W, u) # Upto(W, v)
      <3>1. CASE u < v
        BY <2>1, <2>3, <3>1, UptoGrows
      <3>2. CASE v < u
        BY <2>1, <2>3, <3>2, UptoGrows
      <3> QED BY <2>2, <3>1, <3>2
    <2> QED BY <1>2, <2>4
  <1>6. f \in Injection(S, first .. top)
    BY <1>4, <1>5, Fun_IsInj
  <1>7. IsFiniteSet(first .. top) /\ Cardinality(first .. top) = IF first > top THEN 0 ELSE top - first + 1
    BY FS_Interval
  <1>8. Cardinality(S) <= Cardinality(first .. top)
    BY <1>6, <1>7, FS_Injection
  <1> QED BY <1>1, <1>3, <1>7, <1>8

\* Ranks leave no gap.
LEMMA NoGap ==
    ASSUME NEW W \in SUBSET Nat, IsFiniteSet(W), NEW u \in W, NEW k \in Nat, k < Upto(W, u)
    PROVE  \E v \in W : Upto(W, v) = k + 1
  <1>1. PICK T : T = {v \in W : k < Upto(W, v)}
    OBVIOUS
  <1>2. T \in SUBSET Nat /\ T # {}
    BY <1>1
  <1>3. PICK v : v = Min(T)
    OBVIOUS
  <1>4. v \in T /\ \A y \in T : v <= y
    BY <1>2, <1>3, SmallestOf
  <1>5. v \in W /\ v \in Nat /\ k < Upto(W, v)
    BY <1>1, <1>4
  <1>6. PICK A : A = {x \in W : x <= v}
    OBVIOUS
  <1>7. PICK B : B = A \ {v}
    OBVIOUS
  <1>8. IsFiniteSet(A) /\ Cardinality(A) = Upto(W, v) /\ Upto(W, v) \in Nat /\ v \in A
    BY <1>5, <1>6, UptoType DEF Upto
  <1>9. IsFiniteSet(B) /\ Cardinality(B) = Upto(W, v) - 1
    BY <1>7, <1>8, FS_RemoveElement
  <1>10. Cardinality(B) <= k
    <2>1. CASE B = {}
      BY <2>1, FS_EmptySet
    <2>2. CASE B # {}
      <3>1. B \in SUBSET Nat /\ \A y \in B : y <= v
        BY <1>6, <1>7
      <3>2. PICK m : m = Max(B)
        OBVIOUS
      <3>3. m \in B /\ \A y \in B : y <= m
        BY <1>5, <2>2, <3>1, <3>2, GreatestOf
      <3>4. m \in W /\ m \in Nat /\ m < v
        BY <1>5, <1>6, <1>7, <3>3
      <3>5. B = {x \in W : x <= m}
        <4>1. ASSUME NEW x \in W PROVE x \in B <=> x <= m
          <5>1. x \in Nat
            OBVIOUS
          <5>2. x \in B => x <= m
            BY <3>3
          <5>3. x <= m => x \in B
            BY <1>5, <1>6, <1>7, <3>4, <5>1
          <5> QED BY <5>2, <5>3
        <4> QED BY <1>6, <1>7, <4>1
      <3>6. m \notin T
        BY <1>4, <1>5, <3>4
      <3>7. Upto(W, m) \in Nat /\ ~(k < Upto(W, m))
        BY <1>1, <3>4, <3>6, UptoType
      <3> QED BY <3>5, <3>7 DEF Upto
    <2> QED BY <2>1, <2>2
  <1>11. Upto(W, v) = k + 1
    BY <1>5, <1>8, <1>9, <1>10
  <1> QED BY <1>5, <1>11

\* One photo less is one rank less at most; more photos are no rank less.
LEMMA UptoWithout ==
    ASSUME NEW W \in SUBSET Nat, IsFiniteSet(W), NEW u \in Nat, NEW x
    PROVE  Upto(W \ {x}, u) \in Nat /\ Upto(W \ {x}, u) + 1 >= Upto(W, u)
  <1>1. PICK S : S = {v \in W : v <= u}
    OBVIOUS
  <1>2. {v \in W \ {x} : v <= u} = S \ {x}
    BY <1>1
  <1>3. IsFiniteSet(S) /\ Cardinality(S) \in Nat /\ Upto(W, u) = Cardinality(S)
    BY <1>1, UptoType DEF Upto
  <1>4. Cardinality(S \ {x}) = IF x \in S THEN Cardinality(S) - 1 ELSE Cardinality(S)
    BY <1>3, FS_RemoveElement
  <1>5. IsFiniteSet(W \ {x}) /\ W \ {x} \in SUBSET Nat
    BY FS_RemoveElement
  <1>6. Upto(W \ {x}, u) \in Nat
    BY <1>5, UptoType
  <1> QED BY <1>2, <1>3, <1>4, <1>6 DEF Upto

\* In a smaller set the rank is smaller, or the same.
LEMMA UptoMore ==
    ASSUME NEW V \in SUBSET Nat, IsFiniteSet(V), NEW W \in SUBSET V, NEW u \in Nat
    PROVE  Upto(W, u) <= Upto(V, u)
  <1>1. PICK S : S = {v \in W : v <= u}
    OBVIOUS
  <1>2. PICK T : T = {v \in V : v <= u}
    OBVIOUS
  <1>3. S \in SUBSET T
    BY <1>1, <1>2
  <1>4. IsFiniteSet(T)
    BY <1>2, UptoType
  <1> QED BY <1>1, <1>2, <1>3, <1>4, FS_Subset DEF Upto

----------------------------------------------------------------------------
(* Coordinates and places: the sweep tries all it should.                   *)

SweepStates == {"rest", "page", "row", "got", "naming", "named"}
ImportStates == {"rest", "hashing", "caching", "apply", "naming", "named"}

\* Coordinates never go, so what was read of them and made of them has its source.
CoordsFit ==
    /\ done \subseteq Shots /\ checked \subseteq Shots /\ work \subseteq Shots
    /\ coords \in [Shots -> Sources] /\ place \in [Shots -> Sources]
    /\ read \in [Jobs -> [Shots -> Sources]]
    /\ \A u \in Shots : place[u] # "none" => coords[u] # "none"
    /\ \A j \in Jobs, u \in Shots : read[j][u] # "none" => coords[u] # "none"
JobsFit ==
    /\ at \in [Jobs -> SweepStates \cup ImportStates]
    /\ at["sweep"] \in SweepStates /\ at["import"] \in ImportStates
    /\ rows \in [Jobs -> SUBSET Shots] /\ page \subseteq Shots
    /\ cache \in {"missing", "torn", "whole"}

\* Each match is a photo that the sweep is through with.
Matches == {u \in Shots : coords[u] # "none" /\ u \notin rows["sweep"]}
CountsFit ==
    /\ offset \in Nat /\ offset <= Cardinality(Shots)
    /\ matched \in Nat /\ matched <= Cardinality(Matches)
    /\ at["sweep"] \in {"rest", "page"} => rows["sweep"] = {}
    /\ at["sweep"] \in {"rest", "named"} => matched = 0 /\ offset = 0 /\ due = {}

\* Photos that are due rank behind the offset and those of the page that still wait.
DueAhead ==
    /\ due \subseteq Waiting
    /\ at["sweep"] = "page" => \A u \in due : offset < Upto(Waiting, u)
    /\ at["sweep"] \in {"row", "got"} =>
          /\ \A u \in page \ Waiting : coords[u] # "none" \/ u \in checked
          /\ \A u \in due \ rows["sweep"] :
                offset + Cardinality(page \cap Waiting) < Upto(Waiting, u)
    /\ at["sweep"] = "naming" => Limited \/ due = {}
SweepFit ==
    /\ due \subseteq Shots
    /\ at["sweep"] \in {"row", "got"} => rows["sweep"] \subseteq page
    /\ at["sweep"] = "got" => rows["sweep"] # {} /\ Row \notin due
    /\ ~disturbed => DueAhead

PlacesInv == CoordsFit /\ JobsFit /\ CountsFit /\ SweepFit

\* The photos, the jobs and the bounds of both, by the assumptions on the constants.
LEMMA ShotFacts ==
    /\ Shots \in SUBSET Nat /\ IsFiniteSet(Shots) /\ Cardinality(Shots) \in Nat
    /\ Jobs = {"sweep", "import"} /\ PageSize \in Nat /\ Limit \in Nat
    /\ "none" \in Sources /\ "exif" \in Sources /\ "takeout" \in Sources
    /\ Takeout \subseteq Shots /\ Carriers \subseteq Shots
  BY PlacesAssumption, FS_CardinalityType DEF Jobs, Sources

\* The photos that wait for their coordinates can be counted.
LEMMA WaitingFacts ==
    ASSUME done \subseteq Shots
    PROVE  /\ Waiting \in SUBSET Nat /\ Waiting \subseteq Shots /\ IsFiniteSet(Waiting)
           /\ Cardinality(Waiting) \in Nat /\ Cardinality(Waiting) <= Cardinality(Shots)
           /\ \A u \in Waiting : coords[u] = "none" /\ u \notin checked /\ u \in done
  <1>1. Waiting \subseteq Shots /\ \A u \in Waiting : coords[u] = "none" /\ u \notin checked /\ u \in done
    BY DEF Waiting
  <1> QED BY <1>1, ShotFacts, FS_Subset, FS_CardinalityType

\* Nothing is under way when the indexer starts.
LEMMA PlacesBegin ==
    ASSUME PlacesInit
    PROVE  PlacesInv
  <1>1. CoordsFit /\ JobsFit
    BY ShotFacts DEF PlacesInit, Nowhere, CoordsFit, JobsFit, SweepStates, ImportStates
  <1>2. CountsFit
    <2>1. IsFiniteSet(Matches)
      BY ShotFacts, FS_Subset DEF Matches
    <2>2. Cardinality(Matches) \in Nat
      BY <2>1, FS_CardinalityType
    <2> QED BY <2>2, ShotFacts DEF PlacesInit, CountsFit
  <1>3. SweepFit
    BY ShotFacts DEF PlacesInit, SweepFit, DueAhead
  <1> QED BY <1>1, <1>2, <1>3 DEF PlacesInv

\* The row that the sweep is at is one it has not done.
LEMMA RowOfPage ==
    ASSUME JobsFit, rows["sweep"] # {}
    PROVE  Row \in rows["sweep"] /\ Row \in Shots
  <1>1. rows["sweep"] \in SUBSET Nat /\ rows["sweep"] \subseteq Shots
    BY ShotFacts DEF JobsFit
  <1> QED BY <1>1, SmallestOf DEF Row

\* A job that moves on leaves the other one where it is.
LEMMA JobMoves ==
    ASSUME JobsFit, NEW j \in Jobs, NEW where, SetAt(j, where),
           j = "sweep" => where \in SweepStates, j = "import" => where \in ImportStates
    PROVE  /\ at' \in [Jobs -> SweepStates \cup ImportStates]
           /\ at'["sweep"] \in SweepStates /\ at'["import"] \in ImportStates
           /\ \A k \in Jobs : at'[k] = IF k = j THEN where ELSE at[k]
  BY ShotFacts DEF JobsFit, SetAt

\* Photos get coordinates and lose none.
LEMMA CoordsGrow ==
    ASSUME CoordsFit, coords' \in [Shots -> Sources], UNCHANGED <<place, read>>,
           \A u \in Shots : coords'[u] = "none" => coords[u] = "none",
           done' \subseteq Shots, checked' \subseteq Shots, work' \subseteq Shots
    PROVE  CoordsFit'
  BY DEF CoordsFit

\* The sweep goes from page to page with pages of photos.
LEMMA SweepStepFits ==
    ASSUME CoordsFit, JobsFit, BeginSweep \/ ReadPage \/ StopAtLimit \/ EndPage
    PROVE  CoordsFit' /\ JobsFit'
  <1>1. UNCHANGED <<done, coords, checked, place, read, work, cache>>
    BY DEF BeginSweep, ReadPage, StopAtLimit, EndPage, photoVars, sweepVars
  <1>2. CoordsFit'
    BY <1>1 DEF CoordsFit
  <1>3. \E where \in SweepStates : SetAt("sweep", where)
    BY DEF BeginSweep, ReadPage, StopAtLimit, EndPage, SweepStates
  <1>4. "sweep" \in Jobs
    BY ShotFacts
  <1>5. at' \in [Jobs -> SweepStates \cup ImportStates]
        /\ at'["sweep"] \in SweepStates /\ at'["import"] \in ImportStates
    BY <1>3, <1>4, JobMoves
  <1>6. page' \subseteq Shots /\ rows' \in [Jobs -> SUBSET Shots]
    <2>1. CASE ReadPage
      <3>1. page' \subseteq Shots
        BY <2>1, WaitingFacts DEF ReadPage, Page, CoordsFit
      <3> QED BY <2>1, <3>1 DEF ReadPage, JobsFit
    <2>2. CASE BeginSweep \/ StopAtLimit \/ EndPage
      BY <2>2 DEF BeginSweep, StopAtLimit, EndPage, sweepVars, JobsFit
    <2> QED BY <2>1, <2>2
  <1> QED BY <1>1, <1>2, <1>5, <1>6 DEF JobsFit

\* And from row to row.
LEMMA RowStepFits ==
    ASSUME CoordsFit, JobsFit, at["sweep"] = "got" => rows["sweep"] # {},
           Fetch \/ FetchFails \/ Inspect
    PROVE  CoordsFit' /\ JobsFit'
  <1>1. rows["sweep"] # {}
    BY DEF Fetch, FetchFails, Inspect, OnRow
  <1>2. Row \in Shots
    BY <1>1, RowOfPage
  <1>3. PICK u \in Shots : u = Row
    BY <1>2
  <1>4. UNCHANGED <<done, place, read, page, cache>>
    BY DEF Fetch, FetchFails, Inspect, photoVars
  <1>5. \/ UNCHANGED <<coords, checked>>
        \/ coords' = [coords EXCEPT ![u] = "exif"] /\ checked' = checked
        \/ checked' = checked \cup {u} /\ coords' = coords
    BY <1>3 DEF Fetch, FetchFails, Inspect, photoVars, SetPhotoGps, MarkGpsChecked
  <1>6. work' \in {work \cup {u}, work \ {u}}
    BY <1>3 DEF Fetch, FetchFails, Inspect
  <1>7. coords' \in [Shots -> Sources] /\ checked' \subseteq Shots
        /\ \A v \in Shots : coords'[v] = "none" => coords[v] = "none"
    BY <1>5, ShotFacts DEF CoordsFit
  <1>8. CoordsFit'
    BY <1>4, <1>6, <1>7, CoordsGrow DEF CoordsFit
  <1>9. rows' \in [Jobs -> SUBSET Shots]
    BY DEF Fetch, FetchFails, Inspect, NextRow, JobsFit
  <1>10. at' \in [Jobs -> SweepStates \cup ImportStates]
         /\ at'["sweep"] \in SweepStates /\ at'["import"] \in ImportStates
    <2>1. UNCHANGED at \/ SetAt("sweep", "got") \/ SetAt("sweep", "row")
      BY DEF Fetch, FetchFails, Inspect
    <2>2. "sweep" \in Jobs /\ "got" \in SweepStates /\ "row" \in SweepStates
      BY ShotFacts DEF SweepStates
    <2> QED BY <2>1, <2>2, JobMoves DEF JobsFit
  <1> QED BY <1>4, <1>8, <1>9, <1>10 DEF JobsFit

\* The import of a Takeout goes on with photos of its archive.
LEMMA ImportStepFits ==
    ASSUME CoordsFit, JobsFit,
           BeginImport \/ OpenCache \/ CacheWritten \/ ApplyChunk \/ Applied
    PROVE  CoordsFit' /\ JobsFit'
  <1>1. UNCHANGED <<done, checked, place, read, page, work>>
    BY DEF BeginImport, OpenCache, CacheWritten, ApplyChunk, Applied, photoVars, sweepVars
  <1>2. at' \in [Jobs -> SweepStates \cup ImportStates]
        /\ at'["sweep"] \in SweepStates /\ at'["import"] \in ImportStates
    <2>1. UNCHANGED at \/ \E where \in ImportStates : SetAt("import", where)
      BY DEF BeginImport, OpenCache, CacheWritten, ApplyChunk, Applied, ImportStates
    <2>2. "import" \in Jobs
      BY ShotFacts
    <2> QED BY <2>1, <2>2, JobMoves DEF JobsFit
  <1>3. cache' \in {"missing", "torn", "whole"}
    BY DEF BeginImport, OpenCache, CacheWritten, ApplyChunk, Applied, JobsFit
  <1>4. rows' \in [Jobs -> SUBSET Shots]
    <2>1. \/ rows' = rows
          \/ rows' = [rows EXCEPT !["import"] = Takeout]
          \/ \E C : rows' = [rows EXCEPT !["import"] = @ \ C]
      BY DEF BeginImport, OpenCache, CacheWritten, ApplyChunk, Applied
    <2> QED BY <2>1, ShotFacts DEF JobsFit
  <1>5. coords' \in [Shots -> Sources] /\ \A v \in Shots : coords'[v] = "none" => coords[v] = "none"
    <2>1. CASE ApplyChunk
      <3>1. PICK C : coords' = [u \in Shots |-> IF u \in C THEN "takeout" ELSE coords[u]]
        BY <2>1 DEF ApplyChunk
      <3> QED BY <3>1, ShotFacts DEF CoordsFit
    <2>2. CASE BeginImport \/ OpenCache \/ CacheWritten \/ Applied
      BY <2>2 DEF BeginImport, OpenCache, CacheWritten, Applied, photoVars, CoordsFit
    <2> QED BY <2>1, <2>2
  <1>6. CoordsFit'
    BY <1>1, <1>5, CoordsGrow DEF CoordsFit
  <1> QED BY <1>1, <1>2, <1>3, <1>4, <1>6 DEF JobsFit

\* The place of a photo is made of coordinates that were read when they were there.
LEMMA NamingStepFits ==
    ASSUME CoordsFit, JobsFit, NEW j \in Jobs,
           Geocode(j) \/ GeocodeFails(j) \/ NameChunk(j) \/ Named(j) \/ Kill(j)
    PROVE  CoordsFit' /\ JobsFit'
  <1>1. UNCHANGED <<done, coords, checked, work, cache>>
    BY DEF Geocode, GeocodeFails, NameChunk, Named, Kill, photoVars, sweepVars
  <1>2. at' \in [Jobs -> SweepStates \cup ImportStates]
        /\ at'["sweep"] \in SweepStates /\ at'["import"] \in ImportStates
    <2>1. UNCHANGED at \/ SetAt(j, "named") \/ SetAt(j, "rest")
      BY DEF Geocode, GeocodeFails, NameChunk, Named, Kill
    <2>2. "named" \in SweepStates \cap ImportStates /\ "rest" \in SweepStates \cap ImportStates
      BY DEF SweepStates, ImportStates
    <2> QED BY <2>1, <2>2, JobMoves DEF JobsFit
  <1>3. page' \in {page, {}}
    BY DEF Geocode, GeocodeFails, NameChunk, Named, Kill, Returns, sweepVars
  <1>4. rows' \in [Jobs -> SUBSET Shots]
    BY DEF Geocode, GeocodeFails, NameChunk, Named, Kill, Read, Unplaced, JobsFit
  <1>5. read' \in [Jobs -> [Shots -> Sources]]
        /\ \A k \in Jobs, u \in Shots : read'[k][u] # "none" => coords[u] # "none"
    <2>1. PICK f : f = [u \in Shots |-> IF u \in Unplaced THEN coords[u] ELSE "none"]
      OBVIOUS
    <2>2. f \in [Shots -> Sources] /\ Nowhere \in [Shots -> Sources]
          /\ \A u \in Shots : (f[u] # "none" => coords[u] # "none") /\ Nowhere[u] = "none"
      BY <2>1, ShotFacts DEF Nowhere, CoordsFit
    <2>3. \/ read' = read \/ read' = [read EXCEPT ![j] = f] \/ read' = [read EXCEPT ![j] = Nowhere]
      BY <2>1 DEF Geocode, GeocodeFails, NameChunk, Named, Kill, Read
    <2> QED BY <2>2, <2>3 DEF CoordsFit
  <1>6. place' \in [Shots -> Sources] /\ \A u \in Shots : place'[u] # "none" => coords[u] # "none"
    <2>1. CASE NameChunk(j)
      <3>1. PICK C : place' = [u \in Shots |-> IF u \in C THEN read[j][u] ELSE place[u]]
        BY <2>1 DEF NameChunk
      <3> QED BY <3>1 DEF CoordsFit
    <2>2. CASE Geocode(j) \/ GeocodeFails(j) \/ Named(j) \/ Kill(j)
      BY <2>2 DEF Geocode, GeocodeFails, Named, Kill, photoVars, CoordsFit
    <2> QED BY <2>1, <2>2
  <1> QED BY <1>1, <1>2, <1>3, <1>4, <1>5, <1>6 DEF CoordsFit, JobsFit

\* Photos come and go meanwhile.
LEMMA PhotoStepFits ==
    ASSUME CoordsFit, JobsFit, NEW u \in Shots, Join(u) \/ Leave(u)
    PROVE  CoordsFit' /\ JobsFit'
  <1>1. UNCHANGED <<checked, place, at, rows, read, page, work, cache>>
    BY DEF Join, Leave, jobVars, sweepVars
  <1>2. done' \subseteq Shots
    BY DEF Join, Leave, CoordsFit
  <1>3. coords' = coords \/ coords' = [coords EXCEPT ![u] = "exif"]
    BY DEF Join, Leave
  <1>4. coords' \in [Shots -> Sources] /\ \A v \in Shots : coords'[v] = "none" => coords[v] = "none"
    BY <1>3, ShotFacts DEF CoordsFit
  <1>5. CoordsFit'
    BY <1>1, <1>2, <1>4, CoordsGrow DEF CoordsFit
  <1> QED BY <1>1, <1>5 DEF JobsFit

\* Matches are only added to.
LEMMA CountsGrow ==
    ASSUME CoordsFit, CountsFit,
           \A u \in Shots : coords[u] # "none" => coords'[u] # "none",
           \A u \in rows'["sweep"] : u \in rows["sweep"] \/ coords[u] = "none",
           matched' = matched
    PROVE  matched' \in Nat /\ matched' <= Cardinality(Matches')
  <1>1. Matches \subseteq Matches'
    BY DEF Matches
  <1>2. IsFiniteSet(Matches') /\ Matches' \subseteq Shots
    BY ShotFacts, FS_Subset DEF Matches
  <1>3. IsFiniteSet(Matches) /\ Cardinality(Matches) <= Cardinality(Matches')
    BY <1>1, <1>2, FS_Subset
  <1>4. Cardinality(Matches) \in Nat /\ Cardinality(Matches') \in Nat
    BY <1>2, <1>3, FS_CardinalityType
  <1> QED BY <1>3, <1>4 DEF CountsFit

\* No matches at all are no more than there are.
LEMMA NoMatches == 0 \in Nat /\ 0 <= Cardinality(Matches')
  <1>1. Matches' \subseteq Shots
    BY DEF Matches
  <1>2. Cardinality(Matches') \in Nat
    BY <1>1, ShotFacts, FS_Subset, FS_CardinalityType
  <1> QED BY <1>2

\* What happens to the photos while the sweep stands still.
LEMMA SweepStands ==
    ASSUME PlacesInv, CoordsFit',
           at'["sweep"] = at["sweep"], rows'["sweep"] = rows["sweep"],
           UNCHANGED <<page, offset, matched, due>>,
           disturbed => disturbed',
           \A u \in Shots : coords[u] # "none" => coords'[u] # "none",
           checked' = checked,
           ~disturbed' => Waiting \subseteq Waiting'
    PROVE  CountsFit' /\ SweepFit'
  <1>1. matched' \in Nat /\ matched' <= Cardinality(Matches')
    BY CountsGrow DEF PlacesInv
  <1>2. CountsFit'
    BY <1>1 DEF PlacesInv, CountsFit
  <1>3. Row' = Row
    BY DEF Row
  <1>4. ASSUME ~disturbed'
        PROVE  DueAhead'
    <2>1. DueAhead /\ Waiting \subseteq Waiting' /\ due \subseteq Shots
      BY <1>4 DEF PlacesInv, SweepFit
    <2>2. Waiting' \in SUBSET Nat /\ IsFiniteSet(Waiting') /\ Waiting \in SUBSET Waiting'
      <3>1. Waiting' \subseteq Shots
        BY DEF Waiting, CoordsFit
      <3> QED BY <2>1, <3>1, ShotFacts, FS_Subset
    <2>3. ASSUME NEW u \in Shots
          PROVE  Upto(Waiting, u) <= Upto(Waiting', u) /\ Upto(Waiting, u) \in Nat /\ Upto(Waiting', u) \in Nat
      <3>1. PICK V : V = Waiting'
        OBVIOUS
      <3>2. PICK W : W = Waiting
        OBVIOUS
      <3>3. V \in SUBSET Nat /\ IsFiniteSet(V) /\ W \in SUBSET V /\ u \in Nat
        BY <2>2, <3>1, <3>2, ShotFacts
      <3>4. IsFiniteSet(W) /\ W \in SUBSET Nat
        BY <3>3, FS_Subset
      <3>5. Upto(W, u) <= Upto(V, u) /\ Upto(W, u) \in Nat /\ Upto(V, u) \in Nat
        BY <3>3, <3>4, UptoMore, UptoType
      <3> QED BY <3>1, <3>2, <3>5
    <2>4. ASSUME at["sweep"] \in {"row", "got"}
          PROVE  /\ page \cap Waiting' = page \cap Waiting
                 /\ \A u \in page \ Waiting' : coords'[u] # "none" \/ u \in checked'
      <3>1. page \subseteq Shots
        BY DEF PlacesInv, JobsFit
      <3>2. ASSUME NEW u \in page, u \notin Waiting
            PROVE  u \notin Waiting' /\ (coords'[u] # "none" \/ u \in checked')
        <4>1. coords[u] # "none" \/ u \in checked
          BY <2>1, <2>4, <3>2 DEF DueAhead
        <4>2. coords'[u] # "none" \/ u \in checked'
          BY <3>1, <4>1
        <4> QED BY <4>2 DEF Waiting
      <3> QED BY <2>1, <3>2
    <2>5. due' \subseteq Waiting'
      BY <2>1 DEF DueAhead
    <2>6. at'["sweep"] = "page" => \A u \in due' : offset' < Upto(Waiting', u)
      BY <2>1, <2>3 DEF DueAhead, PlacesInv, CountsFit
    <2>7. at'["sweep"] \in {"row", "got"} =>
             \A u \in due' \ rows'["sweep"] :
                offset' + Cardinality(page' \cap Waiting') < Upto(Waiting', u)
      <3> SUFFICES ASSUME at["sweep"] \in {"row", "got"}, NEW u \in due \ rows["sweep"]
                   PROVE  offset + Cardinality(page \cap Waiting') < Upto(Waiting', u)
        OBVIOUS
      <3>1. page \cap Waiting' = page \cap Waiting
        BY <2>4
      <3>2. PICK n : n = offset + Cardinality(page \cap Waiting)
        OBVIOUS
      <3>3. n \in Nat
        <4>1. page \cap Waiting \in SUBSET Shots
          BY DEF PlacesInv, JobsFit
        <4> QED BY <3>2, <4>1, ShotFacts, FS_Subset, FS_CardinalityType DEF PlacesInv, CountsFit
      <3>4. n < Upto(Waiting, u)
        BY <2>1, <3>2 DEF DueAhead
      <3>5. n < Upto(Waiting', u)
        BY <2>1, <2>3, <3>3, <3>4
      <3> QED BY <3>1, <3>2, <3>5
    <2>8. at'["sweep"] = "naming" => Limited' \/ due' = {}
      BY <2>1 DEF DueAhead, Limited
    <2> QED BY <2>4, <2>5, <2>6, <2>7, <2>8 DEF DueAhead
  <1> QED BY <1>2, <1>3, <1>4 DEF PlacesInv, SweepFit

\* Indexed and staged photos, and the import: the sweep stands still.
LEMMA PhotoStepInv ==
    ASSUME PlacesInv, NEW u \in Shots, Join(u) \/ Leave(u)
    PROVE  PlacesInv'
  <1>1. CoordsFit' /\ JobsFit'
    BY PhotoStepFits DEF PlacesInv
  <1>2. UNCHANGED <<at, rows, page, offset, matched, due, checked>>
    BY DEF Join, Leave, jobVars, sweepVars, ghosts
  <1>3. disturbed => disturbed'
    BY DEF Join, Leave, ghosts
  <1>4. \A v \in Shots : coords[v] # "none" => coords'[v] # "none"
    BY DEF Join, Leave, PlacesInv, CoordsFit
  <1>5. ASSUME ~disturbed' PROVE Waiting \subseteq Waiting'
    <2>1. CASE Join(u)
      <3>1. u \notin done /\ done' = done \cup {u} /\ coords' \in {coords, [coords EXCEPT ![u] = "exif"]}
        BY <2>1 DEF Join
      <3>2. ASSUME NEW v \in Waiting PROVE v \in Waiting'
        <4>1. v \in done /\ v # u /\ coords[v] = "none" /\ v \notin checked
          BY <3>1 DEF Waiting
        <4>2. coords'[v] = coords[v]
          BY <3>1, <4>1 DEF PlacesInv, CoordsFit
        <4> QED BY <1>2, <3>1, <4>1, <4>2 DEF Waiting
      <3> QED BY <3>2
    <2>2. CASE Leave(u)
      <3>1. u \notin Waiting /\ done' = done \ {u} /\ coords' = coords
        BY <1>5, <2>2 DEF Leave
      <3> QED BY <1>2, <3>1 DEF Waiting
    <2> QED BY <2>1, <2>2
  <1>6. CountsFit' /\ SweepFit'
    BY <1>1, <1>2, <1>3, <1>4, <1>5, SweepStands
  <1> QED BY <1>1, <1>6 DEF PlacesInv

LEMMA ImportStepInv ==
    ASSUME PlacesInv, BeginImport \/ OpenCache \/ CacheWritten \/ ApplyChunk \/ Applied
    PROVE  PlacesInv'
  <1>1. CoordsFit' /\ JobsFit'
    BY ImportStepFits DEF PlacesInv
  <1>2. UNCHANGED <<page, offset, matched, due, checked, done>>
    BY DEF BeginImport, OpenCache, CacheWritten, ApplyChunk, Applied, sweepVars, ghosts, photoVars
  <1>3. at'["sweep"] = at["sweep"]
    <2>1. UNCHANGED at \/ \E where : at' = [at EXCEPT !["import"] = where]
      BY DEF BeginImport, OpenCache, CacheWritten, ApplyChunk, Applied, SetAt
    <2> QED BY <2>1, ShotFacts DEF PlacesInv, JobsFit
  <1>4. rows'["sweep"] = rows["sweep"]
    <2>1. UNCHANGED rows \/ \E R : rows' = [rows EXCEPT !["import"] = R]
      BY DEF BeginImport, OpenCache, CacheWritten, ApplyChunk, Applied
    <2> QED BY <2>1, ShotFacts DEF PlacesInv, JobsFit
  <1>5. CASE ApplyChunk
    <2>1. PICK C : /\ coords' = [u \in Shots |-> IF u \in C THEN "takeout" ELSE coords[u]]
                   /\ disturbed' = (disturbed \/ C \cap Waiting # {})
      BY <1>5 DEF ApplyChunk
    <2>2. \A v \in Shots : coords[v] # "none" => coords'[v] # "none"
      BY <2>1
    <2>3. ASSUME ~disturbed' PROVE Waiting \subseteq Waiting'
      <3>1. ASSUME NEW v \in Waiting PROVE v \in Waiting'
        <4>1. v \notin C
          BY <2>1, <2>3
        <4>2. v \in done /\ v \in Shots /\ coords[v] = "none" /\ v \notin checked
          BY WaitingFacts DEF PlacesInv, CoordsFit
        <4> QED BY <1>2, <2>1, <4>1, <4>2 DEF Waiting
      <3> QED BY <3>1
    <2>4. CountsFit' /\ SweepFit'
      BY <1>1, <1>2, <1>3, <1>4, <2>1, <2>2, <2>3, SweepStands
    <2> QED BY <1>1, <2>4 DEF PlacesInv
  <1>6. CASE BeginImport \/ OpenCache \/ CacheWritten \/ Applied
    <2>1. UNCHANGED <<coords, disturbed>>
      BY <1>6 DEF BeginImport, OpenCache, CacheWritten, Applied, photoVars, ghosts
    <2>2. Waiting' = Waiting
      BY <1>2, <2>1 DEF Waiting
    <2>3. CountsFit' /\ SweepFit'
      BY <1>1, <1>2, <1>3, <1>4, <2>1, <2>2, SweepStands
    <2> QED BY <1>1, <2>3 DEF PlacesInv
  <1> QED BY <1>5, <1>6

\* A job names places, or goes.
LEMMA NamingStepInv ==
    ASSUME PlacesInv, NEW j \in Jobs,
           Geocode(j) \/ GeocodeFails(j) \/ NameChunk(j) \/ Named(j) \/ Kill(j)
    PROVE  PlacesInv'
  <1>1. CoordsFit' /\ JobsFit'
    BY NamingStepFits DEF PlacesInv
  <1>2. UNCHANGED <<done, coords, checked>>
    BY DEF Geocode, GeocodeFails, NameChunk, Named, Kill, photoVars
  <1>3. Waiting' = Waiting
    BY <1>2 DEF Waiting
  <1>4. UNCHANGED at \/ at' = [at EXCEPT ![j] = "named"] \/ at' = [at EXCEPT ![j] = "rest"]
    BY DEF Geocode, GeocodeFails, NameChunk, Named, Kill, SetAt
  <1>5. UNCHANGED rows \/ \E R : rows' = [rows EXCEPT ![j] = R]
    BY DEF Geocode, GeocodeFails, NameChunk, Named, Kill, Read
  <1>6. CASE j = "import"
    <2>1. at'["sweep"] = at["sweep"] /\ rows'["sweep"] = rows["sweep"]
      BY <1>4, <1>5, <1>6, ShotFacts DEF PlacesInv, JobsFit
    <2>2. UNCHANGED <<page, offset, matched, due, disturbed>>
      BY <1>6 DEF Geocode, GeocodeFails, NameChunk, Named, Kill, Returns, sweepVars, ghosts
    <2>3. CountsFit' /\ SweepFit'
      BY <1>1, <1>2, <1>3, <2>1, <2>2, SweepStands
    <2> QED BY <1>1, <2>3 DEF PlacesInv
  <1>7. CASE j = "sweep" /\ (Geocode(j) \/ GeocodeFails(j) \/ Kill(j))
    <2>1. offset' = 0 /\ matched' = 0 /\ due' = {} /\ disturbed' = FALSE
      BY <1>7 DEF Geocode, GeocodeFails, Kill, Returns
    <2>2. \/ at'["sweep"] = "named"
          \/ at'["sweep"] = "rest" /\ rows'["sweep"] = {}
      BY <1>7, ShotFacts DEF Geocode, GeocodeFails, Kill, SetAt, PlacesInv, JobsFit
    <2>3. CountsFit'
      BY <2>1, <2>2, NoMatches, ShotFacts DEF CountsFit
    <2>4. SweepFit'
      BY <2>1, <2>2 DEF SweepFit, DueAhead
    <2> QED BY <1>1, <2>3, <2>4 DEF PlacesInv
  <1>8. CASE j = "sweep" /\ (NameChunk(j) \/ Named(j))
    <2>1. /\ UNCHANGED <<offset, matched, due, disturbed>> /\ at["sweep"] = "named"
      BY <1>8 DEF NameChunk, Named, sweepVars, ghosts
    <2>2. \/ at'["sweep"] = "named"
          \/ at'["sweep"] = "rest" /\ rows'["sweep"] = {}
      BY <1>8, ShotFacts DEF NameChunk, Named, SetAt, PlacesInv, JobsFit
    <2>3. matched = 0 /\ offset = 0 /\ due = {}
      BY <2>1 DEF PlacesInv, CountsFit
    <2>4. CountsFit'
      BY <2>1, <2>2, <2>3, NoMatches, ShotFacts DEF CountsFit
    <2>5. SweepFit'
      BY <2>1, <2>2, <2>3 DEF SweepFit, DueAhead
    <2> QED BY <1>1, <2>4, <2>5 DEF PlacesInv
  <1> QED BY <1>6, <1>7, <1>8, ShotFacts

LEMMA BeginSweepInv ==
    ASSUME PlacesInv, BeginSweep
    PROVE  PlacesInv'
  <1>1. CoordsFit' /\ JobsFit'
    BY SweepStepFits DEF PlacesInv
  <1>2. /\ at["sweep"] = "rest" /\ at'["sweep"] = "page" /\ due' = Waiting
        /\ UNCHANGED <<done, coords, checked, rows, page, offset, matched, disturbed>>
    BY ShotFacts DEF BeginSweep, SetAt, photoVars, sweepVars, PlacesInv, JobsFit
  <1>3. Waiting' = Waiting /\ Matches' = Matches
    BY <1>2 DEF Waiting, Matches
  <1>4. offset = 0 /\ rows["sweep"] = {}
    BY <1>2 DEF PlacesInv, CountsFit
  <1>5. CountsFit'
    BY <1>2, <1>3, <1>4 DEF PlacesInv, CountsFit
  <1>6. /\ Waiting \in SUBSET Nat /\ IsFiniteSet(Waiting) /\ Waiting \subseteq Shots
    BY WaitingFacts DEF PlacesInv, CoordsFit
  <1>7. \A u \in Waiting : 0 < Upto(Waiting, u)
    <2>1. ASSUME NEW u \in Waiting PROVE 0 < Upto(Waiting, u)
      <3>1. u \in Nat
        BY <1>6
      <3>2. Upto(Waiting, u) \in Nat /\ Upto(Waiting, u) >= 1
        BY <1>6, <3>1, UptoType
      <3> QED BY <3>2
    <2> QED BY <2>1
  <1>8. SweepFit'
    BY <1>2, <1>3, <1>4, <1>6, <1>7 DEF SweepFit, DueAhead
  <1> QED BY <1>1, <1>5, <1>8 DEF PlacesInv

LEMMA StopAtLimitInv ==
    ASSUME PlacesInv, StopAtLimit
    PROVE  PlacesInv'
  <1>1. CoordsFit' /\ JobsFit'
    BY SweepStepFits DEF PlacesInv
  <1>2. /\ at["sweep"] = "row" /\ at'["sweep"] = "naming" /\ Limited
        /\ UNCHANGED <<done, coords, checked, rows, page, offset, matched, due, disturbed>>
    BY ShotFacts DEF StopAtLimit, OnRow, SetAt, photoVars, sweepVars, ghosts, PlacesInv, JobsFit
  <1>3. Waiting' = Waiting /\ Matches' = Matches /\ Limited'
    BY <1>2 DEF Waiting, Matches, Limited
  <1>4. CountsFit'
    BY <1>2, <1>3 DEF PlacesInv, CountsFit
  <1>5. SweepFit'
    BY <1>2, <1>3 DEF PlacesInv, SweepFit, DueAhead
  <1> QED BY <1>1, <1>4, <1>5 DEF PlacesInv

\* A page that is read: what is due and not on it ranks behind all of it; an empty page
\* means that nothing ranks behind the offset.
LEMMA ReadPageInv ==
    ASSUME PlacesInv, ReadPage
    PROVE  PlacesInv'
  <1>1. CoordsFit' /\ JobsFit'
    BY SweepStepFits DEF PlacesInv
  <1>2. PICK P : P = Page(offset, PageSize)
    OBVIOUS
  <1>3. /\ at["sweep"] = "page" /\ page' = P /\ rows'["sweep"] = P
        /\ at'["sweep"] = (IF P = {} THEN "naming" ELSE "row")
        /\ UNCHANGED <<done, coords, checked, offset, matched, due, disturbed>>
    BY <1>2, ShotFacts DEF ReadPage, SetAt, photoVars, ghosts, PlacesInv, JobsFit
  <1>4. /\ Waiting \in SUBSET Nat /\ IsFiniteSet(Waiting) /\ Waiting \subseteq Shots
        /\ \A u \in Waiting : coords[u] = "none" /\ u \in Nat /\ Upto(Waiting, u) \in Nat
    <2>1. /\ Waiting \in SUBSET Nat /\ IsFiniteSet(Waiting) /\ Waiting \subseteq Shots
          /\ \A u \in Waiting : coords[u] = "none" /\ u \in Nat
      BY WaitingFacts DEF PlacesInv, CoordsFit
    <2> QED BY <2>1, UptoType
  <1>5. Waiting' = Waiting
    BY <1>3 DEF Waiting
  <1>6. /\ P \in SUBSET Waiting
        /\ \A u \in Waiting : u \in P <=> Upto(Waiting, u) \in offset + 1 .. offset + PageSize
    BY <1>2 DEF Page, Rank, Upto
  <1>7. offset \in Nat /\ PageSize \in Nat /\ offset + PageSize \in Nat /\ PageSize > 0
    BY PlacesAssumption DEF PlacesInv, CountsFit
  <1>8. /\ Cardinality(P) \in Nat /\ offset + Cardinality(P) <= offset + PageSize
    <2>1. \A u \in P : offset < Upto(Waiting, u) /\ Upto(Waiting, u) <= offset + PageSize
      BY <1>4, <1>6, <1>7
    <2>2. PICK top \in Nat : top = offset + PageSize
      BY <1>7
    <2>3. /\ Cardinality(P) \in Nat
          /\ (offset + Cardinality(P) <= top \/ Cardinality(P) = 0)
      BY <1>4, <1>6, <1>7, <2>1, <2>2, PageLength
    <2> QED BY <1>7, <2>2, <2>3
  <1>9. CountsFit'
    <2>1. \A u \in rows'["sweep"] : u \in rows["sweep"] \/ coords[u] = "none"
      BY <1>3, <1>4, <1>6
    <2>2. matched' \in Nat /\ matched' <= Cardinality(Matches')
      BY <1>3, <2>1, CountsGrow DEF PlacesInv
    <2> QED BY <1>3, <2>2 DEF PlacesInv, CountsFit
  <1>10. ASSUME ~disturbed' PROVE DueAhead'
    <2>1. due \subseteq Waiting /\ \A u \in due : offset < Upto(Waiting, u)
      BY <1>3, <1>10 DEF PlacesInv, SweepFit, DueAhead
    <2>2. CASE P = {}
      <3>1. ASSUME NEW u \in due PROVE FALSE
        <4>1. u \in Waiting /\ offset < Upto(Waiting, u)
          BY <2>1
        <4>2. PICK v \in Waiting : Upto(Waiting, v) = offset + 1
          BY <1>4, <1>7, <4>1, NoGap
        <4>3. v \in P
          BY <1>6, <1>7, <4>2
        <4> QED BY <2>2, <4>3
      <3> QED BY <1>3, <2>2, <3>1 DEF DueAhead
    <2>3. CASE P # {}
      <3>1. P \cap Waiting = P /\ P \ Waiting = {}
        BY <1>6
      <3>2. ASSUME NEW u \in due \ P PROVE offset + Cardinality(P) < Upto(Waiting, u)
        <4>1. u \in Waiting /\ offset < Upto(Waiting, u) /\ Upto(Waiting, u) \in Nat
          BY <1>4, <2>1
        <4>2. ~(Upto(Waiting, u) <= offset + PageSize)
          BY <1>6, <1>7, <4>1
        <4> QED BY <1>7, <1>8, <4>1, <4>2
      <3> QED BY <1>3, <1>5, <2>1, <2>3, <3>1, <3>2 DEF DueAhead
    <2> QED BY <2>2, <2>3
  <1>11. SweepFit'
    BY <1>3, <1>10 DEF PlacesInv, SweepFit
  <1> QED BY <1>1, <1>9, <1>11 DEF PlacesInv

\* The next page begins behind those of this one that still wait, and nothing is due
\* that ranks before them.
LEMMA EndPageInv ==
    ASSUME PlacesInv, EndPage
    PROVE  PlacesInv'
  <1>1. CoordsFit' /\ JobsFit'
    BY SweepStepFits DEF PlacesInv
  <1>2. PICK S : S = page \cap Page(offset, Cardinality(page))
    OBVIOUS
  <1>3. /\ at["sweep"] = "row" /\ at'["sweep"] = "page" /\ rows["sweep"] = {}
        /\ offset' = offset + Cardinality(S)
        /\ UNCHANGED <<done, coords, checked, rows, page, matched, due, disturbed>>
    BY <1>2, ShotFacts DEF EndPage, SetAt, photoVars, ghosts, PlacesInv, JobsFit
  <1>4. /\ Waiting \in SUBSET Nat /\ IsFiniteSet(Waiting) /\ Waiting \subseteq Shots
        /\ Cardinality(Waiting) \in Nat /\ Cardinality(Waiting) <= Cardinality(Shots)
    BY WaitingFacts DEF PlacesInv, CoordsFit
  <1>5. Waiting' = Waiting
    BY <1>3 DEF Waiting
  <1>6. /\ page \subseteq Shots /\ IsFiniteSet(page) /\ Cardinality(page) \in Nat
        /\ offset \in Nat /\ offset <= Cardinality(Shots) /\ Cardinality(Shots) \in Nat
    <2>1. page \subseteq Shots /\ offset \in Nat /\ offset <= Cardinality(Shots)
      BY DEF PlacesInv, JobsFit, CountsFit
    <2> QED BY <2>1, ShotFacts, FS_Subset, FS_CardinalityType
  <1>7. /\ S \in SUBSET Waiting /\ S \in SUBSET (page \cap Waiting)
        /\ \A u \in S : offset < Upto(Waiting, u) /\ Upto(Waiting, u) <= Cardinality(Waiting)
    <2>1. S \in SUBSET (page \cap Waiting)
      BY <1>2 DEF Page
    <2>2. ASSUME NEW u \in S
          PROVE  offset < Upto(Waiting, u) /\ Upto(Waiting, u) <= Cardinality(Waiting)
      <3>1. Upto(Waiting, u) \in offset + 1 .. offset + Cardinality(page)
        BY <1>2 DEF Page, Rank, Upto
      <3>2. u \in Nat
        BY <1>4, <2>1
      <3>3. Upto(Waiting, u) \in Nat /\ Upto(Waiting, u) <= Cardinality(Waiting)
        BY <1>4, <3>2, UptoType
      <3> QED BY <1>6, <3>1, <3>3
    <2> QED BY <2>1, <2>2
  <1>8. PICK top \in Nat : top = Cardinality(Waiting)
    BY <1>4
  <1>9. /\ Cardinality(S) \in Nat
        /\ offset + Cardinality(S) <= top \/ Cardinality(S) = 0
    BY <1>4, <1>6, <1>7, <1>8, PageLength
  <1>10. CountsFit'
    <2>1. offset' \in Nat /\ offset' <= Cardinality(Shots)
      BY <1>3, <1>4, <1>6, <1>8, <1>9
    <2>2. matched' \in Nat /\ matched' <= Cardinality(Matches')
      BY <1>3, CountsGrow DEF PlacesInv
    <2> QED BY <1>3, <2>1, <2>2 DEF CountsFit
  <1>11. ASSUME ~disturbed PROVE DueAhead'
    <2>1. /\ due \subseteq Waiting
          /\ \A u \in due : offset + Cardinality(page \cap Waiting) < Upto(Waiting, u)
      BY <1>3, <1>11 DEF PlacesInv, SweepFit, DueAhead
    <2>2. PICK n : n = Cardinality(page \cap Waiting)
      OBVIOUS
    <2>3. n \in Nat /\ Cardinality(S) <= n
      <3>1. IsFiniteSet(page \cap Waiting)
        BY <1>4, FS_Subset
      <3> QED BY <1>7, <2>2, <3>1, FS_Subset, FS_CardinalityType
    <2>4. ASSUME NEW u \in due PROVE offset' < Upto(Waiting, u)
      <3>1. Upto(Waiting, u) \in Nat
        <4>1. u \in Nat
          BY <1>4, <2>1
        <4> QED BY <1>4, <4>1, UptoType
      <3>2. offset + n < Upto(Waiting, u)
        BY <2>1, <2>2
      <3> QED BY <1>3, <1>6, <1>9, <2>3, <3>1, <3>2
    <2> QED BY <1>3, <1>5, <2>1, <2>4 DEF DueAhead
  <1>12. SweepFit'
    BY <1>3, <1>11 DEF PlacesInv, SweepFit
  <1> QED BY <1>1, <1>10, <1>12 DEF PlacesInv

\* The row that is fetched is tried: it is due no more, and stays the row at hand.
LEMMA FetchInv ==
    ASSUME PlacesInv, Fetch
    PROVE  PlacesInv'
  <1>1. CoordsFit' /\ JobsFit'
    BY RowStepFits DEF PlacesInv, SweepFit
  <1>2. /\ at["sweep"] = "row" /\ at'["sweep"] = "got" /\ rows["sweep"] # {}
        /\ due' = due \ {Row}
        /\ UNCHANGED <<done, coords, checked, rows, page, offset, matched, disturbed>>
    BY ShotFacts DEF Fetch, OnRow, SetAt, photoVars, PlacesInv, JobsFit
  <1>3. Waiting' = Waiting /\ Row' = Row
    BY <1>2 DEF Waiting, Row
  <1>4. CountsFit'
    <2>1. matched' \in Nat /\ matched' <= Cardinality(Matches')
      BY <1>2, CountsGrow DEF PlacesInv
    <2> QED BY <1>2, <2>1 DEF PlacesInv, CountsFit
  <1>5. SweepFit'
    BY <1>2, <1>3 DEF PlacesInv, SweepFit, DueAhead
  <1> QED BY <1>1, <1>4, <1>5 DEF PlacesInv

\* A row whose download fails leaves both what is due and what is left of the page.
LEMMA FetchFailsInv ==
    ASSUME PlacesInv, FetchFails
    PROVE  PlacesInv'
  <1>1. CoordsFit' /\ JobsFit'
    BY RowStepFits DEF PlacesInv, SweepFit
  <1>2. /\ at["sweep"] = "row" /\ at'["sweep"] = "row"
        /\ due' = due \ {Row} /\ rows'["sweep"] = rows["sweep"] \ {Row}
        /\ UNCHANGED <<done, coords, checked, page, offset, matched, disturbed>>
    BY ShotFacts DEF FetchFails, OnRow, NextRow, photoVars, PlacesInv, JobsFit
  <1>3. Waiting' = Waiting
    BY <1>2 DEF Waiting
  <1>4. CountsFit'
    <2>1. matched' \in Nat /\ matched' <= Cardinality(Matches')
      BY <1>2, CountsGrow DEF PlacesInv
    <2> QED BY <1>2, <2>1 DEF PlacesInv, CountsFit
  <1>5. SweepFit'
    <2>1. \A u \in due' \ rows'["sweep"] : u \in due \ rows["sweep"]
      BY <1>2
    <2> QED BY <1>2, <1>3, <2>1 DEF PlacesInv, SweepFit, DueAhead
  <1> QED BY <1>1, <1>4, <1>5 DEF PlacesInv

\* A row that gets coordinates, or is marked, waits no more: one rank less for those
\* behind it, and one photo less of the page that waits.
LEMMA InspectInv ==
    ASSUME PlacesInv, Inspect
    PROVE  PlacesInv'
  <1>1. CoordsFit' /\ JobsFit'
    BY RowStepFits DEF PlacesInv, SweepFit
  <1>2. at["sweep"] = "got" /\ rows["sweep"] # {} /\ Row \notin due
        /\ rows["sweep"] \subseteq page /\ page \subseteq Shots
    BY DEF Inspect, PlacesInv, SweepFit, JobsFit
  <1>3. PICK r \in Shots : r = Row /\ r \in rows["sweep"] /\ r \notin due /\ r \in page
    BY <1>2, RowOfPage DEF PlacesInv
  <1>4. /\ at'["sweep"] = "row" /\ rows'["sweep"] = rows["sweep"] \ {r}
        /\ UNCHANGED <<done, page, offset, due, disturbed>>
    BY <1>3, ShotFacts DEF Inspect, SetAt, NextRow, ghosts, PlacesInv, JobsFit
  <1>5. \/ coords' = [coords EXCEPT ![r] = "exif"] /\ checked' = checked /\ matched' = matched + 1
        \/ checked' = checked \cup {r} /\ coords' = coords /\ matched' = matched
    BY <1>3 DEF Inspect, SetPhotoGps, MarkGpsChecked
  <1>6. /\ coords \in [Shots -> Sources] /\ done \subseteq Shots /\ offset \in Nat
        /\ matched \in Nat /\ matched <= Cardinality(Matches) /\ offset <= Cardinality(Shots)
    BY DEF PlacesInv, CoordsFit, CountsFit
  <1>7. /\ coords'[r] # "none" \/ r \in checked'
        /\ \A u \in Shots \ {r} : coords'[u] = coords[u]
        /\ \A u \in Shots : coords[u] # "none" => coords'[u] # "none"
        /\ checked \subseteq checked' /\ checked' \subseteq checked \cup {r}
    BY <1>5, <1>6
  <1>8. Waiting' = Waiting \ {r}
    <2>1. ASSUME NEW u \in done
          PROVE  coords'[u] = "none" /\ u \notin checked' <=>
                    coords[u] = "none" /\ u \notin checked /\ u # r
      BY <1>6, <1>7
    <2> QED BY <1>4, <2>1 DEF Waiting
  <1>9. CountsFit'
    <2>1. matched' \in Nat /\ matched' <= Cardinality(Matches')
      <3>1. CASE matched' = matched
        BY <1>4, <1>7, <3>1, CountsGrow DEF PlacesInv
      <3>2. CASE coords' = [coords EXCEPT ![r] = "exif"] /\ matched' = matched + 1
        <4>1. Matches \cup {r} \in SUBSET Matches' /\ r \notin Matches
          BY <1>3, <1>4, <1>6, <1>7, <3>2 DEF Matches
        <4>2. Matches \subseteq Shots /\ Matches' \subseteq Shots
          BY DEF Matches
        <4>3. IsFiniteSet(Matches) /\ IsFiniteSet(Matches')
          BY <4>2, ShotFacts, FS_Subset
        <4>4. Cardinality(Matches \cup {r}) = Cardinality(Matches) + 1
          BY <4>1, <4>3, FS_AddElement
        <4>5. Cardinality(Matches \cup {r}) <= Cardinality(Matches')
          BY <4>1, <4>3, FS_Subset
        <4>6. Cardinality(Matches) \in Nat /\ Cardinality(Matches') \in Nat
          BY <4>3, FS_CardinalityType
        <4> QED BY <1>6, <3>2, <4>4, <4>5, <4>6
      <3> QED BY <1>5, <3>1, <3>2
    <2> QED BY <1>4, <1>6, <2>1 DEF CountsFit
  <1>10. ASSUME ~disturbed PROVE DueAhead'
    <2>1. /\ due \subseteq Waiting
          /\ \A u \in page \ Waiting : coords[u] # "none" \/ u \in checked
          /\ \A u \in due \ rows["sweep"] :
                offset + Cardinality(page \cap Waiting) < Upto(Waiting, u)
      BY <1>2, <1>10 DEF PlacesInv, SweepFit, DueAhead
    <2>2. due \subseteq Waiting'
      BY <1>3, <1>8, <2>1
    <2>3. ASSUME NEW u \in page \ Waiting' PROVE coords'[u] # "none" \/ u \in checked'
      BY <1>2, <1>7, <1>8, <2>1, <2>3
    <2>4. PICK W : W = Waiting
      OBVIOUS
    <2>5. W \in SUBSET Nat /\ IsFiniteSet(W)
      BY <1>6, <2>4, WaitingFacts
    <2>6. PICK P : P = page \cap W
      OBVIOUS
    <2>7. /\ IsFiniteSet(P) /\ Cardinality(P) \in Nat /\ page \cap (W \ {r}) = P \ {r}
          /\ (r \in P <=> r \in W)
          /\ Cardinality(P \ {r}) = IF r \in P THEN Cardinality(P) - 1 ELSE Cardinality(P)
      <3>1. IsFiniteSet(P)
        BY <2>5, <2>6, FS_Subset
      <3> QED BY <1>3, <2>6, <3>1, FS_CardinalityType, FS_RemoveElement
    <2>8. ASSUME NEW u \in due \ rows'["sweep"]
          PROVE  offset + Cardinality(P \ {r}) < Upto(W \ {r}, u)
      <3>1. u \in due \ rows["sweep"] /\ u \in Nat
        BY <1>3, <1>4, <2>1, <2>4, <2>5
      <3>2. offset + Cardinality(P) < Upto(W, u)
        BY <2>1, <2>4, <2>6, <3>1
      <3>3. /\ Upto(W, u) \in Nat
            /\ Upto(W \ {r}, u) \in Nat /\ Upto(W \ {r}, u) + 1 >= Upto(W, u)
        BY <2>5, <3>1, UptoType, UptoWithout
      <3>4. CASE r \in W
        <4>1. Cardinality(P \ {r}) = Cardinality(P) - 1
          BY <2>7, <3>4
        <4> QED BY <1>6, <2>7, <3>2, <3>3, <4>1
      <3>5. CASE r \notin W
        <4>1. W \ {r} = W /\ P \ {r} = P
          BY <2>7, <3>5
        <4> QED BY <3>2, <4>1
      <3> QED BY <3>4, <3>5
    <2>9. page' \cap Waiting' = P \ {r} /\ Waiting' = W \ {r}
      BY <1>4, <1>8, <2>4, <2>7
    <2> QED BY <1>4, <2>2, <2>3, <2>8, <2>9 DEF DueAhead
  <1>11. SweepFit'
    BY <1>2, <1>4, <1>10 DEF PlacesInv, SweepFit
  <1> QED BY <1>1, <1>9, <1>11 DEF PlacesInv

LEMMA PlacesNextInv ==
    ASSUME PlacesInv, PlacesNext \/ UNCHANGED placesVars
    PROVE  PlacesInv'
  <1>1. CASE UNCHANGED placesVars
    <2>1. UNCHANGED <<done, coords, checked, place, at, rows, read, page, offset, matched,
                      work, cache, due, disturbed>>
      BY <1>1 DEF placesVars, photoVars, jobVars, sweepVars, ghosts
    <2>2. CoordsFit' /\ JobsFit'
      BY <2>1 DEF PlacesInv, CoordsFit, JobsFit
    <2>3. Waiting' = Waiting /\ Matches' = Matches /\ Row' = Row /\ Limited' = Limited
      BY <2>1 DEF Waiting, Matches, Row, Limited
    <2>4. CountsFit'
      BY <2>1, <2>3 DEF PlacesInv, CountsFit
    <2>5. SweepFit'
      BY <2>1, <2>3 DEF PlacesInv, SweepFit, DueAhead
    <2> QED BY <2>2, <2>4, <2>5 DEF PlacesInv
  <1>2. ASSUME NEW j \in Jobs, Work(j) \/ Geocode(j) \/ GeocodeFails(j) \/ Kill(j)
        PROVE  PlacesInv'
    BY <1>2, BeginSweepInv, ReadPageInv, StopAtLimitInv, InspectInv, EndPageInv,
       ImportStepInv, NamingStepInv DEF Work
  <1>3. CASE Fetch \/ FetchFails \/ BeginImport
    BY <1>3, FetchInv, FetchFailsInv, ImportStepInv
  <1>4. ASSUME NEW u \in Shots, Join(u) \/ Leave(u)
        PROVE  PlacesInv'
    BY <1>4, PhotoStepInv
  <1> QED BY <1>1, <1>2, <1>3, <1>4 DEF PlacesNext

\* The invariant holds the types.
LEMMA PlacesInvTypeOK ==
    ASSUME PlacesInv
    PROVE  PlacesTypeOK
  <1>1. Matches \subseteq Shots
    BY DEF Matches
  <1>2. Cardinality(Matches) \in Nat /\ Cardinality(Matches) <= Cardinality(Shots)
    BY <1>1, ShotFacts, FS_Subset, FS_CardinalityType
  <1>3. offset \in 0 .. Cardinality(Shots) /\ matched \in 0 .. Cardinality(Shots)
    <2>1. offset \in Nat /\ offset <= Cardinality(Shots)
          /\ matched \in Nat /\ matched <= Cardinality(Matches)
      BY DEF PlacesInv, CountsFit
    <2> QED BY <1>2, <2>1, ShotFacts
  <1> QED BY <1>3 DEF PlacesInv, CoordsFit, JobsFit, SweepStates, ImportStates, PlacesTypeOK

\* A sweep at its end has nothing due: what is due would rank behind its offset, where
\* nothing waits.
LEMMA PlacesInvCovers ==
    ASSUME PlacesInv
    PROVE  SweepCovers
  BY DEF PlacesInv, SweepFit, DueAhead, SweepCovers

----------------------------------------------------------------------------
(* Backups: a slot is served once.                                          *)

SnapshotsFit ==
    /\ now \in 1 .. LastTime /\ taken \in 0 .. MaxSnapshots /\ mishaps \in 0 .. MaxMishaps
    /\ files \subseteq [name : 1 .. MaxSnapshots, at : 1 .. LastTime, whole : BOOLEAN]
    /\ \A f, g \in files : f.name = g.name => f = g
    /\ \A f \in files : f.name <= taken
    /\ pc \in [Savers -> {"idle", "due", "vacuum", "mark", "save", "write", "replace", "prune"}]
    /\ pc["request"] \notin {"due", "prune"}
    /\ sched \in [Savers -> Contents] /\ dest \in [Savers -> 0 .. MaxSnapshots]
    /\ slot \in 0 .. now /\ served \subseteq 0 .. now
    /\ twice \in BOOLEAN /\ lost \in BOOLEAN /\ overlapped \in BOOLEAN

\* A file is written by whoever has it open; unless two of them were between read and
\* write at one time, what they rename is what they meant to write.
SavesFit ==
    /\ config \in Contents \cup {Torn, NoFile} /\ tmp \in Contents \cup {Torn, NoFile}
    /\ open \in [Savers -> {"none", "tmp", "config"}]
    /\ \A t \in Savers : open[t] # "none" => pc[t] = "write"
    /\ ~overlapped =>
          /\ config # Torn
          /\ pc["worker"] \in Saving => pc["request"] \notin Saving
          /\ \A t \in Savers : pc[t] = "write" => open[t] = "tmp" /\ tmp = Torn
          /\ \A t \in Savers : pc[t] = "replace" => tmp = sched[t]

\* A schedule that knows of all the slots that are served.
Marked(s, slots) == s \in Contents /\ s.last # Never /\ \A n \in slots : n <= s.last

Marks == {"mark"} \cup Saving
MarksFit ==
    /\ pc["worker"] \in Saving => Marked(sched["worker"], served)
    /\ ~lost /\ ~overlapped =>
          /\ pc["worker"] \in {"due", "vacuum"} => slot \notin served
          /\ pc["worker"] \notin Marks /\ served # {} =>
                /\ Marked(config, served)
                /\ pc["request"] \in Saving => Marked(sched["request"], served)
    /\ OncePerSlot

BackupsInv == SnapshotsFit /\ SavesFit /\ MarksFit

\* Schedules, and what is no schedule, are told apart.
LEMMA ContentFacts ==
    /\ Savers = {"worker", "request"} /\ Never = 0
    /\ LastTime \in Nat /\ MaxSnapshots \in Nat /\ MaxMishaps \in Nat
    /\ Defaults \in Contents /\ Torn \notin Contents /\ NoFile \notin Contents /\ Torn # NoFile
    /\ \A s \in Contents : s.hour \in Hours \cup {Off} /\ s.last \in 0 .. LastTime
    /\ \A s \in Contents, h \in Hours \cup {Off} : [s EXCEPT !.hour = h] \in Contents
    /\ \A s \in Contents, n \in 0 .. LastTime : [s EXCEPT !.last = n] \in Contents
  BY BackupsAssumption DEF Savers, Never, Defaults, Contents, Torn, NoFile, Off

\* What a reader of the file makes of its content is a schedule.
LEMMA ScheduleRead ==
    ASSUME SnapshotsFit, SavesFit
    PROVE  /\ Raw \in Contents /\ GetSchedule \in Contents
           /\ config \in Contents => Raw = config
           /\ config \in Contents /\ config.last # Never => GetSchedule = config
  <1>1. Raw \in Contents /\ (config \in Contents => Raw = config)
    BY ContentFacts DEF Raw
  <1>2. Newest \in 0 .. LastTime
    <2>1. CASE files = {}
      BY <2>1, ContentFacts DEF Newest
    <2>2. CASE files # {}
      <3>1. PICK T : T = {f.at : f \in files}
        OBVIOUS
      <3>2. T \in SUBSET Nat /\ T # {} /\ \A y \in T : y <= LastTime
        BY <2>2, <3>1, ContentFacts DEF SnapshotsFit
      <3>3. Max(T) \in T /\ T \subseteq 0 .. LastTime
        BY <3>2, GreatestOf, ContentFacts
      <3> QED BY <2>2, <3>1, <3>3 DEF Newest
    <2> QED BY <2>1, <2>2
  <1>3. PICK r : r = Raw
    OBVIOUS
  <1>4. GetSchedule = [r EXCEPT !.last = IF r.last = Never THEN Newest ELSE r.last]
    BY <1>3 DEF GetSchedule
  <1>5. GetSchedule \in Contents
    <2>1. PICK n : n = IF r.last = Never THEN Newest ELSE r.last
      OBVIOUS
    <2>2. n \in 0 .. LastTime
      BY <1>1, <1>2, <1>3, <2>1, ContentFacts
    <2> QED BY <1>1, <1>3, <1>4, <2>1, <2>2, ContentFacts
  <1>6. ASSUME config \in Contents, config.last # Never
        PROVE  GetSchedule = config
    <2>1. r = config /\ r.last # Never
      BY <1>1, <1>3, <1>6
    <2>2. GetSchedule = [r EXCEPT !.last = r.last]
      BY <1>4, <2>1
    <2>3. [r EXCEPT !.last = r.last] = r
      BY <1>6, <2>1 DEF Contents
    <2> QED BY <2>1, <2>2, <2>3
  <1> QED BY <1>1, <1>5, <1>6

\* The first start: no snapshot, no marker, no schedule file.
LEMMA BackupsBegin ==
    ASSUME BackupsInit
    PROVE  BackupsInv
  <1>1. 1 \in 1 .. LastTime /\ 0 \in 0 .. LastTime /\ 0 \in 0 .. MaxSnapshots /\ 0 \in 0 .. MaxMishaps
    BY ContentFacts, BackupsAssumption
  <1>2. config \in Contents \cup {NoFile} /\ config # Torn
    <2>1. [hour : Hours, last : {Never}] \subseteq Contents
      BY <1>1, ContentFacts DEF Contents
    <2> QED BY <2>1, ContentFacts DEF BackupsInit
  <1>3. SnapshotsFit
    <2>1. /\ pc \in [Savers -> {"idle", "due", "vacuum", "mark", "save", "write", "replace", "prune"}]
          /\ pc["request"] = "idle"
      BY ContentFacts DEF BackupsInit
    <2>2. sched \in [Savers -> Contents] /\ dest \in [Savers -> 0 .. MaxSnapshots]
      BY <1>1, ContentFacts DEF BackupsInit
    <2>3. slot \in 0 .. now /\ served \subseteq 0 .. now
      BY DEF BackupsInit
    <2> QED BY <1>1, <2>1, <2>2, <2>3 DEF BackupsInit, SnapshotsFit
  <1>4. SavesFit
    BY <1>2, ContentFacts DEF BackupsInit, SavesFit, Saving
  <1>5. MarksFit
    BY ContentFacts DEF BackupsInit, MarksFit, Saving, OncePerSlot
  <1> QED BY <1>3, <1>4, <1>5 DEF BackupsInv

\* A thread goes to another step.
LEMMA ThreadMoves ==
    ASSUME SnapshotsFit, NEW t \in Savers, NEW where, GoTo(t, where)
    PROVE  \A o \in Savers : pc'[o] = IF o = t THEN where ELSE pc[o]
  BY DEF SnapshotsFit, GoTo

\* The bound on failures holds.
LEMMA MishapCounted ==
    ASSUME SnapshotsFit, Mishap \/ UNCHANGED mishaps
    PROVE  mishaps' \in 0 .. MaxMishaps
  BY ContentFacts DEF SnapshotsFit, Mishap

LEMMA WakeWorkerInv ==
    ASSUME BackupsInv, WakeWorker
    PROVE  BackupsInv'
  <1>1. /\ pc["worker"] = "idle" /\ pc' = [pc EXCEPT !["worker"] = "due"]
        /\ Due(GetSchedule) /\ slot' = Slot(GetSchedule)
        /\ UNCHANGED <<now, taken, config, tmp, files, sched, dest, open>>
        /\ UNCHANGED <<served, twice, lost, overlapped, mishaps>>
    BY DEF WakeWorker, GoTo, diskVars
  <1>2. PICK s : s = GetSchedule
    OBVIOUS
  <1>3. /\ s \in Contents /\ (config \in Contents /\ config.last # Never => s = config)
        /\ s.hour \in Nat /\ s.last \in Nat
    BY <1>2, ScheduleRead, ContentFacts, BackupsAssumption DEF BackupsInv, Off
  <1>4. slot' \in 0 .. now
    <2>1. now \in Nat /\ now % Day \in Nat /\ now % Day <= now
      BY BackupsAssumption DEF BackupsInv, SnapshotsFit
    <2>2. now >= Slot(s)
      BY <1>1, <1>2 DEF Due
    <2> QED BY <1>1, <1>2, <1>3, <2>1, <2>2 DEF Slot
  <1>5. pc' \in [Savers -> {"idle", "due", "vacuum", "mark", "save", "write", "replace", "prune"}]
        /\ pc'["worker"] = "due" /\ pc'["request"] = pc["request"]
    BY <1>1, ContentFacts DEF BackupsInv, SnapshotsFit
  <1>6. SnapshotsFit'
    BY <1>1, <1>4, <1>5 DEF BackupsInv, SnapshotsFit
  <1>7. SavesFit'
    BY <1>1, <1>5, ContentFacts DEF BackupsInv, SavesFit, Saving
  <1>8. ASSUME ~lost, ~overlapped
        PROVE  slot' \notin served
    <2>1. CASE served = {}
      BY <2>1
    <2>2. CASE served # {}
      <3>1. Marked(config, served)
        BY <1>1, <1>8, <2>2 DEF BackupsInv, MarksFit, Marks, Saving
      <3>2. s = config /\ s.last < slot' /\ \A n \in served : n <= s.last
        BY <1>1, <1>2, <1>3, <3>1 DEF Marked, Due
      <3>3. slot' \in Nat
        BY <1>4, ContentFacts DEF BackupsInv, SnapshotsFit
      <3> QED BY <1>3, <3>2, <3>3
    <2> QED BY <2>1, <2>2
  <1>9. MarksFit'
    BY <1>1, <1>5, <1>8 DEF BackupsInv, MarksFit, Marks, Saving, OncePerSlot
  <1> QED BY <1>6, <1>7, <1>9 DEF BackupsInv

LEMMA BeginSnapshotInv ==
    ASSUME BackupsInv, NEW t \in Savers, BeginSnapshot(t)
    PROVE  BackupsInv'
  <1>1. /\ pc' = [pc EXCEPT ![t] = "vacuum"] /\ taken' = taken + 1 /\ taken < MaxSnapshots
        /\ files' = files \cup {[name |-> taken', at |-> now, whole |-> FALSE]}
        /\ dest' = [dest EXCEPT ![t] = taken']
        /\ UNCHANGED <<now, config, tmp, sched, open, slot, served, twice, lost, overlapped>>
        /\ (t = "worker" /\ pc[t] = "due") \/ (t = "request" /\ pc[t] = "idle")
    BY DEF BeginSnapshot, GoTo, seenVars
  <1>0. mishaps' \in 0 .. MaxMishaps
    <2>1. Mishap \/ UNCHANGED mishaps
      BY DEF BeginSnapshot
    <2> QED BY <2>1, MishapCounted DEF BackupsInv
  <1>2. pc' \in [Savers -> {"idle", "due", "vacuum", "mark", "save", "write", "replace", "prune"}]
        /\ \A o \in Savers : pc'[o] = IF o = t THEN "vacuum" ELSE pc[o]
    BY <1>1 DEF BackupsInv, SnapshotsFit
  <1>3. taken' \in 1 .. MaxSnapshots /\ taken' > taken
    BY <1>1, ContentFacts DEF BackupsInv, SnapshotsFit
  <1>4. SnapshotsFit'
    <2>1. PICK new : new = [name |-> taken', at |-> now, whole |-> FALSE]
      OBVIOUS
    <2>2. new \in [name : 1 .. MaxSnapshots, at : 1 .. LastTime, whole : BOOLEAN] /\ new.name = taken'
      BY <1>3, <2>1 DEF BackupsInv, SnapshotsFit
    <2>3. \A f \in files : f.name # taken' /\ f.name <= taken'
      BY <1>3, ContentFacts DEF BackupsInv, SnapshotsFit
    <2>4. files' = files \cup {new}
      BY <1>1, <2>1
    <2>5. /\ files' \subseteq [name : 1 .. MaxSnapshots, at : 1 .. LastTime, whole : BOOLEAN]
          /\ \A f, g \in files' : f.name = g.name => f = g
          /\ \A f \in files' : f.name <= taken'
      BY <1>3, <2>2, <2>3, <2>4 DEF BackupsInv, SnapshotsFit
    <2>6. dest' \in [Savers -> 0 .. MaxSnapshots] /\ taken' \in 0 .. MaxSnapshots
      BY <1>1, <1>3, ContentFacts DEF BackupsInv, SnapshotsFit
    <2> QED BY <1>0, <1>1, <1>2, <2>5, <2>6, ContentFacts DEF BackupsInv, SnapshotsFit
  <1>5. SavesFit'
    BY <1>1, <1>2, ContentFacts DEF BackupsInv, SavesFit, Saving
  <1>6. MarksFit'
    BY <1>1, <1>2, ContentFacts DEF BackupsInv, MarksFit, Marks, Saving, OncePerSlot
  <1> QED BY <1>4, <1>5, <1>6 DEF BackupsInv

LEMMA FinishSnapshotInv ==
    ASSUME BackupsInv, NEW t \in Savers, FinishSnapshot(t)
    PROVE  BackupsInv'
  <1>1. /\ pc[t] = "vacuum" /\ pc' = [pc EXCEPT ![t] = "mark"]
        /\ UNCHANGED <<now, config, tmp, taken, sched, dest, open, slot, lost, overlapped, mishaps>>
    BY DEF FinishSnapshot, GoTo
  <1>2. PICK f \in files : files' = (files \ {f}) \cup {[f EXCEPT !.at = now, !.whole = TRUE]}
    BY DEF FinishSnapshot
  <1>3. IF t = "worker"
        THEN served' = served \cup {slot} /\ twice' = (twice \/ slot \in served)
        ELSE UNCHANGED <<served, twice>>
    BY DEF FinishSnapshot
  <1>4. pc' \in [Savers -> {"idle", "due", "vacuum", "mark", "save", "write", "replace", "prune"}]
        /\ \A o \in Savers : pc'[o] = IF o = t THEN "mark" ELSE pc[o]
    BY <1>1 DEF BackupsInv, SnapshotsFit
  <1>5. SnapshotsFit'
    <2>1. PICK g : g = [f EXCEPT !.at = now, !.whole = TRUE]
      OBVIOUS
    <2>2. f \in [name : 1 .. MaxSnapshots, at : 1 .. LastTime, whole : BOOLEAN] /\ now \in 1 .. LastTime
      BY DEF BackupsInv, SnapshotsFit
    <2>3. g \in [name : 1 .. MaxSnapshots, at : 1 .. LastTime, whole : BOOLEAN] /\ g.name = f.name
      BY <2>1, <2>2
    <2>4. files' = (files \ {f}) \cup {g}
      BY <1>2, <2>1
    <2>5. /\ files' \subseteq [name : 1 .. MaxSnapshots, at : 1 .. LastTime, whole : BOOLEAN]
          /\ \A x \in files' : x.name <= taken
      BY <2>3, <2>4 DEF BackupsInv, SnapshotsFit
    <2>6. ASSUME NEW x \in files', NEW y \in files', x.name = y.name
          PROVE  x = y
      BY <2>3, <2>4, <2>6 DEF BackupsInv, SnapshotsFit
    <2>7. served' \subseteq 0 .. now /\ twice' \in BOOLEAN
      BY <1>3 DEF BackupsInv, SnapshotsFit
    <2> QED BY <1>1, <1>4, <2>5, <2>6, <2>7, ContentFacts DEF BackupsInv, SnapshotsFit
  <1>6. SavesFit'
    BY <1>1, <1>4, ContentFacts DEF BackupsInv, SavesFit, Saving
  <1>7. MarksFit'
    <2>1. CASE t = "worker"
      <3>1. pc["worker"] = "vacuum" /\ pc'["worker"] = "mark"
        BY <1>1, <1>4, <2>1
      <3>2. twice' => lost \/ overlapped
        BY <1>3, <2>1, <3>1 DEF BackupsInv, MarksFit, OncePerSlot
      <3> QED BY <1>1, <3>1, <3>2 DEF MarksFit, Marks, Saving, OncePerSlot
    <2>2. CASE t = "request"
      BY <1>1, <1>3, <1>4, <2>2, ContentFacts DEF BackupsInv, MarksFit, Marks, Saving, OncePerSlot
    <2> QED BY <2>1, <2>2, ContentFacts
  <1> QED BY <1>5, <1>6, <1>7 DEF BackupsInv

\* A thread gives up, or prunes, or a file goes: no schedule is touched.
LEMMA SnapshotsGoInv ==
    ASSUME BackupsInv, NEW t \in Savers, GoTo(t, "idle"),
           pc[t] \in {"vacuum", "prune", "idle"}, files' \subseteq files,
           (Locals(t, Defaults, 0) \/ UNCHANGED <<sched, dest>>), mishaps' \in 0 .. MaxMishaps,
           UNCHANGED <<now, config, tmp, taken, open, slot, served, twice, lost, overlapped>>
    PROVE  BackupsInv'
  <1>1. pc' \in [Savers -> {"idle", "due", "vacuum", "mark", "save", "write", "replace", "prune"}]
        /\ \A o \in Savers : pc'[o] = IF o = t THEN "idle" ELSE pc[o]
    BY DEF BackupsInv, SnapshotsFit, GoTo
  <1>2. /\ sched' \in [Savers -> Contents] /\ dest' \in [Savers -> 0 .. MaxSnapshots]
        /\ \A o \in Savers : o # t => sched'[o] = sched[o]
    BY ContentFacts DEF BackupsInv, SnapshotsFit, Locals
  <1>3. SnapshotsFit'
    BY <1>1, <1>2, ContentFacts DEF BackupsInv, SnapshotsFit
  <1>4. SavesFit'
    BY <1>1, <1>2, ContentFacts DEF BackupsInv, SavesFit, Saving
  <1>5. MarksFit'
    BY <1>1, <1>2, ContentFacts DEF BackupsInv, MarksFit, Marks, Saving, OncePerSlot
  <1> QED BY <1>3, <1>4, <1>5 DEF BackupsInv

LEMMA SnapshotFailsInv ==
    ASSUME BackupsInv, NEW t \in Savers, SnapshotFails(t)
    PROVE  BackupsInv'
  <1>1. Mishap \/ UNCHANGED mishaps
    BY DEF SnapshotFails
  <1>2. mishaps' \in 0 .. MaxMishaps
    BY <1>1, MishapCounted DEF BackupsInv
  <1>3. /\ GoTo(t, "idle") /\ pc[t] \in {"vacuum", "prune", "idle"} /\ files' \subseteq files
        /\ Locals(t, Defaults, 0)
        /\ UNCHANGED <<now, config, tmp, taken, open, slot, served, twice, lost, overlapped>>
    BY DEF SnapshotFails, diskVars, seenVars
  <1> QED BY <1>2, <1>3, SnapshotsGoInv

LEMMA PruneBackupsInv ==
    ASSUME BackupsInv, NEW t \in Savers, PruneBackups(t)
    PROVE  BackupsInv'
  <1>1. files' \subseteq files
    BY DEF PruneBackups, Kept
  <1>2. /\ GoTo(t, "idle") /\ pc[t] \in {"vacuum", "prune", "idle"} /\ mishaps' = mishaps
        /\ UNCHANGED <<sched, dest>>
        /\ UNCHANGED <<now, config, tmp, taken, open, slot, served, twice, lost, overlapped>>
    BY DEF PruneBackups, seenVars
  <1>3. mishaps' \in 0 .. MaxMishaps
    BY <1>2 DEF BackupsInv, SnapshotsFit
  <1> QED BY <1>1, <1>2, <1>3, SnapshotsGoInv

LEMMA DeleteBackupInv ==
    ASSUME BackupsInv, NEW f \in files, DeleteBackup(f)
    PROVE  BackupsInv'
  <1>1. mishaps' \in 0 .. MaxMishaps
    BY MishapCounted DEF BackupsInv, DeleteBackup
  <1>2. /\ files' \subseteq files /\ UNCHANGED <<pc, sched, dest>>
        /\ UNCHANGED <<now, config, tmp, taken, open, slot, served, twice, lost, overlapped>>
    BY DEF DeleteBackup, threadVars, seenVars
  <1>3. SnapshotsFit'
    BY <1>1, <1>2 DEF BackupsInv, SnapshotsFit
  <1> QED BY <1>2, <1>3 DEF BackupsInv, SavesFit, MarksFit, Marks, Saving, OncePerSlot

LEMMA TimePassesInv ==
    ASSUME BackupsInv, TimePasses
    PROVE  BackupsInv'
  <1>1. /\ now' \in 1 .. LastTime /\ now <= now' /\ now \in Nat
        /\ UNCHANGED <<taken, config, tmp, files, pc, sched, dest, open>>
        /\ UNCHANGED <<slot, served, twice, lost, overlapped, mishaps>>
    BY ContentFacts DEF TimePasses, diskVars, threadVars, seenVars, BackupsInv, SnapshotsFit
  <1>2. 0 .. now \subseteq 0 .. now'
    BY <1>1
  <1>3. SnapshotsFit'
    BY <1>1, <1>2 DEF BackupsInv, SnapshotsFit
  <1> QED BY <1>1, <1>3 DEF BackupsInv, SavesFit, MarksFit, Marks, Saving, OncePerSlot

\* A thread has read the schedule and is about to write it.
LEMMA SaveBegins ==
    ASSUME BackupsInv, NEW t \in Savers, NEW s \in Contents,
           GoTo(t, "save"), Locals(t, s, 0), overlapped' = (overlapped \/ OthersSave(t)),
           mishaps' \in 0 .. MaxMishaps,
           t = "worker" => pc[t] = "mark" /\ Marked(s, served),
           t = "request" => pc[t] \in {"idle", "mark"} /\ (Marked(config, served) => Marked(s, served)),
           UNCHANGED <<now, config, tmp, files, taken, open, slot, served, twice, lost>>
    PROVE  BackupsInv'
  <1>1. pc' \in [Savers -> {"idle", "due", "vacuum", "mark", "save", "write", "replace", "prune"}]
        /\ \A o \in Savers : pc'[o] = IF o = t THEN "save" ELSE pc[o]
    BY DEF BackupsInv, SnapshotsFit, GoTo
  <1>2. /\ sched' \in [Savers -> Contents] /\ dest' \in [Savers -> 0 .. MaxSnapshots]
        /\ \A o \in Savers : sched'[o] = IF o = t THEN s ELSE sched[o]
    BY ContentFacts DEF BackupsInv, SnapshotsFit, Locals
  <1>3. overlapped' \in BOOLEAN
    OBVIOUS
  <1>4. SnapshotsFit'
    BY <1>1, <1>2, <1>3, ContentFacts DEF BackupsInv, SnapshotsFit
  <1>5. ~overlapped' => ~overlapped /\ \A o \in Savers \ {t} : pc[o] \notin Saving
    BY DEF OthersSave
  <1>6. SavesFit'
    <2>1. \A o \in Savers : open[o] # "none" => pc'[o] = "write"
      BY <1>1, ContentFacts DEF BackupsInv, SavesFit
    <2>2. ASSUME ~overlapped'
          PROVE  /\ config # Torn
                 /\ pc'["worker"] \in Saving => pc'["request"] \notin Saving
                 /\ \A o \in Savers : pc'[o] = "write" => open[o] = "tmp" /\ tmp = Torn
                 /\ \A o \in Savers : pc'[o] = "replace" => tmp = sched'[o]
      BY <1>1, <1>5, <2>2, ContentFacts DEF BackupsInv, SavesFit, Saving
    <2> QED BY <2>1, <2>2 DEF BackupsInv, SavesFit
  <1>7. MarksFit'
    <2>1. CASE t = "worker"
      BY <1>1, <1>2, <1>5, <2>1, ContentFacts DEF BackupsInv, MarksFit, Marks, Saving, OncePerSlot
    <2>2. CASE t = "request"
      <3>1. pc'["worker"] = pc["worker"] /\ sched'["worker"] = sched["worker"]
            /\ sched'["request"] = s
        BY <1>1, <1>2, <2>2, ContentFacts
      <3> QED BY <1>5, <2>2, <3>1 DEF BackupsInv, MarksFit, OncePerSlot
    <2> QED BY <2>1, <2>2, ContentFacts
  <1> QED BY <1>4, <1>6, <1>7 DEF BackupsInv

LEMMA MarkBackupInv ==
    ASSUME BackupsInv, NEW t \in Savers, MarkBackup(t)
    PROVE  BackupsInv'
  <1>1. PICK r : r = Raw
    OBVIOUS
  <1>2. PICK s : s = [r EXCEPT !.last = now]
    OBVIOUS
  <1>3. now \in 0 .. LastTime /\ now # Never /\ \A n \in served : n <= now
    BY ContentFacts DEF BackupsInv, SnapshotsFit
  <1>4. r \in Contents
    BY <1>1, ScheduleRead DEF BackupsInv
  <1>5. s \in Contents /\ s.last = now
    BY <1>2, <1>3, <1>4 DEF Contents
  <1>6. Marked(s, served)
    BY <1>3, <1>5 DEF Marked
  <1>7. /\ GoTo(t, "save") /\ Locals(t, s, 0) /\ overlapped' = (overlapped \/ OthersSave(t))
        /\ pc[t] = "mark" /\ mishaps' = mishaps
        /\ UNCHANGED <<now, config, tmp, files, taken, open, slot, served, twice, lost>>
    BY <1>1, <1>2 DEF MarkBackup, diskVars
  <1>8. mishaps' \in 0 .. MaxMishaps
    BY <1>7 DEF BackupsInv, SnapshotsFit
  <1> QED BY <1>5, <1>6, <1>7, <1>8, SaveBegins

\* A schedule that is set keeps the time of the last backup.
LEMMA SetScheduleInv ==
    ASSUME BackupsInv, NEW h \in Hours \cup {Off}, SetSchedule(h)
    PROVE  BackupsInv'
  <1>1. PICK r : r = GetSchedule
    OBVIOUS
  <1>2. PICK s : s = [r EXCEPT !.hour = h]
    OBVIOUS
  <1>3. r \in Contents /\ (Marked(config, served) => r = config)
    BY <1>1, ScheduleRead DEF BackupsInv, Marked
  <1>4. s \in Contents /\ s.last = r.last
    BY <1>2, <1>3 DEF Contents
  <1>5. Marked(config, served) => Marked(s, served)
    BY <1>3, <1>4 DEF Marked
  <1>6. /\ GoTo("request", "save") /\ Locals("request", s, 0)
        /\ overlapped' = (overlapped \/ OthersSave("request")) /\ pc["request"] = "idle"
        /\ UNCHANGED <<now, config, tmp, files, taken, open, slot, served, twice, lost>>
    BY <1>1, <1>2 DEF SetSchedule, diskVars
  <1>7. mishaps' \in 0 .. MaxMishaps
    BY MishapCounted DEF SetSchedule, BackupsInv
  <1>8. PICK t \in Savers : t = "request"
    BY ContentFacts
  <1> QED BY <1>4, <1>5, <1>6, <1>7, <1>8, SaveBegins

LEMMA OpenTmpInv ==
    ASSUME BackupsInv, NEW t \in Savers, OpenTmp(t)
    PROVE  BackupsInv'
  <1>1. /\ pc[t] = "save" /\ pc' = [pc EXCEPT ![t] = "write"] /\ tmp' = Torn
        /\ open' = [open EXCEPT ![t] = "tmp"]
        /\ UNCHANGED <<now, config, files, taken, sched, dest, slot, served, twice, lost>>
        /\ UNCHANGED <<overlapped, mishaps>>
    BY DEF OpenTmp, GoTo, seenVars
  <1>2. pc' \in [Savers -> {"idle", "due", "vacuum", "mark", "save", "write", "replace", "prune"}]
        /\ \A o \in Savers : pc'[o] = IF o = t THEN "write" ELSE pc[o]
    BY <1>1 DEF BackupsInv, SnapshotsFit
  <1>3. open' \in [Savers -> {"none", "tmp", "config"}]
        /\ \A o \in Savers : open'[o] = IF o = t THEN "tmp" ELSE open[o]
    BY <1>1 DEF BackupsInv, SavesFit
  <1>4. SnapshotsFit'
    BY <1>1, <1>2, ContentFacts DEF BackupsInv, SnapshotsFit
  <1>5. SavesFit'
    BY <1>1, <1>2, <1>3, ContentFacts DEF BackupsInv, SavesFit, Saving
  <1>6. MarksFit'
    BY <1>1, <1>2, ContentFacts DEF BackupsInv, MarksFit, Marks, Saving, OncePerSlot
  <1> QED BY <1>4, <1>5, <1>6 DEF BackupsInv

LEMMA WriteTmpInv ==
    ASSUME BackupsInv, NEW t \in Savers, WriteTmp(t)
    PROVE  BackupsInv'
  <1>1. /\ pc[t] = "write" /\ pc' = [pc EXCEPT ![t] = "replace"]
        /\ open' = [open EXCEPT ![t] = "none"]
        /\ UNCHANGED <<now, files, taken, sched, dest, slot, served, twice, lost>>
        /\ UNCHANGED <<overlapped, mishaps>>
    BY DEF WriteTmp, GoTo, seenVars
  <1>2. pc' \in [Savers -> {"idle", "due", "vacuum", "mark", "save", "write", "replace", "prune"}]
        /\ \A o \in Savers : pc'[o] = IF o = t THEN "replace" ELSE pc[o]
    BY <1>1 DEF BackupsInv, SnapshotsFit
  <1>3. open' \in [Savers -> {"none", "tmp", "config"}]
        /\ \A o \in Savers : open'[o] = IF o = t THEN "none" ELSE open[o]
    BY <1>1 DEF BackupsInv, SavesFit
  <1>4. \A old : Mixed(old, t) \subseteq Contents \cup {Torn} /\ Mixed(Torn, t) = {sched[t]}
    BY DEF Mixed, BackupsInv, SnapshotsFit
  <1>5. config' \in Contents \cup {Torn, NoFile} /\ tmp' \in Contents \cup {Torn, NoFile}
    BY <1>4 DEF WriteTmp, BackupsInv, SavesFit
  <1>6. ~overlapped => tmp' = sched[t] /\ config' = config
    BY <1>1, <1>4 DEF WriteTmp, BackupsInv, SavesFit
  <1>7. SnapshotsFit'
    BY <1>1, <1>2, ContentFacts DEF BackupsInv, SnapshotsFit
  <1>8. SavesFit'
    <2>1. \A o \in Savers : open'[o] # "none" => pc'[o] = "write"
      BY <1>2, <1>3 DEF BackupsInv, SavesFit
    <2>2. ASSUME ~overlapped'
          PROVE  /\ config' # Torn
                 /\ pc'["worker"] \in Saving => pc'["request"] \notin Saving
                 /\ \A o \in Savers : pc'[o] = "write" => open'[o] = "tmp" /\ tmp' = Torn
                 /\ \A o \in Savers : pc'[o] = "replace" => tmp' = sched'[o]
      <3>1. ~overlapped /\ pc[t] \in Saving
        BY <1>1, <2>2 DEF Saving
      <3>2. \A o \in Savers \ {t} : pc[o] \notin Saving
        BY <3>1, ContentFacts DEF BackupsInv, SavesFit
      <3> QED BY <1>1, <1>2, <1>3, <1>6, <3>1, <3>2, ContentFacts DEF BackupsInv, SavesFit, Saving
    <2> QED BY <1>3, <1>5, <2>1, <2>2 DEF SavesFit
  <1>9. MarksFit'
    BY <1>1, <1>2, <1>6, ContentFacts DEF BackupsInv, MarksFit, Marks, Saving, OncePerSlot
  <1> QED BY <1>7, <1>8, <1>9 DEF BackupsInv

\* What is renamed is what the thread has read and changed, unless two overlapped.
LEMMA RenameTmpInv ==
    ASSUME BackupsInv, NEW t \in Savers, RenameTmp(t)
    PROVE  BackupsInv'
  <1>1. PICK next : next = IF t = "worker" THEN "prune" ELSE "idle"
    OBVIOUS
  <1>2. /\ pc[t] = "replace" /\ tmp # NoFile /\ config' = tmp /\ tmp' = NoFile
        /\ pc' = [pc EXCEPT ![t] = next] /\ Locals(t, Defaults, 0)
        /\ UNCHANGED <<now, files, taken, slot, served, twice, lost>>
        /\ UNCHANGED <<overlapped, mishaps>>
    BY <1>1 DEF RenameTmp, GoTo, seenVars
  <1>3. pc' \in [Savers -> {"idle", "due", "vacuum", "mark", "save", "write", "replace", "prune"}]
        /\ \A o \in Savers : pc'[o] = IF o = t THEN next ELSE pc[o]
    BY <1>1, <1>2 DEF BackupsInv, SnapshotsFit
  <1>4. open' \in [Savers -> {"none", "tmp", "config"}]
        /\ \A o \in Savers : open'[o] # "none" => open[o] = "tmp"
    <2>1. ASSUME NEW o \in Savers
          PROVE  open'[o] \in {"none", "config"} /\ (open'[o] # "none" => open[o] = "tmp")
      <3>1. CASE open[o] = "tmp"
        BY <3>1 DEF RenameTmp
      <3>2. CASE open[o] = "config"
        BY <3>2 DEF RenameTmp
      <3>3. CASE open[o] \notin {"tmp", "config"}
        BY <3>3 DEF RenameTmp
      <3> QED BY <3>1, <3>2, <3>3
    <2>2. \E F : open' = [o \in Savers |-> F[o]]
      <3>1. open' = [o \in Savers |-> open'[o]]
        BY DEF RenameTmp
      <3> QED BY <3>1
    <2> QED BY <2>1, <2>2
  <1>5. /\ sched' \in [Savers -> Contents] /\ dest' \in [Savers -> 0 .. MaxSnapshots]
        /\ \A o \in Savers : o # t => sched'[o] = sched[o]
    BY <1>2, ContentFacts DEF BackupsInv, SnapshotsFit, Locals
  <1>6. SnapshotsFit'
    BY <1>1, <1>2, <1>3, <1>5, ContentFacts DEF BackupsInv, SnapshotsFit
  <1>7. ~overlapped => /\ config' = sched[t]
                       /\ \A o \in Savers \ {t} : pc[o] \notin Saving
    BY <1>2, ContentFacts DEF BackupsInv, SavesFit, Saving
  <1>8. SavesFit'
    <2>1. \A o \in Savers : open'[o] # "none" => pc'[o] = "write"
      BY <1>2, <1>3, <1>4 DEF BackupsInv, SavesFit
    <2>2. ASSUME ~overlapped'
          PROVE  /\ config' # Torn
                 /\ pc'["worker"] \in Saving => pc'["request"] \notin Saving
                 /\ \A o \in Savers : pc'[o] \notin {"write", "replace"}
      BY <1>1, <1>2, <1>3, <1>7, <2>2, ContentFacts DEF BackupsInv, SnapshotsFit, Saving
    <2>3. config' \in Contents \cup {Torn, NoFile} /\ tmp' \in Contents \cup {Torn, NoFile}
      BY <1>2 DEF BackupsInv, SavesFit
    <2> QED BY <1>4, <2>1, <2>2, <2>3 DEF SavesFit
  <1>9. MarksFit'
    <2>1. CASE t = "worker"
      <3>1. /\ pc'["worker"] = "prune" /\ pc'["request"] = pc["request"]
            /\ Marked(sched["worker"], served)
        BY <1>1, <1>2, <1>3, <2>1, ContentFacts DEF BackupsInv, MarksFit, Saving
      <3>2. ~overlapped => Marked(config', served) /\ pc["request"] \notin Saving
        BY <1>7, <2>1, <3>1, ContentFacts
      <3> QED BY <1>2, <3>1, <3>2 DEF BackupsInv, MarksFit, Marks, Saving, OncePerSlot
    <2>2. CASE t = "request"
      <3>1. /\ pc'["request"] = "idle" /\ pc'["worker"] = pc["worker"]
            /\ sched'["worker"] = sched["worker"] /\ pc["request"] \in Saving
        BY <1>1, <1>2, <1>3, <1>5, <2>2, ContentFacts DEF Saving
      <3>2. ~overlapped => config' = sched["request"]
        BY <1>7, <2>2
      <3> QED BY <1>2, <3>1, <3>2 DEF BackupsInv, MarksFit, Saving, OncePerSlot
    <2> QED BY <2>1, <2>2, ContentFacts
  <1> QED BY <1>6, <1>8, <1>9 DEF BackupsInv

LEMMA SaveFailsInv ==
    ASSUME BackupsInv, NEW t \in Savers, SaveFails(t)
    PROVE  BackupsInv'
  <1>1. /\ pc[t] \in Saving /\ pc' = [pc EXCEPT ![t] = "idle"] /\ open' = [open EXCEPT ![t] = "none"]
        /\ lost' = (lost \/ t = "worker") /\ Locals(t, Defaults, 0)
        /\ UNCHANGED <<now, config, tmp, files, taken, slot, served, twice, overlapped>>
    BY DEF SaveFails, GoTo, diskVars, Saving
  <1>2. Mishap \/ UNCHANGED mishaps
    BY DEF SaveFails
  <1>3. pc' \in [Savers -> {"idle", "due", "vacuum", "mark", "save", "write", "replace", "prune"}]
        /\ \A o \in Savers : pc'[o] = IF o = t THEN "idle" ELSE pc[o]
    BY <1>1 DEF BackupsInv, SnapshotsFit
  <1>4. open' \in [Savers -> {"none", "tmp", "config"}]
        /\ \A o \in Savers : open'[o] = IF o = t THEN "none" ELSE open[o]
    BY <1>1 DEF BackupsInv, SavesFit
  <1>5. /\ sched' \in [Savers -> Contents] /\ dest' \in [Savers -> 0 .. MaxSnapshots]
        /\ \A o \in Savers : o # t => sched'[o] = sched[o]
    BY <1>1, ContentFacts DEF BackupsInv, SnapshotsFit, Locals
  <1>6. mishaps' \in 0 .. MaxMishaps
    BY <1>2, MishapCounted DEF BackupsInv
  <1>7. SnapshotsFit'
    BY <1>1, <1>3, <1>5, <1>6, ContentFacts DEF BackupsInv, SnapshotsFit
  <1>8. SavesFit'
    BY <1>1, <1>3, <1>4, <1>5, ContentFacts DEF BackupsInv, SavesFit, Saving
  <1>9. MarksFit'
    BY <1>1, <1>3, <1>5, ContentFacts DEF BackupsInv, MarksFit, Marks, Saving, OncePerSlot
  <1> QED BY <1>7, <1>8, <1>9 DEF BackupsInv

LEMMA ServerStopsInv ==
    ASSUME BackupsInv, ServerStops
    PROVE  BackupsInv'
  <1>1. /\ pc' = [t \in Savers |-> "idle"] /\ open' = [t \in Savers |-> "none"]
        /\ sched' = [t \in Savers |-> Defaults] /\ dest' = [t \in Savers |-> 0]
        /\ lost' = (lost \/ pc["worker"] \in Marks)
        /\ UNCHANGED <<now, config, tmp, files, taken, slot, served, twice, overlapped>>
    BY DEF ServerStops, diskVars, Marks
  <1>2. mishaps' \in 0 .. MaxMishaps
    BY MishapCounted DEF BackupsInv, ServerStops
  <1>3. SnapshotsFit'
    BY <1>1, <1>2, ContentFacts DEF BackupsInv, SnapshotsFit
  <1>4. SavesFit'
    BY <1>1, ContentFacts DEF BackupsInv, SavesFit, Saving
  <1>5. MarksFit'
    BY <1>1, ContentFacts DEF BackupsInv, MarksFit, Marks, Saving, OncePerSlot
  <1> QED BY <1>3, <1>4, <1>5 DEF BackupsInv

LEMMA BackupsNextInv ==
    ASSUME BackupsInv, BackupsNext \/ UNCHANGED backupsVars
    PROVE  BackupsInv'
  <1>1. CASE BackupsNext
    BY <1>1, WakeWorkerInv, ServerStopsInv, TimePassesInv, BeginSnapshotInv, FinishSnapshotInv,
       SnapshotFailsInv, MarkBackupInv, OpenTmpInv, WriteTmpInv, RenameTmpInv, SaveFailsInv,
       PruneBackupsInv, SetScheduleInv, DeleteBackupInv DEF BackupsNext
  <1>2. CASE UNCHANGED backupsVars
    BY <1>2 DEF backupsVars, diskVars, threadVars, seenVars, BackupsInv, SnapshotsFit, SavesFit,
                MarksFit, OncePerSlot
  <1> QED BY <1>1, <1>2

\* The invariant holds the types.
LEMMA BackupsInvTypeOK == ASSUME BackupsInv PROVE BackupsTypeOK
  <1>1. slot \in 0 .. LastTime /\ served \subseteq 0 .. LastTime
    BY ContentFacts DEF BackupsInv, SnapshotsFit
  <1>2. {twice, lost, overlapped} \subseteq BOOLEAN
    BY DEF BackupsInv, SnapshotsFit
  <1> QED BY <1>1, <1>2 DEF BackupsInv, SnapshotsFit, SavesFit, BackupsTypeOK

----------------------------------------------------------------------------
(* The lists that are kept for a while: how old their rows may be.          *)

RequestSteps == {"idle", "lock", "holds", "people", "peek", "read", "build", "hit"}
RequestRecords == [step : RequestSteps, kind : Kinds, query : Queries, asked : Times,
                   arrived : Times, rows : Times, linked : BOOLEAN]
ListSteps == {"holds", "people", "peek", "read", "build"}

\* Who holds a lock is at a step that ends with giving it back.
LocksFit ==
    /\ lock \in [Kinds -> Requests \cup {Nobody}]
    /\ \A k \in Kinds : lock[k] # Nobody =>
          IF k = "people" THEN req[lock[k]].step \in {"peek", "read"}
          ELSE req[lock[k]].kind = k /\ req[lock[k]].step \in ListSteps

\* What a request knows by its step: people are judged by the time of its arrival, which
\* is not before the one its list will be stamped with.
RequestFits(q, c) ==
    /\ q.asked <= c /\ q.arrived <= c /\ q.rows <= c
    /\ q.step \in {"lock", "holds"} => q.kind # "people"
    /\ q.step \in {"people", "peek", "read"} =>
          /\ q.kind # "groups" /\ q.asked <= q.arrived
          /\ q.kind = "people" => q.asked = q.arrived
    /\ q.step = "read" => q.arrived <= q.rows
    /\ q.step = "build" =>
          /\ q.kind # "people"
          /\ q.kind = "groups" => q.asked <= q.rows
          /\ q.kind \in Derived => q.asked - q.rows < PeopleTTL
    /\ q.step = "hit" =>
          /\ q.kind = "people" => q.asked - q.rows < PeopleTTL
          /\ q.kind = "dups" => q.asked - q.rows < DupsTTL + PeopleTTL
          /\ q.kind = "groups" => q.asked - q.rows < GroupsTTL
RequestsFit ==
    /\ req \in [Requests -> RequestRecords]
    /\ \A r \in Requests : RequestFits(req[r], clock)

\* People are stamped before their rows are read, the other lists no later than people
\* whose time has not run out allow.
PersonFits(e, c) == e # NoEntry => e.stamp <= e.of /\ e.of <= c
PeopleFit ==
    /\ people \in [Queries -> Entries \cup {NoEntry}]
    /\ \A q \in Queries : PersonFits(people[q], clock)
ListFits(k, e, c) == e # NoEntry =>
    /\ e.of <= c
    /\ k \in Derived => e.begun - e.of < PeopleTTL
    /\ k = "dups" => e.stamp = e.begun
    /\ k = "groups" => e.stamp <= e.of
ListsFit ==
    /\ lists \in [Lists -> Entries \cup {NoEntry}]
    /\ \A k \in Lists : ListFits(k, lists[k], clock)

ListsInv == clock \in Times /\ asks \subseteq Kinds /\ LocksFit /\ RequestsFit /\ PeopleFit /\ ListsFit

\* The kinds of lists, and the times and lifetimes.
LEMMA KindFacts ==
    /\ Kinds = {"people", "dups", "suggested", "groups"}
    /\ Lists = {"dups", "suggested", "groups"} /\ Derived = {"dups", "suggested"}
    /\ 0 \in Times /\ Times \subseteq Nat /\ All \in Queries /\ Nobody \notin Requests
    /\ PeopleTTL \in Nat \ {0} /\ DupsTTL \in Nat \ {0} /\ GroupsTTL \in Nat \ {0} /\ SuggestedTTL \in Nat \ {0}
    /\ NoEntry \notin Entries
  BY ListsAssumption DEF Kinds, Lists, Derived, Times, NoEntry, Entries

\* A request that has not been made knows nothing.
LEMMA NoRequestFits ==
    /\ NoRequest \in RequestRecords /\ NoRequest.step = "idle"
    /\ \A c \in Nat : RequestFits(NoRequest, c)
  <1>1. "people" \in Kinds /\ All \in Queries /\ 0 \in Times
    BY KindFacts
  <1>2. NoRequest \in RequestRecords
    BY <1>1 DEF NoRequest, RequestRecords, RequestSteps
  <1>3. \A c \in Nat : RequestFits(NoRequest, c)
    BY KindFacts DEF NoRequest, RequestFits
  <1> QED BY <1>2, <1>3 DEF NoRequest

\* No list is kept when the server starts.
LEMMA ListsBegin == ASSUME ListsInit PROVE ListsInv
  <1>1. NoRequest \in RequestRecords /\ RequestFits(NoRequest, 0)
    BY NoRequestFits
  <1>2. RequestsFit
    BY <1>1 DEF ListsInit, RequestsFit
  <1>3. PeopleFit /\ ListsFit
    BY DEF ListsInit, PeopleFit, ListsFit, PersonFits, ListFits
  <1>4. LocksFit
    BY DEF ListsInit, LocksFit
  <1>5. clock \in Times /\ asks \subseteq Kinds
    BY KindFacts, ListsAssumption DEF ListsInit
  <1> QED BY <1>2, <1>3, <1>4, <1>5 DEF ListsInv

\* One request goes on; the lists stay.
LEMMA RequestMoves ==
    ASSUME ListsInv, NEW r \in Requests, NEW q \in RequestRecords, RequestFits(q, clock),
           req' = [req EXCEPT ![r] = q], UNCHANGED clock
    PROVE  RequestsFit'
  BY DEF ListsInv, RequestsFit

\* The locks stay in order if what a request holds goes on with it.
LEMMA LocksMove ==
    ASSUME ListsInv, NEW r \in Requests, NEW q \in RequestRecords,
           req' = [req EXCEPT ![r] = q],
           lock' \in [Kinds -> Requests \cup {Nobody}],
           \A k \in Kinds : lock'[k] \in {lock[k], Nobody, r},
           \A k \in Kinds : lock'[k] = r =>
              IF k = "people" THEN q.step \in {"peek", "read"}
              ELSE q.kind = k /\ q.step \in ListSteps
    PROVE  LocksFit'
  <1>1. \A s \in Requests : s # r => req'[s] = req[s]
    BY DEF ListsInv, RequestsFit
  <1>2. req'[r] = q
    BY DEF ListsInv, RequestsFit
  <1> SUFFICES ASSUME NEW k \in Kinds, lock'[k] # Nobody
               PROVE  IF k = "people" THEN req'[lock'[k]].step \in {"peek", "read"}
                      ELSE req'[lock'[k]].kind = k /\ req'[lock'[k]].step \in ListSteps
    BY DEF LocksFit
  <1>3. CASE lock'[k] = r
    BY <1>2, <1>3
  <1>4. CASE lock'[k] # r
    <2>1. lock'[k] = lock[k] /\ lock[k] # Nobody /\ lock[k] \in Requests
      BY <1>4 DEF ListsInv, LocksFit
    <2> QED BY <2>1, <1>1, <1>4 DEF ListsInv, LocksFit
  <1> QED BY <1>3, <1>4

\* What is kept stays valid while nothing is kept anew.
LEMMA EntriesStay ==
    ASSUME ListsInv, UNCHANGED <<clock, asks, people, lists>>
    PROVE  clock' \in Times /\ asks' \subseteq Kinds /\ PeopleFit' /\ ListsFit'
  BY DEF ListsInv, PeopleFit, ListsFit

\* What a fresh entry says of its rows.
LEMMA FreshPeople ==
    ASSUME ListsInv, NEW q \in Queries, NEW time \in Times, Fresh(people[q], time, PeopleTTL)
    PROVE  people[q].of \in Times /\ people[q].of <= clock /\ time - people[q].of < PeopleTTL
  <1>1. people[q] \in Entries
    BY DEF ListsInv, PeopleFit, Fresh
  <1>2. people[q].of \in Times /\ people[q].stamp \in Times
    BY <1>1 DEF Entries
  <1>3. people[q].stamp <= people[q].of /\ people[q].of <= clock /\ time - people[q].stamp < PeopleTTL
    BY DEF ListsInv, PeopleFit, PersonFits, Fresh
  <1>4. people[q].of \in Nat /\ people[q].stamp \in Nat /\ time \in Nat /\ PeopleTTL \in Nat
    BY <1>2, KindFacts
  <1> QED BY <1>2, <1>3, <1>4

\* What a list that is still fresh may be as old as: its own lifetime, and that of the people
\* it was made of.
LEMMA FreshList ==
    ASSUME ListsInv, NEW k \in Lists, Fresh(lists[k], clock, TTL(k))
    PROVE  /\ lists[k].of \in Times /\ lists[k].of <= clock
           /\ k = "dups" => clock - lists[k].of < DupsTTL + PeopleTTL
           /\ k = "groups" => clock - lists[k].of < GroupsTTL
  <1>1. lists[k] \in Entries
    BY DEF ListsInv, ListsFit, Fresh
  <1>2. lists[k].of \in Times /\ lists[k].stamp \in Nat /\ lists[k].begun \in Nat /\ clock \in Nat
        /\ lists[k].of \in Nat
    BY <1>1, KindFacts DEF Entries, ListsInv
  <1>3. ListFits(k, lists[k], clock) /\ lists[k] # NoEntry
    BY DEF ListsInv, ListsFit, Fresh
  <1>4. clock - lists[k].stamp < TTL(k)
    BY DEF Fresh
  <1>5. ASSUME k = "dups" PROVE clock - lists[k].of < DupsTTL + PeopleTTL
    <2>1. TTL(k) = DupsTTL
      BY <1>5 DEF TTL
    <2>2. /\ lists[k].begun - lists[k].of < PeopleTTL /\ lists[k].stamp = lists[k].begun
          /\ clock - lists[k].stamp < DupsTTL /\ PeopleTTL \in Nat /\ DupsTTL \in Nat
      BY <1>3, <1>4, <1>5, <2>1, KindFacts DEF ListFits
    <2> QED BY <1>2, <2>2
  <1>6. ASSUME k = "groups" PROVE clock - lists[k].of < GroupsTTL
    <2>1. TTL(k) = GroupsTTL
      BY <1>6 DEF TTL
    <2>2. /\ lists[k].stamp <= lists[k].of
          /\ clock - lists[k].stamp < GroupsTTL /\ GroupsTTL \in Nat
      BY <1>3, <1>4, <1>6, <2>1, KindFacts DEF ListFits
    <2> QED BY <1>2, <2>2
  <1> QED BY <1>2, <1>3, <1>5, <1>6 DEF ListFits

\* The fields of a request.
LEMMA RecordFields ==
    ASSUME NEW q \in RequestRecords
    PROVE  /\ q.step \in RequestSteps /\ q.kind \in Kinds /\ q.query \in Queries
           /\ q.asked \in Times /\ q.arrived \in Times /\ q.rows \in Times /\ q.linked \in BOOLEAN
  BY DEF RequestRecords

\* An answer out of a list carries the age of the list.
LEMMA HitRecord ==
    ASSUME req \in [Requests -> RequestRecords], NEW r \in Requests, NEW w \in Times, clock \in Times,
           NEW e, e.of = w, Hit(r, e)
    PROVE  \E q \in RequestRecords :
              /\ req' = [req EXCEPT ![r] = q]
              /\ q.step = "hit" /\ q.kind = req[r].kind /\ q.asked = clock
              /\ q.rows = w /\ q.arrived = req[r].arrived
  <1>1. req' = [req EXCEPT ![r] = [req[r] EXCEPT !.step = "hit", !.asked = clock, !.rows = w]]
    BY DEF Hit
  <1>2. PICK q : q = [req[r] EXCEPT !.step = "hit", !.asked = clock, !.rows = w]
    OBVIOUS
  <1>3. req[r] \in RequestRecords
    OBVIOUS
  <1>4. q \in RequestRecords
    BY <1>2, <1>3 DEF RequestRecords, RequestSteps
  <1>5. q.step = "hit" /\ q.kind = req[r].kind /\ q.asked = clock
              /\ q.rows = w /\ q.arrived = req[r].arrived
    BY <1>2, <1>3 DEF RequestRecords
  <1> QED BY <1>1, <1>2, <1>4, <1>5

\* A request that holds no lock may leave all of them as they are.
LEMMA NoLockHeld ==
    ASSUME ListsInv, NEW r \in Requests, req[r].step \in {"idle", "lock", "hit"}
    PROVE  \A k \in Kinds : lock[k] # r
  BY KindFacts DEF ListsInv, LocksFit, ListSteps

LEMMA AskPeopleInv ==
    ASSUME ListsInv, NEW r \in Requests, NEW y \in Queries, AskPeople(r, y)
    PROVE  ListsInv'
  <1>1. PICK q : q = [NoRequest EXCEPT !.step = "people", !.query = y,
                                       !.asked = clock, !.arrived = clock]
    OBVIOUS
  <1>2. req' = [req EXCEPT ![r] = q] /\ UNCHANGED <<asks, clock, people, lists, lock>>
    BY <1>1 DEF AskPeople
  <1>3. clock \in Times /\ 0 \in Times /\ clock \in Nat /\ "people" \in Kinds
    BY KindFacts DEF ListsInv
  <1>4. q \in RequestRecords
    BY <1>1, <1>3 DEF NoRequest, RequestRecords, RequestSteps
  <1>5. q.step = "people" /\ q.kind = "people" /\ q.asked = clock /\ q.arrived = clock /\ q.rows = 0
    BY <1>1 DEF NoRequest
  <1>6. RequestFits(q, clock)
    BY <1>3, <1>5 DEF RequestFits
  <1>7. RequestsFit'
    BY <1>2, <1>4, <1>6, RequestMoves
  <1>8. \A k \in Kinds : lock[k] # r
    BY NoLockHeld DEF AskPeople
  <1>9. LocksFit'
    BY <1>2, <1>4, <1>8, LocksMove DEF ListsInv, LocksFit
  <1> QED BY <1>2, <1>7, <1>9, EntriesStay DEF ListsInv

LEMMA AskListInv ==
    ASSUME ListsInv, NEW r \in Requests, NEW k \in Lists, AskList(r, k)
    PROVE  ListsInv'
  <1>1. clock \in Times /\ 0 \in Times /\ clock \in Nat /\ k \in Kinds /\ k # "people"
    BY KindFacts DEF ListsInv
  <1>2. UNCHANGED <<asks, clock, people, lists, lock>>
    BY DEF AskList
  <1>3. \A l \in Kinds : lock[l] # r
    BY NoLockHeld DEF AskList
  <1>4. \E q \in RequestRecords : RequestFits(q, clock) /\ req' = [req EXCEPT ![r] = q]
    <2>1. CASE k # "suggested" /\ Fresh(lists[k], clock, TTL(k))
      <3>1. PICK q : q = [NoRequest EXCEPT !.step = "hit", !.kind = k, !.asked = clock,
                                           !.rows = lists[k].of]
        OBVIOUS
      <3>2. req' = [req EXCEPT ![r] = q]
        BY <2>1, <3>1 DEF AskList
      <3>3. PICK of : of = lists[k].of
        OBVIOUS
      <3>4. /\ of \in Times /\ of <= clock
            /\ k = "dups" => clock - of < DupsTTL + PeopleTTL
            /\ k = "groups" => clock - of < GroupsTTL
        BY <2>1, <3>3, FreshList
      <3>5. q \in RequestRecords
        BY <1>1, <3>1, <3>3, <3>4, KindFacts DEF NoRequest, RequestRecords, RequestSteps
      <3>6. q.step = "hit" /\ q.kind = k /\ q.asked = clock /\ q.rows = of /\ q.arrived = 0
        BY <3>1, <3>3 DEF NoRequest
      <3>7. RequestFits(q, clock)
        BY <1>1, <3>4, <3>6 DEF RequestFits
      <3> QED BY <3>2, <3>5, <3>7
    <2>2. CASE ~(k # "suggested" /\ Fresh(lists[k], clock, TTL(k)))
      <3>1. PICK q : q = [NoRequest EXCEPT !.step = "lock", !.kind = k]
        OBVIOUS
      <3>2. req' = [req EXCEPT ![r] = q]
        BY <2>2, <3>1 DEF AskList
      <3>3. q \in RequestRecords
        BY <1>1, <3>1, KindFacts DEF NoRequest, RequestRecords, RequestSteps
      <3>4. q.step = "lock" /\ q.kind = k /\ q.asked = 0 /\ q.rows = 0 /\ q.arrived = 0
        BY <3>1 DEF NoRequest
      <3>5. RequestFits(q, clock)
        BY <1>1, <3>4 DEF RequestFits
      <3> QED BY <3>2, <3>3, <3>5
    <2> QED BY <2>1, <2>2
  <1>5. PICK q \in RequestRecords : RequestFits(q, clock) /\ req' = [req EXCEPT ![r] = q]
    BY <1>4
  <1>6. RequestsFit'
    BY <1>2, <1>5, RequestMoves
  <1>7. LocksFit'
    BY <1>2, <1>3, <1>5, LocksMove DEF ListsInv, LocksFit
  <1> QED BY <1>2, <1>6, <1>7, EntriesStay DEF ListsInv

LEMMA TakeLockInv ==
    ASSUME ListsInv, NEW r \in Requests, TakeLock(r)
    PROVE  ListsInv'
  <1>1. PICK k : k = req[r].kind
    OBVIOUS
  <1>2. req[r] \in RequestRecords /\ req[r].step = "lock" /\ RequestFits(req[r], clock)
    BY DEF TakeLock, ListsInv, RequestsFit
  <1>3. k \in Lists /\ k \in Kinds /\ k # "people"
    BY <1>1, <1>2, KindFacts DEF RequestFits, RequestRecords
  <1>4. UNCHANGED <<asks, clock, people, lists>>
    BY DEF TakeLock
  <1>5. clock \in Times /\ clock \in Nat
    BY KindFacts DEF ListsInv
  <1>6. req \in [Requests -> RequestRecords]
    BY DEF ListsInv, RequestsFit
  <1>7. /\ req[r].arrived <= clock /\ req[r].rows <= clock /\ req[r].rows \in Nat
        /\ req[r].arrived \in Nat
    BY <1>2, KindFacts DEF RequestFits, RequestRecords
  <1>8. CASE Fresh(lists[k], clock, TTL(k))
    <2>1. Hit(r, lists[k]) /\ lock' = lock
      BY <1>1, <1>8 DEF TakeLock
    <2>2. PICK e : e = lists[k]
      OBVIOUS
    <2>3. PICK of : of = e.of
      OBVIOUS
    <2>4. /\ of \in Times /\ of <= clock
          /\ k = "dups" => clock - of < DupsTTL + PeopleTTL
          /\ k = "groups" => clock - of < GroupsTTL
      BY <1>3, <1>8, <2>2, <2>3, FreshList
    <2>5. Hit(r, e)
      BY <2>1, <2>2
    <2>6. PICK q \in RequestRecords :
              /\ req' = [req EXCEPT ![r] = q]
              /\ q.step = "hit" /\ q.kind = req[r].kind /\ q.asked = clock
              /\ q.rows = of /\ q.arrived = req[r].arrived
      BY <1>5, <1>6, <2>3, <2>4, <2>5, HitRecord
    <2>7. RequestFits(q, clock)
      BY <1>1, <1>3, <1>5, <1>7, <2>4, <2>6 DEF RequestFits
    <2>8. RequestsFit'
      BY <1>4, <2>6, <2>7, RequestMoves
    <2>9. \A l \in Kinds : lock[l] # r
      BY <1>2, NoLockHeld
    <2>10. LocksFit'
      BY <2>1, <2>6, <2>9, LocksMove DEF ListsInv, LocksFit
    <2> QED BY <1>4, <2>8, <2>10, EntriesStay DEF ListsInv
  <1>9. CASE ~Fresh(lists[k], clock, TTL(k))
    <2>1. PICK q : q = [req[r] EXCEPT !.step = "holds", !.asked = clock]
      OBVIOUS
    <2>2. req' = [req EXCEPT ![r] = q] /\ lock' = [lock EXCEPT ![k] = r]
      BY <1>1, <1>9, <2>1 DEF TakeLock
    <2>3. q \in RequestRecords
      BY <1>2, <1>5, <2>1 DEF RequestRecords, RequestSteps
    <2>4. /\ q.step = "holds" /\ q.kind = k /\ q.asked = clock
          /\ q.rows = req[r].rows /\ q.arrived = req[r].arrived
      BY <1>1, <1>2, <2>1 DEF RequestRecords
    <2>5. RequestFits(q, clock)
      BY <1>3, <1>5, <1>7, <2>4 DEF RequestFits
    <2>6. RequestsFit'
      BY <1>4, <2>2, <2>3, <2>5, RequestMoves
    <2>7. \A l \in Kinds : lock[l] # r
      BY <1>2, NoLockHeld
    <2>8. lock' \in [Kinds -> Requests \cup {Nobody}]
          /\ \A l \in Kinds : lock'[l] = IF l = k THEN r ELSE lock[l]
      BY <1>3, <2>2 DEF ListsInv, LocksFit
    <2>9. LocksFit'
      <3>1. \A l \in Kinds : lock'[l] \in {lock[l], Nobody, r}
        BY <2>8
      <3>2. \A l \in Kinds : lock'[l] = r =>
               IF l = "people" THEN q.step \in {"peek", "read"}
               ELSE q.kind = l /\ q.step \in ListSteps
        BY <1>3, <2>4, <2>7, <2>8 DEF ListSteps
      <3> QED BY <2>2, <2>3, <2>8, <3>1, <3>2, LocksMove
    <2> QED BY <1>4, <2>6, <2>9, EntriesStay DEF ListsInv
  <1> QED BY <1>8, <1>9

LEMMA BuildListInv ==
    ASSUME ListsInv, NEW r \in Requests, BuildList(r)
    PROVE  ListsInv'
  <1>1. PICK q : q = [req[r] EXCEPT !.step = "people", !.arrived = clock]
    OBVIOUS
  <1>2. req' = [req EXCEPT ![r] = q] /\ UNCHANGED <<asks, clock, people, lists, lock>>
    BY <1>1 DEF BuildList
  <1>3. /\ req[r] \in RequestRecords /\ req[r].step = "holds" /\ req[r].kind \in Derived
        /\ RequestFits(req[r], clock) /\ clock \in Times /\ clock \in Nat
    BY KindFacts DEF BuildList, ListsInv, RequestsFit
  <1>4. q \in RequestRecords
    BY <1>1, <1>3 DEF RequestRecords, RequestSteps
  <1>5. /\ q.step = "people" /\ q.kind = req[r].kind /\ q.asked = req[r].asked
        /\ q.arrived = clock /\ q.rows = req[r].rows
    BY <1>1, <1>3 DEF RequestRecords
  <1>6. RequestFits(q, clock)
    BY <1>3, <1>5, KindFacts DEF RequestFits
  <1>7. RequestsFit'
    BY <1>2, <1>4, <1>6, RequestMoves
  <1>8. \A k \in Kinds : lock[k] = r => k # "people" /\ q.kind = k /\ q.step \in ListSteps
    BY <1>3, <1>5, ListsAssumption DEF ListsInv, LocksFit, ListSteps
  <1>9. LocksFit'
    BY <1>2, <1>4, <1>8, LocksMove DEF ListsInv, LocksFit
  <1> QED BY <1>2, <1>7, <1>9, EntriesStay DEF ListsInv

LEMMA BuildGroupsInv ==
    ASSUME ListsInv, NEW r \in Requests, BuildGroups(r)
    PROVE  ListsInv'
  <1>1. PICK q : q = [req[r] EXCEPT !.step = "build", !.rows = clock, !.linked = TRUE]
    OBVIOUS
  <1>2. req' = [req EXCEPT ![r] = q] /\ UNCHANGED <<asks, clock, people, lock>>
    BY <1>1 DEF BuildGroups, GroupsNow
  <1>3. /\ req[r] \in RequestRecords /\ req[r].step = "holds" /\ req[r].kind = "groups"
        /\ RequestFits(req[r], clock) /\ clock \in Times /\ clock \in Nat
    BY KindFacts DEF BuildGroups, ListsInv, RequestsFit
  <1>4. q \in RequestRecords
    BY <1>1, <1>3 DEF RequestRecords, RequestSteps
  <1>5. /\ q.step = "build" /\ q.kind = "groups" /\ q.asked = req[r].asked
        /\ q.arrived = req[r].arrived /\ q.rows = clock
    BY <1>1, <1>3 DEF RequestRecords
  <1>6. RequestFits(q, clock)
    BY <1>3, <1>5, KindFacts DEF RequestFits
  <1>7. RequestsFit'
    BY <1>2, <1>4, <1>6, RequestMoves
  <1>8. \A k \in Kinds : lock[k] = r => k # "people" /\ q.kind = k /\ q.step \in ListSteps
    BY <1>3, <1>5, ListsAssumption DEF ListsInv, LocksFit, ListSteps
  <1>9. LocksFit'
    BY <1>2, <1>4, <1>8, LocksMove DEF ListsInv, LocksFit
  <1>10. ListsFit'
    BY <1>2, KindFacts DEF BuildGroups, ListsInv, ListsFit, ListFits
  <1> QED BY <1>2, <1>7, <1>9, <1>10 DEF ListsInv, PeopleFit

LEMMA TakePeopleInv ==
    ASSUME ListsInv, NEW r \in Requests, TakePeople(r)
    PROVE  ListsInv'
  <1>1. PICK q : q = [req[r] EXCEPT !.step = "peek"]
    OBVIOUS
  <1>2. /\ req' = [req EXCEPT ![r] = q] /\ UNCHANGED <<asks, clock, people, lists>>
        /\ lock["people"] = Nobody /\ lock' = [lock EXCEPT !["people"] = r]
    BY <1>1 DEF TakePeople, StepTo
  <1>3. /\ req[r] \in RequestRecords /\ req[r].step = "people" /\ RequestFits(req[r], clock)
    BY DEF TakePeople, ListsInv, RequestsFit
  <1>4. q \in RequestRecords
    BY <1>1, <1>3 DEF RequestRecords, RequestSteps
  <1>5. /\ q.step = "peek" /\ q.kind = req[r].kind /\ q.asked = req[r].asked
        /\ q.arrived = req[r].arrived /\ q.rows = req[r].rows
    BY <1>1, <1>3 DEF RequestRecords
  <1>6. RequestFits(q, clock)
    BY <1>3, <1>5 DEF RequestFits
  <1>7. RequestsFit'
    BY <1>2, <1>4, <1>6, RequestMoves
  <1>8. /\ lock' \in [Kinds -> Requests \cup {Nobody}]
        /\ \A k \in Kinds : lock'[k] = IF k = "people" THEN r ELSE lock[k]
    BY <1>2, KindFacts DEF ListsInv, LocksFit
  <1>9. \A k \in Kinds : lock'[k] \in {lock[k], Nobody, r}
    BY <1>8
  <1>10. \A k \in Kinds : lock'[k] = r =>
            IF k = "people" THEN q.step \in {"peek", "read"}
            ELSE q.kind = k /\ q.step \in ListSteps
    <2> SUFFICES ASSUME NEW k \in Kinds, k # "people", lock[k] = r
                 PROVE  q.kind = k /\ q.step \in ListSteps
      BY <1>5, <1>8
    <2> QED BY <1>5, ListsAssumption DEF ListsInv, LocksFit, ListSteps
  <1>11. LocksFit'
    BY <1>2, <1>4, <1>8, <1>9, <1>10, LocksMove
  <1> QED BY <1>2, <1>7, <1>11, EntriesStay DEF ListsInv

\* Rows that are there when people are done with: they are no older than the people's
\* time to live at the arrival, and so at the time the list is judged by.
LEMMA FindPeopleInv ==
    ASSUME ListsInv, NEW r \in Requests, FindPeople(r)
    PROVE  ListsInv'
  <1>1. /\ req[r] \in RequestRecords /\ req[r].step = "peek" /\ RequestFits(req[r], clock)
        /\ clock \in Times /\ clock \in Nat /\ 0 \in Times
    BY KindFacts DEF FindPeople, ListsInv, RequestsFit
  <1>2. PICK o : o = req[r]
    OBVIOUS
  <1>3. /\ o.asked \in Nat /\ o.arrived \in Nat /\ o.arrived \in Times /\ o.rows \in Nat
        /\ o.query \in Queries /\ o.kind \in Kinds /\ o \in RequestRecords
        /\ o.asked <= o.arrived /\ o.arrived <= clock /\ o.rows <= clock /\ o.asked <= clock
        /\ o.kind = "people" => o.asked = o.arrived
        /\ o.kind # "groups"
    BY <1>1, <1>2, KindFacts DEF RequestFits, RequestRecords
  <1>4. UNCHANGED <<asks, clock, people, lists>>
    BY DEF FindPeople
  <1>5. \A k \in Kinds \ {"people"} : lock[k] = r => o.kind = k
    BY <1>2, ListsAssumption DEF ListsInv, LocksFit
  <1>6. CASE Fresh(people[o.query], o.arrived, PeopleTTL)
    <2>1. PICK of : of = people[o.query].of
      OBVIOUS
    <2>2. of \in Times /\ of <= clock /\ o.arrived - of < PeopleTTL
      BY <1>3, <1>6, <2>1, FreshPeople
    <2>3. PICK step : step = IF o.kind = "people" THEN "hit" ELSE "build"
      OBVIOUS
    <2>4. PICK q : q = [o EXCEPT !.rows = of, !.arrived = 0, !.step = step]
      OBVIOUS
    <2>5. req' = [req EXCEPT ![r] = q] /\ lock' = [lock EXCEPT !["people"] = Nobody]
      BY <1>2, <1>6, <2>1, <2>3, <2>4 DEF FindPeople, Free
    <2>6. step \in RequestSteps
      BY <2>3 DEF RequestSteps
    <2>7. q \in RequestRecords
      BY <1>1, <1>3, <2>2, <2>4, <2>6 DEF RequestRecords
    <2>8. q.step = step /\ q.kind = o.kind /\ q.asked = o.asked /\ q.arrived = 0 /\ q.rows = of
      BY <1>3, <2>4 DEF RequestRecords
    <2>9. RequestFits(q, clock)
      <3>1. of \in Nat /\ PeopleTTL \in Nat
        BY <2>2, KindFacts
      <3>2. o.asked - of < PeopleTTL
        BY <1>3, <2>2, <3>1
      <3> QED BY <1>1, <1>3, <2>2, <2>3, <2>8, <3>1, <3>2, KindFacts DEF RequestFits
    <2>10. RequestsFit'
      BY <1>4, <2>5, <2>7, <2>9, RequestMoves
    <2>11. /\ lock' \in [Kinds -> Requests \cup {Nobody}]
           /\ \A k \in Kinds : lock'[k] = IF k = "people" THEN Nobody ELSE lock[k]
      BY <2>5, KindFacts DEF ListsInv, LocksFit
    <2>12. \A k \in Kinds : lock'[k] \in {lock[k], Nobody, r}
      BY <2>11
    <2>13. \A k \in Kinds : lock'[k] = r =>
              IF k = "people" THEN q.step \in {"peek", "read"}
              ELSE q.kind = k /\ q.step \in ListSteps
      <3> SUFFICES ASSUME NEW k \in Kinds, lock'[k] = r
                   PROVE  k # "people" /\ q.kind = k /\ q.step \in ListSteps
        OBVIOUS
      <3>1. k # "people" /\ lock[k] = r
        BY <2>11, ListsAssumption
      <3>2. o.kind = k /\ step = "build"
        BY <1>5, <2>3, <3>1
      <3> QED BY <2>8, <3>1, <3>2 DEF ListSteps
    <2>14. LocksFit'
      BY <2>5, <2>7, <2>11, <2>12, <2>13, LocksMove
    <2> QED BY <1>4, <2>10, <2>14, EntriesStay DEF ListsInv
  <1>7. CASE ~Fresh(people[o.query], o.arrived, PeopleTTL)
    <2>1. PICK q : q = [o EXCEPT !.step = "read", !.rows = clock]
      OBVIOUS
    <2>2. req' = [req EXCEPT ![r] = q] /\ lock' = lock
      BY <1>2, <1>7, <2>1 DEF FindPeople, RowsNow
    <2>3. q \in RequestRecords
      BY <1>1, <1>3, <2>1 DEF RequestRecords, RequestSteps
    <2>4. q.step = "read" /\ q.kind = o.kind /\ q.asked = o.asked /\ q.arrived = o.arrived /\ q.rows = clock
      BY <1>3, <2>1 DEF RequestRecords
    <2>5. RequestFits(q, clock)
      BY <1>1, <1>3, <2>4 DEF RequestFits
    <2>6. RequestsFit'
      BY <1>4, <2>2, <2>3, <2>5, RequestMoves
    <2>7. \A k \in Kinds : lock'[k] = r =>
              IF k = "people" THEN q.step \in {"peek", "read"}
              ELSE q.kind = k /\ q.step \in ListSteps
      BY <1>5, <2>2, <2>4 DEF ListSteps
    <2>8. lock' \in [Kinds -> Requests \cup {Nobody}] /\ \A k \in Kinds : lock'[k] \in {lock[k], Nobody, r}
      BY <2>2 DEF ListsInv, LocksFit
    <2>9. LocksFit'
      BY <2>2, <2>3, <2>7, <2>8, LocksMove
    <2> QED BY <1>4, <2>6, <2>9, EntriesStay DEF ListsInv
  <1> QED BY <1>6, <1>7

\* A request that is over.
LEMMA RequestEnds ==
    ASSUME ListsInv, NEW r \in Requests, req' = [req EXCEPT ![r] = NoRequest], UNCHANGED clock,
           lock' \in [Kinds -> Requests \cup {Nobody}],
           \A k \in Kinds : lock'[k] \in {lock[k], Nobody} /\ lock'[k] # r
    PROVE  RequestsFit' /\ LocksFit'
  <1>1. NoRequest \in RequestRecords /\ RequestFits(NoRequest, clock)
    BY NoRequestFits, KindFacts DEF ListsInv
  <1>2. RequestsFit'
    BY <1>1, RequestMoves
  <1>3. \A k \in Kinds : lock'[k] \in {lock[k], Nobody, r}
    OBVIOUS
  <1>4. LocksFit'
    BY <1>1, <1>3, LocksMove
  <1> QED BY <1>2, <1>4

LEMMA KeepPeopleInv ==
    ASSUME ListsInv, NEW r \in Requests, KeepPeople(r)
    PROVE  ListsInv'
  <1>1. /\ req[r] \in RequestRecords /\ req[r].step = "read" /\ RequestFits(req[r], clock)
        /\ clock \in Times /\ clock \in Nat /\ 0 \in Times /\ req \in [Requests -> RequestRecords]
    BY KindFacts DEF KeepPeople, ListsInv, RequestsFit
  <1>2. PICK o : o = req[r]
    OBVIOUS
  <1>3. /\ o.asked \in Nat /\ o.arrived \in Nat /\ o.arrived \in Times /\ o.rows \in Nat
        /\ o.query \in Queries /\ o.kind \in Kinds /\ o \in RequestRecords /\ o.rows \in Times
        /\ o.asked <= o.arrived /\ o.arrived <= o.rows /\ o.rows <= clock /\ o.asked <= clock
        /\ o.kind # "groups"
    BY <1>1, <1>2, KindFacts DEF RequestFits, RequestRecords
  <1>4. /\ UNCHANGED <<asks, clock, lists>> /\ lock' = [lock EXCEPT !["people"] = Nobody]
        /\ req' = [req EXCEPT ![r] = IF o.kind = "people" THEN NoRequest
                                     ELSE [o EXCEPT !.step = "build", !.arrived = 0]]
    BY <1>1, <1>2 DEF KeepPeople, Free
  <1>5. \A k \in Kinds \ {"people"} : lock[k] = r => o.kind = k
    BY <1>2, ListsAssumption DEF ListsInv, LocksFit
  <1>6. PeopleFit'
    <2>1. PICK e : e = [stamp |-> o.arrived, of |-> o.rows, begun |-> o.arrived]
      OBVIOUS
    <2>2. e \in Entries /\ e.stamp = o.arrived /\ e.of = o.rows
      BY <1>3, <2>1 DEF Entries
    <2>3. PICK stay \in SUBSET (Full \ {o.query}) :
            people' = [q \in Queries |-> IF q = o.query THEN e
                                        ELSE IF q \in stay THEN people[q] ELSE NoEntry]
      BY <1>2, <2>1 DEF KeepPeople
    <2>4. PersonFits(e, clock)
      BY <1>3, <2>2 DEF PersonFits
    <2>5. PersonFits(NoEntry, clock)
      BY DEF PersonFits
    <2> QED BY <1>4, <2>2, <2>3, <2>4, <2>5 DEF ListsInv, PeopleFit
  <1>7. /\ lock' \in [Kinds -> Requests \cup {Nobody}]
        /\ \A k \in Kinds : lock'[k] = IF k = "people" THEN Nobody ELSE lock[k]
    BY <1>4, KindFacts DEF ListsInv, LocksFit
  <1>8. CASE o.kind = "people"
    <2>1. req' = [req EXCEPT ![r] = NoRequest]
      BY <1>4, <1>8
    <2>2. \A k \in Kinds : lock'[k] \in {lock[k], Nobody} /\ lock'[k] # r
      BY <1>5, <1>7, <1>8, ListsAssumption
    <2>3. RequestsFit' /\ LocksFit'
      BY <1>4, <1>7, <2>1, <2>2, RequestEnds
    <2> QED BY <1>4, <1>6, <2>3 DEF ListsInv, ListsFit
  <1>9. CASE o.kind # "people"
    <2>1. PICK q : q = [o EXCEPT !.step = "build", !.arrived = 0]
      OBVIOUS
    <2>2. req' = [req EXCEPT ![r] = q]
      BY <1>4, <1>9, <2>1
    <2>3. q \in RequestRecords
      BY <1>1, <1>3, <2>1 DEF RequestRecords, RequestSteps
    <2>4. q.step = "build" /\ q.kind = o.kind /\ q.asked = o.asked /\ q.arrived = 0 /\ q.rows = o.rows
      BY <1>3, <2>1 DEF RequestRecords
    <2>5. RequestFits(q, clock)
      <3>1. o.asked - o.rows < PeopleTTL
        BY <1>3, KindFacts
      <3> QED BY <1>1, <1>3, <1>9, <2>4, <3>1 DEF RequestFits
    <2>6. RequestsFit'
      BY <1>4, <2>2, <2>3, <2>5, RequestMoves
    <2>7. \A k \in Kinds : lock'[k] \in {lock[k], Nobody, r}
      BY <1>7
    <2>8. \A k \in Kinds : lock'[k] = r =>
              IF k = "people" THEN q.step \in {"peek", "read"}
              ELSE q.kind = k /\ q.step \in ListSteps
      BY <1>5, <1>7, <2>4, ListsAssumption DEF ListSteps
    <2>9. LocksFit'
      BY <1>7, <2>2, <2>3, <2>7, <2>8, LocksMove
    <2> QED BY <1>4, <1>6, <2>6, <2>9 DEF ListsInv, ListsFit
  <1> QED BY <1>8, <1>9

LEMMA KeepListInv ==
    ASSUME ListsInv, NEW r \in Requests, KeepList(r)
    PROVE  ListsInv'
  <1>1. /\ req[r] \in RequestRecords /\ req[r].step = "build" /\ RequestFits(req[r], clock)
        /\ clock \in Times /\ clock \in Nat
    BY KindFacts DEF KeepList, ListsInv, RequestsFit
  <1>2. PICK o : o = req[r]
    OBVIOUS
  <1>3. /\ o.asked \in Nat /\ o.asked \in Times /\ o.rows \in Nat /\ o.rows \in Times
        /\ o.kind \in Kinds /\ o.kind \in Lists /\ o.rows <= clock /\ o.asked <= clock
        /\ o.kind = "groups" => o.asked <= o.rows
        /\ o.kind \in Derived => o.asked - o.rows < PeopleTTL
    BY <1>1, <1>2, KindFacts DEF RequestFits, RequestRecords
  <1>4. /\ UNCHANGED <<asks, clock, people>> /\ lock' = [lock EXCEPT ![o.kind] = Nobody]
        /\ req' = [req EXCEPT ![r] = NoRequest]
    BY <1>2 DEF KeepList, Free
  <1>5. \A k \in Kinds : lock[k] = r => o.kind = k
    BY <1>1, <1>2, ListsAssumption DEF ListsInv, LocksFit
  <1>6. /\ lock' \in [Kinds -> Requests \cup {Nobody}]
        /\ \A k \in Kinds : lock'[k] = IF k = o.kind THEN Nobody ELSE lock[k]
    BY <1>3, <1>4 DEF ListsInv, LocksFit
  <1>7. \A k \in Kinds : lock'[k] \in {lock[k], Nobody} /\ lock'[k] # r
    BY <1>5, <1>6, ListsAssumption
  <1>8. RequestsFit' /\ LocksFit'
    BY <1>4, <1>6, <1>7, RequestEnds
  <1>9. ListsFit'
    <2>1. PICK stamp : stamp = Stamp(r)
      OBVIOUS
    <2>2. stamp \in Times /\ (o.kind # "suggested" => stamp = o.asked)
      BY <1>1, <1>2, <1>3, <2>1 DEF Stamp
    <2>3. PICK e : e = [stamp |-> stamp, of |-> o.rows, begun |-> o.asked]
      OBVIOUS
    <2>4. e \in Entries /\ e.stamp = stamp /\ e.of = o.rows /\ e.begun = o.asked
      BY <1>3, <2>2, <2>3 DEF Entries
    <2>5. ListFits(o.kind, e, clock)
      BY <1>3, <2>2, <2>4, KindFacts DEF ListFits
    <2>6. lists' = lists \/ lists' = [lists EXCEPT ![o.kind] = e]
      BY <1>2, <2>1, <2>3 DEF KeepList
    <2> QED BY <1>3, <1>4, <2>4, <2>5, <2>6 DEF ListsInv, ListsFit
  <1> QED BY <1>4, <1>8, <1>9 DEF ListsInv, PeopleFit

LEMMA AnswerInv ==
    ASSUME ListsInv, NEW r \in Requests, Answer(r)
    PROVE  ListsInv'
  <1>1. req' = [req EXCEPT ![r] = NoRequest] /\ UNCHANGED <<asks, clock, people, lists, lock>>
    BY DEF Answer
  <1>2. \A k \in Kinds : lock[k] # r
    BY NoLockHeld DEF Answer
  <1>3. RequestsFit' /\ LocksFit'
    BY <1>1, <1>2, RequestEnds DEF ListsInv, LocksFit
  <1> QED BY <1>1, <1>3, EntriesStay DEF ListsInv

\* A clearing leaves an entry or takes it away, and says so to who fills the groups.
LEMMA ClearingInv ==
    ASSUME ListsInv, ClearDups \/ ClearPeople \/ ClearGroups
    PROVE  ListsInv'
  <1>1. UNCHANGED <<asks, clock, lock>>
    BY DEF ClearDups, ClearPeople, ClearGroups
  <1>2. PeopleFit'
    <2>1. people' \in [Queries -> Entries \cup {NoEntry}]
          /\ \A q \in Queries : people'[q] \in {people[q], NoEntry}
      BY DEF ClearDups, ClearPeople, ClearGroups, ListsInv, PeopleFit
    <2> QED BY <1>1, <2>1 DEF ListsInv, PeopleFit, PersonFits
  <1>3. ListsFit'
    <2>1. lists' \in [Lists -> Entries \cup {NoEntry}]
          /\ \A k \in Lists : lists'[k] \in {lists[k], NoEntry}
      BY DEF ClearDups, ClearPeople, ClearGroups, ListsInv, ListsFit
    <2> QED BY <1>1, <2>1 DEF ListsInv, ListsFit, ListFits
  <1>4. CASE ClearDups \/ ClearPeople
    <2>1. UNCHANGED req
      BY <1>4 DEF ClearDups, ClearPeople
    <2> QED BY <1>1, <1>2, <1>3, <2>1 DEF ListsInv, RequestsFit, LocksFit
  <1>5. CASE ClearGroups
    <2>1. \A r \in Requests : req'[r] = [req[r] EXCEPT !.linked = FALSE]
      BY <1>5 DEF ClearGroups
    <2>2. ASSUME NEW r \in Requests
          PROVE  /\ req'[r] \in RequestRecords /\ req'[r].step = req[r].step
                 /\ req'[r].kind = req[r].kind /\ RequestFits(req'[r], clock)
      <3>1. PICK o : o = req[r]
        OBVIOUS
      <3>2. o \in RequestRecords /\ RequestFits(o, clock)
        BY <3>1 DEF ListsInv, RequestsFit
      <3>3. PICK q : q = [o EXCEPT !.linked = FALSE]
        OBVIOUS
      <3>4. req'[r] = q
        BY <2>1, <3>1, <3>3
      <3>5. /\ q \in RequestRecords /\ q.step = o.step /\ q.kind = o.kind /\ q.asked = o.asked
            /\ q.arrived = o.arrived /\ q.rows = o.rows
        BY <3>2, <3>3 DEF RequestRecords
      <3>6. RequestFits(q, clock)
        BY <3>2, <3>5 DEF RequestFits
      <3> QED BY <3>1, <3>4, <3>5, <3>6
    <2>3. RequestsFit'
      <3>1. req' \in [Requests -> RequestRecords]
        BY <1>5, <2>2 DEF ClearGroups
      <3> QED BY <1>1, <2>2, <3>1 DEF RequestsFit
    <2>4. LocksFit'
      <3> SUFFICES ASSUME NEW k \in Kinds, lock[k] # Nobody
                   PROVE  IF k = "people" THEN req'[lock[k]].step \in {"peek", "read"}
                          ELSE req'[lock[k]].kind = k /\ req'[lock[k]].step \in ListSteps
        BY <1>1 DEF ListsInv, LocksFit
      <3>1. lock[k] \in Requests
        BY DEF ListsInv, LocksFit
      <3> QED BY <2>2, <3>1 DEF ListsInv, LocksFit
    <2> QED BY <1>1, <1>2, <1>3, <2>3, <2>4 DEF ListsInv
  <1> QED BY <1>4, <1>5

LEMMA PassesInv ==
    ASSUME ListsInv, Passes
    PROVE  ListsInv'
  <1>1. clock' \in Times /\ clock \in Nat /\ clock' = clock + 1 /\ UNCHANGED <<asks, people, lists, lock, req>>
    BY ListsAssumption DEF Passes, ListsInv, Times
  <1>2. RequestsFit'
    <2>1. ASSUME NEW q \in RequestRecords, RequestFits(q, clock) PROVE RequestFits(q, clock')
      <3>1. q.asked \in Nat /\ q.arrived \in Nat /\ q.rows \in Nat
        BY KindFacts DEF RequestRecords
      <3> QED BY <1>1, <2>1, <3>1 DEF RequestFits
    <2> QED BY <1>1, <2>1 DEF ListsInv, RequestsFit
  <1>3. ASSUME NEW e \in Entries \cup {NoEntry}
        PROVE  /\ PersonFits(e, clock) => PersonFits(e, clock')
               /\ \A k \in Lists : ListFits(k, e, clock) => ListFits(k, e, clock')
    <2>1. e # NoEntry => e.of \in Nat
      BY KindFacts DEF Entries
    <2> QED BY <1>1, <2>1 DEF PersonFits, ListFits
  <1>4. PeopleFit' /\ ListsFit'
    BY <1>1, <1>3 DEF ListsInv, PeopleFit, ListsFit
  <1> QED BY <1>1, <1>2, <1>4 DEF ListsInv, LocksFit

LEMMA ListsNextInv ==
    ASSUME ListsInv, ListsNext \/ UNCHANGED listsVars
    PROVE  ListsInv'
  <1>1. CASE ListsNext
    BY <1>1, AskPeopleInv, AskListInv, TakeLockInv, BuildListInv, BuildGroupsInv, TakePeopleInv,
       FindPeopleInv, KeepPeopleInv, KeepListInv, AnswerInv, ClearingInv, PassesInv DEF ListsNext
  <1>2. CASE UNCHANGED listsVars
    BY <1>2 DEF listsVars, ListsInv, LocksFit, RequestsFit, PeopleFit, ListsFit
  <1> QED BY <1>1, <1>2

\* The invariant holds the types.
LEMMA ListsInvTypeOK == ASSUME ListsInv PROVE ListsTypeOK
  <1>1. \A k \in Kinds : lock[k] # Nobody =>
          req[lock[k]].step \in (IF k = "people" THEN {"peek", "read"}
                                 ELSE {"holds", "people", "peek", "read", "build"})
    BY DEF ListsInv, LocksFit, ListSteps
  <1> QED BY <1>1 DEF ListsInv, LocksFit, RequestsFit, PeopleFit, ListsFit, ListsTypeOK,
                      RequestRecords, RequestSteps

\* And the ages.
LEMMA ListsInvBounded == ASSUME ListsInv PROVE ListsBounded
  <1>1. ASSUME NEW r \in Requests, req[r].step = "hit"
        PROVE  CASE req[r].kind = "people" -> Age(r) < PeopleTTL
                 [] req[r].kind = "dups" -> Age(r) < DupsTTL + PeopleTTL
                 [] req[r].kind = "groups" -> Age(r) < GroupsTTL
                 [] OTHER -> TRUE
    BY <1>1 DEF ListsInv, RequestsFit, RequestFits, Age
  <1>2. LET s == lists["suggested"] IN s # NoEntry => s.begun - s.of < PeopleTTL
    BY KindFacts DEF ListsInv, ListsFit, ListFits
  <1> QED BY <1>1, <1>2 DEF ListsBounded

-----------------------------------------------------------------------------
(* The three together.                                                      *)

\* A behaviour is about one part; the other two stand still.
UpkeepInv == part \in Parts /\ PlacesInv /\ BackupsInv /\ ListsInv

\* All three parts begin in their invariant.
LEMMA UpkeepBegin == ASSUME UpkeepInit PROVE UpkeepInv
  BY PlacesBegin, BackupsBegin, ListsBegin DEF UpkeepInit, UpkeepInv

LEMMA UpkeepNextInv ==
    ASSUME UpkeepInv, [UpkeepNext]_upkeepVars
    PROVE  UpkeepInv'
  <1>1. /\ PlacesNext \/ UNCHANGED placesVars
        /\ BackupsNext \/ UNCHANGED backupsVars
        /\ ListsNext \/ UNCHANGED listsVars
        /\ part' = part
    BY DEF UpkeepNext, PlacesStep, BackupsStep, ListsStep, upkeepVars
  <1> QED BY <1>1, PlacesNextInv, BackupsNextInv, ListsNextInv DEF UpkeepInv

\* The invariant of the three parts holds for every set of photos, slots, requests and
\* times: the ranks of what the sweep still has to try (indexer.py), the snapshots that a
\* marker stands for (admin.py), the ages by which a request knows its rows (api_routes_people.py).
THEOREM UpkeepInvariance == UpkeepSpec => []UpkeepInv
  <1>1. UpkeepInit => UpkeepInv
    BY UpkeepBegin
  <1>2. UpkeepInv /\ [UpkeepNext]_upkeepVars => UpkeepInv'
    BY UpkeepNextInv
  <1> QED BY <1>1, <1>2, PTL DEF UpkeepSpec

\* The types of the three parts: jobs of the indexer that name places, snapshots and schedule
\* of admin.py, lists of the API.
THEOREM UpkeepTypeCorrect == UpkeepSpec => []UpkeepTypeOK
  <1>1. UpkeepInv => UpkeepTypeOK
    BY PlacesInvTypeOK, BackupsInvTypeOK, ListsInvTypeOK DEF UpkeepInv, UpkeepTypeOK
  <1> QED BY <1>1, UpkeepInvariance, PTL

\* A sweep of the indexer for coordinates (indexer.py:1497) that no limit stops and nobody
\* disturbs tries every photo that waited when it began, however many there are and however
\* large its pages: the offset moves on by what a page left waiting, so no photo is skipped
\* although the pages shrink as the sweep goes.
THEOREM SweepCoversAll == UpkeepSpec => []SweepCovers
  <1>1. UpkeepInv => SweepCovers
    BY PlacesInvCovers DEF UpkeepInv
  <1> QED BY <1>1, UpkeepInvariance, PTL

\* The schedule of admin.py makes two snapshots for one slot only if the mark of the first
\* was lost, in a crash or a failed write, or overwritten by a save that had read the file
\* before; for any slots, any number of failures, and any order of saves and wake-ups.
THEOREM SlotServedOnce == UpkeepSpec => []OncePerSlot
  <1>1. UpkeepInv => OncePerSlot
    BY DEF UpkeepInv, BackupsInv, MarksFit, OncePerSlot
  <1> QED BY <1>1, UpkeepInvariance, PTL

\* No answer out of a list that the API keeps (api_common.py, api_routes_people.py) is older
\* than the lifetime of the list and of the people it was made of, whatever clearings were
\* missed and however long builds and locks took; for any number of requests and lifetimes.
THEOREM ListsStayBounded == UpkeepSpec => []ListsBounded
  <1>1. UpkeepInv => ListsBounded
    BY ListsInvBounded DEF UpkeepInv
  <1> QED BY <1>1, UpkeepInvariance, PTL

=============================================================================
