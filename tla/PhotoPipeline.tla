--------------------------- MODULE PhotoPipeline ---------------------------
(***************************************************************************)
(* The indexer process (app/src/indexer.py): the threads that take a photo *)
(* from the timeline to a thumbnail with recognition results, the bridge   *)
(* call that writes thumbnails behind their back, and crash and restart.   *)
(*                                                                         *)
(*   sync thread        stages, confirms, reclaims, retries, purges        *)
(*   downloader thread  claims 'new' rows, asks the bridge for thumbnails  *)
(*   fullres thread     decodes originals that have no server preview      *)
(*   worker threads     recognise faces, one transaction per photo         *)
(*                                                                         *)
(* Time is left out: an interval (grace, backoff, pacing, queue timeout)   *)
(* may have passed or not.  Module SyncScan models the clock.              *)
(***************************************************************************)
EXTENDS PhotoStore, Sequences, FiniteSets

CONSTANTS
    Workers,          \* settings.workers recognition threads
    Preview,          \* photos Proton has a Type1 preview of
    Vanishing,        \* photos that may be missing from a listing
    ThumbnailsBatch,  \* uids per /thumbnails call
    ClipBatchSize,    \* uids per micro-batch of a worker
    ClipQueueDepth,   \* queue length at which workers micro-batch
    DbMayFail,        \* may a write end in "database is locked"?
    MaxFaults,        \* bound: failures of the bridge, of a decode, of a write
    MaxCrashes,       \* bound: crashes of the indexer process
    MaxQueue          \* bound: entries of the in-memory queue

ASSUME PipelineAssumption ==
    /\ IsFiniteSet(Photos)
    /\ Preview \subseteq Photos /\ Vanishing \subseteq Photos
    /\ {ThumbnailsBatch, ClipBatchSize} \subseteq Nat \ {0}
    /\ {ClipQueueDepth, MaxFaults, MaxCrashes, MaxQueue} \subseteq Nat
    /\ DbMayFail \in BOOLEAN

VARIABLES
    photos,     \* table photos
    detected,   \* detected[u]: detector runs whose faces are in table faces
    work,       \* uids with a file in DATA_DIR/work
    thumbs,     \* uids with a file in DATA_DIR/thumbs
    up,         \* is the indexer process running?
    pending,    \* _pending: the in-memory queue of uids
    reply,      \* reply[u]: what the current /thumbnails call has for u
    answered,   \* has that call returned to the downloader?
    abandoned,  \* previews a dropped bridge call may still write
    fullres,    \* fullres[u]: how far the fullres thread is with u
    batch,      \* batch[w]: the uids worker w works on
    pos,        \* pos[w]: its place in batch[w]
    wstate,     \* wstate[w]: what it does with that uid
    purging,    \* uids cleanup_deleted has unlinked and not yet purged
    faults, crashes

dbVars     == <<photos, detected>>
fileVars   == <<work, thumbs>>
callVars   == <<reply, answered, abandoned>>
workerVars == <<batch, pos, wstate>>
countVars  == <<faults, crashes>>
vars == <<photos, detected, work, thumbs, up, pending, reply, answered,
          abandoned, fullres, batch, pos, wstate, purging, faults, crashes>>

\* All that time.time() contributes here is a non-NULL value.
Now == 0

Queue == Seq(Photos)

Replies == {"none", "asked", "ok", "nopreview", "failed"}

Stages == {"no", "downloading", "decoded", "queueing"}

\* "failed": an exception left _process_one, "spoiled": it left _process_batch,
\* "dead": it left _worker_loop.
WorkerStates == {"idle", "embedding", "ready", "open", "moved", "failed", "spoiled", "dead"}

TypeOK ==
    /\ photos \in Table
    /\ detected \in [Photos -> Nat]
    /\ work \subseteq Photos /\ thumbs \subseteq Photos
    /\ up \in BOOLEAN /\ answered \in BOOLEAN
    /\ pending \in Queue
    /\ reply \in [Photos -> Replies]
    /\ abandoned \subseteq Photos /\ purging \subseteq Photos
    /\ fullres \in [Photos -> Stages]
    /\ batch \in [Workers -> Queue]
    /\ pos \in [Workers -> Nat]
    /\ wstate \in [Workers -> WorkerStates]
    /\ faults \in Nat /\ crashes \in Nat

----------------------------------------------------------------------------
(* A worker's transaction() is BEGIN IMMEDIATE: from its claim to its      *)
(* commit it is the only writer of the database.  Other writers wait.      *)

InTransaction(w) == wstate[w] \in {"open", "moved"}

WriteLockFree == \A w \in Workers : ~InTransaction(w)

CallBatch == {u \in Photos : reply[u] # "none"}

\* A failure the model may still spend.
Fault == faults < MaxFaults /\ faults' = faults + 1

----------------------------------------------------------------------------
(* start() and the end of a process.                                       *)

\* What a first start may find: nothing, or rows of an older release.
LeftBehind == {NoRow,
               [NoRow EXCEPT !.status = "processing"],
               [NoRow EXCEPT !.status = "done", !.thumb = "empty", !.processedAt = Now]}

Init ==
    /\ photos \in [Photos -> LeftBehind]
    /\ detected = [u \in Photos |-> 0]
    /\ work = {} /\ thumbs = {}
    /\ up = FALSE
    /\ pending = <<>>
    /\ reply = [u \in Photos |-> "none"] /\ answered = FALSE /\ abandoned = {}
    /\ fullres = [u \in Photos |-> "no"]
    /\ batch = [w \in Workers |-> <<>>] /\ pos = [w \in Workers |-> 1]
    /\ wstate = [w \in Workers |-> "idle"]
    /\ purging = {}
    /\ faults = 0 /\ crashes = 0

\* _rebuild_pending: 'downloading' rows whose work file is on disk, by rowid.
RebuildPending(t) ==
    LET found == {u \in Photos : t[u].status = "downloading" /\ u \in work}
    IN  {q \in [1..Cardinality(found) -> found] : \A u \in found : \E i \in DOMAIN q : q[i] = u}

Start ==
    /\ ~up
    /\ up' = TRUE
    /\ \E old \in SUBSET Photos :
          photos' = ResetStuckFullres(BackfillFullres(ResetClaims(photos)), old)
    /\ pending' \in RebuildPending(photos')
    /\ UNCHANGED <<detected, fileVars, callVars, fullres, workerVars, purging, countVars>>

\* Threads, queue and open transaction are lost; database and files are kept.
Crash ==
    /\ up /\ crashes < MaxCrashes
    /\ up' = FALSE
    /\ crashes' = crashes + 1
    /\ pending' = <<>>
    /\ reply' = [u \in Photos |-> "none"] /\ answered' = FALSE
    /\ abandoned' = abandoned \cup {u \in Preview : reply[u] = "asked"}
    /\ fullres' = [u \in Photos |-> "no"]
    /\ batch' = [w \in Workers |-> <<>>] /\ pos' = [w \in Workers |-> 1]
    /\ wstate' = [w \in Workers |-> "idle"]
    /\ purging' = {}
    /\ UNCHANGED <<dbVars, fileVars, faults>>

----------------------------------------------------------------------------
(* The sync thread.  Which uids a scan finds missing or new is arbitrary   *)
(* here; each statement of _sync_once is one commit of its own.            *)

SyncMayWrite == up /\ WriteLockFree /\ purging = {}

SyncUpsert ==
    /\ SyncMayWrite
    /\ \E S \in SUBSET (Photos \ ActiveRows(photos)) \ {{}} :
          photos' = UpsertPhotos(photos, S)
    /\ UNCHANGED <<detected, fileVars, up, pending, callVars, fullres, workerVars,
                   purging, countVars>>

SyncStage ==
    /\ SyncMayWrite
    /\ \E S \in SUBSET (Vanishing \cap ActiveRows(photos)) \ {{}} :
          photos' = MarkPendingRemoval(photos, S, Now)
    /\ UNCHANGED <<detected, fileVars, up, pending, callVars, fullres, workerVars,
                   purging, countVars>>

SyncConfirm ==
    /\ SyncMayWrite
    /\ \E due \in SUBSET {u \in Photos : photos[u].status = "pending_removal"} :
          photos' = ConfirmDeletions(photos, due, Now)
    /\ UNCHANGED <<detected, fileVars, up, pending, callVars, fullres, workerVars,
                   purging, countVars>>

SyncRetry ==
    /\ SyncMayWrite
    /\ photos' = RetryErrors(photos)
    /\ UNCHANGED <<detected, fileVars, up, pending, callVars, fullres, workerVars,
                   purging, countVars>>

\* Mutant: staged rows are purged too.
PurgeableEarly == {u \in Photos : /\ photos[u].status \in Gone
                                  /\ photos[u].thumb # "null" \/ detected[u] > 0
                                  /\ reply[u] = "none" /\ fullres[u] = "no"}

\* deleted_photos_to_purge: rows past the reclaim grace that still hold media.
\* The grace (7 days) outlasts the bridge call a row may have been part of
\* when it was staged.
Purgeable == {u \in Photos : /\ photos[u].status = "deleted"
                             /\ photos[u].thumb # "null" \/ detected[u] > 0
                             /\ reply[u] = "none" /\ fullres[u] = "no"}

\* cleanup_deleted, first half: the thumbnails go before the commit.
CleanupUnlink ==
    /\ up /\ purging = {}
    /\ \E P \in SUBSET Purgeable \ {{}} :
          /\ purging' = P
          /\ thumbs' = thumbs \ {u \in P : photos[u].thumb = "file"}
    /\ UNCHANGED <<dbVars, work, up, pending, callVars, fullres, workerVars, countVars>>

CleanupPurge ==
    /\ up /\ WriteLockFree /\ purging # {}
    /\ photos' = PurgeMedia(photos, purging)
    /\ detected' = [u \in Photos |-> IF u \in purging THEN 0 ELSE detected[u]]
    /\ purging' = {}
    /\ UNCHANGED <<fileVars, up, pending, callVars, fullres, workerVars, countVars>>

----------------------------------------------------------------------------
(* The downloader thread and the bridge call it waits for.                 *)

\* get_photos("new") and claim_photos_for_download: one UPDATE ... RETURNING.
DlClaim ==
    /\ up /\ WriteLockFree /\ CallBatch = {}
    /\ \E S \in SUBSET {u \in Photos : photos[u].status = "new"} \ {{}} :
          /\ Cardinality(S) <= ThumbnailsBatch
          /\ photos' = ClaimForDownload(photos, S)
          /\ reply' = [u \in Photos |-> IF u \in S THEN "asked" ELSE "none"]
    /\ answered' = FALSE
    /\ UNCHANGED <<detected, fileVars, up, pending, abandoned, fullres, workerVars,
                   purging, countVars>>

\* The bridge settles one uid: a file already in work/ is reported as is
\* (resumability), a preview is written under its final name, the rest fails.
BridgeSettle(u) ==
    /\ reply[u] = "asked" /\ ~answered
    /\ \/ /\ u \in Preview \/ u \in work
          /\ reply' = [reply EXCEPT ![u] = "ok"]
          /\ work' = work \cup {u}
          /\ UNCHANGED faults
       \/ /\ u \notin Preview \cup work
          /\ reply' = [reply EXCEPT ![u] = "nopreview"]
          /\ UNCHANGED <<work, faults>>
       \/ /\ u \notin work
          /\ Fault
          /\ reply' = [reply EXCEPT ![u] = "failed"]
          /\ UNCHANGED work
    /\ UNCHANGED <<dbVars, thumbs, up, pending, answered, abandoned, fullres, workerVars,
                   purging, crashes>>

BridgeAnswer ==
    /\ CallBatch # {} /\ ~answered
    /\ \A u \in Photos : reply[u] # "asked"
    /\ answered' = TRUE
    /\ UNCHANGED <<dbVars, fileVars, up, pending, reply, abandoned, fullres, workerVars,
                   purging, countVars>>

\* A call whose client is gone may still rename a file it was writing.
BridgeLateWrite(u) ==
    /\ u \in abandoned
    /\ abandoned' = abandoned \ {u}
    /\ \/ work' = work \cup {u}
       \/ UNCHANGED work
    /\ UNCHANGED <<dbVars, thumbs, up, pending, reply, answered, fullres, workerVars,
                   purging, countVars>>

\* The call ends without results; what it wrote so far stays in work/.
CallEnds ==
    /\ reply' = [u \in Photos |-> "none"]
    /\ answered' = FALSE
    /\ abandoned' = abandoned \cup {u \in Preview : reply[u] = "asked"}

\* 429, 502, 503: the claims go back to 'new'.
DlTransient ==
    /\ up /\ WriteLockFree /\ CallBatch # {} /\ ~answered
    /\ Fault
    /\ photos' = ReleaseDownloadClaims(photos, CallBatch)
    /\ CallEnds
    /\ UNCHANGED <<detected, fileVars, up, pending, fullres, workerVars, purging, crashes>>

\* Any other failure, a client timeout included: the whole batch is failed.
DlFail ==
    /\ up /\ WriteLockFree /\ CallBatch # {} /\ ~answered
    /\ Fault
    /\ photos' = SetPhotosError(photos, CallBatch)
    /\ CallEnds
    /\ UNCHANGED <<detected, fileVars, up, pending, fullres, workerVars, purging, crashes>>

\* One turn of the loop over the results.
DlResult(u) ==
    /\ up /\ answered
    /\ reply' = [reply EXCEPT ![u] = "none"]
    /\ \/ /\ reply[u] = "ok" /\ Len(pending) < MaxQueue
          /\ pending' = Append(pending, u)
          /\ UNCHANGED photos
       \/ /\ reply[u] = "nopreview" /\ WriteLockFree
          /\ photos' = IF Kind[u] \in {"image", "video"}
                       THEN SetPhotoFull(photos, u)
                       ELSE SetPhotoDone(photos, u, "empty", Now)
          /\ UNCHANGED pending
       \/ /\ reply[u] = "failed" /\ WriteLockFree
          /\ photos' = SetPhotosError(photos, {u})
          /\ UNCHANGED pending
    /\ UNCHANGED <<detected, fileVars, up, answered, abandoned, fullres, workerVars,
                   purging, countVars>>

\* The write that should record the outcome fails: the loop drops the call.
DlDrop ==
    /\ DbMayFail /\ up /\ CallBatch # {}
    /\ Fault
    /\ CallEnds
    /\ UNCHANGED <<dbVars, fileVars, up, pending, fullres, workerVars, purging, crashes>>

----------------------------------------------------------------------------
(* The fullres thread: one photo at a time.                                *)

FullresIdle == \A u \in Photos : fullres[u] = "no"

\* _fullres_pick_next: a 'full' row that is not backed off, if there is one, or else a
\* row stuck in 'fullres'.
Candidate(u) == photos[u].status \in {"full", "fullres"}

\* The claim asks for 'full' and turns a stuck row down.
FrPick(u) ==
    /\ up /\ WriteLockFree /\ FullresIdle /\ Candidate(u)
    /\ photos' = ClaimForFull(photos, u)
    /\ fullres' = [fullres EXCEPT ![u] =
                      IF photos[u].status = "full" THEN "downloading" ELSE "no"]
    /\ UNCHANGED <<detected, fileVars, up, pending, callVars, workerVars, purging, countVars>>

\* The original has arrived: a video leaves its poster among the thumbnails,
\* an image a work file.
FrDecode(u) ==
    /\ up /\ fullres[u] = "downloading"
    /\ fullres' = [fullres EXCEPT ![u] = "decoded"]
    /\ IF Kind[u] = "video"
       THEN thumbs' = thumbs \cup {u} /\ UNCHANGED work
       ELSE work' = work \cup {u} /\ UNCHANGED thumbs
    /\ UNCHANGED <<dbVars, up, pending, callVars, workerVars, purging, countVars>>

\* Mutant: an image is finished like a video, past the workers.
FrStoreWithoutQueue(u) ==
    /\ up /\ WriteLockFree /\ fullres[u] = "decoded"
    /\ photos' = SetPhotoDone(photos, u, "file", Now)
    /\ fullres' = [fullres EXCEPT ![u] = "no"]
    /\ UNCHANGED <<detected, fileVars, up, pending, callVars, workerVars, purging, countVars>>

FrStore(u) ==
    /\ up /\ WriteLockFree /\ fullres[u] = "decoded"
    /\ IF Kind[u] = "video"
       THEN /\ photos' = SetPhotoDone(photos, u, "file", Now)
            /\ fullres' = [fullres EXCEPT ![u] = "no"]
       ELSE /\ photos' = [photos EXCEPT ![u].status = "downloading"]
            /\ fullres' = [fullres EXCEPT ![u] = "queueing"]
    /\ UNCHANGED <<detected, fileVars, up, pending, callVars, workerVars, purging, countVars>>

FrQueue(u) ==
    /\ up /\ fullres[u] = "queueing" /\ Len(pending) < MaxQueue
    /\ pending' = Append(pending, u)
    /\ fullres' = [fullres EXCEPT ![u] = "no"]
    /\ UNCHANGED <<dbVars, fileVars, up, callVars, workerVars, purging, countVars>>

FrTransient(u) ==
    /\ up /\ WriteLockFree /\ fullres[u] = "downloading"
    /\ Fault
    /\ photos' = [photos EXCEPT ![u].status = "full", ![u].processedAt = Now]
    /\ fullres' = [fullres EXCEPT ![u] = "no"]
    /\ UNCHANGED <<detected, fileVars, up, pending, callVars, workerVars, purging, crashes>>

FrFail(u) ==
    /\ up /\ WriteLockFree /\ fullres[u] \in {"downloading", "decoded"}
    /\ Fault
    /\ photos' = SetPhotosError(photos, {u})
    /\ fullres' = [fullres EXCEPT ![u] = "no"]
    /\ UNCHANGED <<detected, fileVars, up, pending, callVars, workerVars, purging, crashes>>

\* The write of the outcome fails as well: the outer except only logs it.
FrDrop(u) ==
    /\ DbMayFail /\ up /\ fullres[u] \in {"downloading", "decoded"}
    /\ Fault
    /\ fullres' = [fullres EXCEPT ![u] = "no"]
    /\ UNCHANGED <<dbVars, fileVars, up, pending, callVars, workerVars, purging, crashes>>

----------------------------------------------------------------------------
(* The recognition workers.                                                *)

Current(w) == batch[w][pos[w]]

\* On to the next uid of the batch, in state s, or back to the queue.
Advance(w, s) ==
    IF pos[w] < Len(batch[w])
    THEN /\ pos' = [pos EXCEPT ![w] = @ + 1]
         /\ wstate' = [wstate EXCEPT ![w] = s]
         /\ UNCHANGED batch
    ELSE /\ pos' = [pos EXCEPT ![w] = 1]
         /\ wstate' = [wstate EXCEPT ![w] = "idle"]
         /\ batch' = [batch EXCEPT ![w] = <<>>]

\* The first n queued uids, n = 1 unless the queue is deep.
WkTake(w) ==
    /\ up /\ wstate[w] = "idle" /\ pending # <<>>
    /\ LET n == IF ClipBatchSize > 1 /\ Len(pending) >= ClipQueueDepth
                THEN IF ClipBatchSize < Len(pending) THEN ClipBatchSize ELSE Len(pending)
                ELSE 1
       IN  /\ batch' = [batch EXCEPT ![w] = SubSeq(pending, 1, n)]
           /\ pending' = SubSeq(pending, n + 1, Len(pending))
    /\ wstate' = [wstate EXCEPT ![w] = "embedding"]
    /\ UNCHANGED <<dbVars, fileVars, up, callVars, fullres, pos, purging, countVars>>

\* Mutant: the fallback insists on a work file.
WkFallbackWithFile(w) ==
    /\ up /\ wstate[w] = "idle" /\ pending = <<>>
    /\ \E u \in work :
          /\ photos[u].status = "downloading"
          /\ batch' = [batch EXCEPT ![w] = <<u>>]
    /\ wstate' = [wstate EXCEPT ![w] = "embedding"]
    /\ UNCHANGED <<dbVars, fileVars, up, pending, callVars, fullres, pos, purging, countVars>>

\* Nothing queued for 10 s: any row in 'downloading', whoever put it there.
WkFallback(w) ==
    /\ up /\ wstate[w] = "idle" /\ pending = <<>>
    /\ \E u \in Photos :
          /\ photos[u].status = "downloading"
          /\ batch' = [batch EXCEPT ![w] = <<u>>]
    /\ wstate' = [wstate EXCEPT ![w] = "embedding"]
    /\ UNCHANGED <<dbVars, fileVars, up, pending, callVars, fullres, pos, purging, countVars>>

\* One CLIP run for the batch; an exception in it fails every uid.
WkEmbed(w) ==
    /\ up /\ wstate[w] = "embedding"
    /\ \/ wstate' = [wstate EXCEPT ![w] = "ready"] /\ UNCHANGED faults
       \/ wstate' = [wstate EXCEPT ![w] = "spoiled"] /\ Fault
    /\ UNCHANGED <<dbVars, fileVars, up, pending, callVars, fullres, batch, pos, purging,
                   crashes>>

\* _process_one: BEGIN IMMEDIATE, then the claim.  A lost claim rolls back.
WkClaim(w) ==
    /\ up /\ WriteLockFree /\ wstate[w] = "ready"
    /\ IF photos[Current(w)].status = "downloading"
       THEN wstate' = [wstate EXCEPT ![w] = "open"] /\ UNCHANGED <<batch, pos>>
       ELSE Advance(w, "ready")
    /\ UNCHANGED <<dbVars, fileVars, up, pending, callVars, fullres, purging, countVars>>

\* "work file missing" is committed with the claim.
WkMissing(w) ==
    /\ up /\ wstate[w] = "open" /\ Current(w) \notin work
    /\ photos' = SetPhotosError(photos, {Current(w)})
    /\ Advance(w, "ready")
    /\ UNCHANGED <<detected, fileVars, up, pending, callVars, fullres, purging, countVars>>

\* work.replace(thumb): the file moves before the transaction commits.
WkMove(w) ==
    /\ up /\ wstate[w] = "open" /\ Current(w) \in work
    /\ work' = work \ {Current(w)}
    /\ thumbs' = thumbs \cup {Current(w)}
    /\ wstate' = [wstate EXCEPT ![w] = "moved"]
    /\ UNCHANGED <<dbVars, up, pending, callVars, fullres, batch, pos, purging, countVars>>

\* Mutant: faces are detected anew although the photo has some.
WkCommitAgain(w) ==
    /\ up /\ wstate[w] = "moved"
    /\ photos' = SetPhotoDone(photos, Current(w), "file", Now)
    /\ detected' = [detected EXCEPT ![Current(w)] = @ + 1]
    /\ Advance(w, "ready")
    /\ UNCHANGED <<fileVars, up, pending, callVars, fullres, purging, countVars>>

\* Faces, clip and 'done' become visible together.  A photo that still has
\* faces of an earlier run keeps them.
WkCommit(w) ==
    /\ up /\ wstate[w] = "moved"
    /\ photos' = SetPhotoDone(photos, Current(w), "file", Now)
    /\ detected' = [detected EXCEPT ![Current(w)] = IF @ = 0 THEN 1 ELSE @]
    /\ Advance(w, "ready")
    /\ UNCHANGED <<fileVars, up, pending, callVars, fullres, purging, countVars>>

\* An exception in the transaction, or no lock within the busy timeout.
WkRaise(w) ==
    /\ up
    /\ \/ InTransaction(w)
       \/ DbMayFail /\ wstate[w] = "ready"
    /\ Fault
    /\ wstate' = [wstate EXCEPT ![w] = "failed"]
    /\ UNCHANGED <<dbVars, fileVars, up, pending, callVars, fullres, batch, pos, purging,
                   crashes>>

\* The except clause: a second, separate commit.
WkSetError(w) ==
    /\ up /\ WriteLockFree /\ wstate[w] \in {"failed", "spoiled"}
    /\ photos' = SetPhotosError(photos, {Current(w)})
    /\ Advance(w, IF wstate[w] = "spoiled" THEN "spoiled" ELSE "ready")
    /\ UNCHANGED <<detected, fileVars, up, pending, callVars, fullres, purging, countVars>>

\* That commit fails as well: _worker_loop fails the whole batch, what is done
\* of it included, and when this fails too, nothing catches the exception.
WkSetErrorFails(w) ==
    /\ DbMayFail /\ up /\ wstate[w] \in {"failed", "spoiled"}
    /\ Fault
    /\ pos' = [pos EXCEPT ![w] = 1]
    /\ IF wstate[w] = "failed"
       THEN wstate' = [wstate EXCEPT ![w] = "spoiled"] /\ UNCHANGED batch
       ELSE /\ wstate' = [wstate EXCEPT ![w] = "dead"]
            /\ batch' = [batch EXCEPT ![w] = <<>>]
    /\ UNCHANGED <<dbVars, fileVars, up, pending, callVars, fullres, purging, crashes>>

----------------------------------------------------------------------------
SyncStep == SyncUpsert \/ SyncStage \/ SyncConfirm \/ SyncRetry \/ CleanupUnlink \/ CleanupPurge

DownloaderStep == DlClaim \/ DlTransient \/ DlFail \/ DlDrop \/ \E u \in Photos : DlResult(u)

BridgeStep == BridgeAnswer \/ \E u \in Photos : BridgeSettle(u) \/ BridgeLateWrite(u)

FullresStep == \E u \in Photos : \/ FrPick(u) \/ FrDecode(u) \/ FrStore(u) \/ FrQueue(u)
                                \/ FrTransient(u) \/ FrFail(u) \/ FrDrop(u)

WorkerStep(w) == \/ WkTake(w) \/ WkFallback(w) \/ WkEmbed(w)
                 \/ WkClaim(w) \/ WkMissing(w) \/ WkMove(w) \/ WkCommit(w)
                 \/ WkRaise(w) \/ WkSetError(w) \/ WkSetErrorFails(w)

Next ==
    \/ Start \/ Crash
    \/ SyncStep \/ DownloaderStep \/ BridgeStep \/ FullresStep
    \/ \E w \in Workers : WorkerStep(w)

Spec == Init /\ [][Next]_vars

\* compose restarts a dead container; every loop runs for ever, sleeping at
\* most a bounded time; the bridge bounds every call by a deadline.  The
\* sync loop brings every photo of the timeline into the table, retries
\* errors and finishes a purge; nothing makes a photo vanish, or a failure
\* happen.
Fairness ==
    /\ WF_vars(Start)
    /\ WF_vars(SyncUpsert) /\ WF_vars(SyncRetry) /\ WF_vars(CleanupPurge)
    /\ WF_vars(DlClaim) /\ \A u \in Photos : WF_vars(DlResult(u))
    /\ WF_vars(BridgeAnswer) /\ \A u \in Photos : WF_vars(BridgeSettle(u))
    /\ WF_vars(FullresStep)
    /\ \A w \in Workers : WF_vars(WorkerStep(w))

FairSpec == Spec /\ Fairness

----------------------------------------------------------------------------
(* Properties.                                                             *)

\* What a photo shown as done stands for: a thumbnail that is on disk and,
\* unless it is the poster of a video, the faces of one detector run.  Only
\* a file that is neither image nor video may be done without a thumbnail.
Complete(u) ==
    \/ /\ photos[u].thumb = "file" /\ u \in thumbs
       /\ detected[u] = 1 \/ Kind[u] = "video"
    \/ photos[u].thumb = "empty" /\ Kind[u] = "other"

\* While the indexer runs, every row in 'done' is complete: the order of file
\* move, commit and unlink in _process_one, _fullres_loop and cleanup_deleted
\* survives crashes, and start() repairs what older releases left behind.
DoneIsComplete == up => \A u \in Photos : photos[u].status = "done" => Complete(u)

\* However often a photo is queued, claimed, failed and retried, its faces are
\* inserted by one detector run at most (the existing_faces check and the
\* claim of _process_one share the transaction of the inserts).
OneDetectorRun == \A u \in Photos : detected[u] <= 1

\* A claim has a live owner: no committed row is in 'processing', and a row in
\* 'fullres' is the one the fullres thread is working on (claim_photo_for_full
\* never takes a 'fullres' row, so any other would stay there until restart).
NoStrandedClaim ==
    up => \A u \in Photos :
             /\ photos[u].status # "processing"
             /\ photos[u].status = "fullres" => fullres[u] \in {"downloading", "decoded"}

\* Thumbnails and faces are dropped for photos confirmed deleted and for no
\* other: nothing on its way to 'done', or done, loses them to a purge, even
\* when downloads and workers touch the row while the purge is under way.
MediaKeptUnlessDeleted ==
    [][\A u \in Photos :
          (u \in thumbs /\ u \notin thumbs') \/ detected'[u] < detected[u]
             => photos[u].status \in {"deleted", "error"}]_vars

\* What a row of the table is to those who look at the library.  One that an older
\* release left without a thumbnail waits for start() to send it back.
StageOf(row, kind) ==
    CASE row.status \in {"new", "downloading", "processing", "full", "fullres"} -> "queued"
      [] row.status = "done" /\ row.thumb = "file" -> "shown"
      [] row.status = "done" /\ row.thumb # "file" /\ kind = "other" -> "listed"
      [] row.status = "done" /\ row.thumb # "file" /\ kind # "other" -> "queued"
      [] row.status = "error" -> "failed"
      [] row.status = "pending_removal" -> "leaving"
      [] row.status = "deleted" -> "deleted"
      [] row.status = "absent" -> "unknown"

Library == INSTANCE PhotoLibrary WITH
    stage <- [u \in Photos |-> StageOf(photos[u], Kind[u])],
    pictures <- thumbs,
    faces <- detected

\* Threads, claims, retries, crashes and results that come too late are, to those who
\* look at the library, the steps of PhotoLibrary: media and faces come before a photo is
\* shown, and go only after it was deleted in two steps; nothing is done to a uid that has
\* no row, although the UPDATEs of a result ask for no status (_process_one,
\* _fullres_loop, cleanup_deleted).
LibraryKept == Library!LibrarySpec

Parked(u) == photos[u].status = "error" /\ photos[u].retry >= MaxRetryPark

\* Every photo that stays in the timeline and can be fetched ends up done, or
\* parked with its retry budget spent, through any crash and any failure:
\* no thread leaves a row where no other thread picks it up.
EventuallyIndexed ==
    \A u \in Photos \ Vanishing :
        <>[](photos[u].status = "done" \/ Parked(u))

----------------------------------------------------------------------------
(* The inductive invariant behind the safety properties.                   *)

\* DoneIsComplete without "while it runs": only rows that start() has yet to
\* send back may be done without a thumbnail.
DoneRows ==
    \A u \in Photos : photos[u].status = "done" =>
        \/ /\ photos[u].thumb = "file" /\ u \in thumbs
           /\ detected[u] = 1 \/ Kind[u] = "video"
        \/ photos[u].thumb = "empty" /\ (up => Kind[u] = "other")

DetectedOnce == \A u \in Photos : detected[u] \in {0, 1}

\* A worker is within its batch; in its transaction the claim it made holds,
\* and once the work file is moved the thumbnail is there.
WorkersWithin ==
    \A w \in Workers :
        /\ wstate[w] \in {"idle", "dead"} => batch[w] = <<>> /\ pos[w] = 1
        /\ wstate[w] \notin {"idle", "dead"} =>
              batch[w] # <<>> /\ pos[w] \in 1 .. Len(batch[w])

ClaimsHold ==
    \A w \in Workers : InTransaction(w) =>
        /\ up
        /\ photos[Current(w)].status = "downloading"
        /\ wstate[w] = "moved" => Current(w) \in thumbs

OneWriter == \A v, w \in Workers : InTransaction(v) /\ InTransaction(w) => v = w

\* The poster of a video is on disk before its row is done.
PosterThere ==
    \A u \in Photos : fullres[u] = "decoded" /\ Kind[u] = "video" => u \in thumbs

\* Nobody works on a row that is being purged.
PurgeAlone ==
    \A u \in purging : /\ up
                       /\ photos[u].status \in {"deleted", "error"}
                       /\ fullres[u] = "no" /\ reply[u] = "none"

\* Whatever the threads, the queue and the calls have in hand has a row.
InHand(u) ==
    \/ reply[u] # "none" \/ fullres[u] # "no"
    \/ \E i \in DOMAIN pending : pending[i] = u
    \/ \E w \in Workers : \E i \in DOMAIN batch[w] : batch[w][i] = u

HandsKnown == \A u \in Photos : InHand(u) => photos[u].status # "absent"

Inv == /\ TypeOK /\ DoneRows /\ DetectedOnce /\ WorkersWithin /\ ClaimsHold
       /\ OneWriter /\ PosterThere /\ PurgeAlone

=============================================================================
