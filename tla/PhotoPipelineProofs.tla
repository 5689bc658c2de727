------------------------ MODULE PhotoPipelineProofs ------------------------
(***************************************************************************)
(* Proofs that the safety properties of PhotoPipeline hold for any number  *)
(* of photos and workers, any batch sizes and any number of failures.      *)
(***************************************************************************)
EXTENDS PhotoPipeline, FiniteSetTheorems, SequenceTheorems, TLAPS

(***************************************************************************)
(* What the statements on table photos leave behind, for any table.        *)
(***************************************************************************)

\* A row stays a row when upsert_photos reclaims it.
LEMMA ReclaimedRow ==
    ASSUME NEW r \in Row, NEW s \in Statuses, NEW n \in Int, NEW k \in Nat
    PROVE  [r EXCEPT !.status = s, !.wasDeletedAt = n, !.retry = k] \in Row
  BY DEF Row

\* A row stays a row when reset_stuck_fullres counts a retry.
LEMMA RequeuedRow ==
    ASSUME NEW r \in Row, NEW s \in Statuses, NEW k \in Nat
    PROVE  [r EXCEPT !.status = s, !.retry = k] \in Row
  BY DEF Row

\* The statements on a set of uids leave a table; a row they leave in 'done' was
\* done before and is unchanged.
LEMMA SetStatements ==
    ASSUME NEW t \in Table, NEW S
    PROVE  /\ UpsertPhotos(t, S) \in Table
           /\ PurgeMedia(t, S) \in Table
           /\ ClaimForDownload(t, S) \in Table
           /\ ReleaseDownloadClaims(t, S) \in Table
           /\ SetPhotosError(t, S) \in Table
           /\ ResetStuckFullres(t, S) \in Table
           /\ \A u \in Photos : UpsertPhotos(t, S)[u].status = "done"
                                  => UpsertPhotos(t, S)[u] = t[u]
           /\ \A u \in Photos : ResetStuckFullres(t, S)[u].status = "done"
                                  => ResetStuckFullres(t, S)[u] = t[u]
  <1>0. /\ t \in [Photos -> Row]
        /\ \A u \in Photos : t[u] \in Row
    BY DEF Table
  <1>1. UpsertPhotos(t, S) \in Table
    <2>1. ASSUME NEW u \in Photos
          PROVE  [t[u] EXCEPT !.status = "new", !.wasDeletedAt = NoTime, !.retry = 0] \in Row
      <3>1. NoTime \in Int /\ "new" \in Statuses /\ 0 \in Nat
        BY DEF NoTime, Statuses
      <3>2. t[u] \in Row
        BY <1>0
      <3> QED BY <3>1, <3>2, ReclaimedRow
    <2> QED BY <1>0, <2>1 DEF Table, UpsertPhotos
  <1>2. PurgeMedia(t, S) \in Table
    BY DEF Table, Row, Statuses, PurgeMedia
  <1>3. ClaimForDownload(t, S) \in Table /\ ReleaseDownloadClaims(t, S) \in Table
    BY DEF Table, Row, Statuses, ClaimForDownload, ReleaseDownloadClaims
  <1>4. SetPhotosError(t, S) \in Table
    BY DEF Table, Row, Statuses, SetPhotosError
  <1>5. ResetStuckFullres(t, S) \in Table
    <2>1. ASSUME NEW u \in Photos, NEW s \in Statuses
          PROVE  [t[u] EXCEPT !.status = s, !.retry = @ + 1] \in Row
      <3>1. t[u].retry + 1 \in Nat
        BY <1>0 DEF Row
      <3> QED BY <1>0, <3>1, RequeuedRow
    <2> QED BY <1>0, <2>1 DEF Table, ResetStuckFullres, Statuses
  <1>6. ASSUME NEW u \in Photos
        PROVE  UpsertPhotos(t, S)[u].status = "done" => UpsertPhotos(t, S)[u] = t[u]
    BY <1>0 DEF Row, UpsertPhotos
  <1>7. ASSUME NEW u \in Photos
        PROVE  ResetStuckFullres(t, S)[u].status = "done" => ResetStuckFullres(t, S)[u] = t[u]
    BY <1>0 DEF Row, ResetStuckFullres
  <1> QED BY <1>1, <1>2, <1>3, <1>4, <1>5, <1>6, <1>7

\* So do the statements that carry a time.
LEMMA TimedStatements ==
    ASSUME NEW t \in Table, NEW S, NEW now \in Int
    PROVE  /\ MarkPendingRemoval(t, S, now) \in Table
           /\ ConfirmDeletions(t, S, now) \in Table
           /\ \A u \in Photos : MarkPendingRemoval(t, S, now)[u].status = "done"
                                  => MarkPendingRemoval(t, S, now)[u] = t[u]
           /\ \A u \in Photos : ConfirmDeletions(t, S, now)[u].status = "done"
                                  => ConfirmDeletions(t, S, now)[u] = t[u]
  <1>0. t \in [Photos -> Row]
    BY DEF Table
  <1>1. MarkPendingRemoval(t, S, now) \in Table
    BY DEF Table, Row, Statuses, MarkPendingRemoval
  <1>2. ConfirmDeletions(t, S, now) \in Table
    BY DEF Table, Row, Statuses, ConfirmDeletions
  <1>3. ASSUME NEW u \in Photos
        PROVE  MarkPendingRemoval(t, S, now)[u].status = "done"
                 => MarkPendingRemoval(t, S, now)[u] = t[u]
    BY <1>0 DEF Row, MarkPendingRemoval
  <1>4. ASSUME NEW u \in Photos
        PROVE  ConfirmDeletions(t, S, now)[u].status = "done"
                 => ConfirmDeletions(t, S, now)[u] = t[u]
    BY <1>0 DEF Row, ConfirmDeletions
  <1> QED BY <1>1, <1>2, <1>3, <1>4

\* And those on the whole table; the backfill leaves no image or video done
\* without a thumbnail.
LEMMA TableStatements ==
    ASSUME NEW t \in Table
    PROVE  /\ RetryErrors(t) \in Table
           /\ ResetClaims(t) \in Table
           /\ BackfillFullres(t) \in Table
           /\ \A u \in Photos : ResetClaims(t)[u].status = "done" => ResetClaims(t)[u] = t[u]
           /\ \A u \in Photos : BackfillFullres(t)[u].status = "done"
                 => /\ BackfillFullres(t)[u] = t[u]
                    /\ t[u].thumb = "file" \/ Kind[u] = "other"
  <1>0. t \in [Photos -> Row]
    BY DEF Table
  <1>1. RetryErrors(t) \in Table
    BY DEF Table, Row, Statuses, RetryErrors
  <1>2. ResetClaims(t) \in Table /\ BackfillFullres(t) \in Table
    BY DEF Table, Row, Statuses, ResetClaims, BackfillFullres
  <1>3. ASSUME NEW u \in Photos
        PROVE  ResetClaims(t)[u].status = "done" => ResetClaims(t)[u] = t[u]
    BY <1>0 DEF Row, ResetClaims
  <1>4. ASSUME NEW u \in Photos
        PROVE  BackfillFullres(t)[u].status = "done"
                 => /\ BackfillFullres(t)[u] = t[u]
                    /\ t[u].thumb = "file" \/ Kind[u] = "other"
    BY <1>0, StoreAssumption DEF Row, BackfillFullres
  <1> QED BY <1>1, <1>2, <1>3, <1>4

\* The statements on one row leave a table.
LEMMA RowStatements ==
    ASSUME NEW t \in Table, NEW p \in Photos
    PROVE  /\ ClaimForFull(t, p) \in Table
           /\ SetPhotoFull(t, p) \in Table
           /\ [t EXCEPT ![p].status = "downloading"] \in Table
           /\ \A now \in Int : [t EXCEPT ![p].status = "full", ![p].processedAt = now] \in Table
  <1>1. ClaimForFull(t, p) \in Table /\ SetPhotoFull(t, p) \in Table
    BY DEF Table, Row, Statuses, ClaimForFull, SetPhotoFull
  <1>2. [t EXCEPT ![p].status = "downloading"] \in Table
    BY DEF Table, Row, Statuses
  <1>3. ASSUME NEW now \in Int
        PROVE  [t EXCEPT ![p].status = "full", ![p].processedAt = now] \in Table
    <2>1. [t[p] EXCEPT !.status = "full", !.processedAt = now] \in Row
      BY DEF Table, Row, Statuses
    <2>2. [t EXCEPT ![p].status = "full", ![p].processedAt = now]
            = [t EXCEPT ![p] = [t[p] EXCEPT !.status = "full", !.processedAt = now]]
      BY DEF Table, Row
    <2> QED BY <2>1, <2>2 DEF Table
  <1> QED BY <1>1, <1>2, <1>3

\* set_photo_done changes one row, and what it leaves there.
LEMMA DoneStatement ==
    ASSUME NEW t \in Table, NEW p \in Photos, NEW thumb \in {"null", "empty", "file"},
           NEW now \in Int
    PROVE  /\ SetPhotoDone(t, p, thumb, now) \in Table
           /\ SetPhotoDone(t, p, thumb, now)[p].status = "done"
           /\ SetPhotoDone(t, p, thumb, now)[p].thumb = thumb
           /\ \A u \in Photos \ {p} : SetPhotoDone(t, p, thumb, now)[u] = t[u]
  <1>0. t \in [Photos -> Row]
    BY DEF Table
  <1>1. [t[p] EXCEPT !.status = "done", !.thumb = thumb, !.processedAt = now] \in Row
    BY <1>0 DEF Row, Statuses
  <1>2. SetPhotoDone(t, p, thumb, now)
          = [t EXCEPT ![p] = [t[p] EXCEPT !.status = "done", !.thumb = thumb,
                                          !.processedAt = now]]
    BY <1>0 DEF SetPhotoDone, Row
  <1>3. SetPhotoDone(t, p, thumb, now) \in Table
    BY <1>0, <1>1, <1>2 DEF Table
  <1>4. SetPhotoDone(t, p, thumb, now)[p]
          = [t[p] EXCEPT !.status = "done", !.thumb = thumb, !.processedAt = now]
    BY <1>0, <1>2
  <1> QED BY <1>0, <1>1, <1>2, <1>3, <1>4 DEF Row

-----------------------------------------------------------------------------

LEMMA NowType == Now \in Int
  BY DEF Now

(***************************************************************************)
(* Sequences: the queue and the batches.                                   *)
(***************************************************************************)

\* The empty queue is one.
LEMMA EmptyQueue == <<>> \in Queue
  BY EmptySeq DEF Queue

\* The queue start() rebuilds holds photos.
LEMMA RebuildType ==
    ASSUME NEW t \in Table, NEW q \in RebuildPending(t)
    PROVE  q \in Queue
  <1> DEFINE found == {u \in Photos : t[u].status = "downloading" /\ u \in work}
  <1>1. IsFiniteSet(found)
    BY PipelineAssumption, FS_Subset
  <1>2. Cardinality(found) \in Nat
    BY <1>1, FS_CardinalityType
  <1>3. PICK n \in Nat : n = Cardinality(found)
    BY <1>2
  <1>4. q \in [1..n -> found]
    BY <1>3 DEF RebuildPending
  <1>5. q \in [1..n -> Photos]
    BY <1>4
  <1> QED BY <1>5, SeqDef DEF Queue

\* The uid a worker is at is a photo.
LEMMA CurrentType ==
    ASSUME Inv, NEW w \in Workers, wstate[w] \notin {"idle", "dead"}
    PROVE  Current(w) \in Photos
  <1>1. batch[w] \in Seq(Photos) /\ pos[w] \in 1 .. Len(batch[w])
    BY DEF Inv, TypeOK, WorkersWithin, Queue
  <1> QED BY <1>1, ElementOfSeq DEF Current

\* A worker that goes on to its next uid stays within its batch, and leaves its
\* transaction.
LEMMA AdvanceWithin ==
    ASSUME Inv, NEW w \in Workers, NEW s \in {"ready", "spoiled"}, Advance(w, s),
           wstate[w] \notin {"idle", "dead"}
    PROVE  /\ batch' \in [Workers -> Queue] /\ pos' \in [Workers -> Nat]
           /\ wstate' \in [Workers -> WorkerStates]
           /\ WorkersWithin'
           /\ wstate'[w] \in {s, "idle"}
           /\ \A v \in Workers \ {w} :
                 wstate'[v] = wstate[v] /\ batch'[v] = batch[v] /\ pos'[v] = pos[v]
  <1>1. /\ batch \in [Workers -> Queue] /\ pos \in [Workers -> Nat]
        /\ wstate \in [Workers -> WorkerStates]
        /\ batch[w] # <<>> /\ pos[w] \in 1 .. Len(batch[w])
    BY DEF Inv, TypeOK, WorkersWithin
  <1>2. Len(batch[w]) \in Nat
    BY <1>1, LenProperties DEF Queue
  <1>3. CASE pos[w] < Len(batch[w])
    <2>1. /\ pos' = [pos EXCEPT ![w] = @ + 1]
          /\ wstate' = [wstate EXCEPT ![w] = s]
          /\ batch' = batch
      BY <1>3 DEF Advance
    <2>2. pos[w] + 1 \in Nat /\ pos[w] + 1 \in 1 .. Len(batch[w])
      BY <1>1, <1>2, <1>3
    <2>3. WorkersWithin'
      BY <1>1, <2>1, <2>2 DEF Inv, WorkersWithin
    <2> QED BY <1>1, <2>1, <2>2, <2>3 DEF WorkerStates
  <1>4. CASE ~(pos[w] < Len(batch[w]))
    <2>1. /\ pos' = [pos EXCEPT ![w] = 1]
          /\ wstate' = [wstate EXCEPT ![w] = "idle"]
          /\ batch' = [batch EXCEPT ![w] = <<>>]
      BY <1>4 DEF Advance
    <2>2. WorkersWithin'
      BY <1>1, <2>1 DEF Inv, WorkersWithin
    <2> QED BY <1>1, <2>1, <2>2, EmptyQueue DEF WorkerStates
  <1> QED BY <1>3, <1>4

\* Taking the first n queued uids splits the queue.
LEMMA SplitQueue ==
    ASSUME NEW q \in Queue, NEW n \in Nat, n >= 1, n <= Len(q)
    PROVE  /\ SubSeq(q, 1, n) \in Queue /\ SubSeq(q, 1, n) # <<>>
           /\ Len(SubSeq(q, 1, n)) = n
           /\ SubSeq(q, n + 1, Len(q)) \in Queue
  <1>1. Len(q) \in Nat /\ \A i \in 1 .. Len(q) : q[i] \in Photos
    BY LenProperties, ElementOfSeq DEF Queue
  <1>2. SubSeq(q, 1, n) \in Queue /\ Len(SubSeq(q, 1, n)) = n
    BY <1>1, SubSeqProperties DEF Queue
  <1>3. SubSeq(q, n + 1, Len(q)) \in Queue
    BY <1>1, SubSeqProperties DEF Queue
  <1> QED BY <1>2, <1>3, EmptySeq

\* A worker takes at least one uid, and the rest stays queued.
LEMMA TakeSplits ==
    ASSUME Inv, NEW w \in Workers, WkTake(w)
    PROVE  \E b \in Queue : /\ b # <<>> /\ 1 \in 1 .. Len(b)
                            /\ batch' = [batch EXCEPT ![w] = b]
                            /\ pending' \in Queue
  <1> DEFINE n == IF ClipBatchSize > 1 /\ Len(pending) >= ClipQueueDepth
                  THEN IF ClipBatchSize < Len(pending) THEN ClipBatchSize ELSE Len(pending)
                  ELSE 1
  <1>1. pending \in Queue /\ pending # <<>> /\ Len(pending) \in Nat /\ Len(pending) >= 1
    BY LenProperties, EmptySeq DEF Inv, TypeOK, WkTake, Queue
  <1>2. n \in Nat /\ n >= 1 /\ n <= Len(pending)
    BY <1>1, PipelineAssumption
  <1> DEFINE b == SubSeq(pending, 1, n)
  <1>3. batch' = [batch EXCEPT ![w] = b]
    BY DEF WkTake
  <1>4. pending' = SubSeq(pending, n + 1, Len(pending))
    BY DEF WkTake
  <1> HIDE DEF n
  <1>5. /\ b \in Queue /\ b # <<>> /\ Len(b) = n
        /\ SubSeq(pending, n + 1, Len(pending)) \in Queue
    BY <1>1, <1>2, SplitQueue
  <1>6. 1 \in 1 .. Len(b)
    BY <1>2, <1>5
  <1> HIDE DEF b
  <1> QED BY <1>3, <1>4, <1>5, <1>6

(***************************************************************************)
(* Every step preserves the invariant.                                     *)
(***************************************************************************)

\* start() sends back what a dead run left in a claim and what an older release
\* finished without a thumbnail.
LEMMA StartInv ==
    ASSUME Inv, Start
    PROVE  Inv'
  <1>1. TypeOK'
    <2>1. photos' \in Table
      BY SetStatements, TableStatements DEF Inv, TypeOK, Start
    <2>2. pending' \in Queue
      BY <2>1, RebuildType DEF Start
    <2> QED BY <2>1, <2>2 DEF Inv, TypeOK, Start, fileVars, callVars,
               workerVars, countVars
  <1>2. DoneRows'
    <2>1. PICK old \in SUBSET Photos :
            photos' = ResetStuckFullres(BackfillFullres(ResetClaims(photos)), old)
      BY DEF Start
    <2> DEFINE t1 == ResetClaims(photos)
               t2 == BackfillFullres(t1)
    <2>2. photos \in Table /\ t1 \in Table /\ t2 \in Table
      BY TableStatements DEF Inv, TypeOK
    <2>3. ASSUME NEW u \in Photos, photos'[u].status = "done"
          PROVE  photos'[u] = photos[u] /\ (photos[u].thumb = "file" \/ Kind[u] = "other")
      <3>1. photos'[u] = t2[u]
        BY <2>1, <2>2, <2>3, SetStatements
      <3>2. t2[u] = t1[u] /\ (t1[u].thumb = "file" \/ Kind[u] = "other")
        BY <2>2, <2>3, <3>1, TableStatements
      <3>3. t1[u] = photos[u]
        BY <2>2, <2>3, <3>1, <3>2, TableStatements
      <3> QED BY <3>1, <3>2, <3>3
    <2> QED BY <2>3 DEF Inv, DoneRows, Start, fileVars
  <1>3. ClaimsHold'
    BY DEF Inv, TypeOK, ClaimsHold, Start, ResetStuckFullres, BackfillFullres,
       ResetClaims, fileVars, callVars, workerVars, countVars, InTransaction,
       Current, Table, Row
  <1>4. PurgeAlone'
    BY DEF Inv, TypeOK, PurgeAlone, Start, ResetStuckFullres, BackfillFullres,
       ResetClaims, fileVars, callVars, workerVars, countVars, InTransaction,
       Table, Row
  <1>5. DetectedOnce' /\ WorkersWithin' /\ OneWriter' /\ PosterThere'
    BY DEF Inv, DetectedOnce, WorkersWithin, OneWriter, PosterThere, Start,
       fileVars, callVars, workerVars, countVars, InTransaction
  <1> QED BY <1>1, <1>2, <1>3, <1>4, <1>5 DEF Inv

\* A crash forgets every thread; the files and committed rows agree already.
LEMMA CrashInv ==
    ASSUME Inv, Crash
    PROVE  Inv'
  <1>1. TypeOK'
    <2>1. abandoned' \subseteq Photos
      BY PipelineAssumption DEF Inv, TypeOK, Crash
    <2>2. crashes' \in Nat
      BY DEF Inv, TypeOK, Crash
    <2>3. batch' \in [Workers -> Queue] /\ pos' \in [Workers -> Nat] /\ pending' \in Queue
      BY EmptyQueue DEF Crash
    <2> QED BY <2>1, <2>2, <2>3 DEF Inv, TypeOK, Crash, dbVars, fileVars, Replies,
               Stages, WorkerStates
  <1>2. DoneRows'
    BY DEF Inv, TypeOK, DoneRows, Crash, dbVars, fileVars, Table, Row
  <1>3. WorkersWithin'
    BY DEF Inv, TypeOK, WorkersWithin, Crash, dbVars, fileVars, Table, Row
  <1>4. ClaimsHold'
    BY DEF Inv, TypeOK, ClaimsHold, Crash, dbVars, fileVars, InTransaction,
       Current, Table, Row
  <1>5. OneWriter'
    BY DEF Inv, TypeOK, OneWriter, Crash, dbVars, fileVars, InTransaction,
       Table, Row
  <1>6. PosterThere'
    BY DEF Inv, TypeOK, PosterThere, Crash, dbVars, fileVars, Table, Row
  <1>7. PurgeAlone'
    BY DEF Inv, TypeOK, PurgeAlone, Crash, dbVars, fileVars, InTransaction,
       Table, Row
  <1>8. DetectedOnce'
    BY DEF Inv, DetectedOnce, Crash, dbVars, fileVars
  <1> QED BY <1>1, <1>2, <1>3, <1>4, <1>5, <1>6, <1>7, <1>8 DEF Inv

\* upsert_photos: a reclaimed row is new, never done.
LEMMA SyncUpsertInv ==
    ASSUME Inv, SyncUpsert
    PROVE  Inv'
  <1>1. TypeOK'
    <2>1. photos' \in Table
      BY SetStatements DEF Inv, TypeOK, SyncUpsert
    <2> QED BY <2>1 DEF Inv, TypeOK, SyncUpsert, fileVars, callVars,
       workerVars, countVars
  <1>2. DoneRows'
    <2>1. PICK S : photos' = UpsertPhotos(photos, S)
      BY DEF SyncUpsert
    <2>2. \A u \in Photos : photos'[u].status = "done" => photos'[u] = photos[u]
      BY <2>1, SetStatements DEF Inv, TypeOK
    <2> QED BY <2>2 DEF Inv, DoneRows, SyncUpsert, fileVars
  <1>3. ClaimsHold'
    BY DEF Inv, TypeOK, ClaimsHold, SyncUpsert, SyncMayWrite, WriteLockFree,
       UpsertPhotos, Gone, fileVars, callVars, workerVars, countVars,
       InTransaction, Current, Table, Row
  <1>4. PurgeAlone'
    BY DEF Inv, TypeOK, PurgeAlone, SyncUpsert, SyncMayWrite, WriteLockFree,
       UpsertPhotos, Gone, fileVars, callVars, workerVars, countVars,
       InTransaction, Table, Row
  <1>5. DetectedOnce' /\ WorkersWithin' /\ OneWriter' /\ PosterThere'
    BY DEF Inv, DetectedOnce, WorkersWithin, OneWriter, PosterThere,
       SyncUpsert, fileVars, callVars, workerVars, countVars, InTransaction
  <1> QED BY <1>1, <1>2, <1>3, <1>4, <1>5 DEF Inv

\* mark_pending_removal waits for the lock, so no claim of a worker is undone.
LEMMA SyncStageInv ==
    ASSUME Inv, SyncStage
    PROVE  Inv'
  <1>1. TypeOK'
    <2>1. photos' \in Table
      BY TimedStatements, NowType DEF Inv, TypeOK, SyncStage
    <2> QED BY <2>1 DEF Inv, TypeOK, SyncStage, fileVars, callVars,
       workerVars, countVars
  <1>2. DoneRows'
    <2>1. PICK S : photos' = MarkPendingRemoval(photos, S, Now)
      BY DEF SyncStage
    <2>2. \A u \in Photos : photos'[u].status = "done" => photos'[u] = photos[u]
      BY <2>1, TimedStatements, NowType DEF Inv, TypeOK
    <2> QED BY <2>2 DEF Inv, DoneRows, SyncStage, fileVars
  <1>3. ClaimsHold'
    BY DEF Inv, TypeOK, ClaimsHold, SyncStage, SyncMayWrite, WriteLockFree,
       MarkPendingRemoval, ActiveRows, Gone, fileVars, callVars, workerVars,
       countVars, InTransaction, Current, Table, Row
  <1>4. PurgeAlone'
    BY DEF Inv, TypeOK, PurgeAlone, SyncStage, SyncMayWrite, WriteLockFree,
       MarkPendingRemoval, ActiveRows, Gone, fileVars, callVars, workerVars,
       countVars, InTransaction, Table, Row
  <1>5. DetectedOnce' /\ WorkersWithin' /\ OneWriter' /\ PosterThere'
    BY DEF Inv, DetectedOnce, WorkersWithin, OneWriter, PosterThere,
       SyncStage, fileVars, callVars, workerVars, countVars, InTransaction
  <1> QED BY <1>1, <1>2, <1>3, <1>4, <1>5 DEF Inv

\* confirm_deletions touches staged rows only.
LEMMA SyncConfirmInv ==
    ASSUME Inv, SyncConfirm
    PROVE  Inv'
  <1>1. TypeOK'
    <2>1. photos' \in Table
      BY TimedStatements, NowType DEF Inv, TypeOK, SyncConfirm
    <2> QED BY <2>1 DEF Inv, TypeOK, SyncConfirm, fileVars, callVars,
       workerVars, countVars
  <1>2. DoneRows'
    <2>1. PICK S : photos' = ConfirmDeletions(photos, S, Now)
      BY DEF SyncConfirm
    <2>2. \A u \in Photos : photos'[u].status = "done" => photos'[u] = photos[u]
      BY <2>1, TimedStatements, NowType DEF Inv, TypeOK
    <2> QED BY <2>2 DEF Inv, DoneRows, SyncConfirm, fileVars
  <1>3. ClaimsHold'
    BY DEF Inv, TypeOK, ClaimsHold, SyncConfirm, SyncMayWrite, WriteLockFree,
       ConfirmDeletions, fileVars, callVars, workerVars, countVars,
       InTransaction, Current, Table, Row
  <1>4. PurgeAlone'
    BY DEF Inv, TypeOK, PurgeAlone, SyncConfirm, SyncMayWrite, WriteLockFree,
       ConfirmDeletions, fileVars, callVars, workerVars, countVars,
       InTransaction, Table, Row
  <1>5. DetectedOnce' /\ WorkersWithin' /\ OneWriter' /\ PosterThere'
    BY DEF Inv, DetectedOnce, WorkersWithin, OneWriter, PosterThere,
       SyncConfirm, fileVars, callVars, workerVars, countVars, InTransaction
  <1> QED BY <1>1, <1>2, <1>3, <1>4, <1>5 DEF Inv

\* The retry of failed rows: none of them is in a transaction or being purged.
LEMMA SyncRetryInv ==
    ASSUME Inv, SyncRetry
    PROVE  Inv'
  <1>1. TypeOK'
    <2>1. photos' \in Table
      BY TableStatements DEF Inv, TypeOK, SyncRetry
    <2> QED BY <2>1 DEF Inv, TypeOK, SyncRetry, fileVars, callVars,
       workerVars, countVars
  <1>2. DoneRows'
    BY DEF Inv, TypeOK, DoneRows, SyncRetry, SyncMayWrite, WriteLockFree,
       RetryErrors, fileVars, callVars, workerVars, countVars, InTransaction,
       Table, Row
  <1>3. ClaimsHold'
    BY DEF Inv, TypeOK, ClaimsHold, SyncRetry, SyncMayWrite, WriteLockFree,
       RetryErrors, fileVars, callVars, workerVars, countVars, InTransaction,
       Current, Table, Row
  <1>4. PurgeAlone'
    BY DEF Inv, TypeOK, PurgeAlone, SyncRetry, SyncMayWrite, WriteLockFree,
       RetryErrors, fileVars, callVars, workerVars, countVars, InTransaction,
       Table, Row
  <1>5. DetectedOnce' /\ WorkersWithin' /\ OneWriter' /\ PosterThere'
    BY DEF Inv, DetectedOnce, WorkersWithin, OneWriter, PosterThere,
       SyncRetry, fileVars, callVars, workerVars, countVars, InTransaction
  <1> QED BY <1>1, <1>2, <1>3, <1>4, <1>5 DEF Inv

\* The unlink half of cleanup_deleted removes no thumbnail of a done row.
LEMMA CleanupUnlinkInv ==
    ASSUME Inv, CleanupUnlink
    PROVE  Inv'
  <1>1. TypeOK'
    BY DEF Inv, TypeOK, CleanupUnlink, Purgeable, dbVars, callVars, workerVars,
       countVars
  <1>2. DoneRows'
    BY DEF Inv, TypeOK, DoneRows, CleanupUnlink, Purgeable, dbVars, callVars,
       workerVars, countVars, Table, Row
  <1>3. ClaimsHold'
    BY DEF Inv, TypeOK, ClaimsHold, CleanupUnlink, Purgeable, dbVars,
       callVars, workerVars, countVars, InTransaction, Current, Table, Row
  <1>4. PosterThere'
    BY DEF Inv, TypeOK, PosterThere, CleanupUnlink, Purgeable, dbVars,
       callVars, workerVars, countVars, Table, Row
  <1>5. PurgeAlone'
    BY DEF Inv, TypeOK, PurgeAlone, CleanupUnlink, Purgeable, dbVars,
       callVars, workerVars, countVars, InTransaction, Table, Row
  <1>6. DetectedOnce' /\ WorkersWithin' /\ OneWriter'
    BY DEF Inv, DetectedOnce, WorkersWithin, OneWriter, CleanupUnlink, dbVars,
       callVars, workerVars, countVars, InTransaction
  <1> QED BY <1>1, <1>2, <1>3, <1>4, <1>5, <1>6 DEF Inv

\* The commit half of cleanup_deleted.
LEMMA CleanupPurgeInv ==
    ASSUME Inv, CleanupPurge
    PROVE  Inv'
  <1>1. TypeOK'
    <2>1. photos' \in Table
      BY SetStatements DEF Inv, TypeOK, CleanupPurge
    <2> QED BY <2>1 DEF Inv, TypeOK, CleanupPurge, fileVars, callVars,
       workerVars, countVars
  <1>2. DoneRows'
    <2>1. \A u \in Photos : u \notin purging =>
             photos'[u] = photos[u] /\ detected'[u] = detected[u]
      BY DEF Inv, TypeOK, CleanupPurge, PurgeMedia
    <2>2. \A u \in purging : photos'[u].status # "done"
      BY DEF Inv, TypeOK, Table, Row, PurgeAlone, CleanupPurge, PurgeMedia
    <2> QED BY <2>1, <2>2 DEF Inv, DoneRows, CleanupPurge, fileVars
  <1>3. DetectedOnce'
    BY DEF Inv, TypeOK, DetectedOnce, CleanupPurge, WriteLockFree, PurgeMedia,
       fileVars, callVars, workerVars, countVars, InTransaction, Table, Row
  <1>4. ClaimsHold'
    BY DEF Inv, TypeOK, ClaimsHold, CleanupPurge, WriteLockFree, PurgeMedia,
       fileVars, callVars, workerVars, countVars, InTransaction, Current,
       Table, Row
  <1>5. PurgeAlone'
    BY DEF Inv, TypeOK, PurgeAlone, CleanupPurge, WriteLockFree, PurgeMedia,
       fileVars, callVars, workerVars, countVars, InTransaction, Table, Row
  <1>6. WorkersWithin' /\ OneWriter' /\ PosterThere'
    BY DEF Inv, WorkersWithin, OneWriter, PosterThere, CleanupPurge, fileVars,
       callVars, workerVars, countVars, InTransaction
  <1> QED BY <1>1, <1>2, <1>3, <1>4, <1>5, <1>6 DEF Inv

\* A download claim takes new rows only.
LEMMA DlClaimInv ==
    ASSUME Inv, DlClaim
    PROVE  Inv'
  <1>1. TypeOK'
    <2>1. photos' \in Table
      BY SetStatements DEF Inv, TypeOK, DlClaim
    <2> QED BY <2>1 DEF Inv, TypeOK, DlClaim, fileVars, workerVars, countVars,
       Replies
  <1>2. DoneRows'
    BY DEF Inv, TypeOK, DoneRows, DlClaim, WriteLockFree, ClaimForDownload,
       CallBatch, fileVars, workerVars, countVars, InTransaction, Table, Row
  <1>3. ClaimsHold'
    BY DEF Inv, TypeOK, ClaimsHold, DlClaim, WriteLockFree, ClaimForDownload,
       CallBatch, fileVars, workerVars, countVars, InTransaction, Current,
       Table, Row
  <1>4. PurgeAlone'
    BY DEF Inv, TypeOK, PurgeAlone, DlClaim, WriteLockFree, ClaimForDownload,
       CallBatch, fileVars, workerVars, countVars, InTransaction, Table, Row
  <1>5. DetectedOnce' /\ WorkersWithin' /\ OneWriter' /\ PosterThere'
    BY DEF Inv, DetectedOnce, WorkersWithin, OneWriter, PosterThere, DlClaim,
       fileVars, workerVars, countVars, InTransaction
  <1> QED BY <1>1, <1>2, <1>3, <1>4, <1>5 DEF Inv

\* Releasing the claims of a call that failed for the moment.
LEMMA DlTransientInv ==
    ASSUME Inv, DlTransient
    PROVE  Inv'
  <1>1. TypeOK'
    <2>1. photos' \in Table
      BY SetStatements DEF Inv, TypeOK, DlTransient
    <2>2. abandoned' \subseteq Photos
      BY PipelineAssumption DEF Inv, TypeOK, DlTransient, CallEnds
    <2>3. reply' \in [Photos -> Replies] /\ answered' \in BOOLEAN
      BY DEF DlTransient, CallEnds, Replies
    <2> QED BY <2>1, <2>2, <2>3 DEF Inv, TypeOK, DlTransient, Fault,
               fileVars, workerVars
  <1>2. DoneRows'
    BY DEF Inv, TypeOK, DoneRows, DlTransient, WriteLockFree,
       ReleaseDownloadClaims, CallBatch, CallEnds, Fault, fileVars,
       workerVars, InTransaction, Table, Row
  <1>3. ClaimsHold'
    BY DEF Inv, TypeOK, ClaimsHold, DlTransient, WriteLockFree,
       ReleaseDownloadClaims, CallBatch, CallEnds, Fault, fileVars,
       workerVars, InTransaction, Current, Table, Row
  <1>4. PurgeAlone'
    BY DEF Inv, TypeOK, PurgeAlone, DlTransient, WriteLockFree,
       ReleaseDownloadClaims, CallBatch, CallEnds, Fault, fileVars,
       workerVars, InTransaction, Table, Row
  <1>5. DetectedOnce' /\ WorkersWithin' /\ OneWriter' /\ PosterThere'
    BY DEF Inv, DetectedOnce, WorkersWithin, OneWriter, PosterThere,
       DlTransient, fileVars, workerVars, InTransaction
  <1> QED BY <1>1, <1>2, <1>3, <1>4, <1>5 DEF Inv

\* Failing the claims of a call.
LEMMA DlFailInv ==
    ASSUME Inv, DlFail
    PROVE  Inv'
  <1>1. TypeOK'
    <2>1. photos' \in Table
      BY SetStatements DEF Inv, TypeOK, DlFail
    <2>2. abandoned' \subseteq Photos
      BY PipelineAssumption DEF Inv, TypeOK, DlFail, CallEnds
    <2>3. reply' \in [Photos -> Replies] /\ answered' \in BOOLEAN
      BY DEF DlFail, CallEnds, Replies
    <2> QED BY <2>1, <2>2, <2>3 DEF Inv, TypeOK, DlFail, Fault,
               fileVars, workerVars
  <1>2. DoneRows'
    BY DEF Inv, TypeOK, DoneRows, DlFail, WriteLockFree, SetPhotosError,
       CallBatch, CallEnds, Fault, fileVars, workerVars, InTransaction, Table,
       Row
  <1>3. ClaimsHold'
    BY DEF Inv, TypeOK, ClaimsHold, DlFail, WriteLockFree, SetPhotosError,
       CallBatch, CallEnds, Fault, fileVars, workerVars, InTransaction,
       Current, Table, Row
  <1>4. PurgeAlone'
    BY DEF Inv, TypeOK, PurgeAlone, DlFail, WriteLockFree, SetPhotosError,
       CallBatch, CallEnds, Fault, fileVars, workerVars, InTransaction, Table,
       Row
  <1>5. DetectedOnce' /\ WorkersWithin' /\ OneWriter' /\ PosterThere'
    BY DEF Inv, DetectedOnce, WorkersWithin, OneWriter, PosterThere, DlFail,
       fileVars, workerVars, InTransaction
  <1> QED BY <1>1, <1>2, <1>3, <1>4, <1>5 DEF Inv

\* A call whose outcome is lost.
LEMMA DlDropInv ==
    ASSUME Inv, DlDrop
    PROVE  Inv'
  <1>1. TypeOK'
    <2>1. abandoned' \subseteq Photos
      BY PipelineAssumption DEF Inv, TypeOK, DlDrop, CallEnds
    <2>2. reply' \in [Photos -> Replies] /\ answered' \in BOOLEAN
      BY DEF DlDrop, CallEnds, Replies
    <2> QED BY <2>1, <2>2 DEF Inv, TypeOK, DlDrop, Fault,
               dbVars, fileVars, workerVars
  <1>2. PurgeAlone'
    BY DEF Inv, TypeOK, PurgeAlone, DlDrop, CallEnds, Fault, dbVars, fileVars,
       workerVars, InTransaction, Table, Row
  <1>3. DoneRows' /\ DetectedOnce' /\ WorkersWithin' /\ ClaimsHold' /\ OneWriter' /\ PosterThere'
    BY DEF Inv, DoneRows, DetectedOnce, WorkersWithin, ClaimsHold, OneWriter,
       PosterThere, DlDrop, dbVars, fileVars, workerVars, InTransaction,
       Current
  <1> QED BY <1>1, <1>2, <1>3 DEF Inv

\* One result of a call, written whatever became of the row meanwhile.
LEMMA DlResultInv ==
    ASSUME Inv, NEW u \in Photos, DlResult(u)
    PROVE  Inv'
  <1>1. TypeOK'
    <2>1. SetPhotoDone(photos, u, "empty", Now) \in Table
      BY DoneStatement, NowType DEF Inv, TypeOK
    <2>2. SetPhotoFull(photos, u) \in Table /\ SetPhotosError(photos, {u}) \in Table
      BY RowStatements, SetStatements DEF Inv, TypeOK
    <2>3. photos' \in Table
      BY <2>1, <2>2 DEF Inv, TypeOK, DlResult
    <2>4. pending' \in Queue
      <3>1. pending \in Seq(Photos) /\ Append(pending, u) \in Seq(Photos)
        BY AppendProperties DEF Inv, TypeOK, Queue
      <3> QED BY <3>1 DEF DlResult, Queue
    <2> QED BY <2>3, <2>4 DEF Inv, TypeOK, DlResult, fileVars, workerVars, countVars, Replies
  <1>2. DoneRows'
    <2>1. photos \in Table
      BY DEF Inv, TypeOK
    <2>2. CASE photos' = SetPhotoDone(photos, u, "empty", Now) /\ Kind[u] = "other"
      <3>1. photos'[u].thumb = "empty" /\ \A v \in Photos \ {u} : photos'[v] = photos[v]
        BY <2>1, <2>2, DoneStatement, NowType
      <3> QED BY <2>2, <3>1 DEF Inv, DoneRows, DlResult, fileVars
    <2>3. CASE photos' \in {photos, SetPhotoFull(photos, u), SetPhotosError(photos, {u})}
      <3>1. \A v \in Photos : photos'[v].status = "done" => photos'[v] = photos[v]
        BY <2>1, <2>3 DEF Table, Row, SetPhotoFull, SetPhotosError
      <3> QED BY <3>1 DEF Inv, DoneRows, DlResult, fileVars
    <2> QED BY <2>2, <2>3, StoreAssumption DEF DlResult
  <1>3. ClaimsHold'
    BY DEF Inv, TypeOK, ClaimsHold, DlResult, WriteLockFree, SetPhotoFull,
       SetPhotoDone, SetPhotosError, fileVars, workerVars, countVars,
       InTransaction, Current, Table, Row
  <1>4. PurgeAlone'
    BY DEF Inv, TypeOK, PurgeAlone, DlResult, WriteLockFree, SetPhotoFull,
       SetPhotoDone, SetPhotosError, fileVars, workerVars, countVars,
       InTransaction, Table, Row
  <1>5. DetectedOnce' /\ WorkersWithin' /\ OneWriter' /\ PosterThere'
    BY DEF Inv, DetectedOnce, WorkersWithin, OneWriter, PosterThere, DlResult,
       fileVars, workerVars, countVars, InTransaction
  <1> QED BY <1>1, <1>2, <1>3, <1>4, <1>5 DEF Inv

\* The answer of the bridge.
LEMMA BridgeAnswerInv ==
    ASSUME Inv, BridgeAnswer
    PROVE  Inv'
  <1>1. TypeOK'
    BY DEF Inv, TypeOK, BridgeAnswer, dbVars, fileVars, workerVars, countVars
  <1>2. /\ DoneRows' /\ DetectedOnce' /\ WorkersWithin' /\ ClaimsHold' /\ OneWriter'
        /\ PosterThere' /\ PurgeAlone'
    BY DEF Inv, DoneRows, DetectedOnce, WorkersWithin, ClaimsHold, OneWriter,
       PosterThere, PurgeAlone, BridgeAnswer, dbVars, fileVars, workerVars,
       countVars, InTransaction, Current
  <1> QED BY <1>1, <1>2 DEF Inv

\* The bridge settles one uid.
LEMMA BridgeSettleInv ==
    ASSUME Inv, NEW u \in Photos, BridgeSettle(u)
    PROVE  Inv'
  <1>1. TypeOK'
    BY DEF Inv, TypeOK, BridgeSettle, Fault, dbVars, workerVars, Replies
  <1>2. DoneRows'
    BY DEF Inv, TypeOK, DoneRows, BridgeSettle, dbVars, workerVars, Table, Row
  <1>3. ClaimsHold'
    BY DEF Inv, TypeOK, ClaimsHold, BridgeSettle, dbVars, workerVars,
       InTransaction, Current, Table, Row
  <1>4. PurgeAlone'
    BY DEF Inv, TypeOK, PurgeAlone, BridgeSettle, dbVars, workerVars,
       InTransaction, Table, Row
  <1>5. DetectedOnce' /\ WorkersWithin' /\ OneWriter' /\ PosterThere'
    BY DEF Inv, DetectedOnce, WorkersWithin, OneWriter, PosterThere,
       BridgeSettle, dbVars, workerVars, InTransaction
  <1> QED BY <1>1, <1>2, <1>3, <1>4, <1>5 DEF Inv

\* A late write of the bridge goes to the work directory.
LEMMA BridgeLateWriteInv ==
    ASSUME Inv, NEW u \in Photos, BridgeLateWrite(u)
    PROVE  Inv'
  <1>1. TypeOK'
    BY DEF Inv, TypeOK, BridgeLateWrite, dbVars, workerVars, countVars
  <1>2. /\ DoneRows' /\ DetectedOnce' /\ WorkersWithin' /\ ClaimsHold' /\ OneWriter'
        /\ PosterThere' /\ PurgeAlone'
    BY DEF Inv, DoneRows, DetectedOnce, WorkersWithin, ClaimsHold, OneWriter,
       PosterThere, PurgeAlone, BridgeLateWrite, dbVars, workerVars,
       countVars, InTransaction, Current
  <1> QED BY <1>1, <1>2 DEF Inv

\* The fullres thread claims a row in full.
LEMMA FrPickInv ==
    ASSUME Inv, NEW u \in Photos, FrPick(u)
    PROVE  Inv'
  <1>1. TypeOK'
    <2>1. photos' \in Table
      BY RowStatements DEF Inv, TypeOK, FrPick
    <2> QED BY <2>1 DEF Inv, TypeOK, FrPick, fileVars, callVars, workerVars,
       countVars, Stages
  <1>2. DoneRows'
    BY DEF Inv, TypeOK, DoneRows, FrPick, WriteLockFree, FullresIdle,
       ClaimForFull, fileVars, callVars, workerVars, countVars, InTransaction,
       Table, Row
  <1>3. ClaimsHold'
    BY DEF Inv, TypeOK, ClaimsHold, FrPick, WriteLockFree, FullresIdle,
       ClaimForFull, fileVars, callVars, workerVars, countVars, InTransaction,
       Current, Table, Row
  <1>4. PosterThere'
    BY DEF Inv, TypeOK, PosterThere, FrPick, WriteLockFree, FullresIdle,
       ClaimForFull, fileVars, callVars, workerVars, countVars, InTransaction,
       Table, Row
  <1>5. PurgeAlone'
    BY DEF Inv, TypeOK, PurgeAlone, FrPick, WriteLockFree, FullresIdle,
       ClaimForFull, fileVars, callVars, workerVars, countVars, InTransaction,
       Table, Row
  <1>6. DetectedOnce' /\ WorkersWithin' /\ OneWriter'
    BY DEF Inv, DetectedOnce, WorkersWithin, OneWriter, FrPick, fileVars,
       callVars, workerVars, countVars, InTransaction
  <1> QED BY <1>1, <1>2, <1>3, <1>4, <1>5, <1>6 DEF Inv

\* A decoded original is on disk before its row changes.
LEMMA FrDecodeInv ==
    ASSUME Inv, NEW u \in Photos, FrDecode(u)
    PROVE  Inv'
  <1>1. TypeOK'
    BY DEF Inv, TypeOK, FrDecode, dbVars, callVars, workerVars, countVars,
       Stages
  <1>2. DoneRows'
    BY DEF Inv, TypeOK, DoneRows, FrDecode, dbVars, callVars, workerVars,
       countVars, Table, Row
  <1>3. ClaimsHold'
    BY DEF Inv, TypeOK, ClaimsHold, FrDecode, dbVars, callVars, workerVars,
       countVars, InTransaction, Current, Table, Row
  <1>4. PosterThere'
    BY DEF Inv, TypeOK, PosterThere, FrDecode, dbVars, callVars, workerVars,
       countVars, Table, Row
  <1>5. PurgeAlone'
    BY DEF Inv, TypeOK, PurgeAlone, FrDecode, dbVars, callVars, workerVars,
       countVars, InTransaction, Table, Row
  <1>6. DetectedOnce' /\ WorkersWithin' /\ OneWriter'
    BY DEF Inv, DetectedOnce, WorkersWithin, OneWriter, FrDecode, dbVars,
       callVars, workerVars, countVars, InTransaction
  <1> QED BY <1>1, <1>2, <1>3, <1>4, <1>5, <1>6 DEF Inv

\* A video is done once its poster is there; an image goes to the workers.
LEMMA FrStoreInv ==
    ASSUME Inv, NEW u \in Photos, FrStore(u)
    PROVE  Inv'
  <1>1. TypeOK'
    <2>1. /\ SetPhotoDone(photos, u, "file", Now) \in Table
          /\ [photos EXCEPT ![u].status = "downloading"] \in Table
      BY DoneStatement, RowStatements, NowType DEF Inv, TypeOK
    <2>2. photos' \in Table
      BY <2>1 DEF FrStore
    <2> QED BY <2>2 DEF Inv, TypeOK, FrStore, fileVars, callVars, workerVars, countVars, Stages
  <1>2. DoneRows'
    <2>1. photos \in Table
      BY DEF Inv, TypeOK
    <2>2. CASE Kind[u] = "video"
      <3>1. u \in thumbs
        BY <2>2 DEF Inv, PosterThere, FrStore
      <3>2. photos'[u].thumb = "file" /\ \A v \in Photos \ {u} : photos'[v] = photos[v]
        BY <2>1, <2>2, DoneStatement, NowType DEF FrStore
      <3> QED BY <2>2, <3>1, <3>2 DEF Inv, DoneRows, FrStore, fileVars
    <2>3. CASE Kind[u] # "video"
      <3>1. \A v \in Photos : photos'[v].status = "done" => photos'[v] = photos[v]
        BY <2>1, <2>3 DEF Table, Row, FrStore
      <3> QED BY <3>1 DEF Inv, DoneRows, FrStore, fileVars
    <2> QED BY <2>2, <2>3
  <1>3. ClaimsHold'
    BY DEF Inv, TypeOK, ClaimsHold, FrStore, WriteLockFree, SetPhotoDone,
       fileVars, callVars, workerVars, countVars, InTransaction, Current,
       Table, Row
  <1>4. PosterThere'
    BY DEF Inv, TypeOK, PosterThere, FrStore, WriteLockFree, SetPhotoDone,
       fileVars, callVars, workerVars, countVars, InTransaction, Table, Row
  <1>5. PurgeAlone'
    BY DEF Inv, TypeOK, PurgeAlone, FrStore, WriteLockFree, SetPhotoDone,
       fileVars, callVars, workerVars, countVars, InTransaction, Table, Row
  <1>6. DetectedOnce' /\ WorkersWithin' /\ OneWriter'
    BY DEF Inv, DetectedOnce, WorkersWithin, OneWriter, FrStore, fileVars,
       callVars, workerVars, countVars, InTransaction
  <1> QED BY <1>1, <1>2, <1>3, <1>4, <1>5, <1>6 DEF Inv

\* The fullres thread queues a decoded image.
LEMMA FrQueueInv ==
    ASSUME Inv, NEW u \in Photos, FrQueue(u)
    PROVE  Inv'
  <1>1. TypeOK'
    <2>1. pending' \in Queue
      BY AppendProperties DEF Inv, TypeOK, FrQueue, Queue
    <2> QED BY <2>1 DEF Inv, TypeOK, FrQueue, dbVars, fileVars, callVars, workerVars,
               countVars, Stages
  <1>2. PosterThere'
    BY DEF Inv, TypeOK, PosterThere, FrQueue, dbVars, fileVars, callVars,
       workerVars, countVars, Table, Row
  <1>3. PurgeAlone'
    BY DEF Inv, TypeOK, PurgeAlone, FrQueue, dbVars, fileVars, callVars,
       workerVars, countVars, InTransaction, Table, Row
  <1>4. DoneRows' /\ DetectedOnce' /\ WorkersWithin' /\ ClaimsHold' /\ OneWriter'
    BY DEF Inv, DoneRows, DetectedOnce, WorkersWithin, ClaimsHold, OneWriter,
       FrQueue, dbVars, fileVars, callVars, workerVars, countVars,
       InTransaction, Current
  <1> QED BY <1>1, <1>2, <1>3, <1>4 DEF Inv

\* A full-res download failed for the moment.
LEMMA FrTransientInv ==
    ASSUME Inv, NEW u \in Photos, FrTransient(u)
    PROVE  Inv'
  <1>1. TypeOK'
    <2>1. photos' \in Table
      BY RowStatements, NowType DEF Inv, TypeOK, FrTransient
    <2> QED BY <2>1 DEF Inv, TypeOK, FrTransient, Fault, fileVars, callVars,
       workerVars, Stages
  <1>2. DoneRows'
    BY DEF Inv, TypeOK, DoneRows, FrTransient, WriteLockFree, Fault, fileVars,
       callVars, workerVars, InTransaction, Table, Row
  <1>3. ClaimsHold'
    BY DEF Inv, TypeOK, ClaimsHold, FrTransient, WriteLockFree, Fault,
       fileVars, callVars, workerVars, InTransaction, Current, Table, Row
  <1>4. PosterThere'
    BY DEF Inv, TypeOK, PosterThere, FrTransient, WriteLockFree, Fault,
       fileVars, callVars, workerVars, InTransaction, Table, Row
  <1>5. PurgeAlone'
    BY DEF Inv, TypeOK, PurgeAlone, FrTransient, WriteLockFree, Fault,
       fileVars, callVars, workerVars, InTransaction, Table, Row
  <1>6. DetectedOnce' /\ WorkersWithin' /\ OneWriter'
    BY DEF Inv, DetectedOnce, WorkersWithin, OneWriter, FrTransient, fileVars,
       callVars, workerVars, InTransaction
  <1> QED BY <1>1, <1>2, <1>3, <1>4, <1>5, <1>6 DEF Inv

\* A full-res download failed.
LEMMA FrFailInv ==
    ASSUME Inv, NEW u \in Photos, FrFail(u)
    PROVE  Inv'
  <1>1. TypeOK'
    <2>1. photos' \in Table
      BY SetStatements DEF Inv, TypeOK, FrFail
    <2> QED BY <2>1 DEF Inv, TypeOK, FrFail, Fault, fileVars, callVars,
       workerVars, Stages
  <1>2. DoneRows'
    BY DEF Inv, TypeOK, DoneRows, FrFail, WriteLockFree, Fault,
       SetPhotosError, fileVars, callVars, workerVars, InTransaction, Table,
       Row
  <1>3. ClaimsHold'
    BY DEF Inv, TypeOK, ClaimsHold, FrFail, WriteLockFree, Fault,
       SetPhotosError, fileVars, callVars, workerVars, InTransaction, Current,
       Table, Row
  <1>4. PosterThere'
    BY DEF Inv, TypeOK, PosterThere, FrFail, WriteLockFree, Fault,
       SetPhotosError, fileVars, callVars, workerVars, InTransaction, Table,
       Row
  <1>5. PurgeAlone'
    BY DEF Inv, TypeOK, PurgeAlone, FrFail, WriteLockFree, Fault,
       SetPhotosError, fileVars, callVars, workerVars, InTransaction, Table,
       Row
  <1>6. DetectedOnce' /\ WorkersWithin' /\ OneWriter'
    BY DEF Inv, DetectedOnce, WorkersWithin, OneWriter, FrFail, fileVars,
       callVars, workerVars, InTransaction
  <1> QED BY <1>1, <1>2, <1>3, <1>4, <1>5, <1>6 DEF Inv

\* A full-res download whose outcome is lost.
LEMMA FrDropInv ==
    ASSUME Inv, NEW u \in Photos, FrDrop(u)
    PROVE  Inv'
  <1>1. TypeOK'
    BY DEF Inv, TypeOK, FrDrop, Fault, dbVars, fileVars, callVars, workerVars,
       Stages
  <1>2. PosterThere'
    BY DEF Inv, TypeOK, PosterThere, FrDrop, Fault, dbVars, fileVars,
       callVars, workerVars, Table, Row
  <1>3. PurgeAlone'
    BY DEF Inv, TypeOK, PurgeAlone, FrDrop, Fault, dbVars, fileVars, callVars,
       workerVars, InTransaction, Table, Row
  <1>4. DoneRows' /\ DetectedOnce' /\ WorkersWithin' /\ ClaimsHold' /\ OneWriter'
    BY DEF Inv, DoneRows, DetectedOnce, WorkersWithin, ClaimsHold, OneWriter,
       FrDrop, dbVars, fileVars, callVars, workerVars, InTransaction, Current
  <1> QED BY <1>1, <1>2, <1>3, <1>4 DEF Inv

\* A worker takes a batch from the queue.
LEMMA WkTakeInv ==
    ASSUME Inv, NEW w \in Workers, WkTake(w)
    PROVE  Inv'
  <1>1. TypeOK'
    <2>1. batch' \in [Workers -> Queue] /\ pending' \in Queue
      BY TakeSplits DEF Inv, TypeOK
    <2> QED BY <2>1 DEF Inv, TypeOK, WkTake, dbVars, fileVars, callVars, countVars, WorkerStates
  <1>2. WorkersWithin'
    BY TakeSplits DEF Inv, TypeOK, WorkersWithin, WkTake
  <1>3. ClaimsHold'
    BY DEF Inv, TypeOK, ClaimsHold, WkTake, dbVars, fileVars, callVars,
       countVars, InTransaction, Current, Table, Row
  <1>4. OneWriter'
    BY DEF Inv, TypeOK, OneWriter, WkTake, dbVars, fileVars, callVars,
       countVars, InTransaction, Table, Row
  <1>5. DoneRows' /\ DetectedOnce' /\ PosterThere' /\ PurgeAlone'
    BY DEF Inv, DoneRows, DetectedOnce, PosterThere, PurgeAlone, WkTake,
       dbVars, fileVars, callVars, countVars
  <1> QED BY <1>1, <1>2, <1>3, <1>4, <1>5 DEF Inv

\* A worker takes a row that is not queued.
LEMMA WkFallbackInv ==
    ASSUME Inv, NEW w \in Workers, WkFallback(w)
    PROVE  Inv'
  <1>1. TypeOK'
    <2>1. batch' \in [Workers -> Queue]
      BY DEF Inv, TypeOK, WkFallback, Queue
    <2> QED BY <2>1 DEF Inv, TypeOK, WkFallback, dbVars, fileVars, callVars, countVars,
               WorkerStates
  <1>2. WorkersWithin'
    <2>1. PICK u \in Photos : batch' = [batch EXCEPT ![w] = <<u>>]
      BY DEF WkFallback
    <2>2. <<u>> # <<>> /\ 1 \in 1 .. Len(<<u>>)
      OBVIOUS
    <2> QED BY <2>1, <2>2 DEF Inv, TypeOK, WorkersWithin, WkFallback
  <1>3. ClaimsHold'
    BY DEF Inv, TypeOK, ClaimsHold, WkFallback, dbVars, fileVars, callVars,
       countVars, InTransaction, Current, Table, Row
  <1>4. OneWriter'
    BY DEF Inv, TypeOK, OneWriter, WkFallback, dbVars, fileVars, callVars,
       countVars, InTransaction, Table, Row
  <1>5. DoneRows' /\ DetectedOnce' /\ PosterThere' /\ PurgeAlone'
    BY DEF Inv, DoneRows, DetectedOnce, PosterThere, PurgeAlone, WkFallback,
       dbVars, fileVars, callVars, countVars
  <1> QED BY <1>1, <1>2, <1>3, <1>4, <1>5 DEF Inv

\* The CLIP run of a batch.
LEMMA WkEmbedInv ==
    ASSUME Inv, NEW w \in Workers, WkEmbed(w)
    PROVE  Inv'
  <1>1. TypeOK'
    BY DEF Inv, TypeOK, WkEmbed, Fault, dbVars, fileVars, callVars,
       WorkerStates
  <1>2. WorkersWithin'
    BY DEF Inv, TypeOK, WorkersWithin, WkEmbed, Fault, dbVars, fileVars,
       callVars, Table, Row
  <1>3. ClaimsHold'
    BY DEF Inv, TypeOK, ClaimsHold, WkEmbed, Fault, dbVars, fileVars,
       callVars, InTransaction, Current, Table, Row
  <1>4. OneWriter'
    BY DEF Inv, TypeOK, OneWriter, WkEmbed, Fault, dbVars, fileVars, callVars,
       InTransaction, Table, Row
  <1>5. DoneRows' /\ DetectedOnce' /\ PosterThere' /\ PurgeAlone'
    BY DEF Inv, DoneRows, DetectedOnce, PosterThere, PurgeAlone, WkEmbed,
       dbVars, fileVars, callVars
  <1> QED BY <1>1, <1>2, <1>3, <1>4, <1>5 DEF Inv

\* The claim opens the only transaction.
LEMMA WkClaimInv ==
    ASSUME Inv, NEW w \in Workers, WkClaim(w)
    PROVE  Inv'
  <1>1. TypeOK'
    <2>1. CASE photos[Current(w)].status = "downloading"
      BY <2>1 DEF Inv, TypeOK, WkClaim, dbVars, fileVars, callVars, countVars, WorkerStates
    <2>2. CASE photos[Current(w)].status # "downloading"
      BY <2>2, AdvanceWithin DEF Inv, TypeOK, WkClaim, dbVars, fileVars, callVars, countVars
    <2> QED BY <2>1, <2>2
  <1>2. DoneRows'
    BY DEF Inv, TypeOK, DoneRows, WkClaim, WriteLockFree, Advance, dbVars,
       fileVars, callVars, countVars, InTransaction, Current, Table, Row
  <1>3. WorkersWithin'
    <2>1. CASE photos[Current(w)].status = "downloading"
      BY <2>1 DEF Inv, TypeOK, WorkersWithin, WkClaim
    <2>2. CASE photos[Current(w)].status # "downloading"
      BY <2>2, AdvanceWithin DEF WkClaim
    <2> QED BY <2>1, <2>2
  <1>4. ClaimsHold'
    BY DEF Inv, TypeOK, ClaimsHold, WkClaim, WriteLockFree, Advance, dbVars,
       fileVars, callVars, countVars, InTransaction, Current, Table, Row
  <1>5. OneWriter'
    BY DEF Inv, TypeOK, OneWriter, WkClaim, WriteLockFree, Advance, dbVars,
       fileVars, callVars, countVars, InTransaction, Current, Table, Row
  <1>6. PurgeAlone'
    BY DEF Inv, TypeOK, PurgeAlone, WkClaim, WriteLockFree, Advance, dbVars,
       fileVars, callVars, countVars, InTransaction, Current, Table, Row
  <1>7. DetectedOnce' /\ PosterThere'
    BY DEF Inv, DetectedOnce, PosterThere, WkClaim, dbVars, fileVars,
       callVars, countVars
  <1> QED BY <1>1, <1>2, <1>3, <1>4, <1>5, <1>6, <1>7 DEF Inv

\* A claimed photo without a work file fails.
LEMMA WkMissingInv ==
    ASSUME Inv, NEW w \in Workers, WkMissing(w)
    PROVE  Inv'
  <1>1. TypeOK'
    <2>1. photos' \in Table
      BY SetStatements DEF Inv, TypeOK, WkMissing
    <2>2. /\ batch' \in [Workers -> Queue] /\ pos' \in [Workers -> Nat]
          /\ wstate' \in [Workers -> WorkerStates]
      BY AdvanceWithin DEF WkMissing
    <2> QED BY <2>1, <2>2 DEF Inv, TypeOK, WkMissing, fileVars, callVars, countVars
  <1>2. DoneRows'
    BY DEF Inv, TypeOK, DoneRows, WkMissing, Advance, SetPhotosError,
       fileVars, callVars, countVars, Current, Table, Row
  <1>3. WorkersWithin'
    BY AdvanceWithin DEF WkMissing
  <1>4. ClaimsHold'
    <2>1. \A v \in Workers : ~InTransaction(v)'
      BY AdvanceWithin DEF Inv, OneWriter, InTransaction, WkMissing
    <2> QED BY <2>1 DEF ClaimsHold
  <1>5. OneWriter'
    BY DEF Inv, TypeOK, OneWriter, WkMissing, Advance, SetPhotosError,
       fileVars, callVars, countVars, InTransaction, Current, Table, Row
  <1>6. PurgeAlone'
    BY DEF Inv, TypeOK, PurgeAlone, WkMissing, Advance, SetPhotosError,
       fileVars, callVars, countVars, InTransaction, Current, Table, Row
  <1>7. DetectedOnce' /\ PosterThere'
    BY DEF Inv, DetectedOnce, PosterThere, WkMissing, fileVars, callVars,
       countVars
  <1> QED BY <1>1, <1>2, <1>3, <1>4, <1>5, <1>6, <1>7 DEF Inv

\* The work file becomes the thumbnail.
LEMMA WkMoveInv ==
    ASSUME Inv, NEW w \in Workers, WkMove(w)
    PROVE  Inv'
  <1>1. TypeOK'
    BY DEF Inv, TypeOK, WkMove, dbVars, callVars, countVars, Current,
       WorkerStates
  <1>2. DoneRows'
    BY DEF Inv, TypeOK, DoneRows, WkMove, dbVars, callVars, countVars,
       Current, Table, Row
  <1>3. WorkersWithin'
    BY DEF Inv, TypeOK, WorkersWithin, WkMove, dbVars, callVars, countVars,
       Current, Table, Row
  <1>4. ClaimsHold'
    BY DEF Inv, TypeOK, ClaimsHold, WkMove, dbVars, callVars, countVars,
       InTransaction, Current, Table, Row
  <1>5. OneWriter'
    BY DEF Inv, TypeOK, OneWriter, WkMove, dbVars, callVars, countVars,
       InTransaction, Current, Table, Row
  <1>6. PosterThere'
    BY DEF Inv, TypeOK, PosterThere, WkMove, dbVars, callVars, countVars,
       Current, Table, Row
  <1>7. DetectedOnce' /\ PurgeAlone'
    BY DEF Inv, DetectedOnce, PurgeAlone, WkMove, dbVars, callVars, countVars
  <1> QED BY <1>1, <1>2, <1>3, <1>4, <1>5, <1>6, <1>7 DEF Inv

\* The commit of a worker completes the row: its thumbnail is there, and its
\* faces are those of one run.
LEMMA WkCommitInv ==
    ASSUME Inv, NEW w \in Workers, WkCommit(w)
    PROVE  Inv'
  <1>1. TypeOK'
    <2>1. Current(w) \in Photos
      BY CurrentType DEF WkCommit
    <2>2. photos' \in Table
      BY <2>1, DoneStatement, NowType DEF Inv, TypeOK, WkCommit
    <2>3. /\ batch' \in [Workers -> Queue] /\ pos' \in [Workers -> Nat]
          /\ wstate' \in [Workers -> WorkerStates]
      BY AdvanceWithin DEF WkCommit
    <2>4. detected' \in [Photos -> Nat]
      BY DEF Inv, TypeOK, WkCommit
    <2> QED BY <2>2, <2>3, <2>4 DEF Inv, TypeOK, WkCommit, fileVars, callVars, countVars
  <1>2. DoneRows'
    <2> DEFINE c == Current(w)
    <2>1. c \in Photos /\ c \in thumbs
      BY CurrentType DEF Inv, ClaimsHold, InTransaction, WkCommit
    <2>2. photos \in Table /\ photos' = SetPhotoDone(photos, c, "file", Now)
      BY DEF Inv, TypeOK, WkCommit
    <2>3. /\ photos'[c].thumb = "file"
          /\ \A u \in Photos \ {c} : photos'[u] = photos[u]
      BY <2>1, <2>2, DoneStatement, NowType
    <2>4. detected'[c] = 1 /\ \A u \in Photos \ {c} : detected'[u] = detected[u]
      BY <2>1 DEF Inv, TypeOK, DetectedOnce, WkCommit
    <2> QED BY <2>1, <2>3, <2>4 DEF Inv, DoneRows, WkCommit, fileVars
  <1>3. DetectedOnce'
    BY DEF Inv, TypeOK, DetectedOnce, WkCommit, Advance, SetPhotoDone,
       fileVars, callVars, countVars, Current, Table, Row
  <1>4. WorkersWithin'
    BY AdvanceWithin DEF WkCommit
  <1>5. ClaimsHold'
    <2>1. \A v \in Workers : ~InTransaction(v)'
      BY AdvanceWithin DEF Inv, OneWriter, InTransaction, WkCommit
    <2> QED BY <2>1 DEF ClaimsHold
  <1>6. OneWriter'
    BY DEF Inv, TypeOK, OneWriter, WkCommit, Advance, SetPhotoDone, fileVars,
       callVars, countVars, InTransaction, Current, Table, Row
  <1>7. PurgeAlone'
    <2> DEFINE c == Current(w)
    <2>1. c \in Photos /\ c \notin purging
      BY CurrentType DEF Inv, ClaimsHold, PurgeAlone, InTransaction, WkCommit
    <2>2. photos \in Table /\ photos' = SetPhotoDone(photos, c, "file", Now)
      BY DEF Inv, TypeOK, WkCommit
    <2>3. \A u \in Photos \ {c} : photos'[u] = photos[u]
      BY <2>1, <2>2, DoneStatement, NowType, SMTT(30)
    <2> QED BY <2>1, <2>3 DEF Inv, TypeOK, PurgeAlone, WkCommit, callVars
  <1>8. PosterThere'
    BY DEF Inv, PosterThere, WkCommit, fileVars, callVars, countVars
  <1> QED BY <1>1, <1>2, <1>3, <1>4, <1>5, <1>6, <1>7, <1>8 DEF Inv

\* An exception rolls the transaction back.
LEMMA WkRaiseInv ==
    ASSUME Inv, NEW w \in Workers, WkRaise(w)
    PROVE  Inv'
  <1>1. TypeOK'
    BY DEF Inv, TypeOK, WkRaise, Fault, dbVars, fileVars, callVars,
       WorkerStates
  <1>2. WorkersWithin'
    BY DEF Inv, TypeOK, WorkersWithin, WkRaise, InTransaction
  <1>3. ClaimsHold'
    BY DEF Inv, TypeOK, ClaimsHold, WkRaise, Fault, dbVars, fileVars,
       callVars, InTransaction, Current, Table, Row
  <1>4. OneWriter'
    BY DEF Inv, TypeOK, OneWriter, WkRaise, Fault, dbVars, fileVars, callVars,
       InTransaction, Table, Row
  <1>5. DoneRows' /\ DetectedOnce' /\ PosterThere' /\ PurgeAlone'
    BY DEF Inv, DoneRows, DetectedOnce, PosterThere, PurgeAlone, WkRaise,
       dbVars, fileVars, callVars
  <1> QED BY <1>1, <1>2, <1>3, <1>4, <1>5 DEF Inv

\* The failed uid is recorded.
LEMMA WkSetErrorInv ==
    ASSUME Inv, NEW w \in Workers, WkSetError(w)
    PROVE  Inv'
  <1>1. TypeOK'
    <2>1. photos' \in Table
      BY SetStatements DEF Inv, TypeOK, WkSetError
    <2>2. /\ batch' \in [Workers -> Queue] /\ pos' \in [Workers -> Nat]
          /\ wstate' \in [Workers -> WorkerStates]
      BY AdvanceWithin DEF WkSetError
    <2> QED BY <2>1, <2>2 DEF Inv, TypeOK, WkSetError, fileVars, callVars, countVars
  <1>2. DoneRows'
    BY DEF Inv, TypeOK, DoneRows, WkSetError, WriteLockFree, Advance,
       SetPhotosError, fileVars, callVars, countVars, InTransaction, Current,
       Table, Row
  <1>3. WorkersWithin'
    BY AdvanceWithin DEF WkSetError
  <1>4. ClaimsHold'
    BY DEF Inv, TypeOK, ClaimsHold, WkSetError, WriteLockFree, Advance,
       SetPhotosError, fileVars, callVars, countVars, InTransaction, Current,
       Table, Row
  <1>5. OneWriter'
    BY DEF Inv, TypeOK, OneWriter, WkSetError, WriteLockFree, Advance,
       SetPhotosError, fileVars, callVars, countVars, InTransaction, Current,
       Table, Row
  <1>6. PurgeAlone'
    BY DEF Inv, TypeOK, PurgeAlone, WkSetError, WriteLockFree, Advance,
       SetPhotosError, fileVars, callVars, countVars, InTransaction, Current,
       Table, Row
  <1>7. DetectedOnce' /\ PosterThere'
    BY DEF Inv, DetectedOnce, PosterThere, WkSetError, fileVars, callVars,
       countVars
  <1> QED BY <1>1, <1>2, <1>3, <1>4, <1>5, <1>6, <1>7 DEF Inv

\* Recording it fails as well.
LEMMA WkSetErrorFailsInv ==
    ASSUME Inv, NEW w \in Workers, WkSetErrorFails(w)
    PROVE  Inv'
  <1>1. TypeOK'
    <2>1. batch' \in [Workers -> Queue]
      BY EmptyQueue DEF Inv, TypeOK, WkSetErrorFails
    <2>2. wstate' \in [Workers -> WorkerStates]
      BY DEF Inv, TypeOK, WkSetErrorFails, WorkerStates
    <2> QED BY <2>1, <2>2 DEF Inv, TypeOK, WkSetErrorFails, Fault, dbVars, fileVars, callVars
  <1>2. WorkersWithin'
    BY DEF Inv, TypeOK, WorkersWithin, WkSetErrorFails, Fault, dbVars,
       fileVars, callVars, Table, Row
  <1>3. ClaimsHold'
    BY DEF Inv, TypeOK, ClaimsHold, WkSetErrorFails, Fault, dbVars, fileVars,
       callVars, InTransaction, Current, Table, Row
  <1>4. OneWriter'
    BY DEF Inv, TypeOK, OneWriter, WkSetErrorFails, Fault, dbVars, fileVars,
       callVars, InTransaction, Table, Row
  <1>5. DoneRows' /\ DetectedOnce' /\ PosterThere' /\ PurgeAlone'
    BY DEF Inv, DoneRows, DetectedOnce, PosterThere, PurgeAlone,
       WkSetErrorFails, dbVars, fileVars, callVars
  <1> QED BY <1>1, <1>2, <1>3, <1>4, <1>5 DEF Inv

\* The first start finds the invariant true.
LEMMA InitInv ==
    ASSUME Init
    PROVE  Inv
  <1>1. photos \in Table
    <2>1. NoTime \in Int /\ Now \in Int
      BY DEF NoTime, Now
    <2>2. NoRow \in Row
      BY <2>1 DEF NoRow, Row, Statuses
    <2>3. [NoRow EXCEPT !.status = "processing"] \in Row
      BY <2>2 DEF Row, Statuses
    <2>4. [NoRow EXCEPT !.status = "done", !.thumb = "empty", !.processedAt = Now] \in Row
      BY <2>1, <2>2 DEF Row, Statuses
    <2> QED BY <2>2, <2>3, <2>4 DEF Init, Table, LeftBehind
  <1>2. TypeOK
    BY <1>1, EmptyQueue DEF Init, TypeOK, Replies, Stages, WorkerStates
  <1>3. DoneRows
    <2> DEFINE dead == [NoRow EXCEPT !.status = "processing"]
               old == [NoRow EXCEPT !.status = "done", !.thumb = "empty",
                                    !.processedAt = Now]
    <2>a. NoRow.status = "absent" /\ dead.status = "processing" /\ old.thumb = "empty"
      BY DEF NoRow
    <2> HIDE DEF dead, old
    <2>1. \A r \in {NoRow, dead, old} : r.status = "done" => r.thumb = "empty"
      BY <2>a
    <2> USE DEF dead, old
    <2>2. \A u \in Photos : photos[u] \in {NoRow, dead, old}
      BY DEF Init, LeftBehind
    <2> HIDE DEF dead, old
    <2> QED BY <2>1, <2>2 DEF Init, DoneRows
  <1>4. /\ DetectedOnce /\ WorkersWithin /\ ClaimsHold /\ OneWriter /\ PosterThere
        /\ PurgeAlone
    BY DEF Init, DetectedOnce, WorkersWithin, ClaimsHold, OneWriter, PosterThere,
           PurgeAlone, InTransaction
  <1> QED BY <1>2, <1>3, <1>4 DEF Inv

\* And every step of every thread keeps it.
LEMMA NextInv ==
    ASSUME Inv, [Next]_vars
    PROVE  Inv'
  <1>1. CASE Start \/ Crash
    BY <1>1, StartInv, CrashInv
  <1>2. CASE SyncStep
    BY <1>2, SyncUpsertInv, SyncStageInv, SyncConfirmInv, SyncRetryInv, CleanupUnlinkInv,
       CleanupPurgeInv DEF SyncStep
  <1>3. CASE DownloaderStep
    BY <1>3, DlClaimInv, DlTransientInv, DlFailInv, DlDropInv, DlResultInv DEF DownloaderStep
  <1>4. CASE BridgeStep
    BY <1>4, BridgeAnswerInv, BridgeSettleInv, BridgeLateWriteInv DEF BridgeStep
  <1>5. CASE FullresStep
    BY <1>5, FrPickInv, FrDecodeInv, FrStoreInv, FrQueueInv, FrTransientInv, FrFailInv,
       FrDropInv DEF FullresStep
  <1>6. ASSUME NEW w \in Workers, WorkerStep(w)
        PROVE  Inv'
    BY <1>6, WkTakeInv, WkFallbackInv, WkEmbedInv, WkClaimInv, WkMissingInv, WkMoveInv,
       WkCommitInv, WkRaiseInv, WkSetErrorInv, WkSetErrorFailsInv DEF WorkerStep
  <1>7. CASE UNCHANGED vars
    BY <1>7 DEF vars, Inv, TypeOK, DoneRows, DetectedOnce, WorkersWithin, ClaimsHold,
                OneWriter, PosterThere, PurgeAlone, InTransaction, Current
  <1> QED BY <1>1, <1>2, <1>3, <1>4, <1>5, <1>6, <1>7 DEF Next

(***************************************************************************)
(* The theorems.                                                           *)
(***************************************************************************)

\* The invariant holds in every reachable state of the indexer.
THEOREM Invariance == Spec => []Inv
  <1>1. Init => Inv
    BY InitInv
  <1>2. Inv /\ [Next]_vars => Inv'
    BY NextInv
  <1> QED BY <1>1, <1>2, PTL DEF Spec

\* Type correctness of the indexer.
THEOREM TypeCorrect == Spec => []TypeOK
  <1>1. Inv => TypeOK
    BY DEF Inv
  <1> QED BY <1>1, Invariance, PTL

\* While the indexer runs, every photo it shows as done has its thumbnail on
\* disk and the faces of one detector run, whatever the threads did meanwhile.
THEOREM Completeness == Spec => []DoneIsComplete
  <1>1. Inv => DoneIsComplete
    BY DEF Inv, DoneRows, DoneIsComplete, Complete
  <1> QED BY <1>1, Invariance, PTL

\* No photo has the faces of two detector runs.
THEOREM SingleDetection == Spec => []OneDetectorRun
  <1>1. ASSUME Inv
        PROVE  OneDetectorRun
    <2>1. \A u \in Photos : detected[u] = 0 \/ detected[u] = 1
      BY <1>1 DEF Inv, DetectedOnce
    <2>2. 0 <= 1 /\ 1 <= 1
      OBVIOUS
    <2>3. \A u \in Photos : detected[u] <= 1
      BY <2>1, <2>2, Zenon
    <2> QED BY <2>3 DEF OneDetectorRun
  <1> QED BY <1>1, Invariance, PTL

\* No step of the indexer takes thumbnail or faces from a photo that is not
\* confirmed deleted (or, since, failed): the purge is alone with its rows.
THEOREM MediaKept == Spec => MediaKeptUnlessDeleted
  <1> DEFINE Kept == \A u \in Photos :
                        (u \in thumbs /\ u \notin thumbs') \/ detected'[u] < detected[u]
                           => photos[u].status \in {"deleted", "error"}
             Frame == thumbs \subseteq thumbs' /\ detected' = detected
  <1>1. ASSUME Inv, [Next]_vars
        PROVE  Kept
    <2>0. detected \in [Photos -> Nat]
      BY <1>1 DEF Inv, TypeOK
    <2>1. ASSUME Frame
          PROVE  Kept
      BY <2>0, <2>1
    <2>2. CASE Start \/ Crash
      BY <2>1, <2>2 DEF Start, Crash, dbVars, fileVars
    <2>3. CASE SyncUpsert \/ SyncStage \/ SyncConfirm \/ SyncRetry
      BY <2>1, <2>3 DEF SyncUpsert, SyncStage, SyncConfirm, SyncRetry, fileVars
    <2>4. CASE CleanupUnlink
      BY <2>0, <2>4 DEF CleanupUnlink, Purgeable, dbVars
    <2>5. CASE CleanupPurge
      <3>1. \A u \in purging : photos[u].status \in {"deleted", "error"}
        BY <1>1 DEF Inv, PurgeAlone
      <3>2. \A u \in Photos : u \notin purging => detected'[u] = detected[u]
        BY <2>0, <2>5 DEF CleanupPurge
      <3> QED BY <2>0, <2>5, <3>1, <3>2 DEF CleanupPurge, fileVars
    <2>6. CASE DownloaderStep
      BY <2>1, <2>6 DEF DownloaderStep, DlClaim, DlTransient, DlFail, DlDrop, DlResult,
                        dbVars, fileVars
    <2>7. CASE BridgeStep
      BY <2>1, <2>7 DEF BridgeStep, BridgeAnswer, BridgeSettle, BridgeLateWrite, dbVars,
                        fileVars
    <2>8. CASE FullresStep
      BY <2>1, <2>8 DEF FullresStep, FrPick, FrDecode, FrStore, FrQueue, FrTransient,
                        FrFail, FrDrop, dbVars, fileVars
    <2>9. ASSUME NEW w \in Workers, WkCommit(w)
          PROVE  Kept
      <3>1. \A u \in Photos : detected'[u] = detected[u] \/ (detected[u] = 0 /\ detected'[u] = 1)
        BY <2>0, <2>9 DEF WkCommit
      <3> QED BY <2>0, <2>9, <3>1 DEF WkCommit, fileVars
    <2>10. ASSUME NEW w \in Workers, WorkerStep(w), ~WkCommit(w)
           PROVE  Kept
      BY <2>1, <2>10 DEF WorkerStep, WkTake, WkFallback, WkEmbed, WkClaim, WkMissing, WkMove,
                         WkRaise, WkSetError, WkSetErrorFails, dbVars, fileVars
    <2>11. CASE UNCHANGED vars
      BY <2>1, <2>11 DEF vars
    <2> QED BY <1>1, <2>2, <2>3, <2>4, <2>5, <2>6, <2>7, <2>8, <2>9, <2>10, <2>11
            DEF Next, SyncStep
  <1>2. [][Inv /\ [Next]_vars => Kept]_vars
    BY <1>1, PTL
  <1> QED BY <1>1, Invariance, PTL DEF Spec, MediaKeptUnlessDeleted

\* No statement but claim_photo_for_full puts a row into a claim status.
LEMMA NoNewClaim ==
    ASSUME NEW t \in Table, NEW S, NEW now, NEW u \in Photos,
           NEW r \in {UpsertPhotos(t, S)[u], MarkPendingRemoval(t, S, now)[u],
                      ConfirmDeletions(t, S, now)[u], RetryErrors(t)[u], PurgeMedia(t, S)[u],
                      ClaimForDownload(t, S)[u], ReleaseDownloadClaims(t, S)[u],
                      SetPhotosError(t, S)[u], BackfillFullres(t)[u],
                      ResetStuckFullres(t, S)[u]},
           r.status \in {"processing", "fullres"}
    PROVE  r.status = t[u].status
  <1>0. t[u] \in Row
    BY DEF Table
  <1>1. CASE r = UpsertPhotos(t, S)[u]
    BY <1>0, <1>1 DEF UpsertPhotos, Row
  <1>2. CASE r = MarkPendingRemoval(t, S, now)[u] \/ r = ConfirmDeletions(t, S, now)[u]
    BY <1>0, <1>2 DEF MarkPendingRemoval, ConfirmDeletions, Row
  <1>3. CASE r = RetryErrors(t)[u] \/ r = PurgeMedia(t, S)[u]
    BY <1>0, <1>3 DEF RetryErrors, PurgeMedia, Row
  <1>4. CASE r = ClaimForDownload(t, S)[u] \/ r = ReleaseDownloadClaims(t, S)[u]
    BY <1>0, <1>4 DEF ClaimForDownload, ReleaseDownloadClaims, Row
  <1>5. CASE r = SetPhotosError(t, S)[u] \/ r = BackfillFullres(t)[u]
    BY <1>0, <1>5 DEF SetPhotosError, BackfillFullres, Row
  <1>6. CASE r = ResetStuckFullres(t, S)[u]
    <2> DEFINE next == IF t[u].retry < MaxRetryPark THEN "new" ELSE "error"
               kept == [t[u] EXCEPT !.status = next, !.retry = @ + 1]
    <2>1. r = kept \/ r = t[u]
      BY <1>6 DEF ResetStuckFullres
    <2>2. kept.status = next
      BY <1>0 DEF Row
    <2>3. next \notin {"processing", "fullres"}
      OBVIOUS
    <2> HIDE DEF kept, next
    <2> QED BY <2>1, <2>2, <2>3
  <1> QED BY <1>1, <1>2, <1>3, <1>4, <1>5, <1>6

\* Claims without an owner come from writes that fail; without such failures
\* every step keeps NoStrandedClaim.
LEMMA StrandNext ==
    ASSUME ~DbMayFail, Inv, NoStrandedClaim, [Next]_vars
    PROVE  NoStrandedClaim'
  <1> DEFINE Claimed == {"processing", "fullres"}
             Quiet == /\ up' => up
                      /\ fullres' = fullres
                      /\ \A p \in Photos : photos'[p].status \in Claimed =>
                            photos'[p].status = photos[p].status
  <1>0. photos \in [Photos -> Row] /\ photos \in Table /\ fullres \in [Photos -> Stages]
    BY DEF Inv, TypeOK, Table
  <1>1. ASSUME Quiet
        PROVE  NoStrandedClaim'
    BY <1>1 DEF NoStrandedClaim
  <1>2. CASE Start
    <2>1. PICK old \in SUBSET Photos :
            photos' = ResetStuckFullres(BackfillFullres(ResetClaims(photos)), old)
      BY <1>2 DEF Start
    <2> DEFINE t1 == ResetClaims(photos)
               t2 == BackfillFullres(t1)
    <2>2. t1 \in Table /\ t2 \in Table
      BY <1>0, TableStatements
    <2>3. \A p \in Photos : t1[p].status \notin Claimed
      BY <1>0 DEF ResetClaims, Row
    <2> HIDE DEF t1
    <2>4. \A p \in Photos : t2[p].status \notin Claimed
      BY <2>2, <2>3, NoNewClaim
    <2> HIDE DEF t2
    <2>5. \A p \in Photos : ResetStuckFullres(t2, old)[p].status \notin Claimed
      BY <2>2, <2>4, NoNewClaim
    <2>6. photos' = ResetStuckFullres(t2, old)
      BY <2>1 DEF t1, t2
    <2> QED BY <2>5, <2>6 DEF NoStrandedClaim
  <1>3. CASE Crash
    BY <1>3 DEF Crash, NoStrandedClaim
  <1>4. CASE SyncUpsert
    <2>1. PICK S : photos' = UpsertPhotos(photos, S)
      BY <1>4 DEF SyncUpsert
    <2>2. \A p \in Photos : UpsertPhotos(photos, S)[p].status \in Claimed =>
            UpsertPhotos(photos, S)[p].status = photos[p].status
      BY <1>0, NoNewClaim
    <2>3. up' = up /\ fullres' = fullres
      BY <1>4 DEF SyncUpsert
    <2> QED BY <1>1, <2>1, <2>2, <2>3
  <1>5. CASE SyncStage
    <2>1. PICK S : photos' = MarkPendingRemoval(photos, S, Now)
      BY <1>5 DEF SyncStage
    <2> QED BY <1>0, <1>1, <1>5, <2>1, NoNewClaim DEF SyncStage
  <1>6. CASE SyncConfirm
    <2>1. PICK S : photos' = ConfirmDeletions(photos, S, Now)
      BY <1>6 DEF SyncConfirm
    <2> QED BY <1>0, <1>1, <1>6, <2>1, NoNewClaim DEF SyncConfirm
  <1>7. CASE SyncRetry
    BY <1>0, <1>1, <1>7, NoNewClaim DEF SyncRetry
  <1>8. CASE CleanupUnlink \/ CleanupPurge
    BY <1>0, <1>1, <1>8, NoNewClaim DEF CleanupUnlink, CleanupPurge, dbVars
  <1>9. CASE DlClaim
    <2>1. PICK S : photos' = ClaimForDownload(photos, S)
      BY <1>9 DEF DlClaim
    <2> QED BY <1>0, <1>1, <1>9, <2>1, NoNewClaim DEF DlClaim
  <1>10. CASE DlTransient \/ DlFail \/ DlDrop
    BY <1>0, <1>1, <1>10, NoNewClaim DEF DlTransient, DlFail, DlDrop, dbVars
  <1>11. ASSUME NEW u \in Photos, DlResult(u)
         PROVE  NoStrandedClaim'
    <2>1. up /\ up' = up /\ fullres' = fullres
      BY <1>11 DEF DlResult
    <2>2. CASE photos' = photos \/ photos' = SetPhotosError(photos, {u})
      BY <1>0, <1>1, <2>1, <2>2, NoNewClaim
    <2>3. CASE photos' = SetPhotoFull(photos, u)
      <3>1. \A p \in Photos : photos'[p].status \in {photos[p].status, "full"}
        BY <1>0, <2>3 DEF SetPhotoFull, Row
      <3> QED BY <1>1, <2>1, <3>1
    <2>4. CASE photos' = SetPhotoDone(photos, u, "empty", Now)
      <3>1. photos'[u].status = "done"
        BY <1>0, <2>4, NowType, DoneStatement
      <3>2. \A p \in Photos \ {u} : SetPhotoDone(photos, u, "empty", Now)[p] = photos[p]
        BY <1>0 DEF SetPhotoDone
      <3> QED BY <1>1, <2>1, <2>4, <3>1, <3>2
    <2> QED BY <1>11, <2>2, <2>3, <2>4 DEF DlResult
  <1>12. CASE BridgeStep
    BY <1>1, <1>12 DEF BridgeStep, BridgeAnswer, BridgeSettle, BridgeLateWrite, dbVars
  <1>13. ASSUME NEW u \in Photos, FrPick(u)
         PROVE  NoStrandedClaim'
    BY <1>0, <1>13 DEF FrPick, FullresIdle, ClaimForFull, NoStrandedClaim, Row
  <1>14. ASSUME NEW u \in Photos, FrDecode(u)
         PROVE  NoStrandedClaim'
    BY <1>0, <1>14 DEF FrDecode, NoStrandedClaim, dbVars
  <1>15. ASSUME NEW u \in Photos,
                FrStore(u) \/ FrTransient(u) \/ FrFail(u)
         PROVE  NoStrandedClaim'
    <2>1. /\ up /\ up'
          /\ \A p \in Photos \ {u} : fullres'[p] = fullres[p]
      BY <1>0, <1>15 DEF FrStore, FrTransient, FrFail
    <2>2. ASSUME photos'[u].status \notin Claimed,
                 \A p \in Photos \ {u} : photos'[p].status = photos[p].status
          PROVE  NoStrandedClaim'
      BY <2>1, <2>2 DEF NoStrandedClaim
    <2>3. CASE FrStore(u)
      <3>1. CASE photos' = SetPhotoDone(photos, u, "file", Now)
        BY <1>0, <2>2, <3>1, NowType, DoneStatement
      <3>2. CASE photos' = [photos EXCEPT ![u].status = "downloading"]
        BY <1>0, <2>2, <3>2 DEF Row
      <3> QED BY <2>3, <3>1, <3>2 DEF FrStore
    <2>4. CASE FrTransient(u)
      <3> DEFINE back == [photos[u] EXCEPT !.status = "full", !.processedAt = Now]
      <3>1. back.status = "full"
        BY <1>0 DEF Row
      <3>2. photos' = [photos EXCEPT ![u] = back]
        BY <1>0, <2>4 DEF FrTransient, Row
      <3> HIDE DEF back
      <3> QED BY <1>0, <2>2, <3>1, <3>2
    <2>5. CASE FrFail(u)
      BY <1>0, <2>2, <2>5 DEF FrFail, SetPhotosError, Row
    <2> QED BY <1>15, <2>3, <2>4, <2>5
  <1>16. ASSUME NEW u \in Photos, FrQueue(u) \/ FrDrop(u)
         PROVE  NoStrandedClaim'
    BY <1>0, <1>16 DEF FrQueue, FrDrop, NoStrandedClaim, dbVars
  <1>17. ASSUME NEW w \in Workers, WkMissing(w) \/ WkSetError(w)
         PROVE  NoStrandedClaim'
    <2>1. PICK S : photos' = SetPhotosError(photos, S)
      BY <1>17 DEF WkMissing, WkSetError
    <2>2. \A p \in Photos : photos'[p].status \in {photos[p].status, "error"}
      BY <1>0, <2>1 DEF SetPhotosError, Row
    <2>3. up' = up /\ fullres' = fullres
      BY <1>17 DEF WkMissing, WkSetError
    <2> QED BY <1>1, <2>2, <2>3
  <1>18. ASSUME NEW w \in Workers, WkCommit(w)
         PROVE  NoStrandedClaim'
    <2>1. Current(w) \in Photos
      BY <1>18, CurrentType DEF WkCommit
    <2>2. photos' = SetPhotoDone(photos, Current(w), "file", Now)
      BY <1>18 DEF WkCommit
    <2> DEFINE c == Current(w)
    <2> HIDE DEF c
    <2>3. photos'[c].status = "done"
      BY <1>0, <2>1, <2>2, NowType, DoneStatement DEF c
    <2>4. \A p \in Photos \ {c} : SetPhotoDone(photos, c, "file", Now)[p] = photos[p]
      BY <1>0, <2>1 DEF SetPhotoDone, c
    <2>5. up' = up /\ fullres' = fullres
      BY <1>18 DEF WkCommit
    <2>6. \A p \in Photos \ {c} : photos'[p] = photos[p]
      BY <2>2, <2>4 DEF c
    <2> QED BY <1>1, <2>3, <2>5, <2>6
  <1>19. ASSUME NEW w \in Workers, WorkerStep(w), UNCHANGED photos
         PROVE  NoStrandedClaim'
    BY <1>1, <1>19 DEF WorkerStep, WkTake, WkFallback, WkEmbed, WkClaim, WkMissing, WkMove,
          WkCommit, WkRaise, WkSetError, WkSetErrorFails
  <1>20. ASSUME NEW w \in Workers, WorkerStep(w)
         PROVE  NoStrandedClaim'
    BY <1>17, <1>18, <1>19, <1>20 DEF WorkerStep, WkTake, WkFallback, WkEmbed, WkClaim, WkMove,
          WkRaise, WkSetErrorFails, dbVars
  <1>21. CASE UNCHANGED vars
    BY <1>1, <1>21 DEF vars
  <1> QED BY <1>2, <1>3, <1>4, <1>5, <1>6, <1>7, <1>8, <1>9, <1>10, <1>11, <1>12, <1>13,
             <1>14, <1>15, <1>16, <1>20, <1>21
          DEF Next, SyncStep, DownloaderStep, FullresStep

\* If no write fails, no row waits in a claim that nobody works on.
THEOREM NoStranded ==
    ASSUME ~DbMayFail
    PROVE  Spec => []NoStrandedClaim
  <1>1. Init => NoStrandedClaim
    BY DEF Init, NoStrandedClaim
  <1>2. Inv /\ NoStrandedClaim /\ [Next]_vars => NoStrandedClaim'
    BY StrandNext
  <1> QED BY <1>1, <1>2, Invariance, PTL DEF Spec

(***************************************************************************)
(* Nothing in hand without a row.                                          *)
(***************************************************************************)

\* What a row is to those who look at the library.
LEMMA StageByStatus ==
    ASSUME NEW r \in Row, NEW k \in {"image", "video", "other"}
    PROVE  /\ r.status = "absent" => StageOf(r, k) = "unknown"
           /\ r.status \in {"new", "downloading", "processing", "full", "fullres"}
                => StageOf(r, k) = "queued"
           /\ r.status = "error" => StageOf(r, k) = "failed"
           /\ r.status = "pending_removal" => StageOf(r, k) = "leaving"
           /\ r.status = "deleted" => StageOf(r, k) = "deleted"
           /\ r.status = "done" /\ r.thumb = "file" => StageOf(r, k) = "shown"
           /\ r.status = "done" /\ r.thumb # "file" /\ k = "other"
                => StageOf(r, k) = "listed"
           /\ r.status = "done" /\ r.thumb # "file" /\ k # "other"
                => StageOf(r, k) = "queued"
  BY DEF StageOf

\* The stage of a row of the table, in this state or the next.
StageAt(u) == StageOf(photos[u], Kind[u])

\* A row that exists is at a stage of the library.
LEMMA KnownRows ==
    ASSUME NEW r \in Row, NEW k \in {"image", "video", "other"}, r.status # "absent"
    PROVE  StageOf(r, k) \in {"queued", "shown", "listed", "failed", "leaving", "deleted"}
  BY StageByStatus DEF Row, Statuses

\* No statement forgets a row.
LEMMA RowsStay ==
    ASSUME NEW t \in Table, NEW S, NEW now, NEW u \in Photos, t[u].status # "absent",
           NEW r \in {UpsertPhotos(t, S)[u], MarkPendingRemoval(t, S, now)[u],
                      ConfirmDeletions(t, S, now)[u], RetryErrors(t)[u], PurgeMedia(t, S)[u],
                      ClaimForDownload(t, S)[u], ReleaseDownloadClaims(t, S)[u],
                      SetPhotosError(t, S)[u], ResetClaims(t)[u], BackfillFullres(t)[u],
                      ResetStuckFullres(t, S)[u]}
    PROVE  r.status # "absent"
  <1>0. t[u] \in Row
    BY DEF Table
  <1>1. CASE r = UpsertPhotos(t, S)[u]
    BY <1>0, <1>1 DEF UpsertPhotos, Row
  <1>2. CASE r = MarkPendingRemoval(t, S, now)[u] \/ r = ConfirmDeletions(t, S, now)[u]
    BY <1>0, <1>2 DEF MarkPendingRemoval, ConfirmDeletions, Row
  <1>3. CASE r = RetryErrors(t)[u] \/ r = PurgeMedia(t, S)[u]
    BY <1>0, <1>3 DEF RetryErrors, PurgeMedia, Row
  <1>4. CASE r = ClaimForDownload(t, S)[u] \/ r = ReleaseDownloadClaims(t, S)[u]
    BY <1>0, <1>4 DEF ClaimForDownload, ReleaseDownloadClaims, Row
  <1>5. CASE r = SetPhotosError(t, S)[u] \/ r = BackfillFullres(t)[u]
    BY <1>0, <1>5 DEF SetPhotosError, BackfillFullres, Row
  <1>6. CASE r = ResetStuckFullres(t, S)[u]
    <2> DEFINE next == IF t[u].retry < MaxRetryPark THEN "new" ELSE "error"
               kept == [t[u] EXCEPT !.status = next, !.retry = @ + 1]
    <2>1. r = kept \/ r = t[u]
      BY <1>6 DEF ResetStuckFullres
    <2>2. kept.status = next
      BY <1>0 DEF Row
    <2>3. next # "absent"
      OBVIOUS
    <2> HIDE DEF kept, next
    <2> QED BY <2>1, <2>2, <2>3
  <1>7. CASE r = ResetClaims(t)[u]
    BY <1>0, <1>7 DEF ResetClaims, Row
  <1> QED BY <1>1, <1>2, <1>3, <1>4, <1>5, <1>6, <1>7

\* Nor does a statement on one row.
LEMMA OneRowStays ==
    ASSUME NEW t \in Table, NEW p \in Photos, NEW u \in Photos, t[u].status # "absent",
           NEW thumb \in {"null", "empty", "file"}
    PROVE  /\ ClaimForFull(t, p)[u].status # "absent"
           /\ SetPhotoFull(t, p)[u].status # "absent"
           /\ SetPhotoDone(t, p, thumb, Now)[u].status # "absent"
           /\ [t EXCEPT ![p].status = "downloading"][u].status # "absent"
           /\ [t EXCEPT ![p].status = "full", ![p].processedAt = Now][u].status # "absent"
  <1>0. t \in [Photos -> Row] /\ t[u] \in Row /\ t[p] \in Row
    BY DEF Table
  <1>1. ClaimForFull(t, p)[u].status # "absent" /\ SetPhotoFull(t, p)[u].status # "absent"
    BY <1>0 DEF ClaimForFull, SetPhotoFull, Row
  <1>2. SetPhotoDone(t, p, thumb, Now)[u].status # "absent"
    <2> DEFINE done == [t[p] EXCEPT !.status = "done", !.thumb = thumb, !.processedAt = Now]
    <2>1. done.status = "done"
      BY <1>0 DEF Row
    <2>2. SetPhotoDone(t, p, thumb, Now) = [t EXCEPT ![p] = done]
      BY <1>0 DEF SetPhotoDone, Row
    <2> HIDE DEF done
    <2> QED BY <1>0, <2>1, <2>2
  <1>3. [t EXCEPT ![p].status = "downloading"][u].status # "absent"
    BY <1>0 DEF Row
  <1>4. [t EXCEPT ![p].status = "full", ![p].processedAt = Now][u].status # "absent"
    <2> DEFINE back == [t[p] EXCEPT !.status = "full", !.processedAt = Now]
    <2>1. back.status = "full"
      BY <1>0 DEF Row
    <2>2. [t EXCEPT ![p].status = "full", ![p].processedAt = Now] = [t EXCEPT ![p] = back]
      BY <1>0 DEF Row
    <2> HIDE DEF back
    <2> QED BY <1>0, <2>1, <2>2
  <1> QED BY <1>1, <1>2, <1>3, <1>4


\* A step writes rows by one of the statements; none loses a row.
LEMMA RowsKept ==
    ASSUME Inv, [Next]_vars, NEW u \in Photos, photos[u].status # "absent"
    PROVE  photos'[u].status # "absent"
  <1>0. photos \in Table
    BY DEF Inv, TypeOK
  <1>1. CASE UNCHANGED photos
    BY <1>1
  <1>2. CASE Start
    <2>1. PICK old \in SUBSET Photos :
            photos' = ResetStuckFullres(BackfillFullres(ResetClaims(photos)), old)
      BY <1>2 DEF Start
    <2> DEFINE t1 == ResetClaims(photos)
               t2 == BackfillFullres(t1)
    <2>2. t1 \in Table /\ t2 \in Table
      BY <1>0, TableStatements
    <2>3. t1[u].status # "absent"
      BY <1>0, RowsStay
    <2> HIDE DEF t1
    <2>4. t2[u].status # "absent"
      BY <2>2, <2>3, RowsStay
    <2> HIDE DEF t2
    <2>5. ResetStuckFullres(t2, old)[u].status # "absent"
      BY <2>2, <2>4, RowsStay
    <2>6. photos' = ResetStuckFullres(t2, old)
      BY <2>1 DEF t1, t2
    <2> QED BY <2>5, <2>6
  <1>3. CASE SyncStep
    <2>1. ASSUME NEW S, photos' = UpsertPhotos(photos, S)
          PROVE  photos'[u].status # "absent"
      BY <1>0, <2>1, RowsStay
    <2>2. ASSUME NEW S, \/ photos' = MarkPendingRemoval(photos, S, Now)
                        \/ photos' = ConfirmDeletions(photos, S, Now)
                        \/ photos' = PurgeMedia(photos, S)
          PROVE  photos'[u].status # "absent"
      BY <1>0, <2>2, RowsStay
    <2>3. CASE photos' = RetryErrors(photos)
      BY <1>0, <2>3, RowsStay
    <2> QED BY <1>1, <1>3, <2>1, <2>2, <2>3
            DEF SyncStep, SyncUpsert, SyncStage, SyncConfirm, SyncRetry, CleanupUnlink,
                CleanupPurge, dbVars
  <1>4. ASSUME NEW S, \/ photos' = ClaimForDownload(photos, S)
                      \/ photos' = ReleaseDownloadClaims(photos, S)
                      \/ photos' = SetPhotosError(photos, S)
        PROVE  photos'[u].status # "absent"
    BY <1>0, <1>4, RowsStay
  <1>5. ASSUME NEW p \in Photos, \/ photos' = ClaimForFull(photos, p)
                                 \/ photos' = SetPhotoFull(photos, p)
                                 \/ photos' = SetPhotoDone(photos, p, "empty", Now)
                                 \/ photos' = SetPhotoDone(photos, p, "file", Now)
                                 \/ photos' = [photos EXCEPT ![p].status = "downloading"]
                                 \/ photos' = [photos EXCEPT ![p].status = "full",
                                                             ![p].processedAt = Now]
        PROVE  photos'[u].status # "absent"
    <2>1. CASE photos' = SetPhotoDone(photos, p, "empty", Now)
      BY <1>0, <2>1, OneRowStays
    <2>2. CASE photos' = SetPhotoDone(photos, p, "file", Now)
      BY <1>0, <2>2, OneRowStays
    <2>3. "file" \in {"null", "empty", "file"}
      OBVIOUS
    <2>4. CASE photos' = ClaimForFull(photos, p) \/ photos' = SetPhotoFull(photos, p)
      <3>1. /\ ClaimForFull(photos, p)[u].status # "absent"
            /\ SetPhotoFull(photos, p)[u].status # "absent"
        BY <1>0, <2>3, OneRowStays
      <3> QED BY <2>4, <3>1
    <2>5. CASE photos' = [photos EXCEPT ![p].status = "downloading"]
      BY <1>0, <2>3, <2>5, OneRowStays
    <2>6. CASE photos' = [photos EXCEPT ![p].status = "full", ![p].processedAt = Now]
      <3>1. [photos EXCEPT ![p].status = "full", ![p].processedAt = Now][u].status # "absent"
        BY <1>0, <2>3, OneRowStays
      <3> QED BY <2>6, <3>1
    <2> QED BY <1>5, <2>1, <2>2, <2>4, <2>5, <2>6
  <1>6. CASE DlClaim \/ DlTransient \/ DlFail \/ DlDrop
    BY <1>1, <1>4, <1>6 DEF DlClaim, DlTransient, DlFail, DlDrop, dbVars
  <1>7. ASSUME NEW p \in Photos, DlResult(p)
        PROVE  photos'[u].status # "absent"
    BY <1>1, <1>4, <1>5, <1>7 DEF DlResult
  <1>8. CASE BridgeStep
    BY <1>1, <1>8 DEF BridgeStep, BridgeAnswer, BridgeSettle, BridgeLateWrite, dbVars
  <1>9. ASSUME NEW p \in Photos, FrPick(p) \/ FrStore(p) \/ FrTransient(p) \/ FrFail(p)
        PROVE  photos'[u].status # "absent"
    BY <1>4, <1>5, <1>9 DEF FrPick, FrStore, FrTransient, FrFail
  <1>10. ASSUME NEW p \in Photos, FrDecode(p) \/ FrQueue(p) \/ FrDrop(p)
         PROVE  photos'[u].status # "absent"
    BY <1>1, <1>10 DEF FrDecode, FrQueue, FrDrop, dbVars
  <1>11. ASSUME NEW w \in Workers, WkCommit(w)
         PROVE  photos'[u].status # "absent"
    <2>1. Current(w) \in Photos /\ photos' = SetPhotoDone(photos, Current(w), "file", Now)
      BY <1>11, CurrentType DEF WkCommit
    <2> QED BY <1>5, <2>1
  <1>12. ASSUME NEW w \in Workers, WkMissing(w) \/ WkSetError(w)
         PROVE  photos'[u].status # "absent"
    BY <1>4, <1>12 DEF WkMissing, WkSetError
  <1>13. ASSUME NEW w \in Workers, WorkerStep(w), ~WkCommit(w), ~WkMissing(w), ~WkSetError(w)
         PROVE  photos'[u].status # "absent"
    BY <1>1, <1>13 DEF WorkerStep, WkTake, WkFallback, WkEmbed, WkClaim, WkMove, WkRaise,
                       WkSetErrorFails, dbVars
  <1>14. CASE Crash \/ UNCHANGED vars
    BY <1>1, <1>14 DEF Crash, dbVars, vars
  <1> QED BY <1>2, <1>3, <1>6, <1>7, <1>8, <1>9, <1>10, <1>11, <1>12, <1>13, <1>14
          DEF Next, DownloaderStep, FullresStep

-----------------------------------------------------------------------------

\* A uid is in the queue, or in the batch of a worker.
Queued(u) == \E i \in DOMAIN pending : pending[i] = u
Taken(u) == \E w \in Workers : \E i \in DOMAIN batch[w] : batch[w][i] = u

\* What a worker is at, it took.
LEMMA CurrentTaken ==
    ASSUME Inv, NEW w \in Workers, wstate[w] \notin {"idle", "dead"}
    PROVE  Taken(Current(w))
  <1>1. batch[w] \in Seq(Photos) /\ pos[w] \in 1 .. Len(batch[w])
    BY DEF Inv, TypeOK, WorkersWithin, Queue
  <1>2. pos[w] \in DOMAIN batch[w]
    BY <1>1, LenProperties
  <1> QED BY <1>2 DEF Taken, Current

\* What is appended to the queue is queued, besides what was.
LEMMA AppendQueued ==
    ASSUME Inv, NEW p \in Photos, pending' = Append(pending, p), NEW u \in Photos, Queued(u)'
    PROVE  Queued(u) \/ u = p
  <1>1. pending \in Seq(Photos)
    BY DEF Inv, TypeOK, Queue
  <1>2. PICK i \in DOMAIN Append(pending, p) : Append(pending, p)[i] = u
    BY DEF Queued
  <1>3. /\ Len(pending) \in Nat /\ DOMAIN pending = 1 .. Len(pending)
        /\ DOMAIN Append(pending, p) = 1 .. Len(pending) + 1
        /\ \A j \in 1 .. Len(pending) : Append(pending, p)[j] = pending[j]
        /\ Append(pending, p)[Len(pending) + 1] = p
    BY <1>1, LenProperties, AppendProperties
  <1>4. i \in 1 .. Len(pending) \/ i = Len(pending) + 1
    BY <1>2, <1>3
  <1> QED BY <1>2, <1>3, <1>4 DEF Queued

\* A worker that moves on takes nothing.
LEMMA AdvanceTakes ==
    ASSUME Inv, NEW w \in Workers, NEW s, Advance(w, s), NEW u \in Photos, Taken(u)'
    PROVE  Taken(u)
  <1>1. batch \in [Workers -> Queue]
    BY DEF Inv, TypeOK
  <1>2. batch' = batch \/ batch' = [batch EXCEPT ![w] = <<>>]
    BY DEF Advance
  <1>3. DOMAIN <<>> = {}
    OBVIOUS
  <1> QED BY <1>1, <1>2, <1>3 DEF Taken

\* A worker takes what was queued, and the rest stays queued.
LEMMA TakeTakes ==
    ASSUME Inv, NEW w \in Workers, WkTake(w), NEW u \in Photos, Queued(u)' \/ Taken(u)'
    PROVE  Queued(u) \/ Taken(u)
  <1> DEFINE n == IF ClipBatchSize > 1 /\ Len(pending) >= ClipQueueDepth
                  THEN IF ClipBatchSize < Len(pending) THEN ClipBatchSize ELSE Len(pending)
                  ELSE 1
             b == SubSeq(pending, 1, n)
             c == SubSeq(pending, n + 1, Len(pending))
  <1>1. /\ pending \in Seq(Photos) /\ Len(pending) \in Nat /\ Len(pending) >= 1
        /\ DOMAIN pending = 1 .. Len(pending)
    BY LenProperties, EmptySeq DEF Inv, TypeOK, WkTake, Queue
  <1>2. n \in Nat /\ n >= 1 /\ n <= Len(pending)
    BY <1>1, PipelineAssumption
  <1>3. batch' = [batch EXCEPT ![w] = b] /\ pending' = c
    BY DEF WkTake
  <1> HIDE DEF n
  <1>4. /\ DOMAIN b = 1 .. n /\ \A i \in 1 .. n : b[i] = pending[i]
    BY <1>1, <1>2, SubSeqProperties, LenProperties
  <1>5. /\ DOMAIN c = 1 .. Len(pending) - n
        /\ \A i \in 1 .. Len(pending) - n : c[i] = pending[n + i]
    <2>1. \A i \in n + 1 .. Len(pending) : pending[i] \in Photos
      BY <1>1, <1>2, ElementOfSeq
    <2>2. n + 1 \in Int /\ Len(pending) \in Int
      BY <1>1, <1>2
    <2>3. /\ c \in Seq(Photos)
          /\ Len(c) = IF n + 1 <= Len(pending) THEN Len(pending) - (n + 1) + 1 ELSE 0
          /\ \A i \in 1 .. Len(pending) - (n + 1) + 1 : c[i] = pending[(n + 1) + i - 1]
      BY <2>1, <2>2, SubSeqProperties
    <2>4. DOMAIN c = 1 .. Len(c)
      BY <2>3, LenProperties
    <2> HIDE DEF c
    <2>5. Len(c) = Len(pending) - n /\ Len(pending) - (n + 1) + 1 = Len(pending) - n
      <3>1. PICK m \in Nat : m = Len(pending) /\ n <= m
        BY <1>1, <1>2
      <3>2. m - (n + 1) + 1 = m - n
        BY <1>2
      <3>3. CASE n + 1 <= m
        BY <2>3, <3>1, <3>2, <3>3
      <3>4. CASE ~(n + 1 <= m)
        <4>1. m - n = 0
          BY <1>2, <3>1, <3>4
        <4> QED BY <2>3, <3>1, <3>2, <3>4, <4>1
      <3> QED BY <3>3, <3>4
    <2>6. ASSUME NEW i \in 1 .. Len(pending) - n
          PROVE  c[i] = pending[n + i]
      <3>1. (n + 1) + i - 1 = n + i
        BY <1>1, <1>2
      <3> QED BY <2>3, <2>5, <3>1
    <2> QED BY <2>4, <2>5, <2>6
  <1>6. ASSUME Queued(u)'
        PROVE  Queued(u)
    <2>1. PICK i \in DOMAIN c : c[i] = u
      BY <1>3, <1>6 DEF Queued
    <2>2. i \in 1 .. Len(pending) - n /\ pending[n + i] = u
      BY <1>5, <2>1
    <2>3. n + i \in 1 .. Len(pending)
      BY <1>1, <1>2, <2>2
    <2> QED BY <1>1, <2>2, <2>3 DEF Queued
  <1>7. ASSUME Taken(u)'
        PROVE  Queued(u) \/ Taken(u)
    <2>1. PICK v \in Workers : \E i \in DOMAIN batch'[v] : batch'[v][i] = u
      BY <1>7 DEF Taken
    <2>2. CASE v = w
      <3>1. batch'[v] = b
        BY <1>3, <2>2 DEF Inv, TypeOK
      <3>2. PICK i \in 1 .. n : b[i] = u
        BY <1>4, <2>1, <3>1
      <3>3. i \in DOMAIN pending /\ pending[i] = u
        BY <1>1, <1>2, <1>4, <3>2
      <3> QED BY <3>3 DEF Queued
    <2>3. CASE v # w
      <3>1. batch'[v] = batch[v]
        BY <1>3, <2>3 DEF Inv, TypeOK
      <3> QED BY <2>1, <3>1 DEF Taken
    <2> QED BY <2>2, <2>3
  <1> QED BY <1>6, <1>7

(***************************************************************************)
(* Every step of every thread.                                             *)
(***************************************************************************)

\* What a step has in hand, it had before or has a row.
LEMMA HandsNext ==
    ASSUME Inv, HandsKnown, [Next]_vars
    PROVE  HandsKnown'
  <1> SUFFICES ASSUME NEW u \in Photos, InHand(u)'
               PROVE  InHand(u) \/ photos'[u].status # "absent"
    BY RowsKept DEF HandsKnown
  <1> DEFINE Reached == InHand(u) \/ photos'[u].status # "absent"
  <1>0. /\ photos \in Table /\ photos \in [Photos -> Row]
        /\ reply \in [Photos -> Replies] /\ fullres \in [Photos -> Stages]
        /\ pending \in Queue /\ batch \in [Workers -> Queue]
    BY DEF Inv, TypeOK, Table
  <1>1. /\ InHand(u) <=> reply[u] # "none" \/ fullres[u] # "no" \/ Queued(u) \/ Taken(u)
        /\ reply'[u] # "none" \/ fullres'[u] # "no" \/ Queued(u)' \/ Taken(u)'
    BY DEF InHand, Queued, Taken
  <1>2. ASSUME UNCHANGED pending PROVE Queued(u)' <=> Queued(u)
    BY <1>2 DEF Queued
  <1>3. ASSUME UNCHANGED batch PROVE Taken(u)' <=> Taken(u)
    BY <1>3 DEF Taken
  <1>4. ASSUME UNCHANGED <<reply, fullres, pending, batch>> PROVE Reached
    BY <1>1, <1>2, <1>3, <1>4
  <1>5. CASE Start
    <2>1. CASE Queued(u)'
      <3>1. PICK q \in RebuildPending(photos') : pending' = q
        BY <1>5 DEF Start
      <3> DEFINE found == {p \in Photos : photos'[p].status = "downloading" /\ p \in work}
      <3>2. q \in [1..Cardinality(found) -> found]
        BY <3>1 DEF RebuildPending
      <3>3. PICK i \in DOMAIN q : q[i] = u
        BY <2>1, <3>1 DEF Queued
      <3>4. u \in found
        BY <3>2, <3>3
      <3> QED BY <3>4
    <2>2. CASE ~Queued(u)'
      BY <1>1, <1>3, <1>5, <2>2 DEF Start, callVars, workerVars
    <2> QED BY <2>1, <2>2
  <1>6. CASE Crash
    <2>1. reply'[u] = "none" /\ fullres'[u] = "no"
      BY <1>6 DEF Crash
    <2>2. ~Queued(u)' /\ ~Taken(u)'
      BY <1>6 DEF Crash, Queued, Taken
    <2> QED BY <1>1, <2>1, <2>2
  <1>7. CASE SyncStep
    BY <1>4, <1>7 DEF SyncStep, SyncUpsert, SyncStage, SyncConfirm, SyncRetry, CleanupUnlink,
                      CleanupPurge, callVars, workerVars
  <1>8. CASE DlClaim
    <2>1. PICK S \in SUBSET {p \in Photos : photos[p].status = "new"} :
             /\ photos' = ClaimForDownload(photos, S)
             /\ reply' = [p \in Photos |-> IF p \in S THEN "asked" ELSE "none"]
      BY <1>8 DEF DlClaim
    <2>2. CASE u \in S
      <3>1. photos[u].status # "absent"
        BY <2>1, <2>2
      <3> QED BY <1>0, <2>1, <3>1, RowsStay
    <2>3. CASE u \notin S
      <3>1. reply'[u] = "none" /\ UNCHANGED <<fullres, pending, batch>>
        BY <1>8, <2>1, <2>3 DEF DlClaim, workerVars
      <3> QED BY <1>1, <1>2, <1>3, <3>1
    <2> QED BY <2>2, <2>3
  <1>9. CASE DlTransient \/ DlFail \/ DlDrop
    <2>1. reply'[u] = "none" /\ UNCHANGED <<fullres, pending, batch>>
      BY <1>9 DEF DlTransient, DlFail, DlDrop, CallEnds, workerVars
    <2> QED BY <1>1, <1>2, <1>3, <2>1
  <1>10. ASSUME NEW p \in Photos, DlResult(p)
         PROVE  Reached
    <2>1. /\ reply' = [reply EXCEPT ![p] = "none"] /\ UNCHANGED <<fullres, batch>>
          /\ pending' = pending \/ (reply[p] = "ok" /\ pending' = Append(pending, p))
      BY <1>10 DEF DlResult, workerVars
    <2>2. reply'[u] # "none" => reply[u] # "none"
      BY <1>0, <2>1
    <2>3. Queued(u)' => Queued(u) \/ reply[u] # "none"
      BY <1>2, <2>1, AppendQueued
    <2> QED BY <1>1, <1>3, <2>1, <2>2, <2>3
  <1>11. CASE BridgeAnswer \/ \E p \in Photos : BridgeLateWrite(p)
    BY <1>4, <1>11 DEF BridgeAnswer, BridgeLateWrite, workerVars
  <1>12. ASSUME NEW p \in Photos, BridgeSettle(p)
         PROVE  Reached
    <2>1. /\ reply[p] = "asked" /\ \E a \in Replies : reply' = [reply EXCEPT ![p] = a]
          /\ UNCHANGED <<fullres, pending, batch>>
      BY <1>12 DEF BridgeSettle, workerVars, Replies
    <2>2. reply'[u] # "none" => reply[u] # "none"
      BY <1>0, <2>1
    <2> QED BY <1>1, <1>2, <1>3, <2>1, <2>2
  <1>13. ASSUME NEW p \in Photos, FrPick(p)
         PROVE  Reached
    <2>1. CASE u = p
      <3>1. photos[u].status # "absent"
        BY <1>13, <2>1 DEF FrPick, Candidate
      <3>2. [Next]_vars
        OBVIOUS
      <3> QED BY <3>1, <3>2, RowsKept
    <2>2. CASE u # p
      <3>1. fullres'[u] = fullres[u] /\ UNCHANGED <<reply, pending, batch>>
        BY <1>0, <1>13, <2>2 DEF FrPick, callVars, workerVars
      <3> QED BY <1>1, <1>2, <1>3, <3>1
    <2> QED BY <2>1, <2>2
  <1>14. ASSUME NEW p \in Photos,
                \/ FrDecode(p) \/ FrStore(p) \/ FrTransient(p) \/ FrFail(p) \/ FrDrop(p)
                \/ FrQueue(p)
         PROVE  Reached
    <2>1. /\ fullres[p] # "no" /\ \E a \in Stages : fullres' = [fullres EXCEPT ![p] = a]
          /\ UNCHANGED <<reply, batch>>
      BY <1>14 DEF FrDecode, FrStore, FrTransient, FrFail, FrDrop, FrQueue, callVars,
                   workerVars, Stages
    <2>2. fullres'[u] # "no" => fullres[u] # "no"
      BY <1>0, <2>1
    <2>3. pending' = pending \/ pending' = Append(pending, p)
      BY <1>14 DEF FrDecode, FrStore, FrTransient, FrFail, FrDrop, FrQueue
    <2>4. Queued(u)' => Queued(u) \/ fullres[u] # "no"
      BY <1>2, <2>1, <2>3, AppendQueued
    <2> QED BY <1>1, <1>3, <2>1, <2>2, <2>4
  <1>15. ASSUME NEW w \in Workers, WkTake(w)
         PROVE  Reached
    <2>1. UNCHANGED <<reply, fullres>>
      BY <1>15 DEF WkTake, callVars
    <2>2. Queued(u)' \/ Taken(u)' => Queued(u) \/ Taken(u)
      BY <1>15, TakeTakes
    <2> QED BY <1>1, <2>1, <2>2
  <1>16. ASSUME NEW w \in Workers, WkFallback(w)
         PROVE  Reached
    <2>1. PICK p \in Photos : /\ photos[p].status = "downloading"
                              /\ batch' = [batch EXCEPT ![w] = <<p>>]
      BY <1>16 DEF WkFallback
    <2>2. UNCHANGED <<photos, reply, fullres, pending>>
      BY <1>16 DEF WkFallback, callVars, dbVars
    <2>3. DOMAIN <<p>> = {1} /\ <<p>>[1] = p
      OBVIOUS
    <2>4. Taken(u)' => Taken(u) \/ u = p
      BY <1>0, <2>1, <2>3 DEF Taken
    <2> QED BY <1>1, <1>2, <2>1, <2>2, <2>4
  <1>17. ASSUME NEW w \in Workers, WkClaim(w) \/ WkMissing(w) \/ WkCommit(w) \/ WkSetError(w)
         PROVE  Reached
    <2>1. UNCHANGED <<reply, fullres, pending>>
      BY <1>17 DEF WkClaim, WkMissing, WkCommit, WkSetError, callVars
    <2>2. batch' = batch \/ \E s : Advance(w, s)
      BY <1>17 DEF WkClaim, WkMissing, WkCommit, WkSetError
    <2>3. Taken(u)' => Taken(u)
      BY <1>3, <2>2, AdvanceTakes
    <2> QED BY <1>1, <1>2, <2>1, <2>3
  <1>18. ASSUME NEW w \in Workers, WkEmbed(w) \/ WkMove(w) \/ WkRaise(w)
         PROVE  Reached
    BY <1>4, <1>18 DEF WkEmbed, WkMove, WkRaise, callVars
  <1>19. ASSUME NEW w \in Workers, WkSetErrorFails(w)
         PROVE  Reached
    <2>1. UNCHANGED <<reply, fullres, pending>>
      BY <1>19 DEF WkSetErrorFails, callVars
    <2>2. batch' = batch \/ batch' = [batch EXCEPT ![w] = <<>>]
      BY <1>19 DEF WkSetErrorFails
    <2>3. DOMAIN <<>> = {}
      OBVIOUS
    <2>4. Taken(u)' => Taken(u)
      BY <1>0, <2>2, <2>3 DEF Taken
    <2> QED BY <1>1, <1>2, <2>1, <2>4
  <1>20. CASE UNCHANGED vars
    BY <1>4, <1>20 DEF vars
  <1> QED BY <1>5, <1>6, <1>7, <1>8, <1>9, <1>10, <1>11, <1>12, <1>13, <1>14, <1>15, <1>16,
             <1>17, <1>18, <1>19, <1>20
          DEF Next, DownloaderStep, BridgeStep, FullresStep, WorkerStep

\* Nothing the indexer holds is without a row: the UPDATEs of a result, which name the
\* uid and nothing else, always find one.
THEOREM HandsHaveRows == Spec => []HandsKnown
  <1>1. Init => HandsKnown
    BY DEF Init, HandsKnown, InHand
  <1>2. Inv /\ HandsKnown /\ [Next]_vars => HandsKnown'
    BY HandsNext
  <1> QED BY <1>1, <1>2, Invariance, PTL DEF Spec

(***************************************************************************)
(* The pipeline is a library: every step of a thread is one of             *)
(* PhotoLibrary, or none.                                                  *)
(***************************************************************************)

\* A step of the library, or nothing that shows.
LibraryStep == [Library!LibraryNext]_(Library!libraryVars)

\* The stages of photos that have a row.
Holding == {"queued", "shown", "listed", "failed", "leaving", "deleted"}

\* A statement on rows moves photos from some stages to one.
LEMMA MovedOn ==
    ASSUME NEW from, NEW to, UNCHANGED <<thumbs, detected>>,
           \A u \in Photos : StageAt(u)' # StageAt(u) => StageAt(u) \in from /\ StageAt(u)' = to
    PROVE  Library!Move(from, to)
  BY DEF Library!Move, StageAt

\* One row goes on.
LEMMA WentOn ==
    ASSUME NEW from, NEW to, NEW p \in Photos, StageAt(p) \in from, StageAt(p)' = to,
           \A u \in Photos \ {p} : StageAt(u)' = StageAt(u)
    PROVE  Library!Goes(p, from, to)
  BY DEF Library!Goes, StageAt

\* Nothing changes that shows.
LEMMA Unseen ==
    ASSUME UNCHANGED <<thumbs, detected>>,
           \A u \in Photos : StageAt(u)' = StageAt(u)
    PROVE  LibraryStep
  BY DEF LibraryStep, Library!libraryVars, StageAt

\* The table, typed, and what the stage of a row says of its status.
LEMMA StagesOfRows ==
    ASSUME Inv, NEW u \in Photos
    PROVE  /\ photos[u] \in Row /\ Kind[u] \in {"image", "video", "other"}
           /\ photos[u].status # "absent" => StageAt(u) \in Holding
           /\ photos[u].status = "absent" <=> StageAt(u) = "unknown"
  <1>1. photos[u] \in Row /\ Kind[u] \in {"image", "video", "other"}
    BY StoreAssumption DEF Inv, TypeOK, Table
  <1>2. photos[u].status = "absent" => StageAt(u) = "unknown"
    BY <1>1, StageByStatus DEF StageAt
  <1>3. photos[u].status # "absent" => StageAt(u) \in Holding
    BY <1>1, KnownRows DEF StageAt, Holding
  <1> QED BY <1>1, <1>2, <1>3 DEF Holding

\* set_photos_error on rows that exist.
LEMMA ErrorFails ==
    ASSUME Inv, NEW S, \A u \in Photos : u \in S => photos[u].status # "absent",
           photos' = SetPhotosError(photos, S), UNCHANGED <<thumbs, detected>>
    PROVE  LibraryStep
  <1>1. ASSUME NEW u \in Photos, StageAt(u)' # StageAt(u)
        PROVE  StageAt(u) \in Holding /\ StageAt(u)' = "failed"
    <2>1. photos[u] \in Row /\ Kind[u] \in {"image", "video", "other"}
      BY StagesOfRows
    <2>2. u \in S
      BY <1>1 DEF SetPhotosError, StageAt
    <2>3. photos'[u] \in Row /\ photos'[u].status = "error"
      BY <2>1, <2>2 DEF SetPhotosError, Row, Statuses
    <2> QED BY <2>1, <2>2, <2>3, StagesOfRows, StageByStatus DEF StageAt
  <1>2. Library!Move(Holding, "failed")
    BY <1>1, MovedOn
  <1> QED BY <1>2 DEF LibraryStep, Library!LibraryNext, Library!Fail, Library!Known, Holding

\* A row that exists is sent back for another try.
LEMMA RowRequeued ==
    ASSUME Inv, NEW p \in Photos, photos[p].status # "absent",
           photos' \in Table, UNCHANGED <<thumbs, detected>>,
           photos'[p].status \in {"new", "downloading", "full", "fullres"},
           \A u \in Photos \ {p} : photos'[u] = photos[u]
    PROVE  LibraryStep
  <1>1. ASSUME NEW u \in Photos, StageAt(u)' # StageAt(u)
        PROVE  StageAt(u) \in Holding /\ StageAt(u)' = "queued"
    <2>1. u = p
      BY <1>1 DEF StageAt
    <2>2. photos'[p] \in Row /\ Kind[p] \in {"image", "video", "other"}
      BY StoreAssumption DEF Table
    <2> QED BY <2>1, <2>2, StagesOfRows, StageByStatus DEF StageAt
  <1>2. Library!Move(Holding, "queued")
    BY <1>1, MovedOn
  <1> QED BY <1>2 DEF LibraryStep, Library!LibraryNext, Library!Requeue, Library!Known, Holding

\* start(): a row that was stuck goes on waiting, or has failed too often.
LEMMA StartShows ==
    ASSUME Inv, Start
    PROVE  LibraryStep
  <1>1. PICK old \in SUBSET Photos :
          photos' = ResetStuckFullres(BackfillFullres(ResetClaims(photos)), old)
    BY DEF Start
  <1> DEFINE t1 == ResetClaims(photos)
             t2 == BackfillFullres(t1)
             t3 == ResetStuckFullres(t2, old)
  <1>2. photos \in Table /\ t1 \in Table /\ t2 \in Table /\ t3 \in Table
    BY TableStatements, SetStatements DEF Inv, TypeOK
  <1>3. ASSUME NEW u \in Photos
        PROVE  StageOf(t1[u], Kind[u]) = StageAt(u)
    <2>1. photos[u] \in Row /\ t1[u] \in Row /\ Kind[u] \in {"image", "video", "other"}
      BY <1>2, StoreAssumption DEF Table
    <2>2. \/ t1[u] = photos[u]
          \/ /\ photos[u].status \in {"processing", "fullres"}
             /\ t1[u].status \in {"downloading", "full"}
      BY <2>1 DEF ResetClaims, Row
    <2> HIDE DEF t1
    <2> QED BY <2>1, <2>2, StageByStatus DEF StageAt
  <1> HIDE DEF t1
  <1>4. ASSUME NEW u \in Photos
        PROVE  StageOf(t2[u], Kind[u]) = StageOf(t1[u], Kind[u])
    <2>1. t1[u] \in Row /\ t2[u] \in Row /\ Kind[u] \in {"image", "video", "other"}
      BY <1>2, StoreAssumption DEF Table
    <2>2. \/ t2[u] = t1[u]
          \/ /\ t1[u].status = "done" /\ t1[u].thumb # "file" /\ Kind[u] # "other"
             /\ t2[u].status = "full"
      BY <2>1 DEF BackfillFullres, Row
    <2> HIDE DEF t2
    <2> QED BY <2>1, <2>2, StageByStatus
  <1> HIDE DEF t2
  <1>5. ASSUME NEW u \in Photos
        PROVE  \/ StageOf(t3[u], Kind[u]) = StageOf(t2[u], Kind[u])
               \/ StageOf(t2[u], Kind[u]) = "queued" /\ StageOf(t3[u], Kind[u]) = "failed"
    <2>1. t2[u] \in Row /\ t3[u] \in Row /\ Kind[u] \in {"image", "video", "other"}
      BY <1>2, StoreAssumption DEF Table
    <2> DEFINE next == IF t2[u].retry < MaxRetryPark THEN "new" ELSE "error"
               kept == [t2[u] EXCEPT !.status = next, !.retry = @ + 1]
    <2>2. \/ t3[u] = t2[u]
          \/ t2[u].status = "full" /\ t3[u] = kept
      BY DEF ResetStuckFullres
    <2>3. kept.status = next /\ next \in {"new", "error"}
      BY <2>1 DEF Row
    <2> HIDE DEF kept, next, t3
    <2> QED BY <2>1, <2>2, <2>3, StageByStatus
  <1>6. photos' = t3
    BY <1>1 DEF t1, t2, t3
  <1> HIDE DEF t3
  <1>7. ASSUME NEW u \in Photos, StageAt(u)' # StageAt(u)
        PROVE  StageAt(u) \in Holding /\ StageAt(u)' = "failed"
    BY <1>3, <1>4, <1>5, <1>6, <1>7 DEF StageAt, Holding
  <1>8. UNCHANGED <<thumbs, detected>>
    BY DEF Start, fileVars
  <1>9. Library!Move(Holding, "failed")
    BY <1>7, <1>8, MovedOn
  <1> QED BY <1>9 DEF LibraryStep, Library!LibraryNext, Library!Fail, Library!Known, Holding

\* The statements of a synchronisation.
LEMMA SyncShows ==
    ASSUME Inv, SyncStep
    PROVE  LibraryStep
  <1>0. photos \in Table /\ photos \in [Photos -> Row]
    BY DEF Inv, TypeOK, Table
  <1>1. \A u \in Photos : photos[u] \in Row /\ Kind[u] \in {"image", "video", "other"}
    BY StagesOfRows
  <1>2. CASE SyncUpsert
    <2>1. PICK S : photos' = UpsertPhotos(photos, S) /\ UNCHANGED <<thumbs, detected>>
      BY <1>2 DEF SyncUpsert, fileVars
    <2>2. ASSUME NEW u \in Photos, StageAt(u)' # StageAt(u)
          PROVE  StageAt(u) \in {"unknown", "leaving", "deleted"} /\ StageAt(u)' = "queued"
      <3>1. photos'[u] \in Row
        BY <1>0, <2>1, SetStatements DEF Table
      <3>2. /\ photos[u].status \in {"absent", "pending_removal", "deleted"}
            /\ photos'[u].status = "new"
        BY <1>1, <2>1, <2>2 DEF UpsertPhotos, Gone, Row, StageAt
      <3> QED BY <1>1, <3>1, <3>2, StageByStatus DEF StageAt
    <2>3. Library!Move({"unknown", "leaving", "deleted"}, "queued")
      BY <2>1, <2>2, MovedOn
    <2> QED BY <2>3 DEF LibraryStep, Library!LibraryNext, Library!Enter
  <1>3. CASE SyncStage
    <2>1. PICK S : /\ photos' = MarkPendingRemoval(photos, S, Now)
                   /\ UNCHANGED <<thumbs, detected>>
      BY <1>3 DEF SyncStage, fileVars
    <2>2. ASSUME NEW u \in Photos, StageAt(u)' # StageAt(u)
          PROVE  /\ StageAt(u) \in {"queued", "shown", "listed", "failed"}
                 /\ StageAt(u)' = "leaving"
      <3>1. photos'[u] \in Row
        BY <1>0, <2>1, TimedStatements, NowType DEF Table
      <3>2. /\ photos[u].status \notin {"absent", "pending_removal", "deleted"}
            /\ photos'[u].status = "pending_removal"
        BY <1>1, <2>1, <2>2 DEF MarkPendingRemoval, ActiveRows, Gone, Row, StageAt
      <3>3. StageAt(u) \in {"queued", "shown", "listed", "failed"}
        BY <1>1, <3>2, StageByStatus DEF StageAt, Row, Statuses
      <3> QED BY <1>1, <3>1, <3>2, <3>3, StageByStatus DEF StageAt
    <2>3. Library!Move({"queued", "shown", "listed", "failed"}, "leaving")
      BY <2>1, <2>2, MovedOn
    <2> QED BY <2>3 DEF LibraryStep, Library!LibraryNext, Library!Leave
  <1>4. CASE SyncConfirm
    <2>1. PICK S : /\ photos' = ConfirmDeletions(photos, S, Now)
                   /\ UNCHANGED <<thumbs, detected>>
      BY <1>4 DEF SyncConfirm, fileVars
    <2>2. ASSUME NEW u \in Photos, StageAt(u)' # StageAt(u)
          PROVE  StageAt(u) \in {"leaving"} /\ StageAt(u)' = "deleted"
      <3>1. photos'[u] \in Row
        BY <1>0, <2>1, TimedStatements, NowType DEF Table
      <3>2. photos[u].status = "pending_removal" /\ photos'[u].status = "deleted"
        BY <1>1, <2>1, <2>2 DEF ConfirmDeletions, Row, StageAt
      <3> QED BY <1>1, <3>1, <3>2, StageByStatus DEF StageAt
    <2>3. Library!Move({"leaving"}, "deleted")
      BY <2>1, <2>2, MovedOn
    <2> QED BY <2>3 DEF LibraryStep, Library!LibraryNext, Library!Delete
  <1>5. CASE SyncRetry
    <2>1. photos' = RetryErrors(photos) /\ UNCHANGED <<thumbs, detected>>
      BY <1>5 DEF SyncRetry, fileVars
    <2>2. ASSUME NEW u \in Photos, StageAt(u)' # StageAt(u)
          PROVE  StageAt(u) \in Holding /\ StageAt(u)' = "queued"
      <3>1. photos'[u] \in Row
        BY <1>0, <2>1, TableStatements DEF Table
      <3>2. photos[u].status = "error" /\ photos'[u].status = "new"
        BY <1>1, <2>1, <2>2 DEF RetryErrors, Row, StageAt
      <3> QED BY <1>1, <3>1, <3>2, StageByStatus DEF StageAt, Holding
    <2>3. Library!Move(Holding, "queued")
      BY <2>1, <2>2, MovedOn
    <2> QED BY <2>3 DEF LibraryStep, Library!LibraryNext, Library!Requeue, Library!Known,
                        Holding
  <1>6. CASE CleanupUnlink
    <2>1. PICK P \in SUBSET Purgeable : thumbs' = thumbs \ {u \in P : photos[u].thumb = "file"}
      BY <1>6 DEF CleanupUnlink
    <2> DEFINE S == {u \in P : photos[u].thumb = "file"}
    <2>2. ASSUME NEW u \in S
          PROVE  u \in Photos /\ StageAt(u) = "deleted"
      <3>1. u \in Photos /\ photos[u].status = "deleted"
        BY <2>1, <2>2 DEF Purgeable
      <3> QED BY <1>1, <3>1, StageByStatus DEF StageAt
    <2>3. UNCHANGED <<photos, detected>> /\ thumbs' = thumbs \ S
      BY <1>6, <2>1 DEF CleanupUnlink, dbVars
    <2> HIDE DEF S
    <2>4. Library!Unlink
      BY <2>2, <2>3 DEF Library!Unlink, StageAt
    <2> QED BY <2>4 DEF LibraryStep, Library!LibraryNext
  <1>7. CASE CleanupPurge
    <2>1. /\ photos' = PurgeMedia(photos, purging) /\ UNCHANGED thumbs
          /\ detected' = [u \in Photos |-> IF u \in purging THEN 0 ELSE detected[u]]
      BY <1>7 DEF CleanupPurge, fileVars
    <2>2. ASSUME NEW u \in purging
          PROVE  u \in Photos /\ StageAt(u) \in {"deleted", "failed"}
      <3>1. u \in Photos /\ photos[u].status \in {"deleted", "error"}
        BY DEF Inv, TypeOK, PurgeAlone
      <3> QED BY <1>1, <3>1, StageByStatus DEF StageAt
    <2>3. ASSUME NEW u \in Photos
          PROVE  StageAt(u)' = StageAt(u)
      <3>1. CASE u \notin purging
        BY <2>1, <3>1 DEF PurgeMedia, StageAt
      <3>2. CASE u \in purging
        <4>1. photos'[u] \in Row /\ photos'[u].status = photos[u].status
          BY <1>1, <2>1, <3>2 DEF PurgeMedia, Row
        <4>2. photos[u].status \in {"deleted", "error"}
          BY <3>2 DEF Inv, PurgeAlone
        <4> QED BY <1>1, <4>1, <4>2, StageByStatus DEF StageAt
      <3> QED BY <3>1, <3>2
    <2>4. Library!Purge
      BY <2>1, <2>2, <2>3 DEF Library!Purge, StageAt
    <2> QED BY <2>4 DEF LibraryStep, Library!LibraryNext
  <1> QED BY <1>2, <1>3, <1>4, <1>5, <1>6, <1>7 DEF SyncStep

\* set_photo_done on one row.
LEMMA DoneRow ==
    ASSUME Inv, NEW p \in Photos, NEW thumb, thumb \in {"empty", "file"},
           photos' = SetPhotoDone(photos, p, thumb, Now)
    PROVE  /\ photos' \in Table /\ photos'[p].status = "done" /\ photos'[p].thumb = thumb
           /\ \A u \in Photos \ {p} : photos'[u] = photos[u]
  <1>1. photos \in Table /\ thumb \in {"null", "empty", "file"}
    BY DEF Inv, TypeOK
  <1> QED BY <1>1, DoneStatement, NowType

\* A call for thumbnails, from the claim to its last result.
LEMMA DownloaderShows ==
    ASSUME Inv, HandsKnown, DownloaderStep
    PROVE  LibraryStep
  <1>0. photos \in Table /\ photos \in [Photos -> Row]
    BY DEF Inv, TypeOK, Table
  <1>1. \A u \in Photos : photos[u] \in Row /\ Kind[u] \in {"image", "video", "other"}
    BY StagesOfRows
  <1>2. CASE DlClaim \/ DlTransient
    <2>1. PICK S : /\ \/ photos' = ClaimForDownload(photos, S)
                      \/ photos' = ReleaseDownloadClaims(photos, S)
                   /\ UNCHANGED <<thumbs, detected>>
      BY <1>2 DEF DlClaim, DlTransient, fileVars
    <2>2. ASSUME NEW u \in Photos
          PROVE  StageAt(u)' = StageAt(u)
      <3>1. photos'[u] \in Row
        BY <1>0, <2>1, SetStatements DEF Table
      <3>2. \/ photos'[u] = photos[u]
            \/ /\ photos[u].status \in {"new", "downloading"}
               /\ photos'[u].status \in {"new", "downloading"}
        BY <1>1, <2>1 DEF ClaimForDownload, ReleaseDownloadClaims, Row
      <3> QED BY <1>1, <3>1, <3>2, StageByStatus DEF StageAt
    <2> QED BY <2>1, <2>2, Unseen
  <1>3. CASE DlFail
    <2>1. photos' = SetPhotosError(photos, CallBatch) /\ UNCHANGED <<thumbs, detected>>
      BY <1>3 DEF DlFail, fileVars
    <2>2. \A u \in Photos : u \in CallBatch => photos[u].status # "absent"
      BY DEF HandsKnown, InHand, CallBatch
    <2> QED BY <2>1, <2>2, ErrorFails
  <1>4. CASE DlDrop
    BY <1>4, Unseen DEF DlDrop, dbVars, fileVars, StageAt
  <1>5. ASSUME NEW p \in Photos, DlResult(p)
        PROVE  LibraryStep
    <2>1. UNCHANGED <<thumbs, detected>>
      BY <1>5 DEF DlResult, fileVars
    <2>2. CASE reply[p] = "ok" /\ UNCHANGED photos
      BY <2>1, <2>2, Unseen DEF StageAt
    <2>3. CASE reply[p] # "none" /\ photos' = SetPhotosError(photos, {p})
      <3>1. \A u \in Photos : u \in {p} => photos[u].status # "absent"
        BY <2>3 DEF HandsKnown, InHand
      <3> QED BY <2>1, <2>3, <3>1, ErrorFails
    <2>4. CASE reply[p] # "none" /\ photos' = SetPhotoFull(photos, p)
      <3>1. photos[p].status # "absent"
        BY <2>4 DEF HandsKnown, InHand
      <3>2. /\ photos' \in Table /\ photos'[p].status = "full"
            /\ \A u \in Photos \ {p} : photos'[u] = photos[u]
        BY <1>0, <1>1, <2>4, RowStatements DEF SetPhotoFull, Row
      <3> QED BY <2>1, <3>1, <3>2, RowRequeued
    <2>5. CASE /\ reply[p] # "none" /\ Kind[p] = "other"
               /\ photos' = SetPhotoDone(photos, p, "empty", Now)
      <3>1. photos[p].status # "absent"
        BY <2>5 DEF HandsKnown, InHand
      <3>2. /\ photos' \in Table /\ photos'[p].status = "done" /\ photos'[p].thumb = "empty"
            /\ \A u \in Photos \ {p} : photos'[u] = photos[u]
        BY <2>5, DoneRow
      <3>3. photos'[p] \in Row
        BY <3>2 DEF Table
      <3>4. StageAt(p)' = "listed"
        BY <2>5, <3>2, <3>3, StageByStatus DEF StageAt
      <3>5. StageAt(p) \in Holding
        BY <3>1, StagesOfRows
      <3>6. \A u \in Photos \ {p} : StageAt(u)' = StageAt(u)
        BY <3>2 DEF StageAt
      <3>7. Library!Goes(p, Holding, "listed")
        BY <3>4, <3>5, <3>6, WentOn
      <3>8. Library!List(p)
        BY <2>1, <2>5, <3>7 DEF Library!List, Library!Known, Holding
      <3> QED BY <3>8 DEF LibraryStep, Library!LibraryNext
    <2> QED BY <1>1, <1>5, <2>2, <2>3, <2>4, <2>5 DEF DlResult
  <1> QED BY <1>2, <1>3, <1>4, <1>5 DEF DownloaderStep

\* The bridge writes to the work directory only.
LEMMA BridgeShows ==
    ASSUME BridgeStep
    PROVE  LibraryStep
  BY Unseen DEF BridgeStep, BridgeAnswer, BridgeSettle, BridgeLateWrite, dbVars, fileVars, StageAt

\* A file takes its place among the thumbnails.
LEMMA Pictured ==
    ASSUME NEW p \in Photos, thumbs' = thumbs \cup {p}, UNCHANGED <<photos, detected>>
    PROVE  LibraryStep
  <1>1. Library!Picture(p)
    BY DEF Library!Picture
  <1> QED BY <1>1 DEF LibraryStep, Library!LibraryNext

\* An original, from the claim to the poster or the queue.
LEMMA FullresShows ==
    ASSUME Inv, HandsKnown, FullresStep
    PROVE  LibraryStep
  <1>0. photos \in Table /\ photos \in [Photos -> Row]
    BY DEF Inv, TypeOK, Table
  <1>1. \A u \in Photos : photos[u] \in Row /\ Kind[u] \in {"image", "video", "other"}
    BY StagesOfRows
  <1> PICK p \in Photos : \/ FrPick(p) \/ FrDecode(p) \/ FrStore(p) \/ FrQueue(p)
                          \/ FrTransient(p) \/ FrFail(p) \/ FrDrop(p)
    BY DEF FullresStep
  <1>2. fullres[p] # "no" => photos[p].status # "absent"
    BY DEF HandsKnown, InHand
  <1>3. CASE FrPick(p)
    <2>1. photos' = ClaimForFull(photos, p) /\ UNCHANGED <<thumbs, detected>>
      BY <1>3 DEF FrPick, fileVars
    <2>2. ASSUME NEW u \in Photos
          PROVE  StageAt(u)' = StageAt(u)
      <3>0. photos' \in Table
        BY <1>0, <2>1, RowStatements
      <3>1. photos'[u] \in Row
        BY <3>0 DEF Table
      <3>2. \/ photos'[u] = photos[u]
            \/ photos[u].status = "full" /\ photos'[u].status = "fullres"
        BY <1>0, <1>1, <2>1 DEF ClaimForFull, Row
      <3> QED BY <1>1, <3>1, <3>2, StageByStatus DEF StageAt
    <2> QED BY <2>1, <2>2, Unseen
  <1>4. CASE FrDecode(p)
    <2>1. CASE Kind[p] = "video"
      BY <1>4, <2>1, Pictured DEF FrDecode, dbVars
    <2>2. CASE Kind[p] # "video"
      BY <1>4, <2>2, Unseen DEF FrDecode, dbVars, StageAt
    <2> QED BY <2>1, <2>2
  <1>5. CASE FrStore(p)
    <2>1. UNCHANGED <<thumbs, detected>> /\ fullres[p] = "decoded"
      BY <1>5 DEF FrStore, fileVars
    <2>2. photos[p].status # "absent"
      BY <1>2, <2>1
    <2>3. CASE Kind[p] = "video"
      <3>1. p \in thumbs
        BY <2>1, <2>3 DEF Inv, PosterThere
      <3>2. photos' = SetPhotoDone(photos, p, "file", Now)
        BY <1>5, <2>3 DEF FrStore
      <3>3. /\ photos' \in Table /\ photos'[p].status = "done" /\ photos'[p].thumb = "file"
            /\ \A u \in Photos \ {p} : photos'[u] = photos[u]
        BY <3>2, DoneRow
      <3>4. photos'[p] \in Row
        BY <3>3 DEF Table
      <3>5. StageAt(p)' = "shown"
        BY <1>1, <3>3, <3>4, StageByStatus DEF StageAt
      <3>6. StageAt(p) \in Holding
        BY <2>2, StagesOfRows
      <3>7. \A u \in Photos \ {p} : StageAt(u)' = StageAt(u)
        BY <3>3 DEF StageAt
      <3>8. Library!Goes(p, Holding, "shown")
        BY <3>5, <3>6, <3>7, WentOn
      <3>9. Library!ShowPoster(p)
        BY <2>1, <2>3, <3>1, <3>8 DEF Library!ShowPoster, Library!Known, Holding
      <3> QED BY <3>9 DEF LibraryStep, Library!LibraryNext
    <2>4. CASE Kind[p] # "video"
      <3>1. photos' = [photos EXCEPT ![p].status = "downloading"]
        BY <1>5, <2>4 DEF FrStore
      <3>2. /\ photos' \in Table /\ photos'[p].status = "downloading"
            /\ \A u \in Photos \ {p} : photos'[u] = photos[u]
        BY <1>0, <1>1, <3>1, RowStatements DEF Row
      <3> QED BY <2>1, <2>2, <3>2, RowRequeued
    <2> QED BY <2>3, <2>4
  <1>6. CASE FrQueue(p) \/ FrDrop(p)
    BY <1>6, Unseen DEF FrQueue, FrDrop, dbVars, fileVars, StageAt
  <1>7. CASE FrTransient(p)
    <2> DEFINE back == [photos[p] EXCEPT !.status = "full", !.processedAt = Now]
    <2>1. back.status = "full"
      BY <1>1 DEF Row
    <2>2. photos' = [photos EXCEPT ![p] = back] /\ photos' \in Table
      BY <1>0, <1>7, RowStatements, NowType DEF FrTransient, Row
    <2> HIDE DEF back
    <2>3. /\ photos'[p].status = "full"
          /\ \A u \in Photos \ {p} : photos'[u] = photos[u]
      BY <1>0, <2>1, <2>2
    <2>4. photos[p].status # "absent" /\ UNCHANGED <<thumbs, detected>>
      BY <1>2, <1>7 DEF FrTransient, fileVars
    <2> QED BY <2>2, <2>3, <2>4, RowRequeued
  <1>8. CASE FrFail(p)
    <2>1. photos' = SetPhotosError(photos, {p}) /\ UNCHANGED <<thumbs, detected>>
      BY <1>8 DEF FrFail, fileVars
    <2>2. \A u \in Photos : u \in {p} => photos[u].status # "absent"
      BY <1>2, <1>8 DEF FrFail
    <2> QED BY <2>1, <2>2, ErrorFails
  <1> QED BY <1>3, <1>4, <1>5, <1>6, <1>7, <1>8

\* Recognition, from the queue to the commit.
LEMMA WorkerShows ==
    ASSUME Inv, HandsKnown, NEW w \in Workers, WorkerStep(w)
    PROVE  LibraryStep
  <1>0. photos \in Table /\ photos \in [Photos -> Row]
    BY DEF Inv, TypeOK, Table
  <1>1. \A u \in Photos : photos[u] \in Row /\ Kind[u] \in {"image", "video", "other"}
    BY StagesOfRows
  <1>2. ASSUME wstate[w] \notin {"idle", "dead"}
        PROVE  Current(w) \in Photos /\ photos[Current(w)].status # "absent"
    <2>1. Current(w) \in Photos /\ Taken(Current(w))
      BY <1>2, CurrentType, CurrentTaken
    <2> QED BY <2>1 DEF HandsKnown, InHand, Taken
  <1>3. CASE WkTake(w) \/ WkFallback(w) \/ WkEmbed(w) \/ WkClaim(w) \/ WkRaise(w)
             \/ WkSetErrorFails(w)
    BY <1>3, Unseen DEF WkTake, WkFallback, WkEmbed, WkClaim, WkRaise, WkSetErrorFails, dbVars,
                        fileVars, StageAt
  <1>4. CASE WkMissing(w) \/ WkSetError(w)
    <2>1. /\ photos' = SetPhotosError(photos, {Current(w)}) /\ UNCHANGED <<thumbs, detected>>
          /\ wstate[w] \notin {"idle", "dead"}
      BY <1>4 DEF WkMissing, WkSetError, fileVars
    <2>2. \A u \in Photos : u \in {Current(w)} => photos[u].status # "absent"
      BY <1>2, <2>1
    <2> QED BY <2>1, <2>2, ErrorFails
  <1>5. CASE WkMove(w)
    <2>1. Current(w) \in Photos
      BY <1>2, <1>5 DEF WkMove
    <2>2. thumbs' = thumbs \cup {Current(w)} /\ UNCHANGED <<photos, detected>>
      BY <1>5 DEF WkMove, dbVars
    <2> QED BY <2>1, <2>2, Pictured
  <1>6. CASE WkCommit(w)
    <2>1. PICK c \in Photos : c = Current(w)
      BY <1>2, <1>6 DEF WkCommit
    <2>2. photos[c].status = "downloading" /\ c \in thumbs
      BY <1>6, <2>1 DEF WkCommit, Inv, ClaimsHold, InTransaction
    <2>3. /\ photos' = SetPhotoDone(photos, c, "file", Now) /\ UNCHANGED thumbs
          /\ detected' = [detected EXCEPT ![c] = IF @ = 0 THEN 1 ELSE @]
      BY <1>6, <2>1 DEF WkCommit, fileVars
    <2>4. /\ photos' \in Table /\ photos'[c].status = "done" /\ photos'[c].thumb = "file"
          /\ \A u \in Photos \ {c} : photos'[u] = photos[u]
      BY <2>3, DoneRow
    <2>5. detected' = [detected EXCEPT ![c] = 1]
      BY <2>3 DEF Inv, TypeOK, DetectedOnce
    <2>6. photos'[c] \in Row
      BY <2>4 DEF Table
    <2>7. StageAt(c)' = "shown" /\ StageAt(c) \in {"queued"}
      BY <1>1, <2>2, <2>4, <2>6, StageByStatus DEF StageAt
    <2>8. \A u \in Photos \ {c} : StageAt(u)' = StageAt(u)
      BY <2>4 DEF StageAt
    <2>9. Library!Goes(c, {"queued"}, "shown")
      BY <2>7, <2>8, WentOn
    <2>10. Library!Recognise(c)
      BY <2>2, <2>3, <2>5, <2>9 DEF Library!Recognise
    <2> QED BY <2>10 DEF LibraryStep, Library!LibraryNext
  <1> QED BY <1>3, <1>4, <1>5, <1>6 DEF WorkerStep

\* And what is not there when the indexer is first started.
LEMMA LibraryStart ==
    ASSUME Init
    PROVE  Library!LibraryInit
  <1> DEFINE dead == [NoRow EXCEPT !.status = "processing"]
             old == [NoRow EXCEPT !.status = "done", !.thumb = "empty", !.processedAt = Now]
             st == [u \in Photos |-> StageOf(photos[u], Kind[u])]
  <1>1. ASSUME NEW u \in Photos
        PROVE  st[u] \in {"unknown", "queued", "listed"} /\ (st[u] = "listed" => Kind[u] = "other")
    <2>1. /\ NoRow \in Row /\ NoRow.status = "absent"
          /\ dead \in Row /\ dead.status = "processing"
      BY DEF NoRow, NoTime, Row, Statuses
    <2>4. NoRow \in Row /\ Now \in Int
      BY <2>1, NowType
    <2>5. old \in Row
      BY <2>4 DEF Row, Statuses
    <2>6. old.status = "done" /\ old.thumb = "empty"
      BY <2>4 DEF Row
    <2>2. photos[u] \in {NoRow, dead, old} /\ Kind[u] \in {"image", "video", "other"}
      BY StoreAssumption DEF Init, LeftBehind
    <2> HIDE DEF dead, old
    <2>3. StageOf(photos[u], Kind[u]) \in {"unknown", "queued"}
          \/ (StageOf(photos[u], Kind[u]) = "listed" /\ Kind[u] = "other")
      BY <2>1, <2>2, <2>5, <2>6, StageByStatus
    <2> QED BY <2>3
  <1>2. thumbs = {} /\ detected = [u \in Photos |-> 0]
    BY DEF Init
  <1> QED BY <1>1, <1>2 DEF Library!LibraryInit

\* Every step of the indexer is a step of the library or does not show.
LEMMA LibraryNextStep ==
    ASSUME Inv, HandsKnown, [Next]_vars
    PROVE  LibraryStep
  <1>1. CASE Start
    BY <1>1, StartShows
  <1>2. CASE Crash
    BY <1>2, Unseen DEF Crash, dbVars, fileVars, StageAt
  <1>3. CASE UNCHANGED vars
    BY <1>3, Unseen DEF vars, StageAt
  <1> QED BY <1>1, <1>2, <1>3, SyncShows, DownloaderShows, BridgeShows, FullresShows, WorkerShows
          DEF Next

\* The indexer implements the library: whatever the threads of start(), the bridge call,
\* a crash and a late result do to rows, thumbnails and faces, a photo is queued, shown,
\* failed, leaving and deleted by the steps of PhotoLibrary and no other.
THEOREM KeepsLibrary == Spec => LibraryKept
  <1>1. Init => Library!LibraryInit
    BY LibraryStart
  <1>2. Inv /\ HandsKnown /\ [Next]_vars => [Library!LibraryNext]_(Library!libraryVars)
    BY LibraryNextStep DEF LibraryStep
  <1> QED BY <1>1, <1>2, Invariance, HandsHaveRows, PTL DEF Spec, LibraryKept, Library!LibrarySpec

\* The promise of the library carries: its steps alone, whoever takes them, show no photo
\* without its picture, nor one that is no video without the faces of a detector run.
THEOREM LibraryIsWhole == Library!LibrarySpec => []Library!ShownWhole
  <1> DEFINE st == [u \in Photos |-> StageOf(photos[u], Kind[u])]
             Whole(u) == st[u] = "shown" => u \in thumbs /\ (detected[u] = 1 \/ Kind[u] = "video")
             Fun == detected = [u \in Photos |-> detected[u]]
             W == Fun /\ \A u \in Photos : Whole(u)
  <1>1. Library!LibraryInit => W
    BY DEF Library!LibraryInit
  <1>2. ASSUME W, [Library!LibraryNext]_(Library!libraryVars)
        PROVE  W'
    <2>1. ASSUME NEW from, NEW to, to # "shown", Library!Move(from, to)
          PROVE  W'
      <3>1. thumbs' = thumbs /\ detected' = detected
        BY <2>1 DEF Library!Move
      <3>2. \A u \in Photos : st'[u] = "shown" => st[u] = "shown"
        BY <2>1 DEF Library!Move
      <3> HIDE DEF st
      <3> QED BY <1>2, <3>1, <3>2
    <2>2. CASE \/ Library!Requeue \/ Library!Fail \/ Library!Enter \/ Library!Leave
               \/ Library!Delete
      BY <2>1, <2>2 DEF Library!Requeue, Library!Fail, Library!Enter, Library!Leave,
                        Library!Delete
    <2>3. CASE Library!Unlink
      <3>1. st' = st /\ detected' = detected
            /\ \A u \in Photos : u \in thumbs /\ st[u] # "deleted" => u \in thumbs'
        BY <2>3 DEF Library!Unlink
      <3> HIDE DEF st
      <3> QED BY <1>2, <3>1
    <2>4. CASE Library!Purge
      <3>1. PICK S \in SUBSET {u \in Photos : st[u] \in {"deleted", "failed"}} :
               detected' = [u \in Photos |-> IF u \in S THEN 0 ELSE detected[u]]
        BY <2>4 DEF Library!Purge
      <3>2. st' = st /\ thumbs' = thumbs
        BY <2>4 DEF Library!Purge
      <3> HIDE DEF st
      <3> QED BY <1>2, <3>1, <3>2
    <2>5. ASSUME NEW p \in Photos, Library!List(p) \/ Library!ShowPoster(p) \/ Library!Recognise(p)
          PROVE  W'
      <3>1. CASE Library!List(p)
        <4>1. st' = [st EXCEPT ![p] = "listed"] /\ thumbs' = thumbs /\ detected' = detected
          BY <3>1 DEF Library!List, Library!Goes
        <4>2. \A u \in Photos : st'[u] = "shown" => st[u] = "shown"
          BY <4>1
        <4> HIDE DEF st
        <4> QED BY <1>2, <4>1, <4>2
      <3>2. CASE Library!ShowPoster(p)
        <4>1. /\ st' = [st EXCEPT ![p] = "shown"] /\ thumbs' = thumbs /\ detected' = detected
              /\ Kind[p] = "video" /\ p \in thumbs
          BY <3>2 DEF Library!ShowPoster, Library!Goes
        <4>2. \A u \in Photos : u # p /\ st'[u] = "shown" => st[u] = "shown"
          BY <4>1
        <4> HIDE DEF st
        <4> QED BY <1>2, <4>1, <4>2
      <3>3. CASE Library!Recognise(p)
        <4>1. /\ st' = [st EXCEPT ![p] = "shown"] /\ thumbs' = thumbs
              /\ detected' = [detected EXCEPT ![p] = 1] /\ p \in thumbs
          BY <3>3 DEF Library!Recognise, Library!Goes
        <4>2. \A u \in Photos : u # p /\ st'[u] = "shown" => st[u] = "shown"
          BY <4>1
        <4>3. Fun' /\ detected'[p] = 1 /\ \A u \in Photos : u # p => detected'[u] = detected[u]
          BY <1>2, <4>1
        <4> HIDE DEF st
        <4> QED BY <1>2, <4>1, <4>2, <4>3
      <3> QED BY <2>5, <3>1, <3>2, <3>3
    <2>6. ASSUME NEW p \in Photos, Library!Picture(p)
          PROVE  W'
      <3>1. st' = st /\ detected' = detected /\ thumbs \subseteq thumbs'
        BY <2>6 DEF Library!Picture
      <3> HIDE DEF st
      <3> QED BY <1>2, <3>1
    <2>7. CASE UNCHANGED Library!libraryVars
      <3>1. st' = st /\ detected' = detected /\ thumbs' = thumbs
        BY <2>7 DEF Library!libraryVars
      <3> HIDE DEF st
      <3> QED BY <1>2, <3>1
    <2> QED BY <1>2, <2>2, <2>3, <2>4, <2>5, <2>6, <2>7 DEF Library!LibraryNext
  <1>3. W => Library!ShownWhole
    BY DEF Library!ShownWhole
  <1> HIDE DEF W
  <1> QED BY <1>1, <1>2, <1>3, PTL DEF Library!LibrarySpec

=============================================================================
