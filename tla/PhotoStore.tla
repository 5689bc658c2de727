----------------------------- MODULE PhotoStore -----------------------------
(***************************************************************************)
(* Table "photos" of the SQLite index (app/src/store.py): the fields the   *)
(* indexer coordinates through, and one operator per SQL statement that    *)
(* changes them.  Every operator takes the table t and returns the table   *)
(* the statement leaves behind; a call is one commit.  The modules that    *)
(* model threads apply them to their own table variable.                   *)
(***************************************************************************)
EXTENDS Integers

CONSTANTS
    Photos,        \* the uids of the Proton timeline
    Kind,          \* Kind[u]: the media_type of u, up to its prefix
    MaxRetryPark   \* retry_count at which a row is parked in 'error'

ASSUME StoreAssumption ==
    /\ Kind \in [Photos -> {"image", "video", "other"}]
    /\ MaxRetryPark \in Nat \ {0}

NoTime == -1       \* a NULL time

\* "absent" stands for a uid without a row.
Statuses == {"absent", "new", "downloading", "processing", "full", "fullres",
             "done", "error", "pending_removal", "deleted"}

\* thumb_path is NULL, the empty string, or the name of a cached WebP.
Row == [status: Statuses, thumb: {"null", "empty", "file"},
        processedAt: Int, wasDeletedAt: Int, retry: Nat]

Table == [Photos -> Row]

NoRow == [status |-> "absent", thumb |-> "null", processedAt |-> NoTime,
          wasDeletedAt |-> NoTime, retry |-> 0]

Gone == {"pending_removal", "deleted"}

\* Rows a full scan counts as part of the local library.
ActiveRows(t) == {u \in Photos : t[u].status \notin Gone \cup {"absent"}}

----------------------------------------------------------------------------
(* Synchronisation with the timeline.                                      *)

\* INSERT ... ON CONFLICT: a new row, or the reclaim of a vanished one.
UpsertPhotos(t, S) ==
    [u \in Photos |->
        IF u \notin S \/ t[u].status \notin Gone \cup {"absent"} THEN t[u]
        ELSE [t[u] EXCEPT !.status = "new", !.wasDeletedAt = NoTime, !.retry = 0]]

MarkPendingRemoval(t, S, now) ==
    [u \in Photos |->
        IF u \in S /\ u \in ActiveRows(t)
        THEN [t[u] EXCEPT !.status = "pending_removal", !.processedAt = now]
        ELSE t[u]]

\* due: the staged rows whose processed_at lies outside the grace window.
ConfirmDeletions(t, due, now) ==
    [u \in Photos |->
        IF u \in due /\ t[u].status = "pending_removal"
        THEN [t[u] EXCEPT !.status = "deleted",
                          !.wasDeletedAt = IF @ = NoTime THEN now ELSE @]
        ELSE t[u]]

\* The last statement of a full scan: failed rows with budget left start again.
RetryErrors(t) ==
    [u \in Photos |->
        IF t[u].status = "error" /\ t[u].retry < MaxRetryPark
        THEN [t[u] EXCEPT !.status = "new"] ELSE t[u]]

PurgeMedia(t, S) ==
    [u \in Photos |-> IF u \in S THEN [t[u] EXCEPT !.thumb = "null"] ELSE t[u]]

----------------------------------------------------------------------------
(* Claims: guarded by the status they move, so that one caller wins.       *)

ClaimForDownload(t, S) ==
    [u \in Photos |->
        IF u \in S /\ t[u].status = "new"
        THEN [t[u] EXCEPT !.status = "downloading"] ELSE t[u]]

ReleaseDownloadClaims(t, S) ==
    [u \in Photos |->
        IF u \in S /\ t[u].status = "downloading"
        THEN [t[u] EXCEPT !.status = "new"] ELSE t[u]]

ClaimForFull(t, p) ==
    IF t[p].status = "full" THEN [t EXCEPT ![p].status = "fullres"] ELSE t

----------------------------------------------------------------------------
(* Results: these UPDATEs name the uid and nothing else, whatever status   *)
(* the row has reached meanwhile.                                          *)

SetPhotoDone(t, p, thumb, now) ==
    [t EXCEPT ![p].status = "done", ![p].thumb = thumb, ![p].processedAt = now]

SetPhotoFull(t, p) == [t EXCEPT ![p].status = "full"]

SetPhotosError(t, S) ==
    [u \in Photos |-> IF u \in S THEN [t[u] EXCEPT !.status = "error"] ELSE t[u]]

----------------------------------------------------------------------------
(* Recovery when the indexer starts.                                       *)

\* Mutant: 'fullres' is not reset.
ResetProcessingOnly(t) ==
    [u \in Photos |->
        IF t[u].status = "processing" THEN [t[u] EXCEPT !.status = "downloading"] ELSE t[u]]

\* Claims of a run that died: 'processing' and 'fullres' step back.
ResetClaims(t) ==
    [u \in Photos |->
        CASE t[u].status = "processing" -> [t[u] EXCEPT !.status = "downloading"]
          [] t[u].status = "fullres"    -> [t[u] EXCEPT !.status = "full"]
          [] OTHER                      -> t[u]]

\* Rows finished without a thumbnail by an older release.
BackfillFullres(t) ==
    [u \in Photos |->
        IF /\ t[u].status = "done" /\ t[u].thumb # "file"
           /\ Kind[u] \in {"image", "video"}
        THEN [t[u] EXCEPT !.status = "full"] ELSE t[u]]

\* Mutant: the budget counts down.
ResetStuckCountdown(t, old) ==
    [u \in Photos |->
        IF u \in old /\ t[u].status = "full" /\ t[u].processedAt # NoTime
        THEN [t[u] EXCEPT !.status = IF t[u].retry < MaxRetryPark
                                     THEN "new" ELSE "error",
                          !.retry = @ - 1]
        ELSE t[u]]

\* old: the rows whose processed_at is older than the retry interval.
ResetStuckFullres(t, old) ==
    [u \in Photos |->
        IF u \in old /\ t[u].status = "full" /\ t[u].processedAt # NoTime
        THEN [t[u] EXCEPT !.status = IF t[u].retry < MaxRetryPark
                                     THEN "new" ELSE "error",
                          !.retry = @ + 1]
        ELSE t[u]]

=============================================================================
