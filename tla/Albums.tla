------------------------------- MODULE Albums -------------------------------
(***************************************************************************)
(* Albums of the index (app/src/store.py): every photo carries the uids of *)
(* its albums, table "photo_albums" mirrors them for the queries, and a    *)
(* row of "albums" keeps the count the grid shows.  The statements of      *)
(* PhotoStore that change what an album counts flag the album in the same  *)
(* commit, all but one, and sync_albums recounts the flagged ones; now and *)
(* then it recounts all that have a photo.  Each action is one commit.     *)
(***************************************************************************)
EXTENDS PhotoStore, FiniteSets

CONSTANTS
    AlbumUids,   \* the uids of the albums
    NoCount,     \* photo_count IS NULL: the grid leaves the album out
    MaxEdits     \* bound: how often a photo vanishes, comes back or changes albums

ASSUME AlbumsAssumption == MaxEdits \in Nat

VARIABLES
    photos,     \* table photos, as in PhotoStore
    listed,     \* photos.albums, the JSON column: the source of truth
    mirror,     \* photo_albums
    known,      \* the rows of table albums
    shown,      \* albums.photo_count and cover: the photos they stand for
    dirty,      \* albums.dirty
    rescanDue,  \* albums_full_rescan_sec have passed since the last full rescan
    claimed,    \* photos that a thread of the pipeline still works on
    bypassed,   \* observer: photos that were last finished past the hooks, since the
                \* last full rescan
    edits

photoVars == <<photos, listed>>
albumVars == <<known, shown, rescanDue>>
vars == <<photos, listed, mirror, known, shown, dirty, rescanDue, claimed, bypassed, edits>>

Now == 0   \* times are not told apart here

TypeOK ==
    /\ photos \in Table
    /\ listed \in [Photos -> SUBSET AlbumUids]
    /\ mirror \in [Photos -> SUBSET AlbumUids]
    /\ known \subseteq AlbumUids /\ dirty \subseteq known
    /\ shown \in [AlbumUids -> {NoCount} \cup SUBSET Photos]
    /\ rescanDue \in BOOLEAN
    /\ claimed \subseteq Photos
    /\ bypassed \subseteq {u \in Photos : Kind[u] = "video"}
    /\ edits \in 0 .. MaxEdits

\* status='done' AND thumb_path IS NOT NULL AND thumb_path != ''
Counted(u) == photos[u].status = "done" /\ photos[u].thumb = "file"

\* What the album really has.
Members(a) == {u \in Photos : Counted(u) /\ a \in listed[u]}

Init ==
    /\ photos = [u \in Photos |-> NoRow]
    /\ listed = [u \in Photos |-> {}] /\ mirror = listed
    /\ known = {} /\ dirty = {} /\ rescanDue = TRUE
    /\ shown = [a \in AlbumUids |-> NoCount]
    /\ claimed = {} /\ bypassed = {} /\ edits = 0

----------------------------------------------------------------------------
(* The hooks.                                                              *)

\* Mutant: albums without a row are flagged too.
FlagUnknown(S) == dirty' = dirty \cup S

\* _mark_albums_dirty: an UPDATE, so an album without a row is not flagged.
Flag(S) == dirty' = dirty \cup (S \cap known)

AlbumsOf(S) == UNION {listed[u] : u \in S}

\* _mark_dirty_for_photos
FlagFor(S) == Flag(AlbumsOf(S))

\* Bound: the first time a photo is seen and its return are free.
Edit(S) ==
    IF \A u \in S : photos[u].status \in Gone \cup {"absent"} THEN UNCHANGED edits
    ELSE edits < MaxEdits /\ edits' = edits + 1

----------------------------------------------------------------------------
(* The sync thread: the timeline against the index.                        *)

\* Mutant: the albums a photo leaves are not flagged.
UpsertNewOnly(u, L) ==
    /\ Edit({u})
    /\ photos' = UpsertPhotos(photos, {u})
    /\ listed' = [listed EXCEPT ![u] = L]
    /\ mirror' = [mirror EXCEPT ![u] = L]
    /\ Flag(IF listed[u] = L THEN {} ELSE L)
    /\ UNCHANGED <<albumVars, claimed, bypassed>>

\* One row of _upsert_photos_chunk, a photo new, back, or met again by the tip check.
Upsert(u, L) ==
    /\ Edit({u})
    /\ photos' = UpsertPhotos(photos, {u})
    /\ listed' = [listed EXCEPT ![u] = L]
    /\ mirror' = [mirror EXCEPT ![u] = L]
    /\ Flag(IF listed[u] = L THEN {} ELSE listed[u] \cup L)
    /\ UNCHANGED <<albumVars, claimed, bypassed>>

\* mark_pending_removal
Stage(S) ==
    /\ Edit(S)
    /\ S # {} /\ S \subseteq ActiveRows(photos)
    /\ photos' = MarkPendingRemoval(photos, S, Now)
    /\ FlagFor(S)
    /\ UNCHANGED <<listed, mirror, albumVars, claimed, bypassed>>

\* confirm_deletions, for the staged rows whose grace is over.
Confirm(due) ==
    /\ due # {} /\ \A u \in due : photos[u].status = "pending_removal"
    /\ photos' = ConfirmDeletions(photos, due, Now)
    /\ FlagFor(due)
    /\ UNCHANGED <<listed, mirror, albumVars, claimed, bypassed, edits>>

\* purge_deleted_photo_media
Purge(S) ==
    /\ S # {} /\ \A u \in S : photos[u].status = "deleted" /\ photos[u].thumb # "null"
    /\ photos' = PurgeMedia(photos, S)
    /\ FlagFor(S)
    /\ UNCHANGED <<listed, mirror, albumVars, claimed, bypassed, edits>>

Retry ==
    /\ photos' = RetryErrors(photos)
    /\ UNCHANGED <<listed, mirror, dirty, albumVars, claimed, bypassed, edits>>

Scan ==
    \/ \E u \in Photos, L \in SUBSET AlbumUids : Upsert(u, L)
    \/ \E S \in SUBSET Photos : Stage(S) \/ Confirm(S) \/ Purge(S)
    \/ Retry

----------------------------------------------------------------------------
(* The pipeline, up to what it does to the status of a photo.  Which result *)
(* comes when is the matter of PhotoPipeline; there the call to the bridge,  *)
(* a worker and the full-size thread may hold one photo, and each reports.   *)

Take(u) ==
    /\ u \notin claimed /\ photos[u].status \in {"new", "downloading", "full"}
    /\ photos' = ClaimForDownload(photos, {u})
    /\ claimed' = claimed \cup {u}
    /\ UNCHANGED <<listed, mirror, dirty, albumVars, bypassed, edits>>

\* Mutant: set_photo_done leaves the mirror as a recount has left it.
SetDoneNoMirror(u, thumb) ==
    /\ photos' = SetPhotoDone(photos, u, thumb, Now)
    /\ FlagFor({u})
    /\ bypassed' = bypassed \ {u}
    /\ UNCHANGED mirror

\* set_photo_done with its hook
SetDone(u, thumb) ==
    /\ photos' = SetPhotoDone(photos, u, thumb, Now)
    /\ mirror' = [mirror EXCEPT ![u] = listed[u]]
    /\ FlagFor({u})
    /\ bypassed' = bypassed \ {u}

\* The full-size thread finishes a video by an UPDATE of its own, without the hook.
FinishVideo(u) ==
    /\ Kind[u] = "video"
    /\ photos' = SetPhotoDone(photos, u, "file", Now)
    /\ bypassed' = bypassed \cup {u}
    /\ UNCHANGED <<mirror, dirty>>

\* set_photo_error, set_photos_error, set_photo_full, release_download_claims and the
\* UPDATE that hands an image over to the workers have none.
SetOther(t) ==
    /\ photos' = t
    /\ UNCHANGED <<mirror, dirty, bypassed>>

Report(u) ==
    \/ SetDone(u, "file")
    \/ FinishVideo(u)
    \/ SetOther(SetPhotosError(photos, {u}))
    \/ SetOther(ReleaseDownloadClaims(photos, {u}))
    \/ Kind[u] \in {"image", "video"} /\ SetOther(SetPhotoFull(photos, u))
    \/ Kind[u] # "video" /\ SetOther([photos EXCEPT ![u].status = "downloading"])
    \/ Kind[u] = "other" /\ SetDone(u, "empty")

\* One of those that hold u reports, whatever the others have made of it.
Result(u) ==
    /\ u \in claimed /\ Report(u)
    /\ claimed' \in {claimed, claimed \ {u}}
    /\ UNCHANGED <<listed, albumVars, edits>>

\* The indexer dies and starts again.  Of what it then repairs, the rows in
\* 'processing', 'fullres' and 'full' are never counted and left out.
Restart ==
    /\ photos' = BackfillFullres(photos)
    /\ claimed' = {}
    /\ UNCHANGED <<listed, mirror, dirty, albumVars, bypassed, edits>>

Pipeline ==
    \/ \E u \in Photos : Take(u) \/ Result(u)
    \/ Restart

----------------------------------------------------------------------------
(* The albums loop.                                                        *)

Mirrored(a) == {u \in Photos : Counted(u) /\ a \in mirror[u]}

\* What is left of the mirror when the albums of S are recounted.
Pruned(S) == [u \in Photos |-> IF Counted(u) THEN mirror[u] ELSE mirror[u] \ S]

\* The incremental pass: _recalc_album for every flagged album.
Recount ==
    /\ shown' = [a \in AlbumUids |-> IF a \in dirty THEN Mirrored(a) ELSE shown[a]]
    /\ mirror' = Pruned(dirty)
    /\ dirty' = {}
    /\ UNCHANGED <<rescanDue, bypassed>>

\* Mutant: only flagged albums are recounted.
RescanFlagged(rows) ==
    LET found == {a \in AlbumUids : Members(a) # {}} \cap dirty
    IN  /\ shown' = [a \in AlbumUids |-> IF a \in found \cap rows THEN Members(a) ELSE shown[a]]
        /\ mirror' = [u \in Photos |-> (mirror[u] \ found)
                                         \cup (IF Counted(u) THEN listed[u] ELSE {})]
        /\ dirty' = dirty \ found
        /\ rescanDue' = FALSE
        /\ UNCHANGED bypassed

\* _rescan_albums: from the JSON column, for albums that have a photo; the
\* others keep their count and their flag.
Rescan(rows) ==
    LET found == {a \in AlbumUids : Members(a) # {}}
    IN  /\ shown' = [a \in AlbumUids |-> IF a \in found \cap rows THEN Members(a) ELSE shown[a]]
        /\ mirror' = [u \in Photos |-> (mirror[u] \ found)
                                         \cup (IF Counted(u) THEN listed[u] ELSE {})]
        /\ dirty' = dirty \ found
        /\ rescanDue' = FALSE
        /\ bypassed' = {}

\* sync_albums for the albums the bridge lists.
SyncAlbums(offered) ==
    /\ known' = known \cup offered
    /\ IF rescanDue THEN Rescan(known') ELSE Recount
    /\ UNCHANGED <<photoVars, claimed, edits>>

\* _sync_albums_once: a call that fails and an empty list change nothing.
SyncAlbumsOnce(offered) == offered # {} /\ SyncAlbums(offered)

\* albums_full_rescan_sec later
Due ==
    /\ rescanDue' = TRUE
    /\ UNCHANGED <<photoVars, mirror, known, shown, dirty, claimed, bypassed, edits>>

----------------------------------------------------------------------------
Next ==
    \/ Scan \/ Pipeline
    \/ \E offered \in SUBSET AlbumUids : SyncAlbumsOnce(offered)
    \/ Due

\* The albums loop runs for ever and the clock goes on; the bridge lists what
\* exists.
Fairness ==
    /\ \A a \in AlbumUids : WF_vars(\E offered \in SUBSET AlbumUids :
                                        a \in offered /\ SyncAlbumsOnce(offered))
    /\ WF_vars(Due)

Spec == Init /\ [][Next]_vars /\ Fairness

----------------------------------------------------------------------------
(* Properties.                                                             *)

\* The mirror of a photo that counts is complete, so that a recount, which prunes the
\* rows of photos that are not done at that moment, costs no album a photo that comes
\* back; but for videos that the full-size thread has finished since the last full
\* rescan, which is the "repair pass" for what went past the hooks (store.py:2590).
MirrorComplete ==
    \A u \in Photos : /\ mirror[u] \subseteq listed[u]
                      /\ Counted(u) /\ u \notin bypassed => mirror[u] = listed[u]

\* An album that shows a count and waits for no recount misses none of its photos but
\* such videos; what it shows beyond them is still listed in it and on its way
\* through the pipeline: a late answer of the bridge took it out of 'done'
\* without a flag.
CleanMissesBypassedOnly ==
    \A a \in known \ dirty :
        shown[a] # NoCount =>
            /\ Members(a) \ bypassed \subseteq shown[a]
            /\ \A u \in shown[a] \ Members(a) :
                  a \in listed[u] /\ u \in ActiveRows(photos)

\* What set_photo_done says of every photo that joins the counted set (store.py:933: its
\* albums are flagged "so the next incremental albums sync counts it"): an album that
\* waits for no recount misses none.  _fullres_loop does not call it for videos.
CleanNeverMisses ==
    \A a \in known \ dirty : shown[a] # NoCount => Members(a) \subseteq shown[a]

\* An album whose photos stay as they are shows them in the end, even when it
\* came to the index after them and no flag was ever set.
EventuallyCounted ==
    \A a \in AlbumUids : \A S \in SUBSET Photos \ {{}} :
        <>[](Members(a) = S) => <>[](shown[a] = S)

=============================================================================
