---------------------------- MODULE AlbumsProofs ----------------------------
(***************************************************************************)
(* Proofs that the mirror of a counted photo is complete and that an album *)
(* without a flag misses none of its photos, but for videos that were      *)
(* finished past the hooks since the last full rescan; for any number of   *)
(* photos and albums.                                                      *)
(***************************************************************************)
EXTENDS Albums, TLAPS

\* An album gets its first count from a recount, and that one reads the rows
\* of table albums only.
UnknownHidden == \A a \in AlbumUids \ known : shown[a] = NoCount

Inv == TypeOK /\ MirrorComplete /\ CleanMissesBypassedOnly /\ UnknownHidden

\* Those whom the full-size thread finishes without the hook.
Videos == {u \in Photos : Kind[u] = "video"}

\* The row of u in s instead of t gives no album a photo, and takes none from it
\* that was not deleted or staged.
Quiet(t, s, u) ==
    /\ s[u].status = "done" /\ s[u].thumb = "file"
         => t[u].status = "done" /\ t[u].thumb = "file"
    /\ u \in ActiveRows(t) => u \in ActiveRows(s)

LEMMA NowIsTime == Now \in Int
  BY DEF Now

-----------------------------------------------------------------------------
(* What a statement leaves behind is a table.                              *)

\* A row stays a row when upsert_photos reclaims it.
LEMMA ReclaimedRow ==
    ASSUME NEW r \in Row, NEW s \in Statuses, NEW n \in Int, NEW k \in Nat
    PROVE  [r EXCEPT !.status = s, !.wasDeletedAt = n, !.retry = k] \in Row
  BY DEF Row

\* The statements on photos that albums are affected by leave a table.
LEMMA SetStatements ==
    ASSUME NEW t \in Table, NEW S
    PROVE  /\ UpsertPhotos(t, S) \in Table /\ PurgeMedia(t, S) \in Table
           /\ ClaimForDownload(t, S) \in Table /\ SetPhotosError(t, S) \in Table
           /\ ReleaseDownloadClaims(t, S) \in Table
           /\ MarkPendingRemoval(t, S, Now) \in Table /\ ConfirmDeletions(t, S, Now) \in Table
           /\ RetryErrors(t) \in Table /\ BackfillFullres(t) \in Table
  <1> USE NowIsTime DEF Table, Statuses
  <1>1. UpsertPhotos(t, S) \in Table
    <2>1. ASSUME NEW u \in Photos
          PROVE  [t[u] EXCEPT !.status = "new", !.wasDeletedAt = NoTime, !.retry = 0] \in Row
      <3>1. NoTime \in Int /\ "new" \in Statuses /\ 0 \in Nat /\ t[u] \in Row
        BY DEF NoTime
      <3> QED BY <3>1, ReclaimedRow
    <2> QED BY <2>1 DEF UpsertPhotos
  <1>2. PurgeMedia(t, S) \in Table /\ ClaimForDownload(t, S) \in Table
    BY DEF Row, PurgeMedia, ClaimForDownload
  <1>3. SetPhotosError(t, S) \in Table /\ ReleaseDownloadClaims(t, S) \in Table
    BY DEF Row, SetPhotosError, ReleaseDownloadClaims
  <1>4. MarkPendingRemoval(t, S, Now) \in Table
    BY DEF Row, MarkPendingRemoval
  <1>5. ConfirmDeletions(t, S, Now) \in Table
    BY DEF Row, ConfirmDeletions
  <1>6. RetryErrors(t) \in Table /\ BackfillFullres(t) \in Table
    BY DEF Row, RetryErrors, BackfillFullres
  <1> QED BY <1>1, <1>2, <1>3, <1>4, <1>5, <1>6

\* So do those on one row.
LEMMA RowStatements ==
    ASSUME NEW t \in Table, NEW p \in Photos, NEW thumb \in {"empty", "file"}
    PROVE  /\ SetPhotoFull(t, p) \in Table
           /\ SetPhotoDone(t, p, thumb, Now) \in Table
           /\ \A u \in Photos \ {p} : SetPhotoDone(t, p, thumb, Now)[u] = t[u]
  <1>0. t \in [Photos -> Row]
    BY DEF Table
  <1>1. SetPhotoFull(t, p) \in Table
    BY DEF Table, Row, Statuses, SetPhotoFull
  <1>2. [t[p] EXCEPT !.status = "done", !.thumb = thumb, !.processedAt = Now] \in Row
    BY <1>0, NowIsTime DEF Row, Statuses
  <1>3. SetPhotoDone(t, p, thumb, Now)
          = [t EXCEPT ![p] = [t[p] EXCEPT !.status = "done", !.thumb = thumb,
                                          !.processedAt = Now]]
    BY <1>0 DEF SetPhotoDone, Row
  <1> QED BY <1>0, <1>1, <1>2, <1>3 DEF Table

(***************************************************************************)
(* The statements that have no hook need none, but the one for videos.     *)
(***************************************************************************)

\* Claims, releases, errors and a retry never complete a photo.
LEMMA UnhookedStatements ==
    ASSUME NEW t \in Table, NEW S, NEW u \in Photos
    PROVE  /\ Quiet(t, RetryErrors(t), u)
           /\ Quiet(t, ClaimForDownload(t, S), u)
           /\ Quiet(t, ReleaseDownloadClaims(t, S), u)
           /\ Quiet(t, SetPhotosError(t, S), u)
           /\ Quiet(t, BackfillFullres(t), u)
           /\ Quiet(t, UpsertPhotos(t, S), u)
  <1>0. t \in [Photos -> Row]
    BY DEF Table
  <1>1. Quiet(t, RetryErrors(t), u)
    BY <1>0 DEF Row, Quiet, RetryErrors, ActiveRows, Gone
  <1>2. Quiet(t, ClaimForDownload(t, S), u) /\ Quiet(t, ReleaseDownloadClaims(t, S), u)
    BY <1>0 DEF Row, Quiet, ClaimForDownload, ReleaseDownloadClaims, ActiveRows, Gone
  <1>3. Quiet(t, SetPhotosError(t, S), u)
    BY <1>0 DEF Row, Quiet, SetPhotosError, ActiveRows, Gone
  <1>4. Quiet(t, BackfillFullres(t), u)
    BY <1>0 DEF Row, Quiet, BackfillFullres, ActiveRows, Gone
  <1>5. Quiet(t, UpsertPhotos(t, S), u)
    BY <1>0 DEF Row, Quiet, UpsertPhotos, ActiveRows, Gone
  <1> QED BY <1>1, <1>2, <1>3, <1>4, <1>5

\* A row sent to the fullres thread joins no count, and stays an active one if it is.
LEMMA FullStatement ==
    ASSUME NEW t \in Table, NEW p \in Photos, NEW u \in Photos
    PROVE  Quiet(t, SetPhotoFull(t, p), u)
  <1>0. t \in [Photos -> Row]
    BY DEF Table
  <1> QED BY <1>0 DEF Row, Quiet, SetPhotoFull, ActiveRows, Gone

\* Neither does one that the fullres thread hands over to the workers.
LEMMA HandOverStatement ==
    ASSUME NEW t \in Table, NEW p \in Photos
    PROVE  /\ [t EXCEPT ![p].status = "downloading"] \in Table
           /\ \A u \in Photos : Quiet(t, [t EXCEPT ![p].status = "downloading"], u)
  <1>0. t \in [Photos -> Row]
    BY DEF Table
  <1>1. [t EXCEPT ![p].status = "downloading"] \in Table
    BY DEF Table, Row, Statuses
  <1> QED BY <1>0, <1>1 DEF Row, Quiet, ActiveRows, Gone

\* The statements with a hook leave the photos alone that it does not cover.
LEMMA HookedStatements ==
    ASSUME NEW t \in Table, NEW S, NEW now \in Int, NEW u \in Photos
    PROVE  /\ u \notin S => Quiet(t, MarkPendingRemoval(t, S, now), u)
           /\ Quiet(t, ConfirmDeletions(t, S, now), u)
           /\ Quiet(t, PurgeMedia(t, S), u)
  <1>0. t \in [Photos -> Row]
    BY DEF Table
  <1>1. u \notin S => Quiet(t, MarkPendingRemoval(t, S, now), u)
    BY <1>0 DEF Row, Quiet, MarkPendingRemoval, ActiveRows, Gone
  <1>2. Quiet(t, ConfirmDeletions(t, S, now), u)
    BY <1>0 DEF Row, Quiet, ConfirmDeletions, ActiveRows, Gone
  <1>3. Quiet(t, PurgeMedia(t, S), u)
    BY <1>0 DEF Row, Quiet, PurgeMedia, ActiveRows, Gone
  <1> QED BY <1>1, <1>2, <1>3

(***************************************************************************)
(* A step that changes photos and flags the albums of those it disturbs.   *)
(***************************************************************************)

\* A photo loses its completeness in the mirror only if it starts to count; the hook
\* restores it, and a statement without the hook is on record.
LEMMA PhotoStep ==
    ASSUME Inv, photos' \in Table, claimed' \subseteq Photos, edits' \in 0 .. MaxEdits,
           bypassed' \subseteq Videos,
           UNCHANGED <<listed, known, shown, rescanDue>>,
           dirty \subseteq dirty', dirty' \subseteq known,
           mirror' \in [Photos -> SUBSET AlbumUids],
           \A u \in Photos : mirror'[u] = mirror[u] \/ mirror'[u] = listed[u],
           \A u \in Photos :
               \/ Quiet(photos, photos', u) /\ (u \in bypassed => u \in bypassed')
               \/ u \in bypassed' /\ u \in ActiveRows(photos')
               \/ /\ \A a \in listed[u] \cap known : a \in dirty'
                  /\ Counted(u)' => mirror'[u] = listed[u]
    PROVE  Inv'
  <1>1. TypeOK'
    BY DEF Inv, TypeOK, Videos
  <1>2. MirrorComplete'
    <2>1. ASSUME NEW u \in Photos
          PROVE  /\ mirror'[u] \subseteq listed'[u]
                 /\ Counted(u)' /\ u \notin bypassed' => mirror'[u] = listed'[u]
      BY <2>1 DEF Inv, MirrorComplete, Quiet, Counted
    <2> QED BY <2>1 DEF MirrorComplete
  <1>3. CleanMissesBypassedOnly'
    <2> SUFFICES ASSUME NEW a \in known \ dirty', shown[a] # NoCount
                 PROVE  /\ Members(a)' \ bypassed' \subseteq shown[a]
                        /\ \A u \in shown[a] \ Members(a)' :
                              a \in listed[u] /\ u \in ActiveRows(photos')
      BY DEF CleanMissesBypassedOnly
    <2>0. /\ a \in AlbumUids /\ shown[a] \subseteq Photos
          /\ Members(a) \ bypassed \subseteq shown[a]
          /\ \A u \in shown[a] \ Members(a) : a \in listed[u] /\ u \in ActiveRows(photos)
      BY DEF Inv, TypeOK, CleanMissesBypassedOnly
    <2>1. ASSUME NEW u \in Photos, a \in listed[u]
          PROVE  \/ Quiet(photos, photos', u) /\ (u \in bypassed => u \in bypassed')
                 \/ u \in bypassed' /\ u \in ActiveRows(photos')
      BY <2>1
    <2>2. Members(a)' \ bypassed' \subseteq shown[a]
      BY <2>0, <2>1 DEF Members, Counted, Quiet
    <2>3. ASSUME NEW u \in shown[a] \ Members(a)'
          PROVE  a \in listed[u] /\ u \in ActiveRows(photos')
      <3>1. u \in Photos /\ a \in listed[u] /\ u \in ActiveRows(photos)
        BY <2>0, <2>3 DEF Members, Counted, ActiveRows, Gone
      <3> QED BY <3>1, <2>1 DEF Quiet
    <2> QED BY <2>2, <2>3
  <1>4. UnknownHidden'
    BY DEF Inv, UnknownHidden
  <1> QED BY <1>1, <1>2, <1>3, <1>4 DEF Inv

\* Without a hook: the albums, the mirror and the flags stay.
LEMMA UnhookedStep ==
    ASSUME Inv, photos' \in Table, claimed' \subseteq Photos, edits' \in 0 .. MaxEdits,
           UNCHANGED <<listed, mirror, known, shown, dirty, rescanDue, bypassed>>,
           \A u \in Photos : Quiet(photos, photos', u)
    PROVE  Inv'
  <1>1. /\ dirty' \subseteq known /\ mirror' \in [Photos -> SUBSET AlbumUids]
        /\ bypassed' \subseteq Videos
    BY DEF Inv, TypeOK, Videos
  <1> QED BY <1>1, PhotoStep

\* With the hook: the albums of S are flagged, and the photos outside S stay quiet.
LEMMA FlaggedStep ==
    ASSUME Inv, photos' \in Table, claimed' \subseteq Photos, edits' \in 0 .. MaxEdits,
           UNCHANGED <<listed, mirror, known, shown, rescanDue, bypassed>>,
           NEW S \in SUBSET Photos, FlagFor(S),
           \A u \in Photos : Quiet(photos, photos', u) \/ (u \in S /\ ~Counted(u)')
    PROVE  Inv'
  <1>1. dirty \subseteq dirty' /\ dirty' \subseteq known
    BY DEF Inv, TypeOK, FlagFor, Flag
  <1>2. \A u \in S : \A a \in listed[u] \cap known : a \in dirty'
    BY DEF FlagFor, Flag, AlbumsOf
  <1>3. mirror' \in [Photos -> SUBSET AlbumUids] /\ bypassed' \subseteq Videos
    BY DEF Inv, TypeOK, Videos
  <1> QED BY <1>1, <1>2, <1>3, PhotoStep

(***************************************************************************)
(* One lemma per action.                                                   *)
(***************************************************************************)

\* A photo that is met again keeps its row or starts again; when its albums
\* change, the old and the new ones are flagged.
LEMMA UpsertInv ==
    ASSUME Inv, NEW u \in Photos, NEW L \in SUBSET AlbumUids, Upsert(u, L)
    PROVE  Inv'
  <1>0. /\ photos \in Table /\ photos' = UpsertPhotos(photos, {u})
        /\ UNCHANGED <<known, shown, rescanDue, claimed, bypassed>>
        /\ listed \in [Photos -> SUBSET AlbumUids] /\ listed' = [listed EXCEPT ![u] = L]
        /\ mirror \in [Photos -> SUBSET AlbumUids] /\ mirror' = [mirror EXCEPT ![u] = L]
        /\ dirty' = dirty \cup ((IF listed[u] = L THEN {} ELSE listed[u] \cup L) \cap known)
    BY DEF Inv, TypeOK, Upsert, Flag, albumVars
  <1>1. \A v \in Photos : Quiet(photos, photos', v)
    BY <1>0, UnhookedStatements
  <1>2. TypeOK'
    <2>1. photos' \in Table
      BY <1>0, SetStatements
    <2>2. edits' \in 0 .. MaxEdits
      BY AlbumsAssumption DEF Inv, TypeOK, Upsert, Edit
    <2> QED BY <1>0, <2>1, <2>2 DEF Inv, TypeOK
  <1>3. MirrorComplete'
    <2>1. ASSUME NEW v \in Photos \ {u}
          PROVE  /\ mirror'[v] \subseteq listed'[v]
                 /\ Counted(v)' /\ v \notin bypassed' => mirror'[v] = listed'[v]
      BY <1>0, <1>1 DEF Inv, MirrorComplete, Counted, Quiet
    <2>2. mirror'[u] = L /\ listed'[u] = L
      BY <1>0
    <2> QED BY <2>1, <2>2 DEF MirrorComplete
  <1>4. CleanMissesBypassedOnly'
    <2> SUFFICES ASSUME NEW a \in known \ dirty', shown[a] # NoCount
                 PROVE  /\ Members(a)' \ bypassed \subseteq shown[a]
                        /\ \A v \in shown[a] \ Members(a)' :
                              a \in listed'[v] /\ v \in ActiveRows(photos')
      BY <1>0 DEF CleanMissesBypassedOnly
    <2>0. /\ a \in AlbumUids /\ shown[a] \subseteq Photos
          /\ Members(a) \ bypassed \subseteq shown[a]
          /\ \A v \in shown[a] \ Members(a) : a \in listed[v] /\ v \in ActiveRows(photos)
      BY <1>0 DEF Inv, TypeOK, CleanMissesBypassedOnly
    <2>1. \A v \in Photos : a \in listed'[v] <=> a \in listed[v]
      BY <1>0
    <2>2. Members(a)' \ bypassed \subseteq shown[a]
      BY <2>0, <2>1, <1>1 DEF Members, Counted, Quiet
    <2>3. ASSUME NEW v \in shown[a] \ Members(a)'
          PROVE  a \in listed'[v] /\ v \in ActiveRows(photos')
      <3>1. v \in Photos /\ a \in listed[v] /\ v \in ActiveRows(photos)
        BY <2>0, <2>3 DEF Members, Counted, ActiveRows, Gone
      <3> QED BY <3>1, <2>1, <1>1 DEF Quiet
    <2> QED BY <2>2, <2>3
  <1>5. UnknownHidden'
    BY <1>0 DEF Inv, UnknownHidden
  <1> QED BY <1>2, <1>3, <1>4, <1>5 DEF Inv

LEMMA StageInv ==
    ASSUME Inv, NEW S \in SUBSET Photos, Stage(S)
    PROVE  Inv'
  <1>0. photos \in Table /\ photos' = MarkPendingRemoval(photos, S, Now)
    BY DEF Inv, TypeOK, Stage
  <1>1. photos' \in Table
    BY <1>0, SetStatements
  <1>2. edits' \in 0 .. MaxEdits /\ claimed' \subseteq Photos
    BY AlbumsAssumption DEF Inv, TypeOK, Stage, Edit
  <1>3. ASSUME NEW u \in Photos
        PROVE  Quiet(photos, photos', u) \/ (u \in S /\ ~Counted(u)')
    <2>1. CASE u \notin S
      BY <1>0, <2>1, NowIsTime, HookedStatements
    <2>2. CASE u \in S
      BY <1>0, <2>2 DEF Stage, MarkPendingRemoval, Counted, Table, Row
    <2> QED BY <2>1, <2>2
  <1> QED BY <1>1, <1>2, <1>3, FlaggedStep DEF Stage, albumVars

LEMMA ConfirmInv ==
    ASSUME Inv, NEW due \in SUBSET Photos, Confirm(due)
    PROVE  Inv'
  <1>0. photos \in Table /\ photos' = ConfirmDeletions(photos, due, Now)
    BY DEF Inv, TypeOK, Confirm
  <1>1. photos' \in Table
    BY <1>0, SetStatements
  <1>2. edits' \in 0 .. MaxEdits /\ claimed' \subseteq Photos
    BY DEF Inv, TypeOK, Confirm
  <1>3. \A u \in Photos : Quiet(photos, photos', u)
    BY <1>0, NowIsTime, HookedStatements
  <1> QED BY <1>1, <1>2, <1>3, FlaggedStep DEF Confirm, albumVars

LEMMA PurgeInv ==
    ASSUME Inv, NEW S \in SUBSET Photos, Purge(S)
    PROVE  Inv'
  <1>0. photos \in Table /\ photos' = PurgeMedia(photos, S)
    BY DEF Inv, TypeOK, Purge
  <1>1. photos' \in Table
    BY <1>0, SetStatements
  <1>2. edits' \in 0 .. MaxEdits /\ claimed' \subseteq Photos
    BY DEF Inv, TypeOK, Purge
  <1>3. \A u \in Photos : Quiet(photos, photos', u)
    BY <1>0, NowIsTime, HookedStatements
  <1> QED BY <1>1, <1>2, <1>3, FlaggedStep DEF Purge, albumVars

LEMMA RetryInv ==
    ASSUME Inv, Retry
    PROVE  Inv'
  <1>1. photos \in Table /\ photos' = RetryErrors(photos)
    BY DEF Inv, TypeOK, Retry
  <1>2. photos' \in Table /\ \A u \in Photos : Quiet(photos, photos', u)
    BY <1>1, SetStatements, UnhookedStatements
  <1> QED BY <1>2, UnhookedStep DEF Inv, TypeOK, Retry, albumVars

LEMMA TakeInv ==
    ASSUME Inv, NEW u \in Photos, Take(u)
    PROVE  Inv'
  <1>1. photos \in Table /\ photos' = ClaimForDownload(photos, {u})
    BY DEF Inv, TypeOK, Take
  <1>2. photos' \in Table /\ \A v \in Photos : Quiet(photos, photos', v)
    BY <1>1, SetStatements, UnhookedStatements
  <1> QED BY <1>2, UnhookedStep DEF Inv, TypeOK, Take, albumVars

\* A photo that is done gets its mirror back in the commit that counts it.
LEMMA SetDoneInv ==
    ASSUME Inv, NEW u \in Photos, NEW thumb \in {"empty", "file"}, SetDone(u, thumb),
           claimed' \subseteq Photos, UNCHANGED <<listed, albumVars, edits>>
    PROVE  Inv'
  <1>0. /\ photos \in Table /\ photos' = SetPhotoDone(photos, u, thumb, Now)
        /\ mirror \in [Photos -> SUBSET AlbumUids] /\ mirror' = [mirror EXCEPT ![u] = listed[u]]
        /\ listed \in [Photos -> SUBSET AlbumUids]
        /\ dirty' = dirty \cup (listed[u] \cap known)
        /\ bypassed' = bypassed \ {u} /\ bypassed' \subseteq Videos
    BY DEF Inv, TypeOK, SetDone, FlagFor, Flag, AlbumsOf, Videos
  <1>1. photos' \in Table /\ \A v \in Photos \ {u} : photos'[v] = photos[v]
    BY <1>0, RowStatements
  <1>2. \A v \in Photos \ {u} : Quiet(photos, photos', v)
    BY <1>1 DEF Quiet, ActiveRows
  <1>3. /\ mirror' \in [Photos -> SUBSET AlbumUids]
        /\ \A v \in Photos : mirror'[v] = mirror[v] \/ mirror'[v] = listed[v]
        /\ mirror'[u] = listed[u]
    BY <1>0
  <1>4. dirty \subseteq dirty' /\ dirty' \subseteq known /\ edits' \in 0 .. MaxEdits
    BY <1>0 DEF Inv, TypeOK
  <1> QED BY <1>0, <1>1, <1>2, <1>3, <1>4, PhotoStep DEF albumVars

\* A video that the full-size thread finishes may be missing in its mirror and its
\* albums: it is on record.
LEMMA FinishVideoInv ==
    ASSUME Inv, NEW u \in Photos, FinishVideo(u),
           claimed' \subseteq Photos, UNCHANGED <<listed, albumVars, edits>>
    PROVE  Inv'
  <1>0. /\ photos \in Table /\ photos' = SetPhotoDone(photos, u, "file", Now)
        /\ bypassed' = bypassed \cup {u} /\ bypassed' \subseteq Videos
        /\ UNCHANGED <<mirror, dirty>>
    BY DEF Inv, TypeOK, FinishVideo, Videos
  <1>1. photos' \in Table /\ \A v \in Photos \ {u} : photos'[v] = photos[v]
    BY <1>0, RowStatements
  <1>2. \A v \in Photos \ {u} : Quiet(photos, photos', v) /\ (v \in bypassed => v \in bypassed')
    BY <1>0, <1>1 DEF Quiet, ActiveRows
  <1>3. u \in bypassed' /\ u \in ActiveRows(photos')
    BY <1>0 DEF SetPhotoDone, ActiveRows, Gone, Table, Row
  <1>4. /\ dirty' \subseteq known /\ edits' \in 0 .. MaxEdits
        /\ mirror' \in [Photos -> SUBSET AlbumUids]
    BY <1>0 DEF Inv, TypeOK
  <1> QED BY <1>0, <1>1, <1>2, <1>3, <1>4, PhotoStep DEF albumVars

LEMMA ResultInv ==
    ASSUME Inv, NEW u \in Photos, Result(u)
    PROVE  Inv'
  <1>0. /\ photos \in Table /\ claimed' \subseteq Photos /\ edits' \in 0 .. MaxEdits
        /\ UNCHANGED <<listed, albumVars, edits>>
    BY DEF Inv, TypeOK, Result
  <1>1. CASE SetDone(u, "file") \/ SetDone(u, "empty")
    BY <1>0, <1>1, SetDoneInv
  <1>2. ASSUME NEW t \in Table, SetOther(t), \A v \in Photos : Quiet(photos, t, v)
        PROVE  Inv'
    BY <1>0, <1>2, UnhookedStep DEF SetOther, albumVars
  <1>3. CASE SetOther(SetPhotosError(photos, {u}))
    BY <1>0, <1>2, <1>3, SetStatements, UnhookedStatements
  <1>4. CASE SetOther(ReleaseDownloadClaims(photos, {u}))
    BY <1>0, <1>2, <1>4, SetStatements, UnhookedStatements
  <1>5. CASE SetOther(SetPhotoFull(photos, u))
    BY <1>0, <1>2, <1>5, RowStatements, FullStatement
  <1>6. CASE SetOther([photos EXCEPT ![u].status = "downloading"])
    BY <1>0, <1>2, <1>6, HandOverStatement
  <1>7. CASE FinishVideo(u)
    BY <1>0, <1>7, FinishVideoInv
  <1> QED BY <1>1, <1>3, <1>4, <1>5, <1>6, <1>7 DEF Result, Report

LEMMA RestartInv ==
    ASSUME Inv, Restart
    PROVE  Inv'
  <1>1. photos \in Table /\ photos' = BackfillFullres(photos)
    BY DEF Inv, TypeOK, Restart
  <1>2. photos' \in Table /\ \A u \in Photos : Quiet(photos, photos', u)
    BY <1>1, SetStatements, UnhookedStatements
  <1> QED BY <1>2, UnhookedStep DEF Inv, TypeOK, Restart, albumVars

\* The incremental pass counts in the mirror, which is complete but for what is on record.
LEMMA RecountInv ==
    ASSUME Inv, NEW offered \in SUBSET AlbumUids, known' = known \cup offered, Recount,
           UNCHANGED <<photoVars, claimed, edits>>
    PROVE  Inv'
  <1>0. /\ mirror \in [Photos -> SUBSET AlbumUids]
        /\ mirror' = [u \in Photos |-> IF Counted(u) THEN mirror[u] ELSE mirror[u] \ dirty]
        /\ shown' = [a \in AlbumUids |-> IF a \in dirty THEN Mirrored(a) ELSE shown[a]]
        /\ dirty' = {} /\ UNCHANGED <<photos, listed, rescanDue, bypassed>>
    BY DEF Inv, TypeOK, Recount, Pruned, photoVars
  <1>1. \A a \in AlbumUids : Mirrored(a) \subseteq Members(a) /\ Members(a) \ bypassed \subseteq Mirrored(a)
    BY DEF Inv, MirrorComplete, Mirrored, Members
  <1>2. TypeOK'
    BY <1>0 DEF Inv, TypeOK, Mirrored
  <1>3. MirrorComplete'
    BY <1>0 DEF Inv, MirrorComplete, Counted
  <1>4. \A a \in AlbumUids : Members(a)' = Members(a)
    BY <1>0 DEF Members, Counted
  <1>5. CleanMissesBypassedOnly'
    <2> SUFFICES ASSUME NEW a \in known', shown'[a] # NoCount
                 PROVE  /\ Members(a) \ bypassed' \subseteq shown'[a]
                        /\ \A u \in shown'[a] \ Members(a) :
                              a \in listed[u] /\ u \in ActiveRows(photos)
      BY <1>0, <1>4 DEF Inv, TypeOK, CleanMissesBypassedOnly
    <2>0. a \in AlbumUids
      BY DEF Inv, TypeOK
    <2>1. CASE a \in dirty
      BY <1>0, <1>1, <2>0, <2>1
    <2>2. CASE a \notin dirty
      <3>1. shown'[a] = shown[a]
        BY <1>0, <2>0, <2>2
      <3>2. a \in known
        BY <3>1, <2>0 DEF Inv, UnknownHidden
      <3> QED BY <1>0, <3>1, <3>2, <2>2 DEF Inv, CleanMissesBypassedOnly
    <2> QED BY <2>1, <2>2
  <1>6. UnknownHidden'
    BY <1>0 DEF Inv, TypeOK, UnknownHidden
  <1> QED BY <1>2, <1>3, <1>5, <1>6 DEF Inv

\* The full pass counts in the JSON column; an album it does not find keeps
\* what it shows, and its flag; it has no photo, so nothing is on record any more.
LEMMA RescanInv ==
    ASSUME Inv, NEW offered \in SUBSET AlbumUids, known' = known \cup offered, Rescan(known'),
           UNCHANGED <<photoVars, claimed, edits>>
    PROVE  Inv'
  <1> DEFINE found == {a \in AlbumUids : Members(a) # {}}
  <1>0. /\ mirror \in [Photos -> SUBSET AlbumUids] /\ listed \in [Photos -> SUBSET AlbumUids]
        /\ mirror' = [u \in Photos |-> (mirror[u] \ found)
                                         \cup (IF Counted(u) THEN listed[u] ELSE {})]
        /\ shown' = [a \in AlbumUids |->
                        IF a \in found \cap known' THEN Members(a) ELSE shown[a]]
        /\ dirty' = dirty \ found /\ rescanDue' = FALSE /\ bypassed' = {}
        /\ UNCHANGED <<photos, listed>>
    BY DEF Inv, TypeOK, Rescan, photoVars
  <1>1. \A a \in AlbumUids : Members(a)' = Members(a)
    BY <1>0 DEF Members, Counted
  <1> HIDE DEF found
  <1>2. TypeOK'
    BY <1>0 DEF Inv, TypeOK, Members
  <1>3. MirrorComplete'
    BY <1>0 DEF Inv, MirrorComplete, Counted
  <1>4. CleanMissesBypassedOnly'
    <2>a. known' \subseteq AlbumUids /\ ActiveRows(photos)' = ActiveRows(photos)
      BY <1>0 DEF Inv, TypeOK
    <2> SUFFICES ASSUME NEW a \in known' \ dirty', shown'[a] # NoCount
                 PROVE  /\ Members(a) \ bypassed' \subseteq shown'[a]
                        /\ \A u \in shown'[a] \ Members(a) :
                              a \in listed[u] /\ u \in ActiveRows(photos)
      BY <1>0, <1>1, <2>a DEF CleanMissesBypassedOnly
    <2>0. a \in AlbumUids
      BY DEF Inv, TypeOK
    <2>1. CASE a \in found
      BY <1>0, <2>0, <2>1
    <2>2. CASE a \notin found
      <3>1. shown'[a] = shown[a] /\ a \notin dirty
        BY <1>0, <2>0, <2>2
      <3>2. a \in known
        BY <3>1, <2>0 DEF Inv, UnknownHidden
      <3>3. Members(a) = {}
        BY <2>0, <2>2 DEF found
      <3> QED BY <3>1, <3>2, <3>3 DEF Inv, CleanMissesBypassedOnly
    <2> QED BY <2>1, <2>2
  <1>5. UnknownHidden'
    BY <1>0 DEF Inv, TypeOK, UnknownHidden
  <1> QED BY <1>2, <1>3, <1>4, <1>5 DEF Inv

(***************************************************************************)
(* The theorems.                                                           *)
(***************************************************************************)

LEMMA InitInv ==
    ASSUME Init
    PROVE  Inv
  <1>1. NoRow \in Row
    BY DEF NoRow, Row, Statuses, NoTime
  <1>2. TypeOK
    BY <1>1, AlbumsAssumption DEF Init, TypeOK, Table
  <1>3. MirrorComplete /\ CleanMissesBypassedOnly /\ UnknownHidden
    BY DEF Init, MirrorComplete, CleanMissesBypassedOnly, UnknownHidden
  <1> QED BY <1>2, <1>3 DEF Inv

LEMMA NextInv ==
    ASSUME Inv, [Next]_vars
    PROVE  Inv'
  <1>1. CASE Scan
    BY <1>1, UpsertInv, StageInv, ConfirmInv, PurgeInv, RetryInv DEF Scan
  <1>2. CASE Pipeline
    BY <1>2, TakeInv, ResultInv, RestartInv DEF Pipeline
  <1>3. ASSUME NEW offered \in SUBSET AlbumUids, SyncAlbumsOnce(offered)
        PROVE  Inv'
    <2>1. CASE rescanDue
      BY <1>3, <2>1, RescanInv DEF SyncAlbumsOnce, SyncAlbums
    <2>2. CASE ~rescanDue
      BY <1>3, <2>2, RecountInv DEF SyncAlbumsOnce, SyncAlbums
    <2> QED BY <2>1, <2>2
  <1>4. CASE Due
    BY <1>4 DEF Due, photoVars, Inv, TypeOK, MirrorComplete, CleanMissesBypassedOnly, UnknownHidden,
                Members, Counted
  <1>5. CASE UNCHANGED vars
    BY <1>5 DEF vars, Inv, TypeOK, MirrorComplete, CleanMissesBypassedOnly, UnknownHidden,
                Members, Counted
  <1> QED BY <1>1, <1>2, <1>3, <1>4, <1>5 DEF Next

\* The inductive invariant holds in every reachable state.
THEOREM Invariance == Spec => []Inv
  <1>1. Init => Inv
    BY InitInv
  <1>2. Inv /\ [Next]_vars => Inv'
    BY NextInv
  <1> QED BY <1>1, <1>2, PTL DEF Spec

\* The tables keep their types whatever syncs, results and recounts do; in
\* particular no album is flagged that has left table albums (store.py).
THEOREM TypeCorrect == Spec => []TypeOK
  <1>1. Inv => TypeOK
    BY DEF Inv
  <1> QED BY <1>1, Invariance, PTL

\* Whatever the order of syncs, results and recounts, photo_albums holds all albums of a
\* photo that counts, but for a video that _fullres_loop has finished since the last
\* full rescan: its UPDATE has no hook, and a recount may have pruned the video before.
THEOREM MirrorIsComplete == Spec => []MirrorComplete
  <1>1. Inv => MirrorComplete
    BY DEF Inv
  <1> QED BY <1>1, Invariance, PTL

\* An album without a flag misses none of its photos in the grid but such videos, and
\* what it shows too much is on its way back.
THEOREM MissesBypassedOnly == Spec => []CleanMissesBypassedOnly
  <1>1. Inv => CleanMissesBypassedOnly
    BY DEF Inv
  <1> QED BY <1>1, Invariance, PTL

\* A library without videos keeps the promise of the hooks (set_photo_done): no album
\* without a flag misses any of its photos.
THEOREM NeverMisses ==
    ASSUME \A u \in Photos : Kind[u] # "video"
    PROVE  Spec => []CleanNeverMisses
  <1>1. Inv => CleanNeverMisses
    <2>1. ASSUME Inv PROVE bypassed = {}
      BY <2>1 DEF Inv, TypeOK
    <2> QED BY <2>1 DEF Inv, CleanMissesBypassedOnly, CleanNeverMisses
  <1> QED BY <1>1, Invariance, PTL

=============================================================================
