--------------------------- MODULE SyncScanProofs ---------------------------
(***************************************************************************)
(* The deletion guard of a full scan holds for any number of photos, any   *)
(* threshold and grace window, whatever the pipeline, the administrator    *)
(* and the user do between the comparison and the staging.                 *)
(***************************************************************************)
EXTENDS SyncScan, FiniteSetTheorems, TLAPS

Inv == TypeOK /\ LossBounded

LEMMA NowIsTime == Now \in Int
  BY DEF Now

-----------------------------------------------------------------------------
(* What a statement leaves behind is a table.                              *)

\* A row stays a row when upsert_photos reclaims it.
LEMMA ReclaimedRow ==
    ASSUME NEW r \in Row, NEW s \in Statuses, NEW n \in Int, NEW k \in Nat
    PROVE  [r EXCEPT !.status = s, !.wasDeletedAt = n, !.retry = k] \in Row
  BY DEF Row

\* The statements of a synchronisation leave a table.
LEMMA SetStatements ==
    ASSUME NEW t \in Table, NEW S
    PROVE  /\ UpsertPhotos(t, S) \in Table /\ RetryErrors(t) \in Table
           /\ ClaimForDownload(t, S) \in Table /\ SetPhotosError(t, S) \in Table
           /\ MarkPendingRemoval(t, S, Now) \in Table /\ ConfirmDeletions(t, S, Now) \in Table
  <1> USE NowIsTime DEF Table, Statuses
  <1>1. UpsertPhotos(t, S) \in Table
    <2>1. ASSUME NEW u \in Photos
          PROVE  [t[u] EXCEPT !.status = "new", !.wasDeletedAt = NoTime, !.retry = 0] \in Row
      <3>1. NoTime \in Int /\ "new" \in Statuses /\ 0 \in Nat /\ t[u] \in Row
        BY DEF NoTime
      <3> QED BY <3>1, ReclaimedRow
    <2> QED BY <2>1 DEF UpsertPhotos
  <1>2. RetryErrors(t) \in Table /\ ClaimForDownload(t, S) \in Table
    BY DEF Row, RetryErrors, ClaimForDownload
  <1>3. SetPhotosError(t, S) \in Table
    BY DEF Row, SetPhotosError
  <1>4. MarkPendingRemoval(t, S, Now) \in Table
    BY DEF Row, MarkPendingRemoval
  <1>5. ConfirmDeletions(t, S, Now) \in Table
    BY DEF Row, ConfirmDeletions
  <1> QED BY <1>1, <1>2, <1>3, <1>4, <1>5

\* A photo that is done changes one row.
LEMMA DoneStatement ==
    ASSUME NEW t \in Table, NEW p \in Photos
    PROVE  /\ SetPhotoDone(t, p, "file", Now) \in Table
           /\ SetPhotoDone(t, p, "file", Now)[p].status = "done"
           /\ \A u \in Photos \ {p} : SetPhotoDone(t, p, "file", Now)[u] = t[u]
  <1>0. t \in [Photos -> Row]
    BY DEF Table
  <1>1. [t[p] EXCEPT !.status = "done", !.thumb = "file", !.processedAt = Now] \in Row
    BY <1>0, NowIsTime DEF Row, Statuses
  <1>2. SetPhotoDone(t, p, "file", Now)
          = [t EXCEPT ![p] = [t[p] EXCEPT !.status = "done", !.thumb = "file",
                                          !.processedAt = Now]]
    BY <1>0 DEF SetPhotoDone, Row
  <1>3. [t[p] EXCEPT !.status = "done", !.thumb = "file", !.processedAt = Now].status = "done"
    BY <1>0 DEF Row
  <1>4. PICK r \in Row : /\ r = [t[p] EXCEPT !.status = "done", !.thumb = "file",
                                             !.processedAt = Now]
                        /\ r.status = "done"
    BY <1>1, <1>3
  <1>5. SetPhotoDone(t, p, "file", Now) = [t EXCEPT ![p] = r]
    BY <1>2, <1>4
  <1> QED BY <1>0, <1>4, <1>5 DEF Table

-----------------------------------------------------------------------------

\* The grace period is a number.
LEMMA GraceType == Grace \in Nat
  BY ScanAssumption DEF Grace

\* The sets of uids a scan handles are finite.
LEMMA UidsFinite ==
    ASSUME NEW S \in SUBSET Photos
    PROVE  IsFiniteSet(S) /\ Cardinality(S) \in Nat
  BY ScanAssumption, FS_Subset, FS_CardinalityType

\* The active rows are photos.
LEMMA ActiveUids ==
    ASSUME NEW t
    PROVE  ActiveRows(t) \in SUBSET Photos
  BY DEF ActiveRows

-----------------------------------------------------------------------------
(* The guard.                                                              *)

\* What the library loses by a listing, it gains by the same listing or is short of.
LEMMA Balance ==
    ASSUME NEW L \in SUBSET Photos, NEW S \in SUBSET Photos
    PROVE  Cardinality(S \ L) - Cardinality(L \ S) = Cardinality(S) - Cardinality(L)
  <1>1. IsFiniteSet(S) /\ IsFiniteSet(L)
    BY UidsFinite
  <1>2. Cardinality(S \ L) = Cardinality(S) - Cardinality(S \cap L)
    BY <1>1, FS_Difference
  <1>3. Cardinality(L \ S) = Cardinality(L) - Cardinality(L \cap S)
    BY <1>1, FS_Difference
  <1>4. S \cap L = L \cap S
    OBVIOUS
  <1>5. S \cap L \in SUBSET Photos
    OBVIOUS
  <1>6. /\ Cardinality(S) \in Nat /\ Cardinality(L) \in Nat /\ Cardinality(S \cap L) \in Nat
    BY <1>5, UidsFinite
  <1>7. PICK n \in Nat, m \in Nat, k \in Nat :
          n = Cardinality(S) /\ m = Cardinality(L) /\ k = Cardinality(S \cap L)
    BY <1>6
  <1>8. Cardinality(S \ L) = n - k /\ Cardinality(L \ S) = m - k
    BY <1>2, <1>3, <1>4, <1>7
  <1>9. (n - k) - (m - k) = n - m
    OBVIOUS
  <1> QED BY <1>7, <1>8, <1>9

\* A listing that is not too short loses at most the tolerated share.
LEMMA GuardBounds ==
    ASSUME NEW L \in SUBSET Photos, NEW S \in SUBSET Photos, ~TooShort(L, S)
    PROVE  100 * Cardinality(S \ L)
             <= LossPercent * (Cardinality(S) + Rest) + 100 * Cardinality(L \ S)
  <1>1. /\ Cardinality(S) \in Nat /\ Cardinality(L) \in Nat
        /\ Cardinality(S \ L) \in Nat /\ Cardinality(L \ S) \in Nat
    <2>1. S \ L \in SUBSET Photos /\ L \ S \in SUBSET Photos
      OBVIOUS
    <2> QED BY <2>1, UidsFinite
  <1>2. Cardinality(S \ L) - Cardinality(L \ S) = Cardinality(S) - Cardinality(L)
    BY Balance
  <1>3. Rest \in Nat /\ LossPercent \in Nat
    BY ScanAssumption
  <1> DEFINE all == Cardinality(S) + Rest
  <1>4. ~(100 * (Cardinality(L) + Rest) < (100 - LossPercent) * all)
    BY DEF TooShort
  <1>5. all \in Nat /\ LossPercent * all \in Nat
    BY <1>1, <1>3
  <1>6. (100 - LossPercent) * all = 100 * all - LossPercent * all
    BY <1>3, <1>5
  <1>7. ~(100 * (Cardinality(L) + Rest) < 100 * all - LossPercent * all)
    BY <1>4, <1>6
  <1>8. PICK x \in Nat : x = LossPercent * all
    BY <1>5
  <1>9. 100 * Cardinality(S \ L) <= x + 100 * Cardinality(L \ S)
    BY <1>1, <1>2, <1>3, <1>7, <1>8
  <1> QED BY <1>8, <1>9

\* The bound is kept as long as the library does not shrink.
LEMMA BoundGrows ==
    ASSUME NEW s \in SUBSET Photos, NEW S \in SUBSET Photos, s \subseteq S,
           NEW g \in SUBSET Photos, NEW f \in SUBSET Photos,
           100 * Cardinality(g) <= LossPercent * (Cardinality(s) + Rest) + 100 * Cardinality(f)
    PROVE  100 * Cardinality(g) <= LossPercent * (Cardinality(S) + Rest) + 100 * Cardinality(f)
  <1>1. Cardinality(s) <= Cardinality(S)
    BY UidsFinite, FS_Subset
  <1>2. /\ Cardinality(s) \in Nat /\ Cardinality(S) \in Nat
        /\ Cardinality(g) \in Nat /\ Cardinality(f) \in Nat
    BY UidsFinite
  <1>3. Rest \in Nat /\ LossPercent \in Nat
    BY ScanAssumption
  <1>4. PICK d \in Nat : Cardinality(S) = Cardinality(s) + d
    <2>1. Cardinality(S) - Cardinality(s) \in Nat
      BY <1>1, <1>2
    <2>2. Cardinality(S) = Cardinality(s) + (Cardinality(S) - Cardinality(s))
      BY <1>2
    <2> QED BY <2>1, <2>2
  <1>5. LossPercent * (Cardinality(S) + Rest)
          = LossPercent * (Cardinality(s) + Rest) + LossPercent * d
    BY <1>2, <1>3, <1>4
  <1>6. LossPercent * d \in Nat /\ LossPercent * (Cardinality(s) + Rest) \in Nat
    BY <1>2, <1>3
  <1>7. PICK x \in Nat, y \in Nat : /\ x = LossPercent * (Cardinality(s) + Rest)
                                    /\ y = LossPercent * d
    BY <1>6
  <1>8. 100 * Cardinality(g) <= x + y + 100 * Cardinality(f)
    BY <1>2, <1>7
  <1> QED BY <1>5, <1>7, <1>8

-----------------------------------------------------------------------------
(* What the pipeline does to the library while a scan is about to stage.   *)

\* A download claim makes no row active and none inactive.
LEMMA ClaimKeepsActive ==
    ASSUME NEW t \in Table, NEW S
    PROVE  ActiveRows(ClaimForDownload(t, S)) = ActiveRows(t)
  <1>1. t \in [Photos -> Row]
    BY DEF Table
  <1> QED BY <1>1 DEF ActiveRows, ClaimForDownload, Gone, Row

\* A late result puts a row back, and takes none away.
LEMMA ResultKeepsActive ==
    ASSUME NEW t \in Table, NEW p \in Photos
    PROVE  /\ ActiveRows(t) \subseteq ActiveRows(SetPhotoDone(t, p, "file", Now))
           /\ ActiveRows(t) \subseteq ActiveRows(SetPhotosError(t, {p}))
  <1>1. t \in [Photos -> Row]
    BY DEF Table
  <1>2. /\ SetPhotoDone(t, p, "file", Now)[p].status = "done"
        /\ \A u \in Photos \ {p} : SetPhotoDone(t, p, "file", Now)[u] = t[u]
    BY DoneStatement
  <1>3. ActiveRows(t) \subseteq ActiveRows(SetPhotoDone(t, p, "file", Now))
    BY <1>2 DEF ActiveRows, Gone
  <1>4. ActiveRows(t) \subseteq ActiveRows(SetPhotosError(t, {p}))
    BY <1>1 DEF ActiveRows, SetPhotosError, Gone, Row
  <1> QED BY <1>3, <1>4

-----------------------------------------------------------------------------
(* Every step keeps the types.                                             *)

\* A time kept as an age stays within its cap.
LEMMA OlderType ==
    ASSUME NEW cap \in Nat
    PROVE  /\ \A t \in {NoTime} \cup 0 .. cap : Older(t, cap) \in {NoTime} \cup 0 .. cap
           /\ \A t \in 0 .. cap : Older(t, cap) \in 0 .. cap
  BY DEF Older, NoTime

Drafts == [enabled: BOOLEAN, full: {NoTime} \cup 0 .. FullInterval, open: BOOLEAN]

\* What a handler has in hand while it saves.
LEMMA DraftTypes ==
    ASSUME NEW c \in Config
    PROVE  NoDraft \in Drafts /\ Draft(c) \in Drafts
  BY DEF Config, Drafts, NoDraft, Draft, NoTime

\* A step of the thread or of its surroundings that leaves the table, the ages
\* and the configuration alone.
LEMMA QuietType ==
    ASSUME TypeOK, UNCHANGED <<tableVars, cfgVars>>,
           remote' \in SUBSET Photos, scan' \in Phases,
           requested' \in BOOLEAN, wakeup' \in BOOLEAN,
           listing' \in SUBSET Photos, fresh' \in SUBSET Photos, gone' \in SUBSET Photos,
           faults' \in 0 .. MaxFaults, changes' \in 0 .. MaxChanges, admin' \in 0 .. MaxAdmin
    PROVE  TypeOK'
  BY DEF TypeOK, tableVars, cfgVars

\* A statement on the table.
LEMMA TableType ==
    ASSUME TypeOK, photos' \in Table, age' \in [Photos -> 0 .. Grace], busy' \in SUBSET Photos,
           UNCHANGED <<remote, requested, wakeup, cfgVars, changes, admin>>, scan' \in Phases,
           listing' \in SUBSET Photos, fresh' \in SUBSET Photos, gone' \in SUBSET Photos,
           faults' \in 0 .. MaxFaults
    PROVE  TypeOK'
  BY DEF TypeOK, cfgVars

\* A step on sync_config.json.
LEMMA ConfigType ==
    ASSUME TypeOK, UNCHANGED <<tableVars, remote, requested, scanVars, wakeup, changes>>,
           scan' \in Phases, cfg' \in Config, draft' \in [Actors -> Drafts], setting' \in BOOLEAN,
           faults' \in 0 .. MaxFaults, admin' \in 0 .. MaxAdmin
    PROVE  TypeOK'
  BY DEF TypeOK, tableVars, scanVars, Drafts

\* The types, one by one.
LEMMA Types ==
    ASSUME TypeOK
    PROVE  /\ photos \in Table /\ age \in [Photos -> 0 .. Grace] /\ busy \in SUBSET Photos
           /\ remote \in SUBSET Photos /\ scan \in Phases
           /\ requested \in BOOLEAN /\ wakeup \in BOOLEAN
           /\ listing \in SUBSET Photos /\ fresh \in SUBSET Photos /\ gone \in SUBSET Photos
           /\ cfg \in Config /\ setting \in BOOLEAN /\ draft \in [Actors -> Drafts]
           /\ faults \in 0 .. MaxFaults /\ changes \in 0 .. MaxChanges /\ admin \in 0 .. MaxAdmin
           /\ Fault => faults' \in 0 .. MaxFaults
           /\ admin < MaxAdmin => admin + 1 \in 0 .. MaxAdmin
           /\ changes < MaxChanges => changes + 1 \in 0 .. MaxChanges
  BY ScanAssumption DEF TypeOK, Drafts, Fault

\* The loop between scans keeps the types.
LEMMA LoopType ==
    ASSUME TypeOK, WaitSignalled \/ WaitTimesOut \/ Decide \/ TipCheck
    PROVE  TypeOK'
  <1> USE Types DEF scanVars, countVars
  <1>1. CASE WaitSignalled \/ WaitTimesOut
    BY <1>1, QuietType DEF WaitSignalled, WaitTimesOut, Phases
  <1>2. CASE Decide
    <2>1. scan' \in Phases
      BY <1>2 DEF Decide, Phases
    <2> QED BY <1>2, <2>1, QuietType DEF Decide
  <1>3. CASE TipCheck
    <2>1. scan' \in Phases
      BY <1>3 DEF TipCheck, Phases
    <2> QED BY <1>3, <2>1, QuietType DEF TipCheck
  <1> QED BY <1>1, <1>2, <1>3

\* So does a listing.
LEMMA ListingType ==
    ASSUME TypeOK, ScanFails \/ List \/ Diff
    PROVE  TypeOK'
  <1> USE Types DEF scanVars, countVars
  <1>1. CASE ScanFails
    BY <1>1, QuietType DEF ScanFails, Phases
  <1>2. CASE List
    <2>1. scan' \in Phases /\ listing' \in SUBSET Photos /\ faults' \in 0 .. MaxFaults
      BY <1>2 DEF List, Phases
    <2> QED BY <1>2, <2>1, QuietType DEF List
  <1>3. CASE Diff
    <2>1. scan' \in Phases /\ fresh' \in SUBSET Photos /\ gone' \in SUBSET Photos
      BY <1>3, ActiveUids DEF Diff, Phases
    <2> QED BY <1>3, <2>1, QuietType DEF Diff
  <1> QED BY <1>1, <1>2, <1>3

\* So do the statements that follow it.
LEMMA StatementType ==
    ASSUME TypeOK, Stage \/ Confirm \/ FetchNodes \/ Retry
    PROVE  TypeOK'
  <1> USE Types DEF scanVars, countVars
  <1>1. CASE Stage
    <2>1. photos' \in Table
      BY <1>1, SetStatements DEF Stage
    <2>2. age' \in [Photos -> 0 .. Grace]
      BY <1>1, GraceType DEF Stage
    <2> QED BY <1>1, <2>1, <2>2, TableType DEF Stage, Phases
  <1>2. CASE Confirm
    <2>1. photos' \in Table
      BY <1>2, SetStatements DEF Confirm
    <2>2. scan' \in Phases
      BY <1>2 DEF Confirm, Phases
    <2> QED BY <1>2, <2>1, <2>2, TableType DEF Confirm
  <1>3. CASE FetchNodes
    <2>1. PICK S \in SUBSET fresh : /\ photos' = UpsertPhotos(photos, S \cap remote)
                                    /\ fresh' = fresh \ S
      BY <1>3 DEF FetchNodes
    <2>2. photos' \in Table
      BY <2>1, SetStatements
    <2>3. scan' \in Phases
      BY <1>3 DEF FetchNodes, Phases
    <2> QED BY <1>3, <2>1, <2>2, <2>3, TableType DEF FetchNodes
  <1>4. CASE Retry
    <2>1. photos' \in Table
      BY <1>4, SetStatements DEF Retry
    <2> QED BY <1>4, <2>1, TableType DEF Retry, Phases
  <1> QED BY <1>1, <1>2, <1>3, <1>4

\* So do the handlers of the settings.
LEMMA SettingsType ==
    ASSUME TypeOK, SaveRead \/ SaveWrite \/ AdminRead \/ AdminWrite
    PROVE  TypeOK'
  <1> USE Types DEF scanVars, countVars
  <1>0. /\ Draft(cfg) \in Drafts /\ NoDraft \in Drafts
        /\ \A a \in Actors : draft[a].full \in {NoTime} \cup 0 .. FullInterval
                             /\ draft[a].enabled \in BOOLEAN
        /\ "sync" \in Actors /\ "admin" \in Actors
    BY DraftTypes DEF Drafts, Actors
  <1>1. CASE SaveRead
    <2>1. draft' \in [Actors -> Drafts]
      BY <1>0, <1>1 DEF SaveRead
    <2> QED BY <1>1, <2>1, ConfigType DEF SaveRead, Phases
  <1>2. CASE SaveWrite
    <2>1. draft' \in [Actors -> Drafts]
      BY <1>0, <1>2 DEF SaveWrite
    <2>2. 0 \in {NoTime} \cup 0 .. FullInterval
      BY ScanAssumption
    <2>3. [enabled |-> draft["sync"].enabled, full |-> 0] \in Config
      BY <1>0, <2>2 DEF Config
    <2>4. cfg' \in Config /\ faults' \in 0 .. MaxFaults
      BY <1>2, <2>3 DEF SaveWrite, Persist
    <2> QED BY <1>2, <2>1, <2>4, ConfigType DEF SaveWrite, Phases
  <1>3. CASE AdminRead
    <2>1. draft' \in [Actors -> Drafts]
      BY <1>0, <1>3 DEF AdminRead
    <2> QED BY <1>3, <2>1, ConfigType DEF AdminRead
  <1>4. CASE AdminWrite
    <2>1. draft' \in [Actors -> Drafts]
      BY <1>0, <1>4 DEF AdminWrite
    <2>2. [enabled |-> setting, full |-> draft["admin"].full] \in Config
      BY <1>0 DEF Config
    <2>3. cfg' \in Config /\ faults' \in 0 .. MaxFaults
      BY <1>4, <2>2 DEF AdminWrite, Persist
    <2> QED BY <1>4, <2>1, <2>3, ConfigType DEF AdminWrite
  <1> QED BY <1>1, <1>2, <1>3, <1>4

\* And users, clock and pipeline.
LEMMA SurroundingsType ==
    ASSUME TypeOK, \/ Request \/ Tick \/ PipelineStep
                   \/ \E u \in Photos : Upload(u) \/ Remove(u)
    PROVE  TypeOK'
  <1> USE Types DEF scanVars, countVars
  <1>1. CASE Request
    BY <1>1, QuietType DEF Request
  <1>2. ASSUME NEW u \in Photos, Upload(u) \/ Remove(u)
        PROVE  TypeOK'
    BY <1>2, QuietType DEF Upload, Remove
  <1>3. ASSUME NEW u \in Photos, PipelineClaim(u)
        PROVE  TypeOK'
    <2>1. photos' \in Table
      BY <1>3, SetStatements DEF PipelineClaim
    <2> QED BY <1>3, <2>1, TableType DEF PipelineClaim
  <1>4. ASSUME NEW u \in Photos, PipelineResult(u)
        PROVE  TypeOK'
    <2>1. SetPhotoDone(photos, u, "file", Now) \in Table /\ SetPhotosError(photos, {u}) \in Table
      BY SetStatements, DoneStatement
    <2>2. photos' \in Table /\ faults' \in 0 .. MaxFaults
      BY <1>4, <2>1 DEF PipelineResult
    <2> QED BY <1>4, <2>2, TableType DEF PipelineResult
  <1>5. CASE Tick
    <2>1. age' \in [Photos -> 0 .. Grace]
      <3>1. \A u \in Photos : Older(age[u], Grace) \in 0 .. Grace /\ 0 \in 0 .. Grace
        BY GraceType, OlderType
      <3> QED BY <1>5, <3>1 DEF Tick
    <2>2. FullInterval \in Nat
      BY ScanAssumption
    <2>3. cfg' \in Config
      <3>1. Older(cfg.full, FullInterval) \in {NoTime} \cup 0 .. FullInterval
        BY <2>2, OlderType DEF Config
      <3> QED BY <1>5, <3>1 DEF Tick, Config
    <2>4. draft' \in [Actors -> Drafts]
      <3>1. ASSUME NEW a \in Actors
            PROVE  [draft[a] EXCEPT !.full = Older(@, FullInterval)] \in Drafts
        <4>1. draft[a] \in Drafts
          OBVIOUS
        <4>2. Older(draft[a].full, FullInterval) \in {NoTime} \cup 0 .. FullInterval
          BY <2>2, <4>1, OlderType DEF Drafts
        <4> QED BY <4>1, <4>2 DEF Drafts
      <3> QED BY <1>5, <3>1 DEF Tick
    <2> QED BY <1>5, <2>1, <2>3, <2>4 DEF Tick, TypeOK, Drafts
  <1> QED BY <1>1, <1>2, <1>3, <1>4, <1>5 DEF PipelineStep

-----------------------------------------------------------------------------
(* The invariant.                                                          *)

LEMMA InitInv ==
    ASSUME Init
    PROVE  Inv
  <1>1. NoRow \in Row
    BY DEF NoRow, Row, Statuses, NoTime
  <1>2. photos \in Table /\ age \in [Photos -> 0 .. Grace]
    BY <1>1, GraceType DEF Init, Table
  <1>3. cfg \in Config /\ draft \in [Actors -> Drafts]
    <2>1. [enabled |-> TRUE, full |-> NoTime] \in Config
      BY DEF Config
    <2> QED BY <2>1, DraftTypes DEF Init
  <1>4. faults \in 0 .. MaxFaults /\ changes \in 0 .. MaxChanges /\ admin \in 0 .. MaxAdmin
    <2>1. 0 \in 0 .. MaxFaults /\ 0 \in 0 .. MaxChanges /\ 0 \in 0 .. MaxAdmin
      BY ScanAssumption
    <2> QED BY <2>1 DEF Init
  <1>5. /\ remote \subseteq Photos /\ busy = {} /\ listing = {} /\ fresh = {} /\ gone = {}
        /\ scan = "asleep" /\ requested = FALSE /\ wakeup = FALSE /\ setting = TRUE
    BY DEF Init
  <1>6. TypeOK
    BY <1>2, <1>3, <1>4, <1>5 DEF TypeOK, Drafts, Phases
  <1>7. LossBounded
    BY DEF Init, LossBounded
  <1> QED BY <1>6, <1>7 DEF Inv

\* A step that is not the comparison leaves the sets of a scan about to stage as
\* they are, and the library at least as large.
LEMMA BoundKept ==
    ASSUME Inv, TypeOK', scan' = "stage" => scan = "stage",
           UNCHANGED <<fresh, gone>>, ActiveRows(photos) \subseteq ActiveRows(photos')
    PROVE  LossBounded'
  <1> SUFFICES ASSUME scan' = "stage"
               PROVE  100 * Cardinality(gone')
                        <= LossPercent * (Cardinality(ActiveRows(photos')) + Rest)
                             + 100 * Cardinality(fresh')
    BY DEF LossBounded
  <1>1. 100 * Cardinality(gone) <= LossPercent * (Cardinality(ActiveRows(photos)) + Rest)
                                     + 100 * Cardinality(fresh)
    BY DEF Inv, LossBounded
  <1>2. gone \in SUBSET Photos /\ fresh \in SUBSET Photos
    BY Types DEF Inv
  <1> QED BY <1>1, <1>2, ActiveUids, BoundGrows

\* A comparison that the guard lets through stages no more than it allows.
LEMMA DiffBound ==
    ASSUME Inv, Diff
    PROVE  LossBounded'
  <1> DEFINE stored == ActiveRows(photos)
  <1>1. listing \in SUBSET Photos /\ stored \in SUBSET Photos
    BY Types, ActiveUids DEF Inv
  <1>2. CASE TooShort(listing, stored)
    BY <1>2 DEF Diff, LossBounded
  <1>3. CASE ~TooShort(listing, stored)
    <2>1. fresh' = listing \ stored /\ gone' = stored \ listing /\ photos' = photos
      BY <1>3 DEF Diff, tableVars
    <2>2. 100 * Cardinality(stored \ listing)
            <= LossPercent * (Cardinality(stored) + Rest) + 100 * Cardinality(listing \ stored)
      BY <1>1, <1>3, GuardBounds
    <2> QED BY <2>1, <2>2 DEF LossBounded
  <1> QED BY <1>2, <1>3

LEMMA NextInv ==
    ASSUME Inv, [Next]_vars
    PROVE  Inv'
  <1> USE DEF scanVars, tableVars
  <1>0. TypeOK
    BY DEF Inv
  <1>1. TypeOK'
    <2>1. CASE UNCHANGED vars
      BY <1>0, <2>1 DEF vars, TypeOK
    <2> QED BY <1>0, <2>1, LoopType, ListingType, StatementType, SettingsType, SurroundingsType
            DEF Next, ScanStep
  <1>2. CASE WaitSignalled \/ WaitTimesOut \/ Decide \/ TipCheck
    <2>1. scan' # "stage" /\ UNCHANGED <<fresh, gone, photos>>
      BY <1>2 DEF WaitSignalled, WaitTimesOut, Decide, TipCheck
    <2> QED BY <1>1, <2>1, BoundKept DEF Inv
  <1>3. CASE ScanFails \/ List \/ Confirm \/ FetchNodes \/ Stage \/ Retry
    <2>1. scan' # "stage"
      BY <1>3 DEF ScanFails, List, Confirm, FetchNodes, Stage, Retry
    <2> QED BY <1>1, <2>1 DEF Inv, LossBounded
  <1>4. CASE Diff
    BY <1>1, <1>4, DiffBound DEF Inv
  <1>5. CASE SaveRead \/ SaveWrite \/ AdminRead \/ AdminWrite \/ Request \/ Tick
    <2>1. (scan' = "stage" => scan = "stage") /\ UNCHANGED <<fresh, gone, photos>>
      BY <1>5 DEF SaveRead, SaveWrite, AdminRead, AdminWrite, Request, Tick
    <2> QED BY <1>1, <2>1, BoundKept DEF Inv
  <1>6. ASSUME NEW u \in Photos, Upload(u) \/ Remove(u)
        PROVE  Inv'
    <2>1. UNCHANGED <<scan, fresh, gone, photos>>
      BY <1>6 DEF Upload, Remove
    <2> QED BY <1>1, <2>1, BoundKept DEF Inv
  <1>7. ASSUME NEW u \in Photos, PipelineClaim(u) \/ PipelineResult(u)
        PROVE  Inv'
    <2>1. UNCHANGED <<scan, fresh, gone>>
      BY <1>7 DEF PipelineClaim, PipelineResult
    <2>2. ActiveRows(photos) \subseteq ActiveRows(photos')
      BY <1>0, <1>7, Types, ClaimKeepsActive, ResultKeepsActive DEF PipelineClaim, PipelineResult
    <2> QED BY <1>1, <2>1, <2>2, BoundKept DEF Inv
  <1>8. CASE UNCHANGED vars
    BY <1>1, <1>8, BoundKept DEF vars, Inv
  <1> QED BY <1>2, <1>3, <1>4, <1>5, <1>6, <1>7, <1>8 DEF Next, ScanStep, PipelineStep

-----------------------------------------------------------------------------
(* The theorems.                                                           *)

\* The inductive invariant holds in every reachable state.
THEOREM Invariance == Spec => []Inv
  <1>1. Init => Inv
    BY InitInv
  <1>2. Inv /\ [Next]_vars => Inv'
    BY NextInv
  <1> QED BY <1>1, <1>2, PTL DEF Spec

\* The table, the ages and both copies of sync_config.json keep their types,
\* whichever of the sync thread and the administrator saves last (indexer.py).
THEOREM TypeCorrect == Spec => []TypeOK
  <1>1. Inv => TypeOK
    BY DEF Inv
  <1> QED BY <1>1, Invariance, PTL

\* A scan stages no more than deletion_threshold tolerates, but for what the same
\* listing brings anew, also when late results change the library between the
\* comparison and mark_pending_removal (_sync_once).
THEOREM LossIsBounded == Spec => []LossBounded
  <1>1. Inv => LossBounded
    BY DEF Inv
  <1> QED BY <1>1, Invariance, PTL

=============================================================================
