------------------------------ MODULE SyncScan ------------------------------
(***************************************************************************)
(* The sync thread of the indexer against the clock: _sync_loop and        *)
(* _sync_once (app/src/indexer.py) statement by statement, the Proton      *)
(* timeline it diffs against, the administrator who asks for a scan or     *)
(* changes sync_config.json, and the pipeline (module PhotoPipeline),      *)
(* which here only claims rows and overwrites their status with a result.  *)
(*                                                                         *)
(* A tick is one sync_interval.  Times are kept as ages, each capped where *)
(* the code compares it: a staged row's at Grace, the last full scan's at  *)
(* FullInterval.                                                           *)
(***************************************************************************)
EXTENDS PhotoStore, FiniteSets

CONSTANTS
    Rest,          \* further photos, always listed and always in the table
    LossPercent,   \* deletion_threshold
    GraceCycles,   \* settings.grace_cycles
    FullInterval,  \* full_scan_interval, in ticks
    NodesBatch,    \* uids per /nodes call
    MaxFaults,     \* bound: failed or truncated bridge answers, failed photos
    MaxChanges,    \* bound: uploads and deletions by the user
    MaxAdmin       \* bound: requests and settings of the administrator

ASSUME ScanAssumption ==
    /\ IsFiniteSet(Photos)
    /\ {Rest, MaxFaults, MaxChanges, MaxAdmin} \subseteq Nat
    /\ LossPercent \in 1 .. 99
    /\ {GraceCycles, FullInterval, NodesBatch} \subseteq Nat \ {0}

VARIABLES
    photos,      \* table photos
    age,         \* age[u]: how long u has been staged, up to Grace
    busy,        \* rows the pipeline has claimed and not yet settled
    remote,      \* uids in the timeline
    scan,        \* what the sync thread does next
    requested,   \* was it woken by a request?
    listing,     \* uids of the listing it works on
    fresh,       \* new_uids it still has to fetch
    gone,        \* uids it is about to stage
    wakeup,      \* _sync_wakeup
    cfg,         \* sync_config.json
    draft,       \* draft[a]: the copy actor a merges into, in set_sync_config
    setting,     \* what the administrator sets "enabled" to
    faults, changes, admin

scanVars  == <<listing, fresh, gone>>
tableVars == <<photos, age, busy>>
cfgVars   == <<cfg, draft, setting>>
countVars == <<faults, changes, admin>>
vars == <<photos, age, busy, remote, scan, requested, listing, fresh, gone, wakeup,
          cfg, draft, setting, faults, changes, admin>>

\* _deletion_grace_seconds, with sync_interval = 1
Grace == GraceCycles * FullInterval

\* Staging and confirmation compare ages here, not the times in the row.
Now == 0

Config == [enabled: BOOLEAN, full: {NoTime} \cup 0 .. FullInterval]

NoDraft == [enabled |-> FALSE, full |-> NoTime, open |-> FALSE]

Draft(c) == [enabled |-> c.enabled, full |-> c.full, open |-> TRUE]

Actors == {"sync", "admin"}

Phases == {"asleep", "woken", "tip", "list", "diff", "stage", "confirm", "nodes",
           "retry", "save", "saving"}

TypeOK ==
    /\ photos \in Table /\ age \in [Photos -> 0 .. Grace] /\ busy \subseteq Photos
    /\ remote \subseteq Photos
    /\ scan \in Phases /\ requested \in BOOLEAN /\ wakeup \in BOOLEAN
    /\ listing \subseteq Photos /\ fresh \subseteq Photos /\ gone \subseteq Photos
    /\ cfg \in Config /\ setting \in BOOLEAN
    /\ draft \in [Actors -> [enabled: BOOLEAN, full: {NoTime} \cup 0 .. FullInterval,
                             open: BOOLEAN]]
    /\ faults \in 0 .. MaxFaults /\ changes \in 0 .. MaxChanges /\ admin \in 0 .. MaxAdmin

Fault == faults < MaxFaults /\ faults' = faults + 1

Init ==
    /\ remote \in SUBSET Photos
    /\ photos = [u \in Photos |-> NoRow]
    /\ age = [u \in Photos |-> 0] /\ busy = {}
    /\ scan = "asleep" /\ requested = FALSE
    /\ listing = {} /\ fresh = {} /\ gone = {}
    /\ wakeup = FALSE
    /\ cfg = [enabled |-> TRUE, full |-> NoTime]
    /\ draft = [a \in Actors |-> NoDraft] /\ setting = TRUE
    /\ faults = 0 /\ changes = 0 /\ admin = 0

----------------------------------------------------------------------------
(* _sync_loop: wait, clear, decide.                                        *)

WaitSignalled ==
    /\ scan = "asleep" /\ wakeup
    /\ requested' = TRUE /\ scan' = "woken"
    /\ UNCHANGED <<tableVars, remote, scanVars, wakeup, cfgVars, countVars>>

\* The wait has timed out; a request may still come before the flag is cleared.
WaitTimesOut ==
    /\ scan = "asleep" /\ ~wakeup
    /\ requested' = FALSE /\ scan' = "woken"
    /\ UNCHANGED <<tableVars, remote, scanVars, wakeup, cfgVars, countVars>>

\* The first scan is due at once, later ones when the interval has passed.
Due == cfg.full = NoTime \/ cfg.full >= FullInterval

Decide ==
    /\ scan = "woken"
    /\ wakeup' = FALSE
    /\ scan' = CASE ~cfg.enabled /\ ~requested -> "asleep"
                 [] (cfg.enabled \/ requested) /\ (Due \/ requested) -> "list"
                 [] OTHER -> "tip"
    /\ UNCHANGED <<tableVars, remote, requested, scanVars, cfgVars, countVars>>

\* _tip_check: is one of the latest uploads not in the local library?
TipCheck ==
    /\ scan = "tip"
    /\ \/ /\ \E tip \in SUBSET remote :
                scan' = IF tip \subseteq ActiveRows(photos) THEN "asleep" ELSE "list"
          /\ UNCHANGED faults
       \/ Fault /\ scan' = "asleep"
    /\ UNCHANGED <<tableVars, remote, requested, scanVars, wakeup, cfgVars, changes, admin>>

----------------------------------------------------------------------------
(* _sync_once.                                                             *)

\* A failing call ends the scan: no time of a full scan is saved.
ScanFails ==
    /\ scan \in {"list", "nodes"} /\ (scan = "nodes" => fresh # {})
    /\ Fault
    /\ scan' = "asleep" /\ fresh' = {}
    /\ UNCHANGED <<tableVars, remote, requested, listing, gone, wakeup, cfgVars, changes, admin>>

\* The listing is complete, or misses photos without a sign of it; an empty
\* one is refused.
List ==
    /\ scan = "list"
    /\ \/ listing' = remote /\ UNCHANGED faults
       \/ listing' \in SUBSET remote \ {remote} /\ Fault
    /\ scan' = IF Cardinality(listing') + Rest = 0 THEN "asleep" ELSE "diff"
    /\ UNCHANGED <<tableVars, remote, requested, fresh, gone, wakeup, cfgVars, changes, admin>>

\* Is the listing so short that it must be truncated?
TooShort(L, stored) ==
    100 * (Cardinality(L) + Rest) < (100 - LossPercent) * (Cardinality(stored) + Rest)

\* Mutant: every listing is believed.
DiffUnguarded ==
    /\ scan = "diff"
    /\ fresh' = listing \ ActiveRows(photos) /\ gone' = ActiveRows(photos) \ listing
    /\ scan' = "stage"
    /\ UNCHANGED <<tableVars, remote, requested, listing, wakeup, cfgVars, countVars>>

\* A listing that is too short ends the scan, which still counts as one.
Diff ==
    /\ scan = "diff"
    /\ LET stored == ActiveRows(photos)
       IN  IF TooShort(listing, stored)
           THEN scan' = "save" /\ UNCHANGED <<fresh, gone>>
           ELSE /\ fresh' = listing \ stored /\ gone' = stored \ listing
                /\ scan' = "stage"
    /\ UNCHANGED <<tableVars, remote, requested, listing, wakeup, cfgVars, countVars>>

\* mark_pending_removal: the clock of a row starts when it is staged.
Stage ==
    /\ scan = "stage"
    /\ photos' = MarkPendingRemoval(photos, gone, Now)
    /\ age' = [u \in Photos |-> IF u \in gone \cap ActiveRows(photos) THEN 0 ELSE age[u]]
    /\ scan' = "confirm"
    /\ UNCHANGED <<busy, remote, requested, scanVars, wakeup, cfgVars, countVars>>

\* Mutant: rows are confirmed only by a scan that finds further ones missing.
ConfirmWithGone ==
    /\ scan = "confirm"
    /\ photos' = IF gone = {} THEN photos
                 ELSE ConfirmDeletions(photos, {u \in Photos : age[u] >= Grace}, Now)
    /\ gone' = {} /\ listing' = {}
    /\ scan' = IF fresh = {} THEN "retry" ELSE "nodes"
    /\ UNCHANGED <<age, busy, remote, requested, fresh, wakeup, cfgVars, countVars>>

\* confirm_deletions comes before the reclaim of what the listing brought back.
Confirm ==
    /\ scan = "confirm"
    /\ photos' = ConfirmDeletions(photos, {u \in Photos : age[u] >= Grace}, Now)
    /\ gone' = {} /\ listing' = {}
    /\ scan' = IF fresh = {} THEN "retry" ELSE "nodes"
    /\ UNCHANGED <<age, busy, remote, requested, fresh, wakeup, cfgVars, countVars>>

\* Mutant: a batch whose rows are all known is taken for the last one.
FetchNodesStop ==
    /\ scan = "nodes"
    /\ \E S \in SUBSET fresh \ {{}} :
          /\ Cardinality(S) <= NodesBatch
          /\ photos' = UpsertPhotos(photos, {u \in S \cap remote : photos[u].status = "absent"})
          /\ fresh' = fresh \ S
    /\ scan' = IF fresh' = {} THEN "retry" ELSE "nodes"
    /\ UNCHANGED <<age, busy, remote, requested, listing, gone, wakeup, cfgVars, countVars>>

\* One /nodes batch: uids that have left the timeline come back as missing.
FetchNodes ==
    /\ scan = "nodes"
    /\ \E S \in SUBSET fresh \ {{}} :
          /\ Cardinality(S) <= NodesBatch
          /\ photos' = UpsertPhotos(photos, S \cap remote)
          /\ fresh' = fresh \ S
    /\ scan' = IF fresh' = {} THEN "retry" ELSE "nodes"
    /\ UNCHANGED <<age, busy, remote, requested, listing, gone, wakeup, cfgVars, countVars>>

Retry ==
    /\ scan = "retry"
    /\ photos' = RetryErrors(photos)
    /\ scan' = "save"
    /\ UNCHANGED <<age, busy, remote, requested, scanVars, wakeup, cfgVars, countVars>>

----------------------------------------------------------------------------
(* sync_config.json: set_sync_config reads, merges, and replaces the file. *)

\* The file is replaced, or cannot be written, which is only logged.
Persist(c) ==
    \/ cfg' = c /\ UNCHANGED faults
    \/ Fault /\ UNCHANGED cfg

SaveRead ==
    /\ scan = "save"
    /\ draft' = [draft EXCEPT !["sync"] = Draft(cfg)]
    /\ scan' = "saving"
    /\ UNCHANGED <<tableVars, remote, requested, scanVars, wakeup, cfg, setting, countVars>>

SaveWrite ==
    /\ scan = "saving"
    /\ Persist([enabled |-> draft["sync"].enabled, full |-> 0])
    /\ draft' = [draft EXCEPT !["sync"] = NoDraft]
    /\ scan' = "asleep"
    /\ UNCHANGED <<tableVars, remote, requested, scanVars, wakeup, setting, changes, admin>>

AdminRead ==
    /\ ~draft["admin"].open /\ admin < MaxAdmin
    /\ admin' = admin + 1
    /\ setting' \in BOOLEAN
    /\ draft' = [draft EXCEPT !["admin"] = Draft(cfg)]
    /\ UNCHANGED <<tableVars, remote, scan, requested, scanVars, wakeup, cfg, faults, changes>>

AdminWrite ==
    /\ draft["admin"].open
    /\ Persist([enabled |-> setting, full |-> draft["admin"].full])
    /\ draft' = [draft EXCEPT !["admin"] = NoDraft]
    /\ UNCHANGED <<tableVars, remote, scan, requested, scanVars, wakeup, setting, changes, admin>>

\* request_full_sync
Request ==
    /\ admin < MaxAdmin
    /\ admin' = admin + 1
    /\ wakeup' = TRUE
    /\ UNCHANGED <<tableVars, remote, scan, requested, scanVars, cfgVars, faults, changes>>

----------------------------------------------------------------------------
(* The surroundings.                                                       *)

\* The user uploads and deletes photos.
Upload(u) ==
    /\ u \notin remote /\ changes < MaxChanges
    /\ changes' = changes + 1
    /\ remote' = remote \cup {u}
    /\ UNCHANGED <<tableVars, scan, requested, scanVars, wakeup, cfgVars, faults, admin>>

Remove(u) ==
    /\ u \in remote /\ changes < MaxChanges
    /\ changes' = changes + 1
    /\ remote' = remote \ {u}
    /\ UNCHANGED <<tableVars, scan, requested, scanVars, wakeup, cfgVars, faults, admin>>

PipelineClaim(u) ==
    /\ u \notin busy /\ photos[u].status = "new"
    /\ busy' = busy \cup {u}
    /\ photos' = ClaimForDownload(photos, {u})
    /\ UNCHANGED <<age, remote, scan, requested, scanVars, wakeup, cfgVars, countVars>>

\* The result of a claim: written whatever has become of the row since.
PipelineResult(u) ==
    /\ u \in busy
    /\ busy' = busy \ {u}
    /\ \/ photos' = SetPhotoDone(photos, u, "file", Now) /\ UNCHANGED faults
       \/ photos' = SetPhotosError(photos, {u}) /\ Fault
    /\ UNCHANGED <<age, remote, scan, requested, scanVars, wakeup, cfgVars, changes, admin>>

\* Mutant: a step beyond the cap.
OlderBeyond(t, cap) == IF t # NoTime /\ t <= cap THEN t + 1 ELSE t

\* What a tick does to a time kept as an age.
Older(t, cap) == IF t # NoTime /\ t < cap THEN t + 1 ELSE t

Tick ==
    /\ age' = [u \in Photos |-> IF photos[u].status = "pending_removal"
                                THEN Older(age[u], Grace) ELSE 0]
    /\ cfg' = [cfg EXCEPT !.full = Older(@, FullInterval)]
    /\ draft' = [a \in Actors |-> [draft[a] EXCEPT !.full = Older(@, FullInterval)]]
    /\ UNCHANGED <<photos, busy, remote, scan, requested, scanVars, wakeup, setting, countVars>>

----------------------------------------------------------------------------
ScanStep == \/ WaitSignalled \/ WaitTimesOut \/ Decide \/ TipCheck
            \/ ScanFails \/ List \/ Diff \/ Stage \/ Confirm \/ FetchNodes \/ Retry
            \/ SaveRead \/ SaveWrite

PipelineStep == \E u \in Photos : PipelineClaim(u) \/ PipelineResult(u)

Next ==
    \/ ScanStep \/ PipelineStep \/ Tick
    \/ AdminRead \/ AdminWrite \/ Request
    \/ \E u \in Photos : Upload(u) \/ Remove(u)

Spec == Init /\ [][Next]_vars

\* The loop never stops (every wait and every call has a timeout), the
\* pipeline settles what it claims, set_sync_config returns, time passes.
Fairness == WF_vars(ScanStep) /\ WF_vars(PipelineStep) /\ WF_vars(AdminWrite) /\ WF_vars(Tick)

FairSpec == Spec /\ Fairness

----------------------------------------------------------------------------
(* Properties.                                                             *)

\* One scan never stages more than the tolerated share of the library, save
\* for what new uploads in the same listing make up for (the deletion guard
\* of _sync_once counts uids and does not compare them).
LossBounded ==
    scan = "stage" =>
        100 * Cardinality(gone) <= LossPercent * (Cardinality(ActiveRows(photos)) + Rest)
                                   + 100 * Cardinality(fresh)

\* The listings the deletion guard lets through.
Believed == {L \in SUBSET Photos : ~TooShort(L, ActiveRows(photos))}

\* A photo that has left the timeline for good leaves the library, also when a
\* late result had put its row back to 'done'.
EventuallyGone ==
    \A u \in Photos :
        <>[](u \notin remote /\ cfg.enabled /\ remote \in Believed)
            => <>[](photos[u].status \in {"absent", "deleted"})

\* A photo that stays in the timeline is in the library for good in the end,
\* however often a truncated listing staged it or had it deleted meanwhile.
EventuallyListed ==
    \A u \in Photos :
        <>[](u \in remote /\ cfg.enabled /\ remote \in Believed) => <>[](u \in ActiveRows(photos))

=============================================================================
