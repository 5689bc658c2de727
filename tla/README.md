# Formal models of Proton Faces

TLA+ models of the program in `src/`, model-checked with TLC, and theorems about
them checked with TLAPS. This file is the guide: what the system consists of,
which module stands for which code, what the checks and the proofs show, what
they assume, and what is left out.

Paths are relative to the repository: `store.py` is `app/src/store.py`,
`indexer.py` is `app/src/indexer.py`, and so on. `PROJECT.json` holds the exact
line range behind every definition (`map`), the list of behaviours that are hard
to test (`hazards`), and the places where code and documentation disagree
(`findings`).

    tlc -workers 2 -config pipeline_live.cfg MCPhotoPipeline
    tlapm PhotoPipelineProofs.tla

## 1. The system

Proton Faces mirrors a Proton Photos timeline into a local SQLite index and
searches it by face, content, place and album. Three kinds of process share the
work: a Node **bridge** that talks to Proton, an **indexer** process full of
daemon threads, and an **API** process (FastAPI, a pool of request threads) that
serves the index. They share the SQLite file (WAL mode), a directory of
thumbnails, a work directory, and the "sidecars", binary matrices of all face
and CLIP vectors.

| component | state it keeps | operations | interacts through | what is hard |
|---|---|---|---|---|
| photo table (`store.py`) | one row per uid: status, `thumb_path`, times, retry count | upsert/reclaim, stage, confirm, claim, result, retry, purge, recovery | SQL commits of all indexer threads | most UPDATEs name the uid and not the status they expect |
| pipeline (`indexer.py`) | `_pending` queue, work files, thumbnails, in-flight batches | downloader tick, full-size download, worker transaction, restart | photo table, files, in-memory queue, bridge calls | crashes between file move and commit, answers after a time-out, one uid in two hands, locked database |
| sync thread (`indexer.py`) | `_sync_wakeup`, `sync_config.json`, listing under work | full scan, tip check, settings | bridge listing, photo table, admin routes | truncated listings, grace periods, lost requests |
| people and faces (`store.py`, `api_routes_people.py`, `cluster.py`) | `people`, `faces`, cached counts, face sidecar | assign, unassign, create, name, merge, delete, propagate, cluster, sweep | SQL commits of API threads and of the indexer, sidecar | a call is several commits; reads precede the transaction; the sidecar is old |
| albums (`store.py`) | `photos.albums` (JSON), `photo_albums`, `albums` with counts and `dirty` | hooks of the photo writes, incremental recount, full rescan | photo table, albums loop | a recount prunes what is momentarily not done; one statement of the pipeline has no hook |
| caches of the API (`store.py`, `sidecar.py`) | matrices in memory, TTL, generation counter, three sidecar files | bump, rebuild in background, reload | files, a table row | a rebuild that started before an invalidation; three renames |
| sessions (`auth.py`, `api_routes_auth.py`, `api_routes_admin.py`) | users, tokens, pending second steps, login budget, gate before bcrypt | login, second step, refresh, logout, own account, administration of accounts | SQL commits of API threads | a call is several transactions; the row goes, the lock comes, while it waits |
| administration (`admin.py`) | `admin_config.json`, snapshots in the backup directory | scheduled and requested backup, schedule, pruning, deletion, checks | files, routes | two savers of one file, a mark that is lost |
| places (`indexer.py`, `geocode.py`) | coordinates, `gps_checked_at`, place names, a cache of hashes | GPS sweep page by page, Takeout import, naming | photo table, bridge calls, a child process | the pages shrink under the sweep's offset |
| lists of the API (`api_common.py`, `api_routes_people.py`) | people, likely duplicates, suggested merges, duplicate photos, each with a time to live | look up, build under a lock, clear | request threads of one worker | locks waited for, clearing under no lock |
| bridge (`bridge.ts`) | slots of the SDK's queue, work files, in-flight requests | timeline, nodes, albums, thumbnails, full photo, cache clear, drain, sweeps | HTTP, the SDK, the disk | clients that leave, calls that hang, crash, shutdown |
| rate limiter (`rateLimit.ts`) | tokens, pause, parked callers, one timer | acquire, refill, wake, Retry-After, close | routes of the bridge, HTTP layer | queue full, timer due, pause meanwhile |
| bridge patches (`bridge/patches`) | block window of the downloader, HTTP client | download blocks, retry, flush in order | Proton SDK, rate limiter | the window is full, a block fails late |
| search, grid, models, front end | none that outlives a request, or numeric only | queries | - | - |

What makes each correct, in one sentence:

* pipeline: a photo shown as done has its thumbnail and exactly one set of
  faces, every fetchable photo gets there or is parked, nothing is stranded in a
  claim, and nothing but a confirmed deletion takes media away;
* sync thread: no bad listing can cost more than a bounded share of the library,
  and the library follows the timeline in the end;
* people: no face refers to a person that is gone, and no cached count is too
  low unless a recount is on its way;
* albums: an album that waits for no recount misses no photo, but for videos that were
  finished past the hooks since the last full rescan, and counts catch up;
* caches: the view catches up with the table, and rows and ids always pair;
* backups: a slot of the schedule is served once; places: a sweep leaves out no photo
  that waited; lists: an answer is no older than the times to live say;
* sessions: no token outlives its user, one second step is pending per user, a
  permit of the gate is never lost, a lock is passed by few calls;
* bridge: every request ends, a body is the whole file of its own request, a file
  that nobody serves goes; limiter: calls are served in order and at the rate;
  downloader: the sink gets the blocks in order, success means all of them.

## 2. The modules

| module | stands for | extends |
|---|---|---|
| `PhotoStore` | table `photos` and each SQL statement that changes it, as an operator on tables | - |
| `PhotoPipeline` | the threads of the indexer process, the bridge calls in flight, crash and restart; implements `PhotoLibrary` | `PhotoStore` |
| `PhotoLibrary` | abstract: the life cycle of a photo as those see it who look at the library | - |
| `PhotoPipelineProofs` | its invariants, and that it implements `PhotoLibrary`, for all instances | `PhotoPipeline`, TLAPS |
| `SyncScan` | `_sync_loop` and `_sync_once` statement by statement, with the clock, the timeline and the administrator | `PhotoStore` |
| `SyncScanProofs` | its types and the deletion guard for all instances | `SyncScan`, TLAPS |
| `People` | the people and face tables, every call on them commit by commit, the sidecar | - |
| `PeopleProofs` | its foreign keys and counts for all instances | `People`, TLAPS |
| `Albums` | the album tables, the hooks of the photo writes, both recounts | `PhotoStore` |
| `AlbumsProofs` | its invariants for all instances | `Albums`, TLAPS |
| `MatrixCache` | the face matrix from the commit to a served request: dirty flag, flush thread, three renames, memory map, timed caches, generation counter | - |
| `CallGate` | abstract: what a rate limiter promises the calls | - |
| `TokenBucket` | `rateLimit.ts`; implements `CallGate` | - |
| `OrderedCopy` | abstract: what a download promises its sink | - |
| `BlockDownload` | `downloadToStream` as the bridge patches it; implements `OrderedCopy` | - |
| `PacedDownload` | the two composed: every request of a block takes a token first (`httpClient.ts`) | `BlockDownload`, `TokenBucket` |
| `PacedDownloadProofs` | both refinements and the invariants for all instances | `PacedDownload`, TLAPS |
| `Bridge` | `bridge.ts`: routes, slots, work files, sweeps, drain, crash, restart | `CallGate` |
| `BridgeProofs` | its slots, files and bodies for all instances | `Bridge`, TLAPS |
| `Sessions` | the accounts: users, tokens, second factor, login budget, gate before bcrypt | - |
| `SessionsProofs` | its invariants for all instances | `Sessions`, TLAPS |
| `Places` | the GPS sweep, the Takeout import, the naming of places | - |
| `Backups` | the backup worker, requests for backups, the schedule file and its temporary file | - |
| `PeopleLists` | the four timed lists of a worker of the API | - |
| `Upkeep` | the three side by side: a behaviour moves one of them at most | `Places`, `Backups`, `PeopleLists` |
| `ServerProofs` | types and views of the matrices; types and all properties of `Upkeep`, for all instances | `MatrixCache`, `Upkeep`, TLAPS |
| `MC...` | instances for TLC: photo kinds, symmetry; `MCServer` sets `Sessions` beside the parts of `Upkeep` | the module they check |

`PhotoStore` has no variables: an operator takes the table and returns what the
statement leaves behind, so the three modules with threads share one reading of
each UPDATE. `PhotoPipeline`, `SyncScan` and `Albums` look at one table from
three sides. The whole product is out of reach of a model checker, so each
models its own threads step by step and the others by all they may do to a row:
the sync thread of `PhotoPipeline` upserts, stages and confirms at any time; the
pipeline of `SyncScan` claims any row and writes any result later; the pipeline
of `Albums` may report more than the real one. An over-approximation keeps
invariants sound.

### PhotoPipeline

A state is the photo table, the number of detector runs whose faces are stored
per photo, the two directories, the queue, the answer of the `/thumbnails` call
per uid, the stage of the full-size thread, and per worker its micro-batch,
position and phase. The actions are the commits, file operations and queue
operations of each thread:

* `Start`, `Crash`: `start()`, with its recovery commits in one step, and the
  end of the process; the database and the directories survive, the rest is
  lost. A first start may find rows of an older release (`LeftBehind`).
* `SyncUpsert`, `SyncStage`, `SyncConfirm`, `SyncRetry`, `CleanupUnlink`,
  `CleanupPurge`: the sync thread, time left out.
* `DlClaim` ... `DlResult`, and `BridgeAnswer`, `BridgeSettle`,
  `BridgeLateWrite`: a call of the downloader and what the bridge does with it,
  also after the client has given up.
* `FrPick` ... `FrDrop`: `_fullres_loop`.
* `WkTake` ... `WkSetErrorFails`: `_worker_loop`, `_process_batch` and
  `_process_one`. A worker's `transaction()` is BEGIN IMMEDIATE, hence
  `WriteLockFree` in every other writer's guard.

`detected` counts detector runs and not faces: a photo without a face counts
as well. What it protects is the check for existing faces in `_process_one`.

`PhotoLibrary` says what all this is for, without threads, claims or retries: a photo
is queued, shown, failed, leaving or deleted; its picture comes first, then its
faces with the step that shows it; it leaves in two steps, and only then the picture
goes. `INSTANCE PhotoLibrary WITH` in `PhotoPipeline` maps a row by `StageOf`, the
thumbnails to `pictures` and the detector runs to `faces`; `new`, `full` and every claim
are `queued`. A row of an older release that is done without its thumbnail counts
as queued, since `start()` sends it back.

### SyncScan

One action per statement of the loop and the scan that another thread can
notice, from `WaitSignalled` and `WaitTimesOut` over `List`, `Diff`, `Stage`,
`Confirm`, `FetchNodes`, `Retry` to `SaveRead` and `SaveWrite`. `Event.wait` and
`Event.clear` are two steps, reading and replacing `sync_config.json` are two
steps. A tick is one `sync_interval`; ages are capped where the code compares
them.

### People

`todo[a]` is the list of commits the call of actor `a` has left, with what it
has read. `Call` begins one of the routes, `CommitOf` runs the next commit of an
actor, `Stop` ends a call half way (an exception or the death of the process).
The clusterer, the cleaner and the workers are further actors. `counted[p]` is
the set of faces `face_count` was last computed from, so a count that is
accidentally right after two opposite errors is still told apart.

### Albums

`listed` is the JSON column, `mirror` the join table, `shown` the set of photos
behind `photo_count`. Each hooked statement of `PhotoStore` is one action with
its hook: `SetDone` is `set_photo_done` with the rewritten mirror and the flags.
`FinishVideo` is the statement that has none: `_fullres_loop` sets a video to done by an
UPDATE of its own (`indexer.py:915`), so what a recount has pruned of it meanwhile stays
away and no album is flagged. The observer `bypassed` holds the videos that were last finished
that way since the last full rescan; no action reads it. `SyncAlbums` is one transaction,
as in the code: insert the albums the bridge lists, then the full rescan if it is due,
else the flagged ones.

### MatrixCache

The rows of the face table are a generation number, one more with every commit
that changes them; a sidecar file, a map and a cache hold the generation they
were made from. The indexer marks, commits, flushes in three renames and may
fail or restart between any two; the two builders of a worker (a request, the
background refresh) open the three files one after another; a call that changes
faces drops caches and bumps the counter in steps of its own. A time to live is
a Boolean that a step of the clock resets.

### CallGate, TokenBucket, OrderedCopy, BlockDownload, PacedDownload

`TokenBucket` goes in ticks of a millisecond and counts fractions of tokens. Its
observer `meter` is a leaky meter on the wire: what it reads at most is the
property `RateKept`. `BlockDownload` is the loop of `downloadToStream` statement
by statement beside one little machine per block (request, answer, expired
token, retry). `PacedDownload` joins them through the four outcomes of `pace()`:
granted, parked, woken, refused. `INSTANCE OrderedCopy WITH` and `INSTANCE
CallGate WITH` state the refinements; both are checked as properties of the
composition, fairness of the gate included.

### Bridge

`stage[r]` is where the handler of request `r` is, from the gate over the queue of
the SDK to the answer; `held` is what the SDK's queue counts as taken, `file[p]`
what a name in the work directory holds, by whom and whether all of it. The gate
is `CallGate`, so what is shown of the routes does not depend on rate or burst,
and holds of `TokenBucket`, which implements it. A tick is five minutes, the
default deadline of a call; a call past its deadline settles before the next
tick, all other calls may hang for ever or fail at any time.

### Sessions

`call[t]` is the call a request thread serves, with what it has read; one action
per transaction. `Login` is let through by the budget, then finds the user, waits
for the gate, checks, records; the second step consumes the pending token in a
transaction before it reads its owner; a refresh looks up, revokes and mints in
four. The administrator's calls and the commands of the shell run beside them.
The observer `late` counts password checks of a user who is locked.

### Places, Backups, PeopleLists, Upkeep

Three small parts that share nothing, checked in one run together with the accounts:
`part` says at the start which of the four moves (`MCServer`). `Places` is the sweep row
by row (`BeginSweep`, `ReadPage`, `Fetch`, `Inspect`, `EndPage`) beside the import
(`BeginImport` ... `Applied`), with
the naming that ends both, photos that come and go, and jobs that are killed; `due`
is what the sweep has yet to try. `Backups` has two threads that save one file
through one temporary file: open and truncate, write, rename are three steps, and a
handle survives the rename of its file. `PeopleLists` keeps of a list the time its
rows were read; `Age` is what an answer out of it is behind.

## 3. The runs

| run | instance | shows |
|---|---|---|
| `pipeline_faults` | one photo that needs the full-size thread and may vanish and return, two workers, two failures | `TypeOK`; `OneDetectorRun`: however often a photo is queued, claimed, failed and retried, its faces are inserted once; `LibraryKept`: the refinement of `PhotoLibrary` |
| `pipeline_live` | an image with and a video without a server preview in one batch, one failure, one crash | `DoneIsComplete`, `NoStrandedClaim`, and, with fairness, `EventuallyIndexed` |
| `scan_sync` | two photos beside two that never change, one bad listing or call, one upload or deletion, one act of the administrator | `TypeOK`; `LossBounded`: a scan stages at most its share, save for what uploads in the same listing hide; `EventuallyGone`, `EventuallyListed` |
| `people` | two faces, three ids, two request threads, two calls, one that stops | `TypeOK` with the foreign keys, `CountsCover` |
| `albums` | a video, which a worker or the full-size thread may finish, and a photo with or without a thumbnail; one album, one later change | `TypeOK`; `MirrorComplete` and `CleanMissesBypassedOnly`: no row of the mirror and no photo is missing but those of videos finished past the hooks; with fairness, `EventuallyCounted` |
| `albums_missed` (violation) | as `albums` | a video finished without the hook, after a recount has pruned it: an album without a flag misses it |
| `caches` | one worker beside the indexer, two of: a commit, a failed write, a restart | `TypeOK`; `NewMetaNewRows`: no view pairs ids with older rows; with fairness `ViewsCatchUp` and `DirtyIsWritten` |
| `faces_lost` (violation) | as `caches` | a flush between a mark and its commit: the faces stay out of the sidecar |
| `download` | up to four blocks, listed in order, with a gap or out of order, a window of two, a bucket of a token and a third, two faults, an abort, pauses | `TypeOK`, `TimerArmed`, `RateKept`, `ProgressHonest`; the refinements `GateKept` and `CopiesInOrder`; `Ends` |
| `bridge` | two requests for any route, one place at the gate, one slot, one crash or stop, one unlink that fails | `TypeOK`; `WholeServed`, `DownloadKeepsFile`; with fairness `Answered`, `OrphansGo` |
| `slots_lost` (violation) | as `bridge` | a request that is refused with 507 keeps its slot |
| `server` | one part at a time. Places: four photos, pages of two, a limit of one; backups: a day of two ticks, two snapshots; lists: two requests, three ticks; accounts: an administrator and an account that comes and goes, two threads, three calls, one failure locks | `UpkeepTypeOK`, with it that only overlapping savers tear the schedule; `SweepCovers`; `OncePerSlot`: two backups for one slot only where a mark was lost or two savers met; `ListsBounded`: the age of an answer; `TypeOK`, `RowsOwned`, `OnePending`, `LateChecksBounded` of the accounts |

Every property of a passing run has a mutant in its module, an operator commented
"Mutant:" that alters one definition the way a plausible slip would; with it TLC
finds the property violated.

The three "violation" runs are the places where the code does not do what its own
comment says; `findings` quotes the line. `slots_lost` is the graver: five such
refusals, and every later full photo waits in vain until the bridge restarts
(`Answered` still holds, by the deadline). In `albums_missed` a video comes up while it is
in `full` or `fullres` and its album is recounted: the recount prunes its row of
`photo_albums` and takes the flag, and the UPDATE that finishes it gives neither back. The
comment in `set_photo_done` promises every photo that joins the counted set its albums'
flags; until the next full rescan the album has neither the count nor the video. `faces_lost` is
checked under `FairSpec`, `slots_lost` and `albums_missed` are invariants.

### Bounds, and why they suffice

* Photos: the rows of a table interact through the queue, the batch of a call,
  the micro-batch of a worker and the single full-size thread; two photos
  exercise each of them in `pipeline_live`. For one row, all that the threads can do
  to it is in `pipeline_faults`. A medium that is neither image nor video is met in
  the proofs only.
* Workers: the conflicts are between two of them (one photo, two transactions).
  The proofs cover any number.
* `MaxFaults`, `MaxCrashes`: a failure after a failure in `pipeline_faults`; before,
  during and after a crash in `pipeline_live`. With a crash as well, the
  refinement takes longer than a run should; the proof covers any number of both.
* `MaxQueue` bounds `_pending`, which the code leaves unbounded; two entries of
  one uid fit, which is the interesting case.
* `MaxRetryPark = 1` (5 in the code): below, at and beyond the budget.
* `Rest = 2`, `LossPercent = 25`: one missing photo of four is tolerated, two are
  not, so the guard decides both ways. `GraceCycles = 2`, `FullInterval = 1`
  leave a full scan inside the grace period.
* `Ids = 3`, `MaxCalls = 2`: an old owner, a new owner and a person created
  meanwhile; every pair of calls. A clustering run and the workers do not count
  as calls.
* `MaxEdits = 1`: a photo leaves, or changes its albums; that it appears and that it returns
  is free. One of the two photos is a video, so that hooked and unhooked results of one
  photo meet, before and after a recount. Albums do not influence each other but through the empty
  set of flagged ones, so TLC has one; the proofs cover any number.
* `caches`: with two of the three kinds of event one may fall before and one into
  a build or a flush. The workers of the API meet in the counter and the files
  only, and each sees the other as it sees the indexer; the proof covers any number.
* `download`: a window of two is full with one block that has failed and one behind
  it; four blocks fill, drain and refill it; `One = 3`, `Rate = 2`, `Capacity = 4`
  make the fractions matter (a burst of one call, then waits that do not divide
  evenly); one may park, so a second is refused.
* `bridge`: two requests compete for the one place, the one slot and, in the
  mutant, one file name. `MaxAge = 3`: more than twice the deadline of one tick, as in
  the code (fifteen minutes against five), so the periodic sweep and a slow download
  come close.
* `server`, accounts: two threads are all that a race between two transactions takes; three
  calls give one of them a past (a login before the deletion and the second
  step). With `MaxLoginFailures = 1` the first failure locks, so the second thread
  is the one that is late. `MaxIpFailures = 2` is reached and not reached. When the calls
  are used up and no thread is at work, `MCServer` lets the accounts `Rest`; any
  other stop, in any of the parts, is a deadlock that TLC reports.
* `server`, the parts of `Upkeep`: four photos make two pages, of which the first may shrink
  to nothing, keep one row or be stopped by the limit; two of the events that disturb a sweep;
  a day of two ticks and a clock of four see two slots; two snapshots and two mishaps give a
  slot a second backup. Each of the lists is asked for with the people, on which two of them
  are built. The four parts have 2.0 million states together; they share no variable, so
  their behaviours add up and do not multiply.
* Symmetry is used in runs without temporal properties only.

### Fairness, and why the code justifies it

* `PhotoPipeline`: the threads are loops without an exit, so each step that stays
  possible is taken. A process that dies is restarted (the container's restart
  policy); the timeline is scanned, failed rows are retried and a purge is finished.
  Nothing obliges a photo to vanish or a call to fail. Live runs have
  `DbMayFail = FALSE` where a locked database would end a worker thread: see
  section 7, which is a real limit of the program and not covered by the
  liveness properties.
* `SyncScan`: the sync thread, the pipeline and the clock go on, and a route that
  has read the settings also writes them. Automatic synchronisation is a premise
  of the properties (`cfg.enabled`), and so is a listing that the deletion guard
  believes: a library that really shrinks below the threshold is held back on
  purpose.
* `Albums`: the albums loop runs for ever, the bridge lists an album that exists
  again and again, and the rescan interval passes.
* `MatrixCache`: the flush loop, the background refresh and requests go on, times to
  live end. Commits, failures and restarts are bounded and owe nothing.
* `PacedDownload`: loop, timer and clock run, a block that may send does, a request
  is answered in the end, with an error or not; faults are bounded, an abort is
  never owed.
* `Bridge`: a handler that can go on does; a call past its deadline, or whose client
  has left, settles, as the SDK's promises are raced against both; timers and
  sweeps fire, the container restarts what exits, time passes. No SDK call is
  owed an answer, and no slot is owed a release: `Answered` holds with every slot lost.
* `Sessions` and the parts of `Upkeep` have safety properties only.

## 4. The proofs

`PhotoPipelineProofs` proves, for any finite set of photos and any set of
workers, any batch sizes and any number of failures and crashes:

| theorem | statement |
|---|---|
| `Invariance` | `Spec => []Inv` |
| `TypeCorrect` | `Spec => []TypeOK` |
| `Completeness` | `Spec => []DoneIsComplete` |
| `SingleDetection` | `Spec => []OneDetectorRun` |
| `MediaKept` | `Spec => MediaKeptUnlessDeleted`, an action property |
| `HandsHaveRows` | `Spec => []HandsKnown` |
| `KeepsLibrary` | `Spec => LibraryKept`, the refinement of `PhotoLibrary` |
| `LibraryIsWhole` | `Library!LibrarySpec => []Library!ShownWhole`: what the abstract life cycle is for |
| `NoStranded` | if no write fails (`~DbMayFail`), `Spec => []NoStrandedClaim` |

`Inv` strengthens the properties until every step preserves them:

* `DoneRows` is `DoneIsComplete` without "while it runs": it must survive a crash,
  and allows what `start()` has yet to repair.
* `DetectedOnce` is what makes the commit of a worker add the first run: together
  with `ClaimsHold`, which says that the row a worker claimed is still
  `downloading` when it commits, and that the thumbnail it moved is there.
* `OneWriter` (two workers are never in their transactions together) is what keeps
  `ClaimsHold` true of one worker while another commits.
* `WorkersWithin` keeps the position inside the batch, so that the current uid is a
  photo.
* `PosterThere`: the poster of a video is on disk before `FrStore` makes the row
  done.
* `PurgeAlone`: no download and no full-size stage is under way for a row that is
  being purged. `MediaKept` follows from it. It rests on the assumption below
  that the grace periods outlast a bridge call.

There is one lemma per action; `NextInv` puts them together. `NoStranded` needs
its hypothesis: where the write of a full-size result fails as well, the row
keeps a claim until the next start.

`KeepsLibrary` goes action by action (lemmas `SyncShows`, `DownloaderShows`,
`BridgeShows`, `FullresShows`, `WorkerShows`, `StartShows`): under the invariant each step
of a thread is a step of the library or leaves stage, pictures and faces as they
are. `RowsKept` takes the many that only move a row between claims. Two facts
carry the rest. `Recognise` asks for the picture, which `ClaimsHold` has, and `ShowPoster`
for the poster, which `PosterThere` has. And a late result may find any row, but must
not find none: the UPDATEs name the uid only, so for `Requeue` and `Fail` the row has to be
known. That is `HandsKnown`, inductive with the types: all that queue, batches, calls and
the full-size thread hold came out of the table, and nothing leaves the table.
`LibraryIsWhole` shows that the abstract specification is worth implementing.
`MediaKeptUnlessDeleted` is in no run, as `LibraryKept` includes it.

`AlbumsProofs` proves, for any photos of any kind and any albums, `MirrorIsComplete` and
`MissesBypassedOnly`, that is `Spec => []MirrorComplete` and
`Spec => []CleanMissesBypassedOnly`. The strengthening is `UnknownHidden`: an album
without a row has no count, so that the row a sync inserts starts out hidden and owes nothing. The
argument: of the statements without a hook, all but one are `Quiet`, they let no photo start to
count and take none that was not staged or deleted before; the one that is not, the UPDATE
that finishes a video, puts it on record in `bypassed` (`FinishVideoInv`); a statement with a
hook flags the albums of every photo for which it is not quiet (`PhotoStep`). The
incremental recount counts in the mirror, so it finds all members but the videos on
record, and no photo that is not a member; the full rescan counts in the JSON column, and
empties the record. `NeverMisses` says what the hooks are worth alone: in a library
without videos `Spec => []CleanNeverMisses`. Its hypothesis is needed, as
`albums_missed` shows.

`TypeCorrect` there, as in the modules below, is `Spec => []TypeOK`.

`SyncScanProofs` proves `LossIsBounded`, that is `Spec => []LossBounded`: between the
comparison and the staging, whatever workers, the user and the administrator do, the
photos a scan may stage stay below its share plus what the same listing brings. The
invariant is `TypeOK /\ LossBounded`. The comparison sets it up: what a listing lacks
and what it adds differ by the sizes of the library and the listing (lemma `Balance`),
and these are what the guard compares. The other steps keep it, since no claim and no
late result takes a row out of the library (`BoundGrows`).

`PeopleProofs` proves `TypeCorrect`, which holds the foreign keys, and
`CountsAreCovered`, that is `Spec => []CountsCover`, for any faces, people and number
of calls. A count that is too low must be owed by somebody: `Promised` says that behind
every commit of a call that moves faces to a person there is one, later in the same
call, that recounts this person before anything can fail, and `Pays` names it. `Covered` is then
inductive, commit by commit: who takes faces has the recount still before it, and what a
dying process owes is in `unpaid`, which the next count of that person clears.

`ServerProofs` proves `MetaNeverLeads`, that is `Spec => []NewMetaNewRows`, for any
number of workers and events. The argument is the order of the renames (matrix,
uids, metadata) against the order of the reads (metadata first): the files on
disk are ordered, a flush under way keeps them so because what it carries is not
older than what is there, and a builder that has read the metadata finds files
that are not older. `TypeCorrect` needs an invariant of its own, `Fits`, since it
says more than types: the counter plus the calls that owe it a bump (a cardinality)
never exceeds the commits, a matrix is fresh only while it is there, and a worker has
one refresh at a time.

It also proves the four properties that `server` checks of `Upkeep`, by one invariant for
each part (`UpkeepInvariance`); the parts share nothing, so `UpkeepNextInv` joins them.

* `SweepCoversAll`, `Spec => []SweepCovers`, for any photos, page size and limit. The
  argument is one of ranks (`DueAhead`): photos are numbered by their capture time, by
  which pages are ordered, and `Upto(Waiting, u)` is the rank of `u` among those that wait. What is due has a rank
  above the offset between two pages, and above the offset plus the rows of the page that
  still wait within one. A row that is tried and stops waiting lowers both sides by one; one
  that could not be fetched stays, and the end of the page adds exactly those to the
  offset. An empty page then means that nothing is due. `CountsFit` bounds offset and
  matches by what there is to count.
* `SlotServedOnce`, `[]OncePerSlot`. `SavesFit` is the protocol of the file: unless two savers
  have overlapped, one at most is between read and rename, the handle it writes is the
  temporary file's, and what it renames is the schedule it meant. `MarksFit`: a
  slot that is served is known to the file, or to the schedule the worker is about to
  save, or to the one a request has read; a worker that has found a slot due
  has found it unserved.
* `ListsStayBounded`, `[]ListsBounded`. `RequestFits` says what a request knows by the step it
  is at (who builds a list took people that were within their time to live when it came),
  `ListFits` how the stamp of a list relates to the rows in it, `LocksFit` that the
  holder of a lock is at a step between taking and releasing it, so that no two builds
  of one list pass each other.
* `UpkeepTypeCorrect`, `[]UpkeepTypeOK`, with the schedule that is torn only by savers
  that overlapped.

`PacedDownloadProofs` proves `CopiesBlocksInOrder` and `BucketIsGate`, the two
refinements (safety), and `WindowIsBounded`, `TimerIsArmed`, `RateIsKept`,
`HeadGoesFirst`, `ProgressIsHonest`, `TypeCorrect`, `PartsAreKept`, for any listing,
window, rate, burst and queue.
The composition is a behaviour of each part, so what is shown of a part holds in it.
The heart of the refinement is `ListedBlocks`: the blocks written are exactly those
below `nextBlockIndex`. That of `RateIsKept`: meter and tokens never add up to more
than the capacity. That of `ProgressIsHonest` is `ProgressInv`: what has been reported is
the number of blocks whose bytes were counted and not taken back by a retry, all decrypted
blocks among them. `WindowIsBounded`
and `HeadGoesFirst` are in no run.

`BridgeProofs` proves `TypeCorrect`, `BodiesAreWhole` and `DownloadsKeepFiles`, that is
`WholeServed` and `DownloadKeepsFile`, for any requests, slots, places at the gate, ages
and faults. The invariant: the queue of the gate holds exactly who waits, once
(`QueueOK`); a process that is down has nobody at work (`Quiet`), so a sweep of the
start meets no download; the file of a request is its own and whole once it is checked
(`FilesOK`); a download is younger than two ticks, since its deadline ends it before
(`Young`), and so the periodic sweep, which takes what is older, passes it by.

`SessionsProofs` proves `TokensHaveOwners`, `PendingIsUnique`, `GateLosesNothing`,
`LateChecksAreFew` and `TypeCorrect`, for any users, threads, limits and number of
calls. The strengthening that matters is `LateAccounted`: while a name is locked,
the checks that were late and those that may yet be are fewer than the threads.
It holds when the lock is set because the thread that sets it has left the gate,
and is kept because no login begins while the lock is there.

The constants are assumed to be what their comments say (`StoreAssumption`,
`PipelineAssumption`, `ScanAssumption`, `PeopleAssumption`, `AlbumsAssumption`,
`EventsAssumption`, `RowsAssumption`, `DownloadAssumption`, `BucketAssumption`,
`CallersAssumption`, `BridgeAssumption`, `SessionsAssumption`, `PlacesAssumption`,
`BackupsAssumption`, `ListsAssumption`, `PartsAssumption`); nothing else is.
`BucketAssumption` leaves out a burst of less than one token, with which the bucket of
the code never grants a call. `BridgeAssumption` takes from `bridge.ts:64` that the age a
sweep asks for is twice the deadline at least. `ListsAssumption` has times to live above
zero, as `api_state.py:22` sets them; `BackupsAssumption` has at least one tick of the clock.

Only model-checked: all liveness properties (`EventuallyIndexed`, `EventuallyGone`,
`EventuallyListed`, `EventuallyCounted`, `ViewsCatchUp`, `DirtyIsWritten`, `Ends`, `Answered`,
`OrphansGo`), which this prover does not reach, and `GateKept` as far as it is about
fairness (`BucketIsGate` is its safety). Every invariant and every action property of a
passing run is a theorem. No run checks, and no proof uses, a recursive operator.

## 5. Abstractions to know of

* The grace assumption. A row is confirmed deleted after the grace period (at
  least 600 s, 12 h by default) and purged seven days later; a call of the
  downloader or a full-size download is taken to end before that. `full_photo` has
  no read time-out, so this is an assumption about the network.
* Locks: SQLite's write lock is held by a worker from its claim to its commit.
  The other commits are single statements or short transactions, one action each.
* Checking the queue length and taking from it are one step in `WkTake`.
* The bridge is taken to answer for every uid it was asked for.
* `reset_stuck_fullres` counts waiting rows too; it is in `Start`, as in the code.
* `SyncScan` leaves out `sync_limit` (a test aid), `full_scan_interval = 0` and the
  demo's coordinates. What two writers of `sync_config.json` lose is a hazard
  without a property.
* `People`: one face per photo (a purge of a photo takes its face); covers and crop
  files are left out; a chunk of 500 ids is one commit; the API's timed copy of
  the sidecar adds only age and is left out; `merge_people_bulk` with an unknown
  target returns early, as `merge_person` does. The age limit of the sweep is a
  free choice that spares people created by a call in flight.
* `Albums`: a row of an upsert is a commit of its own (the code commits 500, so
  this has more interleavings); covers and time spans follow the count. A video that was
  finished past the hooks stays on record until a hooked result or a full rescan, also
  where an upsert has rewritten its rows since.
* `MatrixCache`: the CLIP matrix goes the same way and is left out; covers and counts
  in the people list have no generation.
* `TokenBucket`: an enabled bucket; a disabled one grants at once. The bucket of the
  HTTP layer is never closed while the process lives, so `Close` is not a step of
  `PacedDownload`; the gate of the routes is closed in `Bridge`.
* `BlockDownload`: contents are block numbers; the seekable stream is not used by the
  bridge; what the API answers is free, errors up to a bound.
* `Bridge`: authorization, validation, HEAD and Range headers, the cache report change
  no state; `X-Timeout-Ms` is folded into `gone`; the timeline's longer deadline is
  that of the others; a sweep treats all files in one step; thumbnails on disk are
  in `PhotoPipeline`. The `cancel()` of an image's stream takes deadline and client's signal off the
  download (`bridge.ts:514`); the model leaves that out and lets both go on ending it.
* `Places`: coordinates and places are known by where they come from; a file that cannot be fetched for good is tried again by the next
  sweep, as in the code; a geocoder that is not there is one that fails.
* `Backups`: the route that restarts and the checks are left out; a snapshot is a
  name, a time and whether it is whole; the clock is that of the files. Two snapshots that
  begin in the same second would meet in one name, and the second fail; names are told apart here.
* `PeopleLists`: one worker; that calls in other workers clear none of its lists is the
  reason why `ListsBounded` gives them their whole time to live. The hits that the code
  judges and reads in two steps are one. The cap on the rows of all people lists together
  (`api_common.py:278`) is folded into `Size`, the cap on their number.
* `Sessions`: a password or code is right or wrong (the replay counter of a code is
  left out); the pruning of the budget's maps, with the eviction of
  the oldest entries beyond 10,000, and the growth of the back-off are left out; an expired
  token is gone; a call refused before its first effect is not begun; a name is never
  created again; a patch changes one field; everybody comes
  from one address; a command of the shell counts as a thread; the lookups of the
  last-administrator check are one step.

## 6. Not modelled

The checks of the administrator's page: reports over one snapshot. Search, tags,
favourites: queries over one snapshot, or single statements. Models, demo data, front
end, web plumbing, the one-shot `reclaim_deleted.py`: no state machine. `PROJECT.json`
lists each with its reason.

## 7. Further hazards

Known from the code; most are in no property, because a property would be false and
no comment promises it, or because the state is one number. The first of each kind is
in `PROJECT.json`.

* Pipeline: a photo whose download always fails is set back to `new` by every full
  scan (`indexer.py:502`), its retry budget never spent on that path. An exception
  in `set_photo_error` inside the `except` of `_worker_loop` ends the thread
  (`indexer.py:655`). `reset_stuck_fullres` counts a retry of every waiting row at
  every start (`store.py:752`).
* Sync: `set_sync_config` reads, merges and replaces its file without a lock
  (`indexer.py:252`); a request between a timed-out wait and the clear is lost
  (`indexer.py:1266`); a scan confirms rows its own listing contains
  (`indexer.py:478`), and reclaims them later; a library that really shrinks stays
  below the guard (`indexer.py:446`); `full_scan_interval = 0` shortens the grace
  (`indexer.py:396`).
* People: prune-small looks and deletes in two transactions (`api_routes_admin.py:314`);
  a new name is looked up and created in two (`store.py:1639`); a match may name a
  person that is gone (`cluster.py:117`); a propagation moves a face that was given
  away since the sidecar was written (`store.py:1390`).
* Albums: a video finished by the full-size thread leaves no flag (`indexer.py:915`, run
  `albums_missed`); one that the server's preview finishes does, so the two ways differ.
* Bridge: a burst below one token never grants (`rateLimit.ts:174`); a timeline takes
  its second token after its 200 (`bridge.ts:219`); a range whose end lies before
  its start (`helpers.ts:205`).
* Accounts: two administrators who demote each other at once both go
  (`api_routes_admin.py:100`); two refreshes of one token both mint
  (`auth.py:799`); a second factor confirmed while it is switched off may be on
  without a secret.
* Administration: "at most one backup per UTC day" (`docs/user-guide/admin.md:73`) is true
  of an hour that is left alone: a mark that is lost, or an hour moved to later the same
  day, gives the day a second one. Schedule and snapshot rewrite `admin_config.json`
  through one temporary file (`admin.py:198`), so two of them at once may leave half of
  each, contrary to the comment above it; the schedule then falls back to its
  defaults. A snapshot that broke off counts as the newest file, and a pruning may keep it for a
  whole one (`admin.py:119`).
* Places: the limit "caps the number of photos processed" (`indexer.py:1446`), but counts
  those with coordinates only, so a cycle of a limited sweep may fetch every photo
  that waits, where `docs/user-guide/places.md:27` speaks of a bounded batch.
* Lists: the duplicates of one threshold are served for another, as the entry has no key,
  and an entry found by one line may be cleared before the next reads it
  (`api_routes_people.py:455`).

## 8. Plan

Done: all modules above, and the proofs of all their safety properties. What is left:

1. The range header (`helpers.ts`) as a pure function, against a reference over
   small files, to be proved for every size.
2. The hazards of section 7 that have no property: each needs a decision of the
   authors first, what the code is to promise.
