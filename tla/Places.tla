------------------------------- MODULE Places -------------------------------
(* Coordinates and place names (indexer.py, store.py, geocode.py): the child *)
(* process of the GPS loop, which downloads originals page by page for their *)
(* EXIF; the one-shot import of a Takeout export; and the naming of places   *)
(* that ends both.  The rest of the indexer moves photos in and out of       *)
(* status 'done' meanwhile.                                                  *)
EXTENDS Naturals, FiniteSets, FiniteSetsExt

CONSTANTS
    Shots,          \* photos, numbered in the order of their capture times
    Takeout,        \* those a local Takeout export has coordinates of
    Carriers,       \* those whose EXIF has coordinates
    PageSize,       \* rows of one page of the sweep
    Limit,          \* --gps-limit, 0 for none
    ChunkSize,      \* UPDATE_CHUNK
    MaxOccurred       \* bound: photos that enter or leave status 'done', imports, and
                    \* jobs killed (timeout=3600, or with their container)

ASSUME PlacesAssumption ==
    /\ Shots \subseteq Nat /\ IsFiniteSet(Shots)
    /\ Takeout \subseteq Shots /\ Carriers \subseteq Shots
    /\ PageSize \in Nat \ {0} /\ ChunkSize \in Nat \ {0}
    /\ Limit \in Nat /\ MaxOccurred \in Nat

Jobs == {"sweep", "import"}

VARIABLES
    done,           \* the photos with status 'done'
    coords,         \* where gps_lat and gps_lng come from
    checked,        \* the photos with gps_checked_at
    place,          \* the coordinates photos.place was made of
    at,             \* per job: where it is
    rows,           \* per job: what is left of the rows it has read
    read,           \* per job: the coordinates it has read with them
    page,           \* the page of the sweep, as it was read
    offset, matched,
    work,           \* the photos whose <uid>.gps is in the work directory
    cache,          \* gps_sha1_cache.json
    due,            \* photos the sweep should have tried before it ends
    disturbed,      \* somebody else has taken a photo out of those that wait
    occurred

photoVars == <<done, coords, checked, place>>
jobVars == <<at, rows, read>>
sweepVars == <<page, offset, matched, work>>
ghosts == <<due, disturbed>>
placesVars == <<photoVars, jobVars, sweepVars, cache, ghosts, occurred>>

Sources == {"none", "exif", "takeout"}
Nowhere == [u \in Shots |-> "none"]

PlacesTypeOK ==
    /\ done \subseteq Shots /\ checked \subseteq Shots
    /\ coords \in [Shots -> Sources] /\ place \in [Shots -> Sources]
    /\ at["sweep"] \in {"rest", "page", "row", "got", "naming", "named"}
    /\ at["import"] \in {"rest", "hashing", "caching", "apply", "naming", "named"}
    /\ rows \in [Jobs -> SUBSET Shots] /\ page \subseteq Shots
    /\ read \in [Jobs -> [Shots -> Sources]]
    /\ offset \in 0 .. Cardinality(Shots) /\ matched \in 0 .. Cardinality(Shots)
    /\ work \subseteq Shots
    /\ cache \in {"missing", "torn", "whole"}
    /\ \A u \in Shots : place[u] # "none" => coords[u] # "none"

PlacesInit ==
    /\ done \in SUBSET Shots
    /\ coords = Nowhere /\ place = coords
    /\ checked = {}
    /\ at = [j \in Jobs |-> "rest"] /\ rows = [j \in Jobs |-> {}]
    /\ read = [j \in Jobs |-> coords]
    /\ page = {} /\ offset = 0 /\ matched = 0 /\ work = {}
    /\ cache = "missing"
    /\ due = {} /\ disturbed = FALSE
    /\ occurred = 0

Occurs == occurred < MaxOccurred /\ occurred' = occurred + 1
SetAt(j, where) == at' = [at EXCEPT ![j] = where]
Read(j, S) ==
    /\ rows' = [rows EXCEPT ![j] = S]
    /\ read' = [read EXCEPT ![j] = [u \in Shots |-> IF u \in S THEN coords[u] ELSE "none"]]

\* The first half of a job returns, or the process goes, and its locals with it.
Returns(j) ==
    IF j = "sweep"
    THEN page' = {} /\ offset' = 0 /\ matched' = 0 /\ due' = {} /\ disturbed' = FALSE
    ELSE UNCHANGED <<page, offset, matched, ghosts>>

----------------------------------------------------------------------------
(* The sweep.                                                              *)

\* get_photos_without_gps: n rows after the first skip, the oldest first.
Waiting == {u \in done : coords[u] = "none" /\ u \notin checked}
Rank(u) == Cardinality({v \in Waiting : v <= u})
Page(skip, n) == {u \in Waiting : Rank(u) \in skip + 1 .. skip + n}

\* The GPS loop starts a child process.
BeginSweep ==
    /\ at["sweep"] = "rest" /\ SetAt("sweep", "page")
    /\ due' = Waiting
    /\ UNCHANGED <<photoVars, rows, read, sweepVars, cache, disturbed, occurred>>

ReadPage ==
    /\ at["sweep"] = "page"
    /\ page' = Page(offset, PageSize) /\ rows' = [rows EXCEPT !["sweep"] = page']
    /\ SetAt("sweep", IF page' = {} THEN "naming" ELSE "row")
    /\ UNCHANGED <<photoVars, read, offset, matched, work, cache, ghosts, occurred>>

Row == Min(rows["sweep"])
OnRow == at["sweep"] = "row" /\ rows["sweep"] # {}
NextRow == rows' = [rows EXCEPT !["sweep"] = @ \ {Row}]

\* Photos without coordinates do not count.
Limited == Limit > 0 /\ matched >= Limit

StopAtLimit ==
    /\ OnRow /\ Limited
    /\ SetAt("sweep", "naming")
    /\ UNCHANGED <<photoVars, rows, read, sweepVars, cache, ghosts, occurred>>

Fetch ==
    /\ OnRow /\ ~Limited
    /\ SetAt("sweep", "got")
    /\ work' = work \cup {Row} /\ due' = due \ {Row}
    /\ UNCHANGED <<photoVars, rows, read, page, offset, matched, cache, disturbed, occurred>>

\* Transient or not: the row stays as it was, its file is removed.
FetchFails ==
    /\ OnRow /\ ~Limited
    /\ work' = work \ {Row} /\ NextRow /\ due' = due \ {Row}
    /\ UNCHANGED <<photoVars, at, read, page, offset, matched, cache, disturbed, occurred>>

HasExifGps(u) == u \in Carriers
SetPhotoGps(u) == coords' = [coords EXCEPT ![u] = "exif"] /\ UNCHANGED checked
MarkGpsChecked(u) == checked' = checked \cup {u} /\ UNCHANGED coords

Inspect ==
    /\ at["sweep"] = "got" /\ SetAt("sweep", "row") /\ NextRow
    /\ \/ HasExifGps(Row) /\ SetPhotoGps(Row) /\ matched' = matched + 1
       \/ ~HasExifGps(Row) /\ MarkGpsChecked(Row) /\ UNCHANGED matched
    /\ work' = work \ {Row}
    /\ UNCHANGED <<done, place, read, page, offset, cache, ghosts, occurred>>

\* Mutant: the next page begins behind this one, whatever has dropped out of it.
EndPageFar ==
    /\ at["sweep"] = "row" /\ rows["sweep"] = {}
    /\ offset' = offset + Cardinality(page)
    /\ SetAt("sweep", "page")
    /\ UNCHANGED <<photoVars, rows, read, page, matched, work, cache, ghosts, occurred>>

\* The next page begins behind those of this one that still wait.
EndPage ==
    /\ at["sweep"] = "row" /\ rows["sweep"] = {}
    /\ offset' = offset + Cardinality(page \cap Page(offset, Cardinality(page)))
    /\ SetAt("sweep", "page")
    /\ UNCHANGED <<photoVars, rows, read, page, matched, work, cache, ghosts, occurred>>

----------------------------------------------------------------------------
(* The import.                                                             *)

\* backfill_gps: from the cache of an earlier run, if it parses, or from hashes.
BeginImport ==
    /\ at["import"] = "rest" /\ Occurs
    /\ \/ cache = "whole" /\ SetAt("import", "apply")
       \/ SetAt("import", "hashing")
    /\ rows' = [rows EXCEPT !["import"] = Takeout]
    /\ UNCHANGED <<photoVars, read, sweepVars, cache, ghosts>>

\* The cache is written in place; a write that fails is only logged.
OpenCache ==
    /\ at["import"] = "hashing"
    /\ SetAt("import", "caching") /\ cache' = "torn"
    /\ UNCHANGED <<photoVars, rows, read, sweepVars, ghosts, occurred>>

CacheWritten ==
    /\ at["import"] = "caching" /\ SetAt("import", "apply")
    /\ cache' \in {"torn", "whole"}
    /\ UNCHANGED <<photoVars, rows, read, sweepVars, ghosts, occurred>>

\* At most ChunkSize rows in a transaction.
Chunk(S) == {C \in SUBSET S : Cardinality(C) = Min({Cardinality(S), ChunkSize})}

\* _apply_gps: whatever coordinates the rows have.
ApplyChunk ==
    /\ at["import"] = "apply" /\ rows["import"] # {}
    /\ \E C \in Chunk(rows["import"]) :
          /\ coords' = [u \in Shots |-> IF u \in C THEN "takeout" ELSE coords[u]]
          /\ rows' = [rows EXCEPT !["import"] = @ \ C]
          /\ disturbed' = (disturbed \/ C \cap Waiting # {})
    /\ UNCHANGED <<done, checked, place, at, read, sweepVars, cache, due, occurred>>

Applied ==
    /\ at["import"] = "apply" /\ rows["import"] = {}
    /\ SetAt("import", "naming")
    /\ UNCHANGED <<photoVars, rows, read, sweepVars, cache, ghosts, occurred>>

----------------------------------------------------------------------------
(* Names of places, at the end of either job.                              *)

Unplaced == {u \in Shots : coords[u] # "none" /\ place[u] = "none"}

\* enrich_places reads the rows and looks them up, all in one go.
Geocode(j) ==
    /\ at[j] = "naming" /\ SetAt(j, "named")
    /\ Read(j, Unplaced) /\ Returns(j)
    /\ UNCHANGED <<photoVars, work, cache, occurred>>

\* The geocoder is not there, or raises: no row is written.
GeocodeFails(j) ==
    /\ at[j] = "naming" /\ SetAt(j, "rest")
    /\ Returns(j) /\ rows' = [rows EXCEPT ![j] = {}]
    /\ UNCHANGED <<photoVars, read, work, cache, occurred>>

\* The place of the coordinates that were read.
NameChunk(j) ==
    /\ at[j] = "named" /\ rows[j] # {}
    /\ \E C \in Chunk(rows[j]) :
          /\ place' = [u \in Shots |-> IF u \in C THEN read[j][u] ELSE place[u]]
          /\ rows' = [rows EXCEPT ![j] = @ \ C]
    /\ UNCHANGED <<done, coords, checked, at, read, sweepVars, cache, ghosts, occurred>>

Named(j) ==
    /\ at[j] = "named" /\ rows[j] = {} /\ SetAt(j, "rest")
    /\ read' = [read EXCEPT ![j] = Nowhere]
    /\ UNCHANGED <<photoVars, rows, sweepVars, cache, ghosts, occurred>>

----------------------------------------------------------------------------
(* What happens around the jobs.                                           *)

\* A photo is indexed; the fullres loop has stored the coordinates it has seen.
Join(u) ==
    /\ u \notin done /\ Occurs
    /\ done' = done \cup {u}
    /\ \/ UNCHANGED coords
       \/ u \in Carriers /\ coords' = [coords EXCEPT ![u] = "exif"]
    /\ UNCHANGED <<checked, place, jobVars, sweepVars, cache, ghosts>>

\* A photo is staged for removal, or fails.
Leave(u) ==
    /\ u \in done /\ Occurs
    /\ done' = done \ {u} /\ disturbed' = (disturbed \/ u \in Waiting)
    /\ UNCHANGED <<coords, checked, place, jobVars, sweepVars, cache, due>>

Kill(j) ==
    /\ at[j] # "rest" /\ Occurs
    /\ SetAt(j, "rest") /\ Returns(j)
    /\ rows' = [rows EXCEPT ![j] = {}] /\ read' = [read EXCEPT ![j] = Nowhere]
    /\ UNCHANGED <<photoVars, work, cache>>

----------------------------------------------------------------------------
\* What a job does by itself.
Work(j) ==
    \/ j = "sweep" /\ (BeginSweep \/ ReadPage \/ StopAtLimit \/ Inspect \/ EndPage)
    \/ j = "import" /\ (OpenCache \/ CacheWritten \/ ApplyChunk \/ Applied)
    \/ NameChunk(j) \/ Named(j)

PlacesNext ==
    \/ \E j \in Jobs : Work(j) \/ Geocode(j) \/ GeocodeFails(j) \/ Kill(j)
    \/ Fetch \/ FetchFails \/ BeginImport
    \/ \E u \in Shots : Join(u) \/ Leave(u)

----------------------------------------------------------------------------
\* A sweep that has come to its end has tried every photo that waited when it began,
\* though the pages shrink under it as it goes, unless its limit stopped it or somebody
\* else took photos out of those that wait (indexer.py:1497, the offset of the next page).
SweepCovers == at["sweep"] = "naming" /\ ~disturbed => Limited \/ due = {}

=============================================================================
