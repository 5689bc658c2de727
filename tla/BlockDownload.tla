--------------------------- MODULE BlockDownload ---------------------------
(* The download of one revision to a stream, as the bridge patches it into *)
(* the SDK (fileDownloader.ts): the loop that lists the blocks and starts a *)
(* download for each, the window it keeps, the flush in order, the drain at *)
(* the end; and beside it the download of every block, with its one retry  *)
(* and its expired tokens.  What the API answers is chosen freely, faults   *)
(* up to a bound.  The contents of a block are its number.                  *)
EXTENDS Integers, Sequences, FiniteSets

CONSTANTS
    MaxIndex,           \* the largest index of a block
    Listings,           \* what iterateRevisionBlocks can yield: indices, each once
    MaxConcurrent,      \* MAX_CONCURRENT_DOWNLOAD_BLOCKS
    MaxFaults           \* bound: answers that are errors, sinks that break

Blocks == 1..MaxIndex

ASSUME DownloadAssumption ==
    /\ MaxIndex \in Nat /\ MaxConcurrent \in Nat \ {0} /\ MaxFaults \in Nat
    /\ Listings \subseteq Seq(Blocks)
    /\ \A s \in Listings : \A i, j \in 1..Len(s) : s[i] = s[j] => i = j

VARIABLES
    listing,            \* the blocks of the revision, in the order of the listing
    listed,             \* how many the loop has been given
    phase,              \* where internalDownloadToStream is
    block,              \* per block: its download; ongoingDownloads holds the Ongoing
    retries,            \* per block: retries
    arrived,            \* per block: its data has been counted (blockProgress)
    progress,           \* fileProgress, in blocks
    nextBlock,          \* nextBlockIndex
    written,            \* what the sink has taken
    aborted,            \* the signal
    faults

loopVars == <<listing, listed, phase, nextBlock, written>>
blockVars == <<block, retries, arrived, progress>>
downloadVars == <<loopVars, blockVars, aborted, faults>>

DownloadInit ==
    /\ listing \in Listings
    /\ listed = 0
    /\ phase = "keys"
    /\ block = [b \in Blocks |-> "unlisted"]
    /\ retries = [b \in Blocks |-> 0]
    /\ arrived = [b \in Blocks |-> 0]
    /\ progress = 0
    /\ nextBlock = 1
    /\ written = <<>>
    /\ aborted = FALSE
    /\ faults = 0

Fault == faults < MaxFaults /\ faults' = faults + 1

\* What goes wrong by itself is a fault; after an abort it is no surprise.
MayFail == IF aborted THEN UNCHANGED faults ELSE Fault

Ended == phase \in {"done", "failed"}

\* finally: onFinish
Settle(outcome) == phase' = outcome

-----------------------------------------------------------------------------
(* The loop.                                                               *)

GetKeys ==
    /\ phase = "keys"
    /\ phase' = "list"
    /\ UNCHANGED <<listing, listed, nextBlock, written, blockVars, aborted, faults>>

\* getRevisionKeys rejects before the try: no onFinish.
KeysFail ==
    /\ phase = "keys"
    /\ MayFail
    /\ phase' = "failed"
    /\ UNCHANGED <<listing, listed, nextBlock, written, blockVars, aborted>>

Undecrypted == {b \in Blocks : block[b] \in {"ask", "fetch", "askToken", "token", "failed"}}
Ongoing == Undecrypted \cup {b \in Blocks : block[b] = "decrypted"}

IsNextBlockDownloaded == nextBlock \in Blocks /\ block[nextBlock] = "decrypted"

\* The next block of the listing; its download begins.
ListBlock ==
    /\ phase = "list"
    /\ listed < Len(listing)
    /\ listed' = listed + 1
    /\ block' = [block EXCEPT ![listing[listed']] = "ask"]
    /\ phase' = "capacity"
    /\ UNCHANGED <<listing, nextBlock, written, retries, arrived, progress, aborted, faults>>

ListingEnds ==
    /\ phase = "list"
    /\ listed = Len(listing)
    /\ phase' = "drain"
    /\ UNCHANGED <<listing, listed, nextBlock, written, blockVars, aborted, faults>>

ListingFails ==
    /\ phase = "list"
    /\ MayFail
    /\ Settle("failed")
    /\ UNCHANGED <<listing, listed, nextBlock, written, blockVars, aborted>>

WindowFull == Cardinality(Ongoing) >= MaxConcurrent

\* waitForDownloadCapacity ends: room, the next block at hand, or nothing to wait for.
Room ==
    /\ phase = "capacity"
    /\ \/ ~WindowFull
       \/ IsNextBlockDownloaded
       \/ Undecrypted = {}
    /\ phase' = "flush"
    /\ UNCHANGED <<listing, listed, nextBlock, written, blockVars, aborted, faults>>

SomeFailed == \E b \in Blocks : block[b] = "failed"

\* Mutant: the loop waits on when a download has failed.
RoomFailsNever == FALSE

\* The race over the downloads that go on rejects with one of them.
RoomFails ==
    /\ phase = "capacity"
    /\ WindowFull
    /\ ~IsNextBlockDownloaded
    /\ SomeFailed
    /\ Settle("failed")
    /\ UNCHANGED <<listing, listed, nextBlock, written, blockVars, aborted, faults>>

\* Mutant: whatever is decrypted is written.
FlushAny ==
    /\ phase \in {"flush", "rest"}
    /\ \E b \in Blocks :
        /\ block[b] = "decrypted"
        /\ written' = Append(written, b)
        /\ block' = [block EXCEPT ![b] = "flushed"]
    /\ nextBlock' = nextBlock + 1
    /\ UNCHANGED <<listing, listed, phase, retries, arrived, progress, aborted, faults>>

\* flushCompletedBlocks: the next block in order, as long as it is there.
FlushBlock ==
    /\ phase \in {"flush", "rest"}
    /\ IsNextBlockDownloaded
    /\ written' = Append(written, nextBlock)
    /\ block' = [block EXCEPT ![nextBlock] = "flushed"]
    /\ nextBlock' = nextBlock + 1
    /\ UNCHANGED <<listing, listed, phase, retries, arrived, progress, aborted, faults>>

\* The write rejects; the stream has failed with it, so the second try rejects too.
WriteFails ==
    /\ phase \in {"flush", "rest"}
    /\ IsNextBlockDownloaded
    /\ MayFail
    /\ Settle("failed")
    /\ UNCHANGED <<listing, listed, nextBlock, written, blockVars, aborted>>

Flushed ==
    /\ phase = "flush"
    /\ ~IsNextBlockDownloaded
    /\ phase' = "list"
    /\ UNCHANGED <<listing, listed, nextBlock, written, blockVars, aborted, faults>>

\* Promise.all over what goes on.
DrainDone ==
    /\ phase = "drain"
    /\ Undecrypted = {}
    /\ phase' = "rest"
    /\ UNCHANGED <<listing, listed, nextBlock, written, blockVars, aborted, faults>>

DrainFails ==
    /\ phase = "drain"
    /\ SomeFailed
    /\ Settle("failed")
    /\ UNCHANGED <<listing, listed, nextBlock, written, blockVars, aborted, faults>>

\* Everything is flushed: on to the manifest.
RestFlushed ==
    /\ phase = "rest"
    /\ ~IsNextBlockDownloaded
    /\ Ongoing = {}
    /\ phase' = "verify"
    /\ UNCHANGED <<listing, listed, nextBlock, written, blockVars, aborted, faults>>

\* "Some blocks were not downloaded"
RestLeft ==
    /\ phase = "rest"
    /\ ~IsNextBlockDownloaded
    /\ Ongoing # {}
    /\ Settle("failed")
    /\ UNCHANGED <<listing, listed, nextBlock, written, blockVars, aborted, faults>>

Verified ==
    /\ phase = "verify"
    /\ Settle("done")
    /\ UNCHANGED <<listing, listed, nextBlock, written, blockVars, aborted, faults>>

VerifyFails ==
    /\ phase = "verify"
    /\ MayFail
    /\ Settle("failed")
    /\ UNCHANGED <<listing, listed, nextBlock, written, blockVars, aborted>>

Loop ==
    \/ GetKeys \/ KeysFail
    \/ ListBlock \/ ListingEnds \/ ListingFails
    \/ Room \/ RoomFails
    \/ FlushBlock \/ WriteFails \/ Flushed
    \/ DrainDone \/ DrainFails \/ RestFlushed \/ RestLeft
    \/ Verified \/ VerifyFails

-----------------------------------------------------------------------------
(* The download of a block.                                                *)

Goto(b, state) == block' = [block EXCEPT ![b] = state]

\* The request leaves the bridge.
Send(b) ==
    /\ block[b] \in {"ask", "askToken"}
    /\ Goto(b, IF block[b] = "ask" THEN "fetch" ELSE "token")
    /\ UNCHANGED <<loopVars, retries, arrived, progress, aborted, faults>>

\* The data of the block, reported as they come.
Receive(b) ==
    /\ block[b] = "fetch"
    /\ arrived[b] = 0
    /\ arrived' = [arrived EXCEPT ![b] = 1]
    /\ progress' = progress + 1
    /\ UNCHANGED <<loopVars, block, retries, aborted, faults>>

\* The hash is right and the block decrypted.
Decrypt(b) ==
    /\ block[b] = "fetch"
    /\ arrived[b] = 1
    /\ Goto(b, "decrypted")
    /\ UNCHANGED <<loopVars, retries, arrived, progress, aborted, faults>>

\* Mutant: the attempt is forgotten, not what it reported.
TakeBackNothing(b) ==
    /\ arrived' = [arrived EXCEPT ![b] = 0]
    /\ UNCHANGED progress

\* What was reported of the attempt is taken back.
TakeBack(b) ==
    /\ progress' = progress - arrived[b]
    /\ arrived' = [arrived EXCEPT ![b] = 0]

\* The catch of downloadBlockData: one retry.
Retry(b) ==
    /\ TakeBack(b)
    /\ IF retries[b] = 0
         THEN Goto(b, "ask") /\ retries' = [retries EXCEPT ![b] = 1]
         ELSE Goto(b, "failed") /\ UNCHANGED retries

\* The request or the decryption fails; after an abort nothing is tried again.
FetchFails(b) ==
    /\ block[b] = "fetch"
    /\ MayFail
    /\ IF aborted
         THEN Goto(b, "failed") /\ UNCHANGED <<retries, arrived, progress>>
         ELSE Retry(b)
    /\ UNCHANGED <<loopVars, aborted>>

\* The bucket's queue is full: the call never goes out.
Refused(b) ==
    /\ block[b] \in {"ask", "askToken"}
    /\ Fault
    /\ IF block[b] = "ask" /\ ~aborted
         THEN Retry(b)
         ELSE Goto(b, "failed") /\ UNCHANGED <<retries, arrived, progress>>
    /\ UNCHANGED <<loopVars, aborted>>

\* 404: the token of the block has expired, a new one is asked for, as often as it takes.
FetchGone(b) ==
    /\ block[b] = "fetch"
    /\ ~aborted
    /\ Fault
    /\ TakeBack(b)
    /\ Goto(b, "askToken")
    /\ UNCHANGED <<loopVars, retries, aborted>>

TokenRenewed(b) ==
    /\ block[b] = "token"
    /\ Goto(b, "ask")
    /\ UNCHANGED <<loopVars, retries, arrived, progress, aborted, faults>>

TokenFails(b) ==
    /\ block[b] = "token"
    /\ MayFail
    /\ Goto(b, "failed")
    /\ UNCHANGED <<loopVars, retries, arrived, progress, aborted>>

\* 429 or 503: the SDK asks again, the block does not see it.
Throttled(b) ==
    /\ block[b] \in {"fetch", "token"}
    /\ arrived[b] = 0
    /\ Fault
    /\ Goto(b, IF block[b] = "fetch" THEN "ask" ELSE "askToken")
    /\ UNCHANGED <<loopVars, retries, arrived, progress, aborted>>

Answer(b) ==
    \/ Receive(b) \/ Decrypt(b) \/ FetchFails(b) \/ FetchGone(b)
    \/ TokenRenewed(b) \/ TokenFails(b)

\* The deadline of the request, or the client is gone.
Abort ==
    /\ ~aborted
    /\ aborted' = TRUE
    /\ UNCHANGED <<loopVars, blockVars, faults>>

DownloadNext ==
    \/ Loop
    \/ \E b \in Blocks : Send(b) \/ Answer(b) \/ Refused(b) \/ Throttled(b)
    \/ Abort

DownloadSpec == DownloadInit /\ [][DownloadNext]_downloadVars

-----------------------------------------------------------------------------
(* Properties.                                                             *)

DownloadTypeOK ==
    /\ listing \in Listings /\ listed \in 0..Len(listing)
    /\ phase \in {"keys", "list", "capacity", "flush", "drain", "rest", "verify", "done", "failed"}
    /\ block \in [Blocks -> {"unlisted", "ask", "fetch", "askToken", "token", "decrypted",
                             "failed", "flushed"}]
    /\ retries \in [Blocks -> 0..1] /\ arrived \in [Blocks -> 0..1] /\ progress \in Int
    /\ nextBlock \in 1..MaxIndex + 1
    /\ written \in Seq(Blocks)
    /\ aborted \in BOOLEAN /\ faults \in 0..MaxFaults

InOrder == \A i \in 1..Len(listing) : listing[i] = i

\* Memory holds MAX_CONCURRENT_DOWNLOAD_BLOCKS blocks of a revision at most,
\* downloads that have failed included, as long as the listing is in order: one
\* that is not can fill the window without the next block in it.
WindowBounded == InOrder => Cardinality(Ongoing) <= MaxConcurrent

\* The reported progress of a download that succeeds is its size, whatever was
\* tried again after some of its data had been reported.
ProgressHonest == phase = "done" => progress = Len(listing)

\* The detailed download is an OrderedCopy.
Copied == INSTANCE OrderedCopy WITH
    total <- Len(listing),
    out <- written,
    result <- CASE phase = "done" -> "complete" [] phase = "failed" -> "failed" [] OTHER -> "open"

\* The sink gets the blocks 1, 2, 3 ... once each and in order, success means all of
\* them, and nothing is written after the end.
CopiesInOrder == Copied!Spec

\* Every download ends: a full window never waits for a block that has failed or
\* that no download will bring.
Ends == <>Ended

-----------------------------------------------------------------------------
(* The inductive invariant behind CopiesInOrder and WindowBounded.         *)

States == {"unlisted", "ask", "fetch", "askToken", "token", "decrypted", "failed", "flushed"}

Shapes ==
    /\ listing \in Listings /\ listed \in 0..Len(listing)
    /\ block \in [Blocks -> States]
    /\ nextBlock \in Nat \ {0}
    /\ written \in Seq(Int) /\ Len(written) = nextBlock - 1

Listed == {b \in Blocks : block[b] # "unlisted"}

\* The blocks that are under way or written are those the loop was given; those
\* below nextBlockIndex are written, the others are not.
ListedBlocks ==
    /\ Listed = {listing[i] : i \in 1..listed}
    /\ Cardinality(Listed) = listed
    /\ \A b \in Blocks : block[b] = "flushed" <=> b < nextBlock
    /\ \A b \in 1..nextBlock - 1 : b \in Blocks

\* Where the loop has come to.
LoopPhases ==
    /\ phase \in {"drain", "rest", "verify"} => listed = Len(listing)
    /\ phase = "verify" => Ongoing = {}

\* There is room whenever the loop is about to list the next block.
WindowRoom ==
    /\ InOrder /\ phase \in {"keys", "list"} => Cardinality(Ongoing) < MaxConcurrent
    /\ InOrder /\ phase = "flush" => Cardinality(Ongoing) < MaxConcurrent \/ IsNextBlockDownloaded

DownloadInv == Shapes /\ ListedBlocks /\ LoopPhases /\ WindowRoom /\ WindowBounded

-----------------------------------------------------------------------------
(* The inductive invariant behind ProgressHonest.                          *)

Arrived == {b \in Blocks : arrived[b] = 1}

\* The reported progress is the number of blocks whose data has been counted and
\* not taken back; those that are decrypted or written are among them, those that
\* ask, or have not begun, are not.
Reported ==
    /\ arrived \in [Blocks -> 0..1] /\ retries \in [Blocks -> 0..1]
    /\ progress = Cardinality(Arrived)
    /\ \A b \in Blocks : /\ block[b] \in {"decrypted", "flushed"} => arrived[b] = 1
                         /\ block[b] \in {"unlisted", "ask", "askToken", "token"} => arrived[b] = 0

\* A download that has succeeded has listed and written every block.
AllListed == phase \in {"verify", "done"} => listed = Len(listing) /\ Ongoing = {}

Phases == {"keys", "list", "capacity", "flush", "drain", "rest", "verify", "done", "failed"}

ProgressInv ==
    /\ Reported /\ AllListed
    /\ phase \in Phases /\ written \in Seq(Blocks)
    /\ aborted \in BOOLEAN /\ faults \in 0..MaxFaults

=============================================================================
