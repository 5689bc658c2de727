------------------------ MODULE PacedDownloadProofs ------------------------
(***************************************************************************)
(* The download copies its blocks in order and within its window, for any  *)
(* number of blocks, any window and any bound on the faults; the bucket    *)
(* keeps its rate and its timer, for any rate, burst and number of calls.  *)
(***************************************************************************)
EXTENDS PacedDownload, FiniteSetTheorems, TLAPS

USE DownloadAssumption

-----------------------------------------------------------------------------
(* Sets of blocks.                                                         *)

UnderWay == {"ask", "fetch", "askToken", "token", "decrypted", "failed"}

\* Any set of blocks can be counted.
LEMMA BlocksFinite ==
    ASSUME NEW S \in SUBSET Blocks
    PROVE  IsFiniteSet(S) /\ Cardinality(S) \in Nat
  <1>1. IsFiniteSet(Blocks)
    BY FS_Interval DEF Blocks
  <1> QED BY <1>1, FS_Subset, FS_CardinalityType

\* The blocks under way, by their state.
LEMMA OngoingIs ==
    ASSUME Shapes
    PROVE  Ongoing = {b \in Blocks : block[b] \in UnderWay}
  BY DEF Ongoing, Undecrypted, UnderWay

\* A block that joins a set of blocks, and one that leaves it.
LEMMA OneMore ==
    ASSUME NEW S \in SUBSET Blocks, NEW b \in Blocks, b \notin S
    PROVE  Cardinality(S \cup {b}) = Cardinality(S) + 1
  BY BlocksFinite, FS_AddElement

\* Taking one block out makes a set of blocks smaller by one.
LEMMA OneLess ==
    ASSUME NEW S \in SUBSET Blocks, NEW b \in S
    PROVE  Cardinality(S \ {b}) = Cardinality(S) - 1
  BY BlocksFinite, FS_RemoveElement

\* The written blocks are as many as nextBlockIndex says.
LEMMA WrittenCount ==
    ASSUME NEW n \in Nat \ {0}
    PROVE  Cardinality(1..n - 1) = n - 1
  <1>1. 1 \in Int /\ n - 1 \in Int /\ ~(1 > n - 1 /\ n # 1)
    OBVIOUS
  <1>2. CASE n = 1
    <2>1. 1..n - 1 = {}
      BY <1>2
    <2> QED BY <1>2, <2>1, FS_EmptySet
  <1>3. CASE n # 1
    BY <1>3, FS_Interval
  <1> QED BY <1>2, <1>3

-----------------------------------------------------------------------------
(* Every step of the download preserves the invariant.                     *)

LEMMA DownloadInit_Inv ==
    ASSUME DownloadInit
    PROVE  DownloadInv
  <1>1. Shapes
    <2>1. listing \in Seq(Blocks) /\ Len(listing) \in Nat
      BY DEF DownloadInit
    <2> QED BY <2>1 DEF DownloadInit, Shapes, States
  <1>2. Listed = {} /\ Ongoing = {}
    BY DEF DownloadInit, Listed, Ongoing, Undecrypted
  <1>3. Cardinality({}) = 0
    BY FS_EmptySet
  <1>4. ListedBlocks
    <2>1. {listing[i] : i \in 1..listed} = {}
      BY DEF DownloadInit
    <2>2. \A b \in Blocks : block[b] # "flushed" /\ ~(b < nextBlock)
      BY DEF DownloadInit, Blocks
    <2>3. 1..nextBlock - 1 = {}
      BY DEF DownloadInit
    <2> QED BY <1>2, <1>3, <2>1, <2>2, <2>3 DEF DownloadInit, ListedBlocks
  <1>5. LoopPhases /\ WindowRoom /\ WindowBounded
    BY <1>2, <1>3 DEF DownloadInit, LoopPhases, WindowRoom, WindowBounded
  <1> QED BY <1>1, <1>4, <1>5 DEF DownloadInv

\* The invariant looks at these variables only.
LEMMA LoopStep ==
    ASSUME DownloadInv, UNCHANGED <<listing, listed, block, nextBlock, written>>,
           LoopPhases', WindowRoom'
    PROVE  DownloadInv'
  <1>1. Shapes' /\ ListedBlocks'
    BY DEF DownloadInv, Shapes, ListedBlocks, Listed
  <1>2. WindowBounded'
    BY DEF DownloadInv, WindowBounded, InOrder, Ongoing, Undecrypted
  <1> QED BY <1>1, <1>2 DEF DownloadInv

\* The loop goes on to a phase that promises nothing.
LEMMA PlainPhase ==
    ASSUME DownloadInv, UNCHANGED <<listing, listed, block, nextBlock, written>>,
           phase' \in {"capacity", "done", "failed"}
    PROVE  DownloadInv'
  <1>1. LoopPhases' /\ WindowRoom'
    BY DEF LoopPhases, WindowRoom
  <1> QED BY <1>1, LoopStep

\* A block that is under way stays under way.
LEMMA BlockStep ==
    ASSUME DownloadInv, UNCHANGED <<listing, listed, phase, nextBlock, written>>,
           NEW b \in Blocks, NEW s \in UnderWay,
           block[b] \in UnderWay \ {"decrypted"}, block' = [block EXCEPT ![b] = s]
    PROVE  DownloadInv'
  <1>1. Shapes'
    BY DEF DownloadInv, Shapes, States, UnderWay
  <1>2. /\ \A c \in Blocks : block'[c] = IF c = b THEN s ELSE block[c]
        /\ Ongoing' = Ongoing /\ Listed' = Listed
    <2>1. \A c \in Blocks : block'[c] = IF c = b THEN s ELSE block[c]
      BY DEF DownloadInv, Shapes
    <2>2. Listed' = Listed
      BY <2>1 DEF Listed, UnderWay
    <2>3. Ongoing = {c \in Blocks : block[c] \in UnderWay}
      BY OngoingIs DEF DownloadInv
    <2>4. Ongoing' = {c \in Blocks : block'[c] \in UnderWay}
      BY <1>1 DEF Ongoing, Undecrypted, UnderWay
    <2>5. Ongoing' = Ongoing
      BY <2>1, <2>3, <2>4
    <2> QED BY <2>1, <2>2, <2>5
  <1>3. ListedBlocks'
    BY <1>2 DEF DownloadInv, ListedBlocks, UnderWay
  <1>4. IsNextBlockDownloaded => IsNextBlockDownloaded'
    BY <1>2 DEF IsNextBlockDownloaded
  <1>5. LoopPhases' /\ WindowRoom' /\ WindowBounded'
    BY <1>2, <1>4 DEF DownloadInv, LoopPhases, WindowRoom, WindowBounded, InOrder
  <1> QED BY <1>1, <1>3, <1>5 DEF DownloadInv

LEMMA ListBlockInv ==
    ASSUME DownloadInv, ListBlock
    PROVE  DownloadInv'
  <1> DEFINE b == listing[listed + 1]
  <1>1. /\ listing \in Listings /\ listing \in Seq(Blocks) /\ Len(listing) \in Nat
        /\ listed \in Nat /\ listed + 1 \in 1..Len(listing) /\ listed' = listed + 1
        /\ listing' = listing /\ b \in Blocks
    <2>1. listing \in Listings /\ listed \in 0..Len(listing) /\ listed < Len(listing)
      BY DEF DownloadInv, Shapes, ListBlock
    <2>2. listing \in Seq(Blocks) /\ Len(listing) \in Nat
      BY <2>1
    <2> QED BY <2>1, <2>2 DEF ListBlock
  <1>2. b \notin {listing[i] : i \in 1..listed}
    BY <1>1
  <1>3. b \notin Listed /\ block[b] = "unlisted"
    BY <1>1, <1>2 DEF DownloadInv, ListedBlocks, Listed
  <1>4. block' = [block EXCEPT ![b] = "ask"]
    BY <1>1 DEF ListBlock
  <1>5. Shapes'
    BY <1>1, <1>4 DEF DownloadInv, Shapes, States, ListBlock
  <1>6. \A c \in Blocks : block'[c] = IF c = b THEN "ask" ELSE block[c]
    BY <1>4 DEF DownloadInv, Shapes
  <1> HIDE DEF b
  <1>7. Listed' = Listed \cup {b}
    BY <1>1, <1>6 DEF Listed
  <1>8. ListedBlocks'
    <2>1. {listing[i] : i \in 1..(listed + 1)} = {listing[i] : i \in 1..listed} \cup {b}
      BY <1>1 DEF b
    <2>2. Cardinality(Listed') = listed + 1
      <3>1. Listed \in SUBSET Blocks
        BY DEF Listed
      <3> QED BY <1>1, <1>3, <1>7, <3>1, OneMore DEF DownloadInv, ListedBlocks
    <2>3. \A c \in Blocks : block'[c] = "flushed" <=> c < nextBlock
      BY <1>3, <1>6 DEF DownloadInv, ListedBlocks
    <2>4. nextBlock' = nextBlock
      BY DEF ListBlock
    <2>5. Listed' = {listing'[i] : i \in 1..listed'}
      BY <1>1, <1>7, <2>1 DEF DownloadInv, ListedBlocks
    <2>6. Cardinality(Listed') = listed'
      BY <1>1, <2>2
    <2>7. \A c \in 1..nextBlock' - 1 : c \in Blocks
      BY <2>4 DEF DownloadInv, ListedBlocks
    <2> QED BY <2>3, <2>4, <2>5, <2>6, <2>7 DEF ListedBlocks
  <1>9. LoopPhases' /\ WindowRoom'
    BY DEF ListBlock, LoopPhases, WindowRoom
  <1>10. WindowBounded'
    <2>1. Ongoing' = Ongoing \cup {b}
      <3>1. Ongoing = {c \in Blocks : block[c] \in UnderWay}
        BY OngoingIs DEF DownloadInv
      <3>2. Ongoing' = {c \in Blocks : block'[c] \in UnderWay}
        BY <1>5 DEF Ongoing, Undecrypted, UnderWay
      <3> QED BY <1>1, <1>6, <3>1, <3>2 DEF UnderWay
    <2>2. b \notin Ongoing
      BY <1>3 DEF Ongoing, Undecrypted
    <2>3. Cardinality(Ongoing') = Cardinality(Ongoing) + 1 /\ Cardinality(Ongoing) \in Nat
      <3>1. Ongoing \in SUBSET Blocks
        BY DEF Ongoing, Undecrypted
      <3> QED BY <1>1, <2>1, <2>2, <3>1, OneMore, BlocksFinite
    <2>4. InOrder => Cardinality(Ongoing) < MaxConcurrent
      BY DEF ListBlock, DownloadInv, WindowRoom
    <2> QED BY <1>1, <2>3, <2>4 DEF WindowBounded, InOrder
  <1> QED BY <1>5, <1>8, <1>9, <1>10 DEF DownloadInv

LEMMA FlushBlockInv ==
    ASSUME DownloadInv, FlushBlock
    PROVE  DownloadInv'
  <1> DEFINE b == nextBlock
  <1>1. /\ b \in Blocks /\ block[b] = "decrypted" /\ b \in Nat \ {0}
        /\ nextBlock' = b + 1 /\ block' = [block EXCEPT ![b] = "flushed"]
        /\ UNCHANGED <<listing, listed, phase>> /\ phase \in {"flush", "rest"}
    BY DEF FlushBlock, IsNextBlockDownloaded, Blocks
  <1>2. Shapes'
    <2>1. written' \in Seq(Int) /\ Len(written') = Len(written) + 1
      BY DEF FlushBlock, DownloadInv, Shapes
    <2>2. block' \in [Blocks -> States]
      BY <1>1 DEF DownloadInv, Shapes, States
    <2> QED BY <1>1, <2>1, <2>2 DEF DownloadInv, Shapes
  <1>3. \A c \in Blocks : block'[c] = IF c = b THEN "flushed" ELSE block[c]
    BY <1>1 DEF DownloadInv, Shapes
  <1>4. ListedBlocks'
    <2>1. Listed' = Listed
      BY <1>1, <1>3 DEF Listed
    <2>2. \A c \in Blocks : block'[c] = "flushed" <=> c < b + 1
      <3>1. ASSUME NEW c \in Blocks
            PROVE  block'[c] = "flushed" <=> c < b + 1
        <4>1. c \in Nat /\ (block[c] = "flushed" <=> c < b)
          BY DEF DownloadInv, ListedBlocks, Blocks
        <4> QED BY <1>1, <1>3, <4>1
      <3> QED BY <3>1
    <2>3. \A c \in 1..(b + 1) - 1 : c \in Blocks
      BY <1>1 DEF DownloadInv, ListedBlocks
    <2> QED BY <1>1, <2>1, <2>2, <2>3 DEF DownloadInv, ListedBlocks
  <1>5. Ongoing' = Ongoing \ {b} /\ b \in Ongoing
    <2>1. Ongoing = {c \in Blocks : block[c] \in UnderWay}
      BY OngoingIs DEF DownloadInv
    <2>2. Ongoing' = {c \in Blocks : block'[c] \in UnderWay}
      BY <1>2 DEF Ongoing, Undecrypted, UnderWay
    <2> QED BY <1>1, <1>3, <2>1, <2>2 DEF UnderWay
  <1>6. Cardinality(Ongoing') = Cardinality(Ongoing) - 1 /\ Cardinality(Ongoing) \in Nat
    <2>1. Ongoing \in SUBSET Blocks
      BY DEF Ongoing, Undecrypted
    <2> QED BY <1>5, <2>1, OneLess, BlocksFinite
  <1>7. LoopPhases' /\ WindowRoom' /\ WindowBounded'
    BY <1>1, <1>6 DEF DownloadInv, LoopPhases, WindowRoom, WindowBounded, InOrder
  <1> QED BY <1>2, <1>4, <1>7 DEF DownloadInv

\* A full window of a listing in order, all of it decrypted, holds the next block.
LEMMA NextAtHand ==
    ASSUME DownloadInv, InOrder, WindowFull, Undecrypted = {}
    PROVE  IsNextBlockDownloaded
  <1>1. Ongoing # {}
    BY FS_EmptySet DEF WindowFull
  <1>2. PICK c \in Blocks : block[c] = "decrypted"
    BY <1>1 DEF Ongoing
  <1>3. c \in Nat /\ nextBlock \in Nat \ {0} /\ nextBlock <= c
    BY <1>2 DEF DownloadInv, Shapes, ListedBlocks, Blocks
  <1>4. c \in Listed
    BY <1>2 DEF Listed
  <1>5. PICK i \in 1..listed : c = listing[i]
    BY <1>4 DEF DownloadInv, ListedBlocks
  <1>6. listing \in Seq(Blocks) /\ Len(listing) \in Nat /\ listed \in 0..Len(listing)
    BY DEF DownloadInv, Shapes
  <1>7. i = c
    BY <1>5, <1>6 DEF InOrder
  <1>8. nextBlock \in 1..listed /\ listing[nextBlock] = nextBlock /\ nextBlock \in Blocks
    <2>1. nextBlock \in 1..listed /\ nextBlock \in 1..Len(listing)
      BY <1>3, <1>5, <1>6, <1>7
    <2>2. listing[nextBlock] = nextBlock
      BY <2>1 DEF InOrder
    <2> QED BY <1>6, <2>1, <2>2
  <1>9. block[nextBlock] # "unlisted" /\ block[nextBlock] # "flushed"
    <2>1. nextBlock \in {listing[j] : j \in 1..listed}
      BY <1>8
    <2>2. nextBlock \in Listed
      BY <2>1 DEF DownloadInv, ListedBlocks
    <2>3. ~(nextBlock < nextBlock)
      BY <1>3
    <2> QED BY <1>8, <2>2, <2>3 DEF Listed, DownloadInv, ListedBlocks
  <1>10. block[nextBlock] \in States
    BY <1>8 DEF DownloadInv, Shapes
  <1> QED BY <1>8, <1>9, <1>10 DEF Undecrypted, IsNextBlockDownloaded, States

LEMMA LoopInv ==
    ASSUME DownloadInv, Loop
    PROVE  DownloadInv'
  <1> USE DEF loopVars, blockVars
  <1>1. CASE GetKeys
    <2>1. InOrder' = InOrder /\ Ongoing' = Ongoing
      BY <1>1 DEF GetKeys, InOrder, Ongoing, Undecrypted
    <2>2. LoopPhases' /\ WindowRoom'
      BY <1>1, <2>1 DEF GetKeys, DownloadInv, LoopPhases, WindowRoom
    <2> QED BY <1>1, <2>2, LoopStep DEF GetKeys
  <1>2. CASE ListBlock
    BY <1>2, ListBlockInv
  <1>3. CASE ListingEnds
    <2>1. LoopPhases' /\ WindowRoom'
      BY <1>3 DEF ListingEnds, LoopPhases, WindowRoom
    <2> QED BY <1>3, <2>1, LoopStep DEF ListingEnds
  <1>4. CASE Room
    <2>1. InOrder => Cardinality(Ongoing) < MaxConcurrent \/ IsNextBlockDownloaded
      <3>1. Cardinality(Ongoing) \in Nat
        <4>1. Ongoing \in SUBSET Blocks
          BY DEF Ongoing, Undecrypted
        <4> QED BY <4>1, BlocksFinite
      <3> QED BY <1>4, <3>1, NextAtHand DEF Room, WindowFull
    <2>2. InOrder' = InOrder /\ Ongoing' = Ongoing /\ IsNextBlockDownloaded' = IsNextBlockDownloaded
      BY <1>4 DEF Room, InOrder, Ongoing, Undecrypted, IsNextBlockDownloaded
    <2>3. LoopPhases' /\ WindowRoom'
      BY <1>4, <2>1, <2>2 DEF Room, LoopPhases, WindowRoom
    <2> QED BY <1>4, <2>3, LoopStep DEF Room
  <1>5. CASE FlushBlock
    BY <1>5, FlushBlockInv
  <1>6. CASE Flushed
    <2>1. InOrder' = InOrder /\ Ongoing' = Ongoing
      BY <1>6 DEF Flushed, InOrder, Ongoing, Undecrypted
    <2>2. LoopPhases' /\ WindowRoom'
      BY <1>6, <2>1 DEF Flushed, DownloadInv, LoopPhases, WindowRoom
    <2> QED BY <1>6, <2>2, LoopStep DEF Flushed
  <1>7. CASE DrainDone
    <2>1. LoopPhases' /\ WindowRoom'
      BY <1>7 DEF DrainDone, DownloadInv, LoopPhases, WindowRoom
    <2> QED BY <1>7, <2>1, LoopStep DEF DrainDone
  <1>8. CASE RestFlushed
    <2>1. Ongoing' = {} /\ listed' = Len(listing')
      BY <1>8 DEF RestFlushed, Ongoing, Undecrypted, DownloadInv, LoopPhases
    <2>2. LoopPhases' /\ WindowRoom'
      BY <1>8, <2>1 DEF RestFlushed, LoopPhases, WindowRoom
    <2> QED BY <1>8, <2>2, LoopStep DEF RestFlushed
  <1>9. CASE Verified
    BY <1>9, PlainPhase DEF Verified, Settle
  <1>10. CASE \/ KeysFail \/ ListingFails \/ RoomFails \/ WriteFails \/ DrainFails
              \/ RestLeft \/ VerifyFails
    BY <1>10, PlainPhase
    DEF KeysFail, ListingFails, RoomFails, WriteFails, DrainFails, RestLeft, VerifyFails, Settle
  <1> QED BY <1>1, <1>2, <1>3, <1>4, <1>5, <1>6, <1>7, <1>8, <1>9, <1>10 DEF Loop

LEMMA BlockInv ==
    ASSUME DownloadInv, NEW b \in Blocks,
           Send(b) \/ Answer(b) \/ Refused(b) \/ Throttled(b)
    PROVE  DownloadInv'
  <1> USE DEF loopVars
  <1>1. ASSUME block' = block, UNCHANGED <<listing, listed, phase, nextBlock, written>>
        PROVE  DownloadInv'
    <2>1. LoopPhases' /\ WindowRoom'
      BY <1>1 DEF DownloadInv, LoopPhases, WindowRoom, InOrder, Ongoing, Undecrypted,
                  IsNextBlockDownloaded
    <2> QED BY <1>1, <2>1, LoopStep
  <1>2. ASSUME NEW s \in UnderWay, Goto(b, s), block[b] \in UnderWay \ {"decrypted"},
               UNCHANGED <<listing, listed, phase, nextBlock, written>>
        PROVE  DownloadInv'
    BY <1>2, BlockStep DEF Goto
  <1>3. CASE Send(b)
    BY <1>2, <1>3 DEF Send, UnderWay
  <1>4. CASE Receive(b)
    BY <1>1, <1>4 DEF Receive
  <1>5. CASE Decrypt(b)
    BY <1>2, <1>5 DEF Decrypt, UnderWay
  <1>6. CASE FetchFails(b)
    BY <1>2, <1>6 DEF FetchFails, Retry, UnderWay
  <1>7. CASE FetchGone(b)
    BY <1>2, <1>7 DEF FetchGone, UnderWay
  <1>8. CASE TokenRenewed(b) \/ TokenFails(b)
    BY <1>2, <1>8 DEF TokenRenewed, TokenFails, UnderWay
  <1>9. CASE Refused(b)
    BY <1>2, <1>9 DEF Refused, Retry, UnderWay
  <1>10. CASE Throttled(b)
    BY <1>2, <1>10 DEF Throttled, UnderWay
  <1> QED BY <1>3, <1>4, <1>5, <1>6, <1>7, <1>8, <1>9, <1>10 DEF Answer

LEMMA DownloadNext_Inv ==
    ASSUME DownloadInv, [DownloadNext]_downloadVars
    PROVE  DownloadInv'
  <1>1. CASE Loop
    BY <1>1, LoopInv
  <1>2. ASSUME NEW b \in Blocks, Send(b) \/ Answer(b) \/ Refused(b) \/ Throttled(b)
        PROVE  DownloadInv'
    BY <1>2, BlockInv
  <1>3. CASE Abort \/ UNCHANGED downloadVars
    <2>1. UNCHANGED <<listing, listed, phase, block, nextBlock, written>>
      BY <1>3 DEF Abort, downloadVars, loopVars, blockVars
    <2>2. LoopPhases' /\ WindowRoom'
      BY <2>1 DEF DownloadInv, LoopPhases, WindowRoom, InOrder, Ongoing, Undecrypted,
                  IsNextBlockDownloaded
    <2> QED BY <2>1, <2>2, LoopStep
  <1> QED BY <1>1, <1>2, <1>3 DEF DownloadNext

-----------------------------------------------------------------------------
(* The reported progress is what has been counted and not taken back.      *)

\* The blocks that have arrived can be counted.
LEMMA ArrivedFinite == IsFiniteSet(Arrived) /\ Cardinality(Arrived) \in Nat
  BY BlocksFinite DEF Arrived

\* Nothing has been reported when a download begins.
LEMMA DownloadInit_Progress ==
    ASSUME DownloadInit
    PROVE  ProgressInv
  <1>1. Arrived = {}
    BY DEF DownloadInit, Arrived
  <1>2. Reported
    BY <1>1, FS_EmptySet DEF DownloadInit, Reported
  <1>3. written \in Seq(Blocks) /\ aborted \in BOOLEAN /\ faults \in 0..MaxFaults
    <2>1. <<>> \in Seq(Blocks) /\ 0 \in 0..MaxFaults
      OBVIOUS
    <2> QED BY <2>1 DEF DownloadInit
  <1>4. phase = "keys"
    BY DEF DownloadInit
  <1> QED BY <1>2, <1>3, <1>4 DEF ProgressInv, AllListed, Phases

\* The loop goes on and leaves the blocks alone.
LEMMA LoopProgress ==
    ASSUME ProgressInv, UNCHANGED <<listing, listed, blockVars>>,
           phase' \in Phases, phase' \in {"verify", "done"} => listed = Len(listing) /\ Ongoing = {},
           written' \in Seq(Blocks), aborted' \in BOOLEAN, faults' \in 0..MaxFaults
    PROVE  ProgressInv'
  <1> USE DEF blockVars
  <1>1. Reported'
    BY DEF ProgressInv, Reported, Arrived
  <1>2. AllListed'
    BY DEF AllListed, Ongoing, Undecrypted
  <1> QED BY <1>1, <1>2 DEF ProgressInv

\* A block under way that moves on, and with it what has been counted of it.
LEMMA BlockProgress ==
    ASSUME DownloadInv, ProgressInv, NEW b \in Blocks, NEW s \in UnderWay, NEW n \in 0..1,
           block[b] \in UnderWay \ {"decrypted"},
           block' = [block EXCEPT ![b] = s], arrived' = [arrived EXCEPT ![b] = n],
           progress' = progress - arrived[b] + n, retries' \in [Blocks -> 0..1],
           s = "decrypted" => n = 1, s \in {"ask", "askToken", "token"} => n = 0,
           UNCHANGED <<listing, listed, phase, written, aborted>>, faults' \in 0..MaxFaults
    PROVE  ProgressInv'
  <1>1. /\ \A c \in Blocks : block'[c] = IF c = b THEN s ELSE block[c]
        /\ \A c \in Blocks : arrived'[c] = IF c = b THEN n ELSE arrived[c]
        /\ arrived' \in [Blocks -> 0..1] /\ arrived[b] \in 0..1
    BY DEF DownloadInv, Shapes, ProgressInv, Reported
  <1>2. progress' = Cardinality(Arrived')
    <2>1. progress = Cardinality(Arrived) /\ progress \in Nat
      BY ArrivedFinite DEF ProgressInv, Reported
    <2>2. CASE arrived[b] = n
      <3>1. Arrived' = Arrived
        BY <1>1, <2>2 DEF Arrived
      <3> QED BY <2>1, <2>2, <3>1
    <2>3. CASE arrived[b] = 0 /\ n = 1
      <3>1. Arrived' = Arrived \cup {b} /\ b \notin Arrived /\ Arrived \in SUBSET Blocks
        BY <1>1, <2>3 DEF Arrived
      <3>2. Cardinality(Arrived') = Cardinality(Arrived) + 1
        BY <3>1, OneMore
      <3> QED BY <2>1, <2>3, <3>2
    <2>4. CASE arrived[b] = 1 /\ n = 0
      <3>1. Arrived' = Arrived \ {b} /\ b \in Arrived /\ Arrived \in SUBSET Blocks
        BY <1>1, <2>4 DEF Arrived
      <3>2. Cardinality(Arrived') = Cardinality(Arrived) - 1
        BY <3>1, OneLess
      <3> QED BY <2>1, <2>4, <3>2
    <2> QED BY <1>1, <2>2, <2>3, <2>4
  <1>3. Reported'
    BY <1>1, <1>2 DEF ProgressInv, Reported, UnderWay
  <1>4. phase \notin {"verify", "done"}
    <2>1. b \in Ongoing
      BY DEF Ongoing, Undecrypted, UnderWay
    <2> QED BY <2>1 DEF ProgressInv, AllListed
  <1> QED BY <1>1, <1>3, <1>4 DEF ProgressInv, AllListed

\* The loop over the blocks keeps the reported progress in step.
LEMMA LoopSteps_Progress ==
    ASSUME DownloadInv, ProgressInv, Loop
    PROVE  ProgressInv'
  <1> USE DEF loopVars, blockVars
  <1>0. /\ phase \in Phases /\ written \in Seq(Blocks) /\ aborted \in BOOLEAN
        /\ faults \in 0..MaxFaults
        /\ phase \in {"verify", "done"} => listed = Len(listing) /\ Ongoing = {}
    BY DEF ProgressInv, AllListed
  <1>1. MayFail => faults' \in 0..MaxFaults
    BY <1>0 DEF MayFail, Fault
  <1>2. CASE GetKeys \/ ListingEnds \/ Room \/ Flushed \/ DrainDone
    BY <1>0, <1>2, LoopProgress DEF GetKeys, ListingEnds, Room, Flushed, DrainDone, Phases
  <1>3. CASE KeysFail \/ ListingFails \/ WriteFails \/ VerifyFails
    BY <1>0, <1>1, <1>3, LoopProgress
    DEF KeysFail, ListingFails, WriteFails, VerifyFails, Settle, Phases
  <1>4. CASE RoomFails \/ DrainFails \/ RestLeft
    BY <1>0, <1>4, LoopProgress DEF RoomFails, DrainFails, RestLeft, Settle, Phases
  <1>5. CASE RestFlushed
    <2>1. listed = Len(listing) /\ Ongoing = {}
      BY <1>5 DEF RestFlushed, DownloadInv, LoopPhases
    <2> QED BY <1>0, <1>5, <2>1, LoopProgress DEF RestFlushed, Phases
  <1>6. CASE Verified
    BY <1>0, <1>6, LoopProgress DEF Verified, Settle, Phases
  <1>7. CASE ListBlock
    <2> DEFINE b == listing[listed + 1]
    <2>1. /\ listing \in Seq(Blocks) /\ Len(listing) \in Nat
          /\ listed \in Nat /\ listed + 1 \in 1..Len(listing)
      <3>1. listing \in Listings /\ listed \in 0..Len(listing) /\ listed < Len(listing)
        BY <1>7 DEF DownloadInv, Shapes, ListBlock
      <3>2. listing \in Seq(Blocks) /\ Len(listing) \in Nat
        BY <3>1
      <3> QED BY <3>1, <3>2
    <2>2. b \in Blocks /\ b \notin {listing[i] : i \in 1..listed}
      BY <2>1 DEF DownloadInv, Shapes
    <2>3. block[b] = "unlisted"
      BY <2>2 DEF DownloadInv, ListedBlocks, Listed
    <2>4. block' = [block EXCEPT ![b] = "ask"] /\ UNCHANGED <<retries, arrived, progress>>
      BY <1>7, <2>1 DEF ListBlock
    <2> HIDE DEF b
    <2>5. Reported'
      BY <2>2, <2>3, <2>4 DEF ProgressInv, Reported, Arrived, DownloadInv, Shapes
    <2> QED BY <1>0, <1>7, <2>5 DEF ListBlock, ProgressInv, AllListed, Phases
  <1>8. CASE FlushBlock
    <2>1. /\ nextBlock \in Blocks /\ block[nextBlock] = "decrypted"
          /\ block' = [block EXCEPT ![nextBlock] = "flushed"]
          /\ UNCHANGED <<retries, arrived, progress>>
      BY <1>8 DEF FlushBlock, IsNextBlockDownloaded
    <2>2. Reported'
      BY <2>1 DEF ProgressInv, Reported, Arrived, DownloadInv, Shapes
    <2>3. written' \in Seq(Blocks)
      BY <1>0, <1>8, <2>1 DEF FlushBlock
    <2> QED BY <1>0, <1>8, <2>2, <2>3 DEF FlushBlock, ProgressInv, AllListed, Phases
  <1> QED BY <1>2, <1>3, <1>4, <1>5, <1>6, <1>7, <1>8 DEF Loop

\* So do the answers of the block servers.
LEMMA BlockSteps_Progress ==
    ASSUME DownloadInv, ProgressInv, NEW b \in Blocks,
           Send(b) \/ Answer(b) \/ Refused(b) \/ Throttled(b)
    PROVE  ProgressInv'
  <1> USE DEF loopVars, UnderWay
  <1>0. /\ arrived \in [Blocks -> 0..1] /\ arrived[b] \in 0..1 /\ progress \in Int
        /\ retries \in [Blocks -> 0..1] /\ faults \in 0..MaxFaults
        /\ block \in [Blocks -> States]
        /\ block[b] \in {"unlisted", "ask", "askToken", "token"} => arrived[b] = 0
    BY ArrivedFinite DEF ProgressInv, Reported, DownloadInv, Shapes
  <1>1. (MayFail \/ Fault) => faults' \in 0..MaxFaults
    BY <1>0 DEF MayFail, Fault
  <1>2. arrived = [arrived EXCEPT ![b] = arrived[b]] /\ progress = progress - arrived[b] + arrived[b]
    BY <1>0
  <1>3. CASE Send(b) \/ TokenRenewed(b)
    BY <1>0, <1>2, <1>3, BlockProgress DEF Send, TokenRenewed, Goto
  <1>4. CASE Receive(b)
    <2>1. block = [block EXCEPT ![b] = "fetch"]
      BY <1>0, <1>4 DEF Receive
    <2>2. progress' = progress - arrived[b] + 1
      BY <1>0, <1>4 DEF Receive
    <2>3. arrived' = [arrived EXCEPT ![b] = 1] /\ 1 \in 0..1 /\ "fetch" \in UnderWay
      BY <1>4 DEF Receive
    <2>4. UNCHANGED <<listing, listed, phase, written, aborted, faults, block, retries>>
          /\ block[b] = "fetch"
      BY <1>4 DEF Receive
    <2> QED BY <1>0, <2>1, <2>2, <2>3, <2>4, BlockProgress
  <1>5. CASE Decrypt(b)
    BY <1>0, <1>2, <1>5, BlockProgress DEF Decrypt, Goto
  <1>6. CASE TokenFails(b) \/ Throttled(b)
    BY <1>0, <1>1, <1>2, <1>6, BlockProgress DEF TokenFails, Throttled, Goto
  <1>7. CASE FetchGone(b)
    <2>1. progress' = progress - arrived[b] + 0
      BY <1>0, <1>7 DEF FetchGone, TakeBack
    <2>2. /\ arrived' = [arrived EXCEPT ![b] = 0] /\ 0 \in 0..1
          /\ block' = [block EXCEPT ![b] = "askToken"] /\ "askToken" \in UnderWay
      BY <1>7 DEF FetchGone, TakeBack, Goto
    <2>3. UNCHANGED <<listing, listed, phase, written, aborted, retries>> /\ block[b] = "fetch"
          /\ faults' \in 0..MaxFaults
      BY <1>1, <1>7 DEF FetchGone
    <2> QED BY <1>0, <2>1, <2>2, <2>3, BlockProgress
  <1>8. ASSUME Retry(b), faults' \in 0..MaxFaults, UNCHANGED <<loopVars, aborted>>,
               block[b] \in {"ask", "fetch"}
        PROVE  ProgressInv'
    <2>1. progress' = progress - arrived[b] + 0 /\ arrived' = [arrived EXCEPT ![b] = 0]
      BY <1>0, <1>8 DEF Retry, TakeBack
    <2>2. PICK s \in {"ask", "failed"} : block' = [block EXCEPT ![b] = s]
      BY <1>8 DEF Retry, Goto
    <2>3. retries' \in [Blocks -> 0..1]
      BY <1>0, <1>8 DEF Retry
    <2>4. s \in UnderWay /\ s # "decrypted" /\ 0 \in 0..1
      BY <2>2
    <2>5. UNCHANGED <<listing, listed, phase, written, aborted>>
      BY <1>8
    <2>6. block[b] \in UnderWay \ {"decrypted"}
      BY <1>8
    <2> QED BY <1>8, <2>1, <2>2, <2>3, <2>4, <2>5, <2>6, BlockProgress
  <1>9. ASSUME Goto(b, "failed"), UNCHANGED <<loopVars, aborted, retries, arrived, progress>>,
               faults' \in 0..MaxFaults, block[b] \in UnderWay \ {"decrypted"}
        PROVE  ProgressInv'
    BY <1>0, <1>2, <1>9, BlockProgress DEF Goto
  <1>10. CASE FetchFails(b)
    BY <1>1, <1>8, <1>9, <1>10 DEF FetchFails
  <1>11. CASE Refused(b)
    BY <1>1, <1>8, <1>9, <1>11 DEF Refused
  <1> QED BY <1>3, <1>4, <1>5, <1>6, <1>7, <1>10, <1>11 DEF Answer

\* And every step of the download.
LEMMA DownloadNext_Progress ==
    ASSUME DownloadInv, ProgressInv, [DownloadNext]_downloadVars
    PROVE  ProgressInv'
  <1>1. CASE Loop
    BY <1>1, LoopSteps_Progress
  <1>2. ASSUME NEW b \in Blocks, Send(b) \/ Answer(b) \/ Refused(b) \/ Throttled(b)
        PROVE  ProgressInv'
    BY <1>2, BlockSteps_Progress
  <1>3. CASE Abort \/ UNCHANGED downloadVars
    <2>1. UNCHANGED <<loopVars, blockVars, faults>> /\ aborted' \in BOOLEAN
      BY <1>3 DEF Abort, downloadVars, ProgressInv
    <2> QED BY <2>1, LoopProgress DEF loopVars, ProgressInv, AllListed
  <1> QED BY <1>1, <1>2, <1>3 DEF DownloadNext

-----------------------------------------------------------------------------
(* The refinement: each step of the download is a step of OrderedCopy.     *)

Result == CASE phase = "done" -> "complete" [] phase = "failed" -> "failed" [] OTHER -> "open"

\* A download that goes on has no result yet.
LEMMA ResultOpen ==
    ASSUME phase \notin {"done", "failed"}
    PROVE  Result = "open"
  BY DEF Result

\* A download whose manifest is verified has written every block.
LEMMA AllWritten ==
    ASSUME DownloadInv, phase = "verify"
    PROVE  Len(written) = Len(listing)
  <1>1. Ongoing = {} /\ listed = Len(listing)
    BY DEF DownloadInv, LoopPhases
  <1>2. \A b \in Blocks : block[b] \in {"unlisted", "flushed"}
    BY <1>1 DEF DownloadInv, Shapes, States, Ongoing, Undecrypted
  <1>3. nextBlock \in Nat \ {0} /\ Len(written) = nextBlock - 1
    BY DEF DownloadInv, Shapes
  <1>4. Listed = 1..nextBlock - 1
    <2>1. \A b \in Blocks : b \in Listed <=> b < nextBlock
      BY <1>2 DEF Listed, DownloadInv, ListedBlocks
    <2>2. \A b \in 1..nextBlock - 1 : b \in Blocks
      BY DEF DownloadInv, ListedBlocks
    <2>3. ASSUME NEW b \in Listed
          PROVE  b \in 1..nextBlock - 1
      <3>1. b \in Blocks /\ b \in Nat \ {0}
        BY DEF Listed, Blocks
      <3> QED BY <1>3, <2>1, <3>1
    <2>4. ASSUME NEW b \in 1..nextBlock - 1
          PROVE  b \in Listed
      BY <1>3, <2>1, <2>2
    <2> QED BY <2>3, <2>4
  <1>5. Cardinality(Listed) = nextBlock - 1
    BY <1>3, <1>4, WrittenCount
  <1> QED BY <1>1, <1>3, <1>5 DEF DownloadInv, ListedBlocks

\* A download begins as an ordered copy does.
LEMMA CopiedInit ==
    ASSUME DownloadInit
    PROVE  Copied!Init
  <1>1. listing \in Seq(Blocks) /\ Len(listing) \in Nat
    BY DEF DownloadInit
  <1>2. Result = "open"
    BY ResultOpen DEF DownloadInit
  <1> QED BY <1>1, <1>2 DEF Copied!Init, DownloadInit, Result

\* Every step is one of the ordered copy, or does not show in the file.
LEMMA CopiedNext ==
    ASSUME DownloadInv, [DownloadNext]_downloadVars
    PROVE  [Copied!Next]_Copied!vars
  <1> USE DEF loopVars, blockVars
  <1>1. CASE FlushBlock
    <2>1. Result = "open" /\ Result' = "open"
      BY <1>1 DEF FlushBlock, Result
    <2>2. written' = Append(written, Len(written) + 1)
      BY <1>1 DEF FlushBlock, DownloadInv, Shapes
    <2>3. Len(listing') = Len(listing)
      BY <1>1 DEF FlushBlock
    <2> QED BY <2>1, <2>2, <2>3 DEF Copied!Next, Copied!Copy, Result
  <1>2. CASE Verified
    <2>1. Result = "open" /\ Result' = "complete" /\ Len(written) = Len(listing)
          /\ UNCHANGED <<listing, written>>
      BY <1>2, AllWritten DEF Verified, Settle, Result
    <2> QED BY <2>1 DEF Copied!Next, Copied!Complete, Result
  <1>3. CASE \/ KeysFail \/ ListingFails \/ RoomFails \/ WriteFails \/ DrainFails
             \/ RestLeft \/ VerifyFails
    <2>1. Result = "open" /\ Result' = "failed" /\ UNCHANGED <<listing, written>>
      BY <1>3 DEF KeysFail, ListingFails, RoomFails, WriteFails, DrainFails, RestLeft,
                  VerifyFails, Settle, Result
    <2> QED BY <2>1 DEF Copied!Next, Copied!Fail, Result
  <1>4. CASE GetKeys \/ ListBlock \/ ListingEnds \/ Room \/ Flushed \/ DrainDone \/ RestFlushed
    <2>1. Result = "open" /\ Result' = "open" /\ UNCHANGED <<listing, written>>
      BY <1>4 DEF GetKeys, ListBlock, ListingEnds, Room, Flushed, DrainDone, RestFlushed, Result
    <2> QED BY <2>1 DEF Copied!vars, Result
  <1>5. ASSUME UNCHANGED <<listing, phase, written>>
        PROVE  UNCHANGED Copied!vars
    BY <1>5 DEF Copied!vars
  <1>6. ASSUME NEW b \in Blocks, Send(b) \/ Answer(b) \/ Refused(b) \/ Throttled(b)
        PROVE  UNCHANGED <<listing, phase, written>>
    BY <1>6 DEF Send, Answer, Receive, Decrypt, FetchFails, FetchGone, TokenRenewed, TokenFails,
                Refused, Throttled
  <1>7. CASE Abort \/ UNCHANGED downloadVars
    BY <1>7, <1>5 DEF Abort, downloadVars
  <1> QED BY <1>1, <1>2, <1>3, <1>4, <1>5, <1>6, <1>7 DEF DownloadNext, Loop

-----------------------------------------------------------------------------
(* The bucket.                                                             *)

BucketInv == BucketTypeOK /\ TimerArmed /\ meter + tokens <= Capacity

LEMMA BucketInit_Inv ==
    ASSUME BucketInit
    PROVE  BucketInv
  <1> USE BucketAssumption
  <1>1. /\ tokens = Capacity /\ pause = 0 /\ waiters = <<>> /\ timer = NoTimer
        /\ closed = FALSE /\ meter = 0 /\ Capacity \in Nat
    BY DEF BucketInit
  <1>2. <<>> \in Seq(Callers)
    OBVIOUS
  <1>3. BucketTypeOK
    <2>1. tokens \in 0..Capacity /\ pause \in Nat /\ meter \in Nat
      BY <1>1
    <2>2. closed \in BOOLEAN
      BY <1>1
    <2>3. timer \in Nat \cup {NoTimer} /\ waiters \in Seq(Callers)
      BY <1>1, <1>2
    <2> QED BY <2>1, <2>2, <2>3 DEF BucketTypeOK
  <1>4. TimerArmed /\ meter + tokens <= Capacity
    BY <1>1 DEF TimerArmed
  <1> QED BY <1>3, <1>4 DEF BucketInv

\* A delay is a time to come.
LEMMA DelayType ==
    ASSUME NEW t \in 0..Capacity, NEW p \in Nat
    PROVE  Delay(t, p) \in Nat /\ Delay(t, p) # NoTimer
  <1> USE BucketAssumption
  <1>1. (One - t) \div Rate \in Int
    OBVIOUS
  <1> QED BY <1>1 DEF Delay, Larger, NoTimer

LEMMA BucketNext_Inv ==
    ASSUME BucketInv, [BucketNext]_bucketVars
    PROVE  BucketInv'
  <1> USE BucketAssumption
  <1>0. /\ tokens \in 0..Capacity /\ pause \in Nat /\ waiters \in Seq(Callers)
        /\ timer \in Nat \cup {NoTimer} /\ closed \in BOOLEAN /\ meter \in Nat
        /\ (timer # NoTimer <=> waiters # <<>>) /\ meter + tokens <= Capacity
    BY DEF BucketInv, BucketTypeOK, TimerArmed
  <1>1. CASE AcquireNow
    BY <1>0, <1>1 DEF AcquireNow, CanGrant, Spend, BucketInv, BucketTypeOK, TimerArmed
  <1>2. ASSUME NEW c \in Callers, AcquireParks(c)
        PROVE  BucketInv'
    <2>1. waiters' \in Seq(Callers) /\ waiters' # <<>>
      BY <1>0, <1>2 DEF AcquireParks
    <2>2. timer' \in Nat /\ timer' # NoTimer
      BY <1>0, <1>2, DelayType DEF AcquireParks, NoTimer
    <2> QED BY <1>0, <1>2, <2>1, <2>2 DEF AcquireParks, BucketInv, BucketTypeOK, TimerArmed
  <1>3. CASE AcquireRefused \/ UNCHANGED bucketVars
    BY <1>0, <1>3 DEF AcquireRefused, bucketVars, BucketInv, BucketTypeOK, TimerArmed
  <1>4. CASE WakeGrants
    <2>1. tokens' \in 0..Capacity /\ meter' \in Nat /\ meter' + tokens' <= Capacity
      BY <1>0, <1>4 DEF WakeGrants, CanGrant, Spend
    <2>2. waiters' \in Seq(Callers)
      BY <1>0, <1>4 DEF WakeGrants
    <2>3. timer' \in Nat \cup {NoTimer} /\ (timer' # NoTimer <=> waiters' # <<>>)
      BY <1>0, <1>4, <2>1, DelayType DEF WakeGrants
    <2> QED BY <1>0, <1>4, <2>1, <2>2, <2>3 DEF WakeGrants, BucketInv, BucketTypeOK, TimerArmed
  <1>5. CASE WakeTooEarly
    <2>1. timer' \in Nat /\ timer' # NoTimer
      BY <1>0, <1>5, DelayType DEF WakeTooEarly
    <2> QED BY <1>0, <1>5, <2>1 DEF WakeTooEarly, BucketInv, BucketTypeOK, TimerArmed
  <1>6. ASSUME NEW s \in Backoffs, NoteRetryAfter(s)
        PROVE  BucketInv'
    <2>1. s \in Nat /\ MinBackoff \in Int
      BY DEF MinBackoff
    <2>2. pause' \in Nat
      BY <1>0, <1>6, <2>1 DEF NoteRetryAfter, Larger
    <2>3. timer' \in Nat \cup {NoTimer} /\ (timer' # NoTimer <=> waiters # <<>>)
      BY <1>0, <1>6, <2>2, DelayType DEF NoteRetryAfter
    <2> QED BY <1>0, <1>6, <2>2, <2>3 DEF NoteRetryAfter, BucketInv, BucketTypeOK, TimerArmed
  <1>7. CASE Close
    BY <1>0, <1>7 DEF Close, BucketInv, BucketTypeOK, TimerArmed
  <1>8. CASE Tick
    <2>1. tokens' \in 0..Capacity /\ meter' \in Nat /\ meter' + tokens' <= Capacity
      BY <1>0, <1>8 DEF Tick, Smaller, Larger
    <2>2. pause' \in Nat
      BY <1>0, <1>8 DEF Tick, Larger
    <2>3. timer' \in Nat \cup {NoTimer} /\ (timer' # NoTimer <=> timer # NoTimer)
      BY <1>0, <1>8 DEF Tick, NoTimer
    <2> QED BY <1>0, <1>8, <2>1, <2>2, <2>3 DEF Tick, BucketInv, BucketTypeOK, TimerArmed
  <1> QED BY <1>1, <1>2, <1>3, <1>4, <1>5, <1>6, <1>7, <1>8 DEF BucketNext

-----------------------------------------------------------------------------
(* The composition.                                                        *)

\* Each step of the composition is a step, or none, of both parts.
LEMMA BothParts ==
    ASSUME BucketInv, [Next]_vars
    PROVE  [DownloadNext]_downloadVars /\ [BucketNext]_bucketVars
  <1>1. CASE (Loop \/ Abort) /\ UNCHANGED bucketVars
    BY <1>1 DEF DownloadNext
  <1>2. ASSUME NEW b \in Blocks, Paced(b)
        PROVE  [DownloadNext]_downloadVars /\ [BucketNext]_bucketVars
    BY <1>2, CallersAssumption DEF Paced, Wants, DownloadNext, BucketNext
  <1>3. ASSUME NEW b \in Blocks, Slowed(b) \/ (Answer(b) /\ UNCHANGED bucketVars)
        PROVE  [DownloadNext]_downloadVars /\ [BucketNext]_bucketVars
    BY <1>3 DEF Slowed, DownloadNext, BucketNext
  <1>4. CASE Wake
    <2>1. CASE WakeGrants /\ Send(Head(waiters))
      <3>1. waiters \in Seq(Callers) /\ waiters # <<>>
        BY <2>1 DEF WakeGrants, BucketInv, BucketTypeOK
      <3>2. Head(waiters) \in Blocks
        BY <3>1, CallersAssumption
      <3> QED BY <2>1, <3>2 DEF DownloadNext, BucketNext
    <2>2. CASE WakeTooEarly /\ UNCHANGED downloadVars
      BY <2>2 DEF BucketNext
    <2> QED BY <1>4, <2>1, <2>2 DEF Wake
  <1>5. CASE (Tick /\ UNCHANGED downloadVars) \/ UNCHANGED vars
    BY <1>5 DEF BucketNext, vars
  <1> QED BY <1>1, <1>2, <1>3, <1>4, <1>5 DEF Next

\* Window, order of the blocks (fileDownloader.ts) and budget of the bucket (rateLimit.ts)
\* stay in order in every reachable state.
THEOREM Invariance == Spec => [](DownloadInv /\ BucketInv)
  <1>1. Init => DownloadInv /\ BucketInv
    BY DownloadInit_Inv, BucketInit_Inv DEF Init
  <1>2. (DownloadInv /\ BucketInv) /\ [Next]_vars => (DownloadInv /\ BucketInv)'
    BY BothParts, DownloadNext_Inv, BucketNext_Inv
  <1> QED BY <1>1, <1>2, PTL DEF Spec

\* The sink of a download gets the blocks in order and once each, a download that
\* succeeds has written all of them, and nothing is written after the end
\* (fileDownloader.ts): the download implements OrderedCopy.
THEOREM CopiesBlocksInOrder == Spec => CopiesInOrder
  <1>1. Init => Copied!Init
    BY CopiedInit DEF Init
  <1>2. (DownloadInv /\ BucketInv) /\ [Next]_vars => [Copied!Next]_Copied!vars
    BY BothParts, CopiedNext
  <1> QED BY <1>1, <1>2, Invariance, PTL DEF Spec, CopiesInOrder, Copied!Spec

\* So does what the download has reported of its progress.
THEOREM ProgressInvariance == Spec => []ProgressInv
  <1>1. Init => ProgressInv
    BY DownloadInit_Progress DEF Init
  <1>2. (DownloadInv /\ BucketInv) /\ ProgressInv /\ [Next]_vars => ProgressInv'
    BY BothParts, DownloadNext_Progress
  <1> QED BY <1>1, <1>2, Invariance, PTL DEF Spec

\* A download that succeeds has reported its size, whatever was tried again after
\* some of its data had been reported (fileDownloader.ts).
THEOREM ProgressIsHonest == Spec => []ProgressHonest
  <1>1. DownloadInv /\ ProgressInv => ProgressHonest
    <2> SUFFICES ASSUME DownloadInv, ProgressInv, phase = "done"
                 PROVE  progress = Len(listing)
      BY DEF ProgressHonest
    <2>1. listed = Len(listing) /\ Ongoing = {}
      BY DEF ProgressInv, AllListed
    <2>2. Arrived = Listed
      BY <2>1 DEF ProgressInv, Reported, DownloadInv, Shapes, States, Arrived, Listed, Ongoing,
                  Undecrypted
    <2> QED BY <2>1, <2>2 DEF ProgressInv, Reported, DownloadInv, ListedBlocks
  <1> QED BY <1>1, Invariance, ProgressInvariance, PTL

\* The state of the download and of the bucket keeps its types.
THEOREM TypeCorrect == Spec => []TypeOK
  <1>1. DownloadInv /\ ProgressInv => DownloadTypeOK
    <2> SUFFICES ASSUME DownloadInv, ProgressInv
                 PROVE  DownloadTypeOK
      OBVIOUS
    <2>1. nextBlock \in 1..MaxIndex + 1
      <3>1. nextBlock \in Nat \ {0} /\ \A b \in 1..nextBlock - 1 : b \in 1..MaxIndex
        BY DEF DownloadInv, Shapes, ListedBlocks, Blocks
      <3>2. CASE nextBlock > 1
        <4>1. nextBlock - 1 \in 1..nextBlock - 1
          BY <3>1, <3>2
        <4>2. nextBlock - 1 \in 1..MaxIndex
          BY <3>1, <4>1
        <4> QED BY <3>1, <4>2
      <3> QED BY <3>1, <3>2
    <2>2. progress \in Int
      BY ArrivedFinite DEF ProgressInv, Reported
    <2> QED BY <2>1, <2>2 DEF DownloadTypeOK, DownloadInv, Shapes, States, ProgressInv, Reported,
                              Phases
  <1>2. BucketInv => BucketTypeOK
    BY DEF BucketInv
  <1> QED BY <1>1, <1>2, Invariance, ProgressInvariance, PTL DEF TypeOK

\* A listing in order never holds more than MAX_CONCURRENT_DOWNLOAD_BLOCKS blocks
\* in memory.
THEOREM WindowIsBounded == Spec => []WindowBounded
  <1>1. DownloadInv => WindowBounded
    BY DEF DownloadInv
  <1> QED BY <1>1, Invariance, PTL

\* The timer of the bucket is pending exactly while somebody is parked: no waiter
\* is left without the timer that wakes it (rateLimit.ts).
THEOREM TimerIsArmed == Spec => []TimerArmed
  <1>1. BucketInv => TimerArmed
    BY DEF BucketInv
  <1> QED BY <1>1, Invariance, PTL

\* Calls leave at the rate and within the burst over any stretch of time.
THEOREM RateIsKept == Spec => []RateKept
  <1>1. BucketInv => RateKept
    BY BucketAssumption DEF BucketInv, BucketTypeOK, RateKept
  <1> QED BY <1>1, Invariance, PTL

\* A call that leaves is the head of the queue, or nobody waited (acquire, wakeHead).
THEOREM HeadGoesFirst == Spec => HeadFirst
  <1>1. ASSUME BucketInv, [BucketNext]_bucketVars
        PROVE  [meter' = meter + One => waiters = <<>> \/ waiters' = Tail(waiters)]_bucketVars
    <2>1. meter \in Nat /\ One \in Nat \ {0} /\ Rate \in Nat \ {0}
      <3>1. meter \in Nat
        BY <1>1 DEF BucketInv, BucketTypeOK
      <3> QED BY <3>1, BucketAssumption
    <2>2. CASE AcquireNow
      BY <2>2 DEF AcquireNow
    <2>3. CASE WakeGrants
      BY <2>3 DEF WakeGrants
    <2>4. ASSUME meter' = meter
          PROVE  meter' # meter + One
      BY <2>1, <2>4
    <2>5. CASE Tick
      BY <2>1, <2>5 DEF Tick, Larger
    <2>6. CASE AcquireRefused \/ WakeTooEarly \/ Close \/ UNCHANGED bucketVars
      BY <2>4, <2>6 DEF AcquireRefused, WakeTooEarly, Close, bucketVars
    <2>7. CASE \E c \in Callers : AcquireParks(c)
      BY <2>4, <2>7 DEF AcquireParks
    <2>8. CASE \E s \in Backoffs : NoteRetryAfter(s)
      BY <2>4, <2>8 DEF NoteRetryAfter
    <2> QED BY <1>1, <2>2, <2>3, <2>5, <2>6, <2>7, <2>8 DEF BucketNext
  <1>2. (DownloadInv /\ BucketInv) /\ [Next]_vars
          => [meter' = meter + One => waiters = <<>> \/ waiters' = Tail(waiters)]_bucketVars
    BY <1>1, BothParts
  <1> QED BY <1>2, Invariance, PTL DEF Spec, HeadFirst

\* The composition keeps the specification of either part.
THEOREM PartsAreKept == Spec => DownloadSpec /\ BucketSpec
  <1>1. Init => DownloadInit /\ BucketInit
    BY DEF Init
  <1>2. (DownloadInv /\ BucketInv) /\ [Next]_vars
          => [DownloadNext]_downloadVars /\ [BucketNext]_bucketVars
    BY BothParts
  <1> QED BY <1>1, <1>2, Invariance, PTL DEF Spec, DownloadSpec, BucketSpec

\* The bucket is a gate: its queue is bounded and served from the head, nobody is
\* refused while there is room, nobody enters while somebody waits (rateLimit.ts).
THEOREM BucketIsGate == Spec => Gate!GateSpec
  <1>1. Init => Gate!GateInit
    BY DEF Init, BucketInit, Gate!GateInit
  <1>2. ASSUME [BucketNext]_bucketVars
        PROVE  [Gate!GateNext]_(Gate!gateVars)
    <2>1. CASE AcquireNow \/ AcquireRefused \/ WakeTooEarly \/ Tick \/ UNCHANGED bucketVars
      BY <2>1 DEF AcquireNow, AcquireRefused, WakeTooEarly, Tick, bucketVars, Gate!gateVars
    <2>2. ASSUME NEW c \in Callers, AcquireParks(c)
          PROVE  Gate!Park(c)
      BY <2>2 DEF AcquireParks, Gate!Park
    <2>3. CASE WakeGrants
      BY <2>3 DEF WakeGrants, Gate!Grant, Gate!GateNext
    <2>4. CASE \E s \in Backoffs : NoteRetryAfter(s)
      BY <2>4 DEF NoteRetryAfter, Gate!gateVars
    <2>5. CASE Close
      BY <2>5 DEF Close, Gate!Shut, Gate!GateNext
    <2> QED BY <1>2, <2>1, <2>2, <2>3, <2>4, <2>5 DEF BucketNext, Gate!GateNext
  <1>3. (DownloadInv /\ BucketInv) /\ [Next]_vars => [Gate!GateNext]_(Gate!gateVars)
    BY <1>2, BothParts
  <1> QED BY <1>1, <1>3, Invariance, PTL DEF Spec, Gate!GateSpec

=============================================================================
