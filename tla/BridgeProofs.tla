---------------------------- MODULE BridgeProofs ----------------------------
(***************************************************************************)
(* A body is what its own request has downloaded, and a download keeps its *)
(* file, for any number of requests, slots, crashes and lost unlinks.      *)
(***************************************************************************)
EXTENDS Bridge, FiniteSetTheorems, SequenceTheorems, TLAPS

Waits == {"parked", "reparked"}
Stages == Deadlined \cup Waits \cup {"new", "gate", "again", "clear", "check", "body", "over"}
Holding == [from : Requests \cup {"nobody"}, whole : BOOLEAN]

Shape ==
    /\ proc \in {"up", "clearing", "draining", "down"} /\ cleared \in BOOLEAN
    /\ stage \in [Requests -> Stages] /\ late \in [Requests -> BOOLEAN]
    /\ kind \in [Requests -> Kinds \cup {"none", "image", "temp"}]
    /\ answer \in [Requests -> {"none", "ok", "busy", "error", "truncated", "dead"}]
    /\ file \in [Requests -> Holding] /\ served \in [Requests -> Holding]
    /\ age \in [Requests -> 0 .. MaxAge]
    /\ stops \in 0 .. MaxStops /\ faults \in 0 .. MaxFaults

SlotsOK ==
    /\ held \subseteq Requests
    /\ IsFiniteSet(held) /\ Cardinality(held) <= MaxSlots

\* The queue of the gate holds those who wait, each of them once.
QueueOK ==
    /\ waiters \in Seq(Requests)
    /\ \A i, j \in 1 .. Len(waiters) : waiters[i] = waiters[j] => i = j
    /\ \A r \in Requests : stage[r] \in Waits <=> \E i \in 1 .. Len(waiters) : waiters[i] = r

\* Who is at the gate knows its route.
Routed == \A r \in Requests : stage[r] \in {"gate", "parked"} => kind[r] \in Kinds \ {"clear"}

\* A process that is down works at nothing.
Quiet == proc = "down" => \A r \in Requests : ~Live(r)

\* A name is used by its request alone, and what the download has left is whole.
FilesOK ==
    \A p \in Requests :
        /\ file[p] \in {NoFile, Content(p, FALSE), Content(p, TRUE)}
        /\ stage[p] \in {"check", "body"} => file[p] \in {NoFile, Content(p, TRUE)}

\* The deadline ends a download before its file is two ticks old.
Young == \A r \in Requests : stage[r] = "download" => age[r] = 0 \/ (age[r] = 1 /\ late[r])

Inv ==
    /\ Shape /\ SlotsOK /\ QueueOK /\ Routed /\ Quiet /\ FilesOK /\ Young
    /\ WholeServed /\ DownloadKeepsFile

-----------------------------------------------------------------------------
(* The queue of the gate.                                                  *)

\* A request that neither waited nor waits now leaves the queue as it is.
LEMMA QueueKept ==
    ASSUME QueueOK, stage \in [Requests -> Stages], NEW r \in Requests, NEW s \in Stages \ Waits,
           stage[r] \notin Waits, stage' = [stage EXCEPT ![r] = s], waiters' = waiters
    PROVE  QueueOK'
  BY DEF QueueOK

\* One that begins to wait is appended once.
LEMMA QueueGrows ==
    ASSUME QueueOK, stage \in [Requests -> Stages], NEW r \in Requests, NEW s \in Waits,
           stage[r] \notin Waits, stage' = [stage EXCEPT ![r] = s],
           waiters' = Append(waiters, r)
    PROVE  QueueOK'
  <1>1. waiters \in Seq(Requests) /\ \A i \in 1 .. Len(waiters) : waiters[i] # r
    BY DEF QueueOK
  <1>2. PICK n \in Nat : n = Len(waiters)
    BY <1>1, LenProperties
  <1>3. /\ waiters' \in Seq(Requests) /\ Len(waiters') = n + 1
        /\ \A i \in 1 .. n : waiters'[i] = waiters[i]
        /\ waiters'[n + 1] = r
    BY <1>1, <1>2, AppendProperties
  <1>4. \A i, j \in 1 .. n + 1 : waiters'[i] = waiters'[j] => i = j
    <2> TAKE i, j \in 1 .. n + 1
    <2>1. i \in 1 .. n \/ i = n + 1
      BY <1>2
    <2>2. j \in 1 .. n \/ j = n + 1
      BY <1>2
    <2> QED BY <1>1, <1>2, <1>3, <2>1, <2>2 DEF QueueOK
  <1>5. \A q \in Requests : stage'[q] \in Waits <=> \E i \in 1 .. n + 1 : waiters'[i] = q
    <2> TAKE q \in Requests
    <2>1. CASE q = r
      <3>1. n + 1 \in 1 .. n + 1
        BY <1>2
      <3> QED BY <1>3, <2>1, <3>1
    <2>2. CASE q # r
      <3>1. stage'[q] = stage[q]
        BY <2>2
      <3>2. (\E i \in 1 .. n + 1 : waiters'[i] = q) <=> (\E i \in 1 .. n : waiters[i] = q)
        <4>1. \A i \in 1 .. n + 1 : i \in 1 .. n \/ i = n + 1
          BY <1>2
        <4>2. \A i \in 1 .. n : i \in 1 .. n + 1
          BY <1>2
        <4> QED BY <1>3, <2>2, <4>1, <4>2
      <3> QED BY <1>2, <3>1, <3>2 DEF QueueOK
    <2> QED BY <2>1, <2>2
  <1> QED BY <1>3, <1>4, <1>5 DEF QueueOK

\* The one at the head stops waiting.
LEMMA QueueShrinks ==
    ASSUME QueueOK, stage \in [Requests -> Stages], waiters # <<>>,
           NEW s \in Stages \ Waits, stage' = [stage EXCEPT ![Head(waiters)] = s],
           waiters' = Tail(waiters)
    PROVE  QueueOK'
  <1>1. waiters \in Seq(Requests)
    BY DEF QueueOK
  <1>2. PICK n \in Nat : n = Len(waiters)
    BY <1>1, LenProperties
  <1>3. /\ waiters' \in Seq(Requests) /\ Len(waiters') = n - 1 /\ n # 0
        /\ \A i \in 1 .. n - 1 : waiters'[i] = waiters[i + 1]
        /\ Head(waiters) = waiters[1] /\ Head(waiters) \in Requests
    BY <1>1, <1>2, HeadTailProperties, EmptySeq
  <1>4. \A i \in 1 .. n - 1 : i + 1 \in 1 .. n /\ i + 1 # 1
    BY <1>2
  <1>5. 1 \in 1 .. n
    BY <1>2, <1>3
  <1>6. \A i, j \in 1 .. n - 1 : waiters'[i] = waiters'[j] => i = j
    <2> TAKE i, j \in 1 .. n - 1
    <2>1. waiters[i + 1] = waiters[j + 1] => i + 1 = j + 1
      BY <1>2, <1>4 DEF QueueOK
    <2> QED BY <1>3, <2>1
  <1>7. \A q \in Requests : stage'[q] \in Waits <=> \E i \in 1 .. n - 1 : waiters'[i] = q
    <2> TAKE q \in Requests
    <2>1. CASE q = waiters[1]
      <3>1. \A i \in 1 .. n - 1 : waiters[i + 1] # q
        BY <1>2, <1>4, <1>5, <2>1 DEF QueueOK
      <3> QED BY <1>3, <2>1, <3>1
    <2>2. CASE q # waiters[1]
      <3>1. stage'[q] = stage[q]
        BY <1>3, <2>2
      <3>2. (\E i \in 1 .. n : waiters[i] = q) => (\E i \in 1 .. n - 1 : waiters[i + 1] = q)
        <4> SUFFICES ASSUME NEW k \in 1 .. n, waiters[k] = q
                     PROVE  \E i \in 1 .. n - 1 : waiters[i + 1] = q
          OBVIOUS
        <4>1. k # 1
          BY <2>2
        <4>2. k - 1 \in 1 .. n - 1 /\ (k - 1) + 1 = k
          BY <4>1, <1>2
        <4> QED BY <4>2
      <3>3. (\E i \in 1 .. n - 1 : waiters[i + 1] = q) => (\E i \in 1 .. n : waiters[i] = q)
        BY <1>4
      <3> QED BY <1>2, <1>3, <3>1, <3>2, <3>3 DEF QueueOK
    <2> QED BY <2>1, <2>2
  <1> QED BY <1>3, <1>6, <1>7 DEF QueueOK

\* An empty queue, when nobody waits, is in order.
LEMMA QueueEmptied ==
    ASSUME waiters' = <<>>, \A r \in Requests : stage'[r] \notin Waits
    PROVE  QueueOK'
  BY EmptySeq DEF QueueOK

-----------------------------------------------------------------------------
(* What a request does, to its own file only.                              *)

\* What the disk and the body of request r may be when it comes to stage s.
MayHold(r, s, f, b) ==
    /\ f \in {NoFile, Content(r, FALSE), Content(r, TRUE)}
    /\ s \in {"check", "body"} => f \in {NoFile, Content(r, TRUE)}
    /\ b \in {NoFile, Content(r, TRUE)}

\* The contents of a file are told apart: none, a part of it, the whole.
LEMMA Holdings ==
    ASSUME NEW r \in Requests
    PROVE  /\ NoFile \in Holding /\ Content(r, FALSE) \in Holding /\ Content(r, TRUE) \in Holding
           /\ Content(r, FALSE) # NoFile /\ Content(r, TRUE) # NoFile
           /\ Content(r, FALSE) # Content(r, TRUE)
  BY BridgeAssumption DEF NoFile, Content, Holding

\* Request r goes on, not to the gate, and the rest stands still.
LEMMA Moves ==
    ASSUME Inv, NEW r \in Requests, NEW s \in Stages \ ({"new", "gate"} \cup Waits),
           stage[r] \notin {"new", "over"} \cup Waits,
           stage' = [stage EXCEPT ![r] = s],
           NEW l \in BOOLEAN, late' = [late EXCEPT ![r] = l],
           NEW k \in Kinds \cup {"none", "image", "temp"}, kind' = [kind EXCEPT ![r] = k],
           answer' \in [Requests -> {"none", "ok", "busy", "error", "truncated", "dead"}],
           NEW f, NEW b, NEW a \in 0 .. MaxAge, MayHold(r, s, f, b),
           s = "download" => f # NoFile /\ a = 0,
           file' = [file EXCEPT ![r] = f], served' = [served EXCEPT ![r] = b],
           age' = [age EXCEPT ![r] = a],
           SlotsOK', faults' \in 0 .. MaxFaults,
           UNCHANGED <<waiters, proc, cleared, stops>>
    PROVE  Inv'
  <1> USE DEF Inv
  <1>1. f \in Holding /\ b \in Holding
    BY Holdings DEF MayHold
  <1>2. Shape'
    BY <1>1 DEF Shape
  <1>3. QueueOK'
    BY QueueKept DEF Shape
  <1>4. Routed'
    BY DEF Shape, Routed, Waits
  <1>5. Quiet'
    BY DEF Shape, Quiet, Live
  <1>6. FilesOK'
    BY DEF Shape, FilesOK, MayHold
  <1>7. Young'
    BY DEF Shape, Young
  <1>8. WholeServed'
    BY DEF Shape, WholeServed, MayHold
  <1>9. DownloadKeepsFile'
    BY DEF Shape, DownloadKeepsFile, Path
  <1> QED BY <1>2, <1>3, <1>4, <1>5, <1>6, <1>7, <1>8, <1>9

Answers == {"none", "ok", "busy", "error", "truncated", "dead"}

\* The slots are counted by the requests that hold one.
LEMMA SlotsKept == ASSUME SlotsOK, held' = held PROVE SlotsOK'
  BY DEF SlotsOK

\* A slot that is given back makes room.
LEMMA SlotReturned ==
    ASSUME SlotsOK, NEW r, held' = held \ {r}
    PROVE  SlotsOK'
  <1>1. IsFiniteSet(held') /\ Cardinality(held') <= Cardinality(held)
    BY FS_Subset DEF SlotsOK
  <1>2. Cardinality(held) \in Nat /\ Cardinality(held') \in Nat /\ MaxSlots \in Nat
    BY <1>1, FS_CardinalityType, BridgeAssumption DEF SlotsOK
  <1> QED BY <1>1, <1>2 DEF SlotsOK

\* A slot that is free can be given away.
LEMMA SlotGiven ==
    ASSUME SlotsOK, NEW r \in Requests, Cardinality(held) < MaxSlots, held' = held \cup {r}
    PROVE  SlotsOK'
  <1>1. IsFiniteSet(held') /\ Cardinality(held') <= Cardinality(held) + 1
    <2>1. IsFiniteSet(held) /\ Cardinality(held) \in Nat
      BY FS_CardinalityType DEF SlotsOK
    <2> QED BY <2>1, FS_AddElement
  <1>2. Cardinality(held) \in Nat /\ Cardinality(held') \in Nat /\ MaxSlots \in Nat
    BY <1>1, FS_CardinalityType, BridgeAssumption DEF SlotsOK
  <1> QED BY <1>1, <1>2 DEF SlotsOK

\* Request r goes on without touching its file.
LEMMA MovesOn ==
    ASSUME Inv, NEW r \in Requests,
           NEW s \in Stages \ ({"new", "gate", "download", "check", "body"} \cup Waits),
           stage[r] \notin {"new", "over"} \cup Waits,
           stage' = [stage EXCEPT ![r] = s],
           late' = late \/ late' = [late EXCEPT ![r] = FALSE],
           kind' = kind \/ \E k \in {"image", "temp"} : kind' = [kind EXCEPT ![r] = k],
           answer' = answer \/ \E how \in Answers : answer' = [answer EXCEPT ![r] = how],
           SlotsOK',
           UNCHANGED <<waiters, proc, cleared, stops, faults, file, age, served>>
    PROVE  Inv'
  <1>1. PICK l \in BOOLEAN : late' = [late EXCEPT ![r] = l]
    <2>1. late = [late EXCEPT ![r] = late[r]] /\ late[r] \in BOOLEAN
      BY DEF Inv, Shape
    <2> QED BY <2>1
  <1>2. PICK k \in Kinds \cup {"none", "image", "temp"} : kind' = [kind EXCEPT ![r] = k]
    <2>1. kind = [kind EXCEPT ![r] = kind[r]] /\ kind[r] \in Kinds \cup {"none", "image", "temp"}
      BY DEF Inv, Shape
    <2> QED BY <2>1
  <1>3. answer' \in [Requests -> Answers]
    BY DEF Inv, Shape, Answers
  <1>4. /\ file' = [file EXCEPT ![r] = file[r]] /\ served' = [served EXCEPT ![r] = served[r]]
        /\ age' = [age EXCEPT ![r] = age[r]] /\ age[r] \in 0 .. MaxAge
    BY DEF Inv, Shape
  <1>5. MayHold(r, s, file[r], served[r])
    <2>1. FilesOK /\ WholeServed /\ s \notin {"check", "body"}
      BY DEF Inv
    <2>2. file[r] \in {NoFile, Content(r, FALSE), Content(r, TRUE)}
      BY <2>1 DEF FilesOK
    <2>3. served[r] \in {NoFile, Content(r, TRUE)}
      BY <2>1 DEF WholeServed
    <2> QED BY <2>1, <2>2, <2>3 DEF MayHold
  <1>6. faults' \in 0 .. MaxFaults
    BY DEF Inv, Shape
  <1>7. s \in Stages \ ({"new", "gate"} \cup Waits) /\ s # "download"
    OBVIOUS
  <1>8. UNCHANGED <<waiters, proc, cleared, stops>>
    OBVIOUS
  <1>9. answer' \in [Requests -> {"none", "ok", "busy", "error", "truncated", "dead"}]
    BY <1>3 DEF Answers
  <1>10. \A f, b : f = file[r] /\ b = served[r] => Inv'
    <2> SUFFICES ASSUME NEW f, NEW b, f = file[r], b = served[r]
                 PROVE  Inv'
      OBVIOUS
    <2>1. MayHold(r, s, f, b) /\ file' = [file EXCEPT ![r] = f] /\ served' = [served EXCEPT ![r] = b]
      BY <1>4, <1>5
    <2>2. PICK a \in 0 .. MaxAge : age' = [age EXCEPT ![r] = a]
      BY <1>4
    <2> QED BY <1>1, <1>2, <1>6, <1>7, <1>8, <1>9, <2>1, <2>2, Moves
  <1> QED BY <1>10

\* The calls to the SDK that leave the disk alone.
LEMMA SdkInv ==
    ASSUME Inv, NEW r \in Requests,
           \/ ListingDone(r) \/ IterationDone(r) \/ IterationFails(r) \/ LookupDone(r)
           \/ LookupFails(r) \/ SlotTaken(r) \/ OpenFails(r) \/ TooBig(r) \/ BeginStream(r)
           \/ StreamDone(r) \/ StreamFails(r)
    PROVE  Inv'
  <1> USE DEF Goto, Over, Answers, Stages, Deadlined, Waits, gateVars, procVars, diskVars
  <1>0. SlotsOK
    BY DEF Inv
  <1>1. CASE ListingDone(r)
    BY <1>0, <1>1, SlotsKept, MovesOn DEF ListingDone
  <1>2. CASE IterationDone(r)
    BY <1>0, <1>2, SlotsKept, MovesOn DEF IterationDone
  <1>3. CASE IterationFails(r)
    BY <1>0, <1>3, SlotsKept, MovesOn DEF IterationFails
  <1>4. ASSUME NEW m \in {"image", "temp"}, LookupEnds(r, m)
        PROVE  Inv'
    BY <1>0, <1>4, SlotsKept, MovesOn DEF LookupEnds
  <1>5. CASE SlotTaken(r)
    BY <1>0, <1>5, SlotGiven, MovesOn DEF SlotTaken
  <1>6. CASE OpenFails(r)
    BY <1>0, <1>6, SlotReturned, MovesOn DEF OpenFails
  <1>7. CASE TooBig(r)
    BY <1>0, <1>7, SlotsKept, MovesOn DEF TooBig
  <1>8. CASE BeginStream(r)
    BY <1>0, <1>8, SlotsKept, MovesOn DEF BeginStream
  <1>9. CASE StreamDone(r)
    BY <1>0, <1>9, SlotReturned, MovesOn DEF StreamDone
  <1>10. CASE StreamFails(r)
    BY <1>0, <1>10, SlotsKept, SlotReturned, MovesOn DEF StreamFails, Settled
  <1> QED BY <1>1, <1>2, <1>3, <1>4, <1>5, <1>6, <1>7, <1>8, <1>9, <1>10 DEF LookupDone, LookupFails

\* Request r goes on, and its file with it.
LEMMA MovesFile ==
    ASSUME Inv, NEW r \in Requests, NEW s \in {"download", "check", "body", "over"},
           stage[r] \notin {"new", "over"} \cup Waits,
           stage' = [stage EXCEPT ![r] = s],
           late' = late \/ late' = [late EXCEPT ![r] = FALSE],
           answer' = answer \/ \E how \in Answers : answer' = [answer EXCEPT ![r] = how],
           NEW f, NEW b, MayHold(r, s, f, b),
           file' = [file EXCEPT ![r] = f], served' = [served EXCEPT ![r] = b],
           age' = age \/ age' = [age EXCEPT ![r] = 0],
           s = "download" => f # NoFile /\ age' = [age EXCEPT ![r] = 0],
           SlotsOK', faults' \in 0 .. MaxFaults,
           UNCHANGED <<kind, waiters, proc, cleared, stops>>
    PROVE  Inv'
  <1>1. PICK l \in BOOLEAN : late' = [late EXCEPT ![r] = l]
    <2>1. late = [late EXCEPT ![r] = late[r]] /\ late[r] \in BOOLEAN
      BY DEF Inv, Shape
    <2> QED BY <2>1
  <1>2. PICK k \in Kinds \cup {"none", "image", "temp"} : kind' = [kind EXCEPT ![r] = k]
    <2>1. kind = [kind EXCEPT ![r] = kind[r]] /\ kind[r] \in Kinds \cup {"none", "image", "temp"}
      BY DEF Inv, Shape
    <2> QED BY <2>1
  <1>3. answer' \in [Requests -> {"none", "ok", "busy", "error", "truncated", "dead"}]
    BY DEF Inv, Shape, Answers
  <1>4. PICK a \in 0 .. MaxAge : /\ age' = [age EXCEPT ![r] = a]
                                 /\ s = "download" => f # NoFile /\ a = 0
    <2>1. age = [age EXCEPT ![r] = age[r]] /\ age[r] \in 0 .. MaxAge /\ 0 \in 0 .. MaxAge
      BY BridgeAssumption DEF Inv, Shape
    <2>2. CASE s = "download"
      BY <2>1, <2>2
    <2>3. CASE s # "download"
      BY <2>1, <2>3
    <2> QED BY <2>2, <2>3
  <1>5. s \in Stages \ ({"new", "gate"} \cup Waits)
    BY DEF Stages, Deadlined, Waits
  <1>6. UNCHANGED <<waiters, proc, cleared, stops>>
    OBVIOUS
  <1> QED BY <1>1, <1>2, <1>3, <1>4, <1>5, <1>6, Moves

\* What the file and the body of a request may be between its steps.
LEMMA HeldNow ==
    ASSUME Inv, NEW r \in Requests
    PROVE  /\ file[r] \in {NoFile, Content(r, FALSE), Content(r, TRUE)}
           /\ stage[r] \in {"check", "body"} => file[r] \in {NoFile, Content(r, TRUE)}
           /\ served[r] \in {NoFile, Content(r, TRUE)}
           /\ file = [file EXCEPT ![r] = file[r]]
           /\ served = [served EXCEPT ![r] = served[r]]
  <1>1. FilesOK /\ WholeServed /\ Shape
    BY DEF Inv
  <1> QED BY <1>1 DEF FilesOK, WholeServed, Shape

\* unlink leaves nothing, or what was there.
LEMMA UnlinkLeaves ==
    ASSUME Inv, NEW r \in Requests, Unlink(r)
    PROVE  /\ age' = age /\ faults' \in 0 .. MaxFaults
           /\ \E f \in {NoFile, file[r]} : file' = [file EXCEPT ![r] = f]
  <1>1. faults \in 0 .. MaxFaults /\ MaxFaults \in Nat
    BY BridgeAssumption DEF Inv, Shape
  <1>2. faults' \in 0 .. MaxFaults
    BY <1>1 DEF Unlink
  <1>3. file' = [file EXCEPT ![r] = NoFile] \/ file' = file
    BY DEF Unlink, Path
  <1>4. file = [file EXCEPT ![r] = file[r]]
    BY HeldNow
  <1>5. age' = age
    BY DEF Unlink
  <1> QED BY <1>2, <1>3, <1>4, <1>5

LEMMA DownloadInv ==
    ASSUME Inv, NEW r \in Requests,
           BeginDownload(r) \/ DownloadDone(r) \/ DownloadFails(r) \/ Check(r) \/ Body(r)
    PROVE  Inv'
  <1> USE DEF Goto, Over, Answers, Waits, gateVars, procVars, diskVars
  <1>0. SlotsOK /\ faults \in 0 .. MaxFaults
    BY DEF Inv, Shape
  <1>1. CASE BeginDownload(r)
    <2>1. MayHold(r, "download", Content(r, FALSE), served[r])
      BY HeldNow DEF MayHold
    <2>2. Content(r, FALSE) # NoFile
      BY Holdings
    <2>3. SlotsOK'
      BY <1>0, <1>1, SlotsKept DEF BeginDownload
    <2> QED BY <1>0, <1>1, <2>1, <2>2, <2>3, HeldNow, MovesFile DEF BeginDownload, Path
  <1>2. CASE DownloadDone(r)
    <2>1. SlotsOK'
      BY <1>0, <1>2, SlotReturned DEF DownloadDone
    <2>2. CASE file[r].from = r
      <3>1. MayHold(r, "check", Content(r, TRUE), served[r])
        BY HeldNow DEF MayHold
      <3> QED BY <1>0, <1>2, <2>1, <2>2, <3>1, HeldNow, MovesFile DEF DownloadDone, Path
    <2>3. CASE file[r].from # r
      <3>1. file[r] \in {NoFile, Content(r, TRUE)}
        BY <2>3, HeldNow DEF Content
      <3>2. PICK f, b : /\ f = file[r] /\ file = [file EXCEPT ![r] = f]
                        /\ b = served[r] /\ served = [served EXCEPT ![r] = b]
        BY HeldNow
      <3>3. MayHold(r, "check", f, b)
        BY <3>1, <3>2, HeldNow DEF MayHold
      <3>4. /\ stage[r] = "download" /\ stage' = [stage EXCEPT ![r] = "check"]
            /\ late' = [late EXCEPT ![r] = FALSE]
            /\ UNCHANGED <<answer, age, kind, waiters, proc, cleared, stops, faults, file, served>>
        BY <1>2, <2>3 DEF DownloadDone, Path
      <3>5. file' = [file EXCEPT ![r] = f] /\ served' = [served EXCEPT ![r] = b]
        BY <3>2, <3>4
      <3> QED BY <1>0, <2>1, <3>3, <3>4, <3>5, MovesFile
    <2> QED BY <2>2, <2>3
  <1>3. CASE DownloadFails(r)
    <2>1. SlotsOK'
      BY <1>0, <1>3, SlotsKept, SlotReturned DEF DownloadFails, Settled
    <2>2. PICK f \in {NoFile, file[r]} : file' = [file EXCEPT ![r] = f]
      BY <1>3, UnlinkLeaves DEF DownloadFails
    <2>3. MayHold(r, "over", f, served[r])
      BY HeldNow DEF MayHold
    <2> QED BY <1>3, <2>1, <2>2, <2>3, HeldNow, UnlinkLeaves, MovesFile DEF DownloadFails
  <1>4. CASE Check(r)
    <2>1. SlotsOK'
      BY <1>0, <1>4, SlotsKept DEF Check
    <2>2. CASE Goto(r, "body") /\ UNCHANGED <<answer, file, age, faults>>
      <3>1. PICK f, b : /\ f = file[r] /\ file = [file EXCEPT ![r] = f]
                        /\ b = served[r] /\ served = [served EXCEPT ![r] = b]
        BY HeldNow
      <3>2. MayHold(r, "body", f, b)
        BY <1>4, <3>1, HeldNow DEF MayHold, Check
      <3>3. /\ stage[r] = "check" /\ stage' = [stage EXCEPT ![r] = "body"]
            /\ late' = [late EXCEPT ![r] = FALSE]
            /\ UNCHANGED <<answer, age, kind, waiters, proc, cleared, stops, faults, file, served>>
        BY <1>4, <2>2 DEF Check
      <3>4. file' = [file EXCEPT ![r] = f] /\ served' = [served EXCEPT ![r] = b]
        BY <3>1, <3>3
      <3> QED BY <1>0, <2>1, <3>2, <3>3, <3>4, MovesFile
    <2>3. CASE Over(r, "error") /\ Unlink(r)
      <3>1. PICK f \in {NoFile, file[r]} : file' = [file EXCEPT ![r] = f]
        BY <2>3, UnlinkLeaves
      <3>2. MayHold(r, "over", f, served[r])
        BY HeldNow DEF MayHold
      <3> QED BY <1>4, <2>1, <2>3, <3>1, <3>2, HeldNow, UnlinkLeaves, MovesFile DEF Check
    <2> QED BY <1>4, <2>2, <2>3 DEF Check
  <1>5. CASE Body(r)
    <2>1. SlotsOK'
      BY <1>0, <1>5, SlotsKept DEF Body
    <2>2. PICK f \in {NoFile, file[r]} : file' = [file EXCEPT ![r] = f]
      BY <1>5, UnlinkLeaves DEF Body
    <2>3. PICK b \in {NoFile, Content(r, TRUE)} : served' = [served EXCEPT ![r] = b]
      <3>1. file[r] \in {NoFile, Content(r, TRUE)}
        BY <1>5, HeldNow DEF Body
      <3> QED BY <1>5, <3>1, HeldNow DEF Body, Path
    <2>4. MayHold(r, "over", f, b)
      BY <2>3, HeldNow DEF MayHold
    <2>5. \E how \in Answers : stage' = [stage EXCEPT ![r] = "over"]
             /\ late' = [late EXCEPT ![r] = FALSE] /\ answer' = [answer EXCEPT ![r] = how]
      BY <1>5 DEF Body
    <2> QED BY <1>5, <2>1, <2>2, <2>3, <2>4, <2>5, UnlinkLeaves, MovesFile DEF Body
  <1> QED BY <1>1, <1>2, <1>3, <1>4, <1>5

-----------------------------------------------------------------------------
(* The gate.                                                               *)

\* Where a request goes from the gate.
LEMMA FirstStages ==
    ASSUME Inv, NEW r \in Requests, stage[r] \in {"gate", "parked"}
    PROVE  FirstStage(r) \in {"listing", "nodes", "collect", "lookup"}
  <1>1. kind[r] \in {"timeline", "ids", "nodes", "collect", "full", "head"}
    BY BridgeAssumption DEF Inv, Routed
  <1> QED BY <1>1 DEF FirstStage

\* Where it goes on after a wait.
LEMMA NextStages ==
    ASSUME Inv, NEW r \in Requests, stage[r] \in {"gate", "again"} \cup Waits
    PROVE  NextStage(r) \in {"listing", "nodes", "collect", "lookup"}
  BY FirstStages DEF NextStage, Waits

\* Request r goes on and the queue of the gate with it.
LEMMA MovesAtGate ==
    ASSUME Inv, NEW r \in Requests,
           NEW s \in Stages \ {"new", "gate", "download", "check", "body"},
           stage[r] \in {"gate", "again"} \cup Waits,
           s = "parked" => stage[r] = "gate",
           stage' = [stage EXCEPT ![r] = s], late' = [late EXCEPT ![r] = FALSE], QueueOK',
           UNCHANGED <<kind, proc, cleared, stops, faults, file, age, served, answer, held>>
    PROVE  Inv'
  <1>0. /\ Shape /\ SlotsOK /\ Routed /\ Quiet /\ FilesOK /\ Young
        /\ WholeServed /\ DownloadKeepsFile
    BY DEF Inv
  <1>1. Shape' /\ SlotsOK'
    BY <1>0 DEF Shape, SlotsOK
  <1>2. Routed'
    BY <1>0 DEF Shape, Routed, Waits
  <1>3. Quiet'
    BY <1>0 DEF Shape, Quiet, Live, Waits
  <1>4. FilesOK'
    BY <1>0 DEF Shape, FilesOK
  <1>5. Young'
    BY <1>0 DEF Shape, Young
  <1>6. WholeServed' /\ DownloadKeepsFile'
    BY <1>0 DEF Shape, WholeServed, DownloadKeepsFile, Path
  <1> QED BY <1>1, <1>2, <1>3, <1>4, <1>5, <1>6 DEF Inv

LEMMA ArriveInv ==
    ASSUME Inv, NEW r \in Requests, Arrive(r)
    PROVE  Inv'
  <1>0. /\ Shape /\ SlotsOK /\ QueueOK /\ Routed /\ Quiet /\ FilesOK /\ Young
        /\ WholeServed /\ DownloadKeepsFile
    BY DEF Inv
  <1>1. PICK k \in Kinds : /\ kind' = [kind EXCEPT ![r] = k]
                           /\ Goto(r, IF k = "clear" THEN "clear" ELSE "gate")
    BY DEF Arrive
  <1>2. PICK s \in {"clear", "gate"} : /\ stage' = [stage EXCEPT ![r] = s]
                                       /\ s = "gate" => k # "clear"
                                       /\ late' = [late EXCEPT ![r] = FALSE]
    BY <1>1 DEF Goto
  <1>3. /\ proc # "down" /\ stage[r] = "new"
        /\ UNCHANGED <<waiters, proc, cleared, stops, faults, file, age, served, answer, held>>
    BY DEF Arrive, gateVars, procVars, diskVars
  <1>4. Shape' /\ SlotsOK'
    BY <1>0, <1>1, <1>2, <1>3 DEF Shape, SlotsOK, Stages
  <1>5. QueueOK'
    BY <1>0, <1>2, <1>3, QueueKept DEF Shape, Stages, Waits
  <1>6. Routed'
    BY <1>0, <1>1, <1>2, <1>3 DEF Shape, Routed
  <1>7. Quiet' /\ FilesOK' /\ Young'
    BY <1>0, <1>2, <1>3 DEF Shape, Quiet, FilesOK, Young
  <1>8. WholeServed' /\ DownloadKeepsFile'
    BY <1>0, <1>2, <1>3 DEF Shape, WholeServed, DownloadKeepsFile, Path
  <1> QED BY <1>4, <1>5, <1>6, <1>7, <1>8 DEF Inv

LEMMA AcquireInv ==
    ASSUME Inv, NEW r \in Requests, Acquire(r)
    PROVE  Inv'
  <1>0. Shape /\ QueueOK /\ SlotsOK /\ stage[r] \in {"gate", "again"}
    BY DEF Inv, Acquire
  <1>1. /\ UNCHANGED <<kind, proc, cleared, stops, faults, file, age, served, held>>
        /\ stage[r] \notin {"new", "over"} \cup Waits
    BY <1>0 DEF Acquire, procVars, diskVars, Waits
  <1>2. SlotsOK'
    BY <1>0, <1>1, SlotsKept
  <1>3. CASE Enter /\ Goto(r, NextStage(r)) /\ UNCHANGED answer
    <2>1. PICK s \in {"listing", "nodes", "collect", "lookup"} : s = NextStage(r)
      BY <1>0, NextStages
    <2>2. s \in Stages \ ({"new", "gate", "download", "check", "body"} \cup Waits)
      BY DEF Stages, Deadlined, Waits
    <2>3. /\ stage' = [stage EXCEPT ![r] = s] /\ late' = [late EXCEPT ![r] = FALSE]
          /\ UNCHANGED <<answer, waiters>>
      BY <1>3, <2>1 DEF Goto, Enter, gateVars
    <2> QED BY <1>1, <1>2, <2>2, <2>3, MovesOn
  <1>4. CASE Park(r) /\ Goto(r, IF Unanswered(r) THEN "parked" ELSE "reparked") /\ UNCHANGED answer
    <2>1. PICK s \in Waits : /\ stage' = [stage EXCEPT ![r] = s]
                             /\ s = "parked" => stage[r] = "gate"
      BY <1>0, <1>4 DEF Goto, Waits, Unanswered
    <2>2. late' = [late EXCEPT ![r] = FALSE] /\ answer' = answer /\ waiters' = Append(waiters, r)
      BY <1>4 DEF Goto, Park
    <2>3. s \in Stages \ {"new", "gate", "download", "check", "body"}
      BY <2>1 DEF Stages, Waits
    <2>4. QueueOK'
      BY <1>0, <1>1, <2>1, <2>2, QueueGrows DEF Shape
    <2> QED BY <1>0, <1>1, <2>1, <2>2, <2>3, <2>4, MovesAtGate
  <1>5. ASSUME NEW how \in Answers, Over(r, how), UNCHANGED waiters
        PROVE  Inv'
    <2>1. "over" \in Stages \ ({"new", "gate", "download", "check", "body"} \cup Waits)
      BY DEF Stages, Waits
    <2>2. /\ stage' = [stage EXCEPT ![r] = "over"] /\ late' = [late EXCEPT ![r] = FALSE]
          /\ answer' = [answer EXCEPT ![r] = how]
      BY <1>5 DEF Over, Goto
    <2> QED BY <1>1, <1>2, <1>5, <2>1, <2>2, MovesOn
  <1>6. CASE \/ Refuse /\ Over(r, IF Unanswered(r) THEN "busy" ELSE "truncated")
             \/ TurnAway /\ Over(r, IF Unanswered(r) THEN "error" ELSE "truncated")
    BY <1>5, <1>6 DEF Answers, Refuse, TurnAway, gateVars
  <1> QED BY <1>3, <1>4, <1>6 DEF Acquire

LEMMA GrantedInv ==
    ASSUME Inv, Granted
    PROVE  Inv'
  <1>0. Shape /\ QueueOK /\ waiters # <<>> /\ waiters' = Tail(waiters)
    BY DEF Inv, Granted, Grant
  <1>1. PICK r \in Requests : r = Head(waiters) /\ stage[r] \in Waits
    <2>1. /\ Head(waiters) \in Requests /\ Len(waiters) \in Nat \ {0}
          /\ Head(waiters) = waiters[1]
      BY <1>0, HeadTailProperties, EmptySeq DEF QueueOK
    <2>2. 1 \in 1 .. Len(waiters)
      BY <2>1
    <2> QED BY <1>0, <2>1, <2>2 DEF QueueOK
  <1>2. PICK s \in {"listing", "nodes", "collect", "lookup"} : s = NextStage(r)
    BY <1>1, NextStages
  <1>3. /\ stage' = [stage EXCEPT ![r] = s] /\ late' = [late EXCEPT ![r] = FALSE]
        /\ UNCHANGED <<kind, proc, cleared, stops, faults, file, age, served, answer, held>>
    BY <1>1, <1>2 DEF Granted, Goto, procVars, diskVars
  <1>4. s \in Stages \ Waits /\ s \in Stages \ {"new", "gate", "download", "check", "body"}
        /\ s # "parked"
    BY DEF Stages, Deadlined, Waits
  <1>5. QueueOK'
    BY <1>0, <1>1, <1>3, <1>4, QueueShrinks DEF Shape
  <1> QED BY <1>1, <1>3, <1>4, <1>5, MovesAtGate

-----------------------------------------------------------------------------
(* The process.                                                            *)

\* Files go, but for those of downloads under way, or all on request.
LEMMA FilesGo ==
    ASSUME Inv, \A p \in Requests : file'[p] \in {NoFile, file[p]},
           file' \in [Requests -> Holding],
           \A r \in Requests : stage'[r] = "download" => file'[r] = file[r] \/ cleared',
           \A r \in Requests : stage'[r] \in {"over", stage[r]},
           cleared' = cleared \/ cleared' = TRUE \/ proc = "down",
           UNCHANGED <<served, age>>, late' = late \/ \A r \in Requests : stage'[r] # "download"
    PROVE  FilesOK' /\ Young' /\ WholeServed' /\ DownloadKeepsFile'
  <1>0. Shape /\ FilesOK /\ Young /\ WholeServed /\ DownloadKeepsFile /\ Quiet
    BY DEF Inv
  <1>1. FilesOK'
    <2> SUFFICES ASSUME NEW p \in Requests
                 PROVE  /\ file'[p] \in {NoFile, Content(p, FALSE), Content(p, TRUE)}
                        /\ stage'[p] \in {"check", "body"} => file'[p] \in {NoFile, Content(p, TRUE)}
      BY DEF FilesOK
    <2> QED BY <1>0 DEF FilesOK
  <1>2. Young'
    BY <1>0 DEF Young
  <1>3. WholeServed'
    BY <1>0 DEF WholeServed
  <1>4. DownloadKeepsFile'
    <2> SUFFICES ASSUME NEW r \in Requests, stage'[r] = "download"
                 PROVE  file'[r] # NoFile \/ cleared'
      BY DEF DownloadKeepsFile, Path
    <2>1. stage[r] = "download"
      OBVIOUS
    <2>2. proc # "down"
      BY <1>0, <2>1 DEF Quiet, Live
    <2> QED BY <1>0, <2>1, <2>2 DEF DownloadKeepsFile, Path
  <1> QED BY <1>1, <1>2, <1>3, <1>4

LEMMA ClearInv ==
    ASSUME Inv, NEW r \in Requests, Clear(r)
    PROVE  Inv'
  <1>0. Shape /\ SlotsOK /\ QueueOK /\ Routed /\ Quiet
    BY DEF Inv
  <1>1. /\ stage[r] = "clear" /\ stage' = [stage EXCEPT ![r] = "over"]
        /\ late' = [late EXCEPT ![r] = FALSE] /\ answer' = [answer EXCEPT ![r] = "ok"]
        /\ cleared' = TRUE /\ proc' \in {proc, "clearing"}
        /\ proc = "down" => proc' = "down"
        /\ file' = [p \in Requests |-> NoFile]
        /\ UNCHANGED <<waiters, stops, kind, served, held, faults, age>>
    BY DEF Clear, SweepAll, Over, Goto, gateVars
  <1>2. proc # "down"
    BY <1>0, <1>1 DEF Quiet, Live
  <1>3. Shape'
    BY <1>0, <1>1, Holdings DEF Shape, Stages
  <1>4. SlotsOK' /\ QueueOK'
    BY <1>0, <1>1, SlotsKept, QueueKept DEF Shape, Stages, Waits
  <1>5. Routed' /\ Quiet'
    BY <1>0, <1>1, <1>2 DEF Shape, Routed, Quiet
  <1>6. FilesOK'
    BY <1>1 DEF FilesOK
  <1>7. Young' /\ WholeServed' /\ DownloadKeepsFile'
    <2>1. Young /\ WholeServed
      BY DEF Inv
    <2>2. Young'
      BY <1>0, <1>1, <2>1 DEF Shape, Young
    <2> QED BY <1>1, <2>1, <2>2 DEF WholeServed, DownloadKeepsFile
  <1> QED BY <1>3, <1>4, <1>5, <1>6, <1>7 DEF Inv

LEMMA ShutdownInv ==
    ASSUME Inv, Shutdown, proc # "down", stops' \in 0 .. MaxStops
    PROVE  Inv'
  <1>0. Shape /\ SlotsOK /\ QueueOK /\ Routed
    BY DEF Inv
  <1>1. /\ proc' = "draining" /\ waiters' = <<>>
        /\ stage' = [r \in Requests |-> IF stage[r] \in Waits THEN "over" ELSE stage[r]]
        /\ UNCHANGED <<cleared, kind, late, served, held, file, age, faults>>
    BY DEF Shutdown, Shut, Waits, diskVars
  <1>2. answer' \in [Requests -> {"none", "ok", "busy", "error", "truncated", "dead"}]
    <2>1. \A r \in Requests : answer[r] \in {"none", "ok", "busy", "error", "truncated", "dead"}
      BY <1>0 DEF Shape
    <2>2. answer' = [r \in Requests |-> CASE stage[r] \notin Waits -> answer[r]
                                          [] stage[r] = "parked" -> "error"
                                          [] OTHER -> "truncated"]
      BY DEF Shutdown, Waits
    <2> QED BY <2>1, <2>2 DEF Waits
  <1>3. Shape'
    BY <1>0, <1>1, <1>2 DEF Shape, Stages
  <1>4. SlotsOK' /\ QueueOK'
    BY <1>0, <1>1, SlotsKept, QueueEmptied DEF Waits
  <1>5. Routed' /\ Quiet'
    BY <1>0, <1>1 DEF Routed, Quiet
  <1>6. FilesOK' /\ Young' /\ WholeServed' /\ DownloadKeepsFile'
    <2>1. \A r \in Requests : stage'[r] \in {"over", stage[r]}
      BY <1>1
    <2>2. file' \in [Requests -> Holding]
      BY <1>0, <1>1 DEF Shape
    <2> QED BY <1>1, <2>1, <2>2, FilesGo
  <1> QED BY <1>3, <1>4, <1>5, <1>6 DEF Inv

LEMMA ExitInv ==
    ASSUME Inv, Exit, file' = file \/ SweepAll, age' = age, stops' \in 0 .. MaxStops
    PROVE  Inv'
  <1>0. Shape /\ SlotsOK /\ QueueOK /\ Routed
    BY DEF Inv
  <1>1. /\ proc' = "down" /\ waiters' = <<>> /\ held' = {}
        /\ stage' = [r \in Requests |-> IF Live(r) THEN "over" ELSE stage[r]]
        /\ answer' = [r \in Requests |-> IF Live(r) THEN "dead" ELSE answer[r]]
        /\ UNCHANGED <<cleared, kind, late, served, faults>>
    BY DEF Exit
  <1>2. \A r \in Requests : stage'[r] \in {"new", "over"} /\ stage'[r] \in {"over", stage[r]}
    BY <1>1 DEF Live
  <1>3. file' \in [Requests -> Holding] /\ \A p \in Requests : file'[p] \in {NoFile, file[p]}
    BY <1>0, Holdings DEF Shape, SweepAll
  <1>4. Shape'
    BY <1>0, <1>1, <1>3 DEF Shape, Stages
  <1>5. SlotsOK'
    <2>1. MaxSlots \in Nat
      BY BridgeAssumption
    <2> QED BY <1>1, <2>1, FS_EmptySet DEF SlotsOK
  <1>6. QueueOK'
    BY <1>1, <1>2, QueueEmptied DEF Waits
  <1>7. Routed' /\ Quiet'
    BY <1>2 DEF Routed, Quiet, Live
  <1>8. FilesOK' /\ Young' /\ WholeServed' /\ DownloadKeepsFile'
    BY <1>1, <1>2, <1>3, FilesGo
  <1> QED BY <1>4, <1>5, <1>6, <1>7, <1>8 DEF Inv

\* A sweep by age: no download has a file that old.
LEMMA SweepInv ==
    ASSUME Inv, NEW limit \in Nat, Sweep(limit), limit = MaxAge \/ proc = "down",
           proc' \in {"up", "clearing", "draining"},
           cleared' = cleared \/ (proc = "down" /\ cleared' = FALSE),
           UNCHANGED <<waiters, stops, stage, kind, late, served, answer, held, faults>>
    PROVE  Inv'
  <1>0. Shape /\ SlotsOK /\ QueueOK /\ Routed /\ Quiet /\ Young
    BY DEF Inv
  <1>1. age' = age /\ file' = [p \in Requests |-> IF age[p] >= limit THEN NoFile ELSE file[p]]
    BY DEF Sweep
  <1>2. file' \in [Requests -> Holding] /\ \A p \in Requests : file'[p] \in {NoFile, file[p]}
    BY <1>0, <1>1, Holdings DEF Shape
  <1>3. Shape'
    BY <1>0, <1>1, <1>2 DEF Shape
  <1>4. SlotsOK' /\ QueueOK' /\ Routed' /\ Quiet'
    BY <1>0 DEF SlotsOK, QueueOK, Routed, Quiet
  <1>5. \A r \in Requests : stage'[r] = "download" => file'[r] = file[r]
    <2> SUFFICES ASSUME NEW r \in Requests, stage[r] = "download"
                 PROVE  file'[r] = file[r]
      OBVIOUS
    <2>1. limit = MaxAge
      BY <1>0 DEF Quiet, Live
    <2>2. age[r] = 0 \/ age[r] = 1
      BY <1>0 DEF Young
    <2>3. MaxAge \in Nat /\ MaxAge > 1
      BY BridgeAssumption
    <2>4. ~(age[r] >= limit)
      BY <2>1, <2>2, <2>3
    <2> QED BY <1>1, <2>4
  <1>6. FilesOK' /\ Young' /\ WholeServed' /\ DownloadKeepsFile'
    BY <1>1, <1>2, <1>5, FilesGo
  <1> QED BY <1>3, <1>4, <1>6 DEF Inv

LEMMA TickInv ==
    ASSUME Inv, Tick
    PROVE  Inv'
  <1>0. /\ Shape /\ SlotsOK /\ QueueOK /\ Routed /\ Quiet /\ FilesOK /\ Young
        /\ WholeServed /\ DownloadKeepsFile
    BY DEF Inv
  <1>1. /\ late' = [r \in Requests |-> stage[r] \in Deadlined]
        /\ age' = [p \in Requests |-> IF file[p] # NoFile /\ age[p] < MaxAge
                                        THEN age[p] + 1 ELSE age[p]]
        /\ UNCHANGED <<waiters, proc, cleared, stops, stage, kind, served, answer, held, file,
                       faults>>
        /\ \A r \in Requests : stage[r] = "download" => ~late[r]
    BY DEF Tick, gateVars, procVars, Deadlined, Aborted
  <1>2. late' \in [Requests -> BOOLEAN]
    BY <1>1
  <1>3. age' \in [Requests -> 0 .. MaxAge]
    <2>1. MaxAge \in Nat /\ \A p \in Requests : age[p] \in 0 .. MaxAge
      BY <1>0, BridgeAssumption DEF Shape
    <2> QED BY <1>1, <2>1
  <1>4. Shape'
    BY <1>0, <1>1, <1>2, <1>3 DEF Shape
  <1>5. SlotsOK' /\ QueueOK' /\ Routed' /\ Quiet' /\ FilesOK' /\ WholeServed' /\ DownloadKeepsFile'
    BY <1>0, <1>1 DEF SlotsOK, QueueOK, Routed, Quiet, Live, FilesOK, WholeServed,
                      DownloadKeepsFile, Path
  <1>6. Young'
    <2> SUFFICES ASSUME NEW r \in Requests, stage[r] = "download"
                 PROVE  age'[r] = 0 \/ (age'[r] = 1 /\ late'[r])
      BY <1>1 DEF Young
    <2>1. age[r] = 0
      BY <1>0, <1>1 DEF Young
    <2>2. age'[r] \in {0, 1}
      BY <1>1, <2>1
    <2>3. late'[r]
      BY <1>1 DEF Deadlined
    <2> QED BY <2>2, <2>3
  <1> QED BY <1>4, <1>5, <1>6 DEF Inv

\* A step that changes only the state of others keeps the invariant.
LEMMA Untouched ==
    ASSUME Inv, UNCHANGED <<waiters, proc, cleared, stops, stage, kind, late, served, answer, held,
                            file, age, faults>>
    PROVE  Inv'
  BY DEF Inv, Shape, SlotsOK, QueueOK, Routed, Quiet, Live, FilesOK, Young, WholeServed,
         DownloadKeepsFile, Path

-----------------------------------------------------------------------------

LEMMA InitInv ==
    ASSUME Init
    PROVE  Inv
  <1>1. Shape
    <2>1. NoFile \in Holding
      BY DEF NoFile, Holding
    <2>2. /\ 0 \in 0 .. MaxStops /\ 0 \in 0 .. MaxFaults /\ 0 \in 0 .. MaxAge
      BY BridgeAssumption
    <2> QED BY <2>1, <2>2 DEF Init, Shape, Stages
  <1>2. SlotsOK
    <2>1. MaxSlots \in Nat
      BY BridgeAssumption
    <2> QED BY <2>1, FS_EmptySet DEF Init, SlotsOK
  <1>3. QueueOK
    BY EmptySeq DEF Init, GateInit, QueueOK, Waits
  <1>4. Routed /\ Quiet /\ FilesOK /\ Young /\ WholeServed /\ DownloadKeepsFile
    BY DEF Init, Routed, Quiet, FilesOK, Young, WholeServed, DownloadKeepsFile
  <1> QED BY <1>1, <1>2, <1>3, <1>4 DEF Inv

LEMMA NextInv ==
    ASSUME Inv, [Next]_vars
    PROVE  Inv'
  <1>0. stops \in 0 .. MaxStops /\ MaxStops \in Nat /\ MaxAge \in Nat
    BY BridgeAssumption DEF Inv, Shape
  <1>1. ASSUME NEW r \in Requests, Arrive(r) \/ Handle(r) \/ Disconnect(r)
        PROVE  Inv'
    <2>1. CASE Disconnect(r)
      BY <2>1, Untouched DEF Disconnect, gateVars, procVars, diskVars
    <2> QED BY <1>1, <2>1, ArriveInv, AcquireInv, DownloadInv, ClearInv DEF Handle
  <1>2. ASSUME NEW r \in Requests, Fail(r) \/ Succeed(r)
        PROVE  Inv'
    BY <1>2, SdkInv, DownloadInv DEF Fail, Succeed
  <1>3. CASE Granted
    BY <1>3, GrantedInv
  <1>4. CASE Signal \/ AfterClear
    <2>1. Shutdown /\ proc # "down" /\ stops' \in {stops, stops + 1} /\ stops' \in 0 .. MaxStops
      BY <1>0, <1>4 DEF Signal, AfterClear
    <2> QED BY <2>1, ShutdownInv
  <1>5. CASE Drained \/ DrainDeadline \/ Crash
    <2>1. Exit /\ (file' = file \/ SweepAll) /\ age' = age /\ stops' \in 0 .. MaxStops
      BY <1>0, <1>5 DEF Drained, DrainDeadline, Crash, diskVars, SweepAll
    <2> QED BY <2>1, ExitInv
  <1>6. CASE Start
    <2>1. Sweep(1) /\ proc = "down" /\ proc' = "up" /\ cleared' = FALSE
      BY <1>6 DEF Start
    <2>2. UNCHANGED <<waiters, stops, stage, kind, late, served, answer, held, faults>>
      BY <1>6 DEF Start, gateVars, reqVars
    <2> QED BY <2>1, <2>2, SweepInv
  <1>7. CASE PeriodicSweep
    <2>1. Sweep(MaxAge) /\ proc' = "up" /\ cleared' = cleared
      BY <1>7 DEF PeriodicSweep, procVars
    <2>2. UNCHANGED <<waiters, stops, stage, kind, late, served, answer, held, faults>>
      BY <1>7 DEF PeriodicSweep, gateVars, reqVars, procVars
    <2> QED BY <1>0, <2>1, <2>2, SweepInv
  <1>8. CASE Tick
    BY <1>8, TickInv
  <1>9. CASE UNCHANGED vars
    BY <1>9, Untouched DEF vars, gateVars, procVars, reqVars, diskVars
  <1> QED BY <1>1, <1>2, <1>3, <1>4, <1>5, <1>6, <1>7, <1>8, <1>9 DEF Next

\* The inductive invariant holds in every reachable state.
THEOREM Invariance == Spec => []Inv
  <1>1. Init => Inv
    BY InitInv
  <1>2. Inv /\ [Next]_vars => Inv'
    BY NextInv
  <1> QED BY <1>1, <1>2, PTL DEF Spec

\* The state of the bridge is what it should be: no more slots are taken than the queue
\* of the SDK has, and the queue of the gate holds those who wait at it.
THEOREM TypeCorrect == Spec => []TypeOK
  <1>1. Inv => TypeOK
    <2> SUFFICES ASSUME Inv PROVE TypeOK
      OBVIOUS
    <2>1. Shape /\ SlotsOK /\ QueueOK
      BY DEF Inv
    <2>2. DOMAIN waiters = 1 .. Len(waiters)
      BY <2>1, LenProperties DEF QueueOK
    <2>3. ASSUME NEW r \in Requests
          PROVE  /\ stage[r] \in Deadlined \cup {"new", "lookup", "gate", "parked", "again",
                                       "reparked", "clear", "check", "body", "over"}
                 /\ stage[r] \in {"parked", "reparked"} <=> \E i \in DOMAIN waiters : waiters[i] = r
                 /\ kind[r] \in Kinds \cup {"none", "image", "temp"}
                 /\ answer[r] \in {"none", "ok", "busy", "error", "truncated", "dead"}
                 /\ age[r] \in 0..MaxAge
      <3>1. stage[r] \in Stages
        BY <2>1 DEF Shape
      <3>2. stage[r] \in {"parked", "reparked"} <=> \E i \in DOMAIN waiters : waiters[i] = r
        BY <2>1, <2>2 DEF QueueOK, Waits
      <3> QED BY <2>1, <3>1, <3>2 DEF Shape, Stages, Waits
    <2> QED BY <2>1, <2>3 DEF TypeOK, Shape, SlotsOK
  <1> QED BY <1>1, Invariance, PTL

\* A body is the whole file of its own request: the name is the request's alone, and the
\* handler opens it only after the download has settled (bridge.ts, streamFullPhoto).
THEOREM BodiesAreWhole == Spec => []WholeServed
  <1>1. Inv => WholeServed
    BY DEF Inv
  <1> QED BY <1>1, Invariance, PTL

\* No sweep takes the file of a download: its deadline ends it before the file is as old
\* as the periodic sweep asks for, and a process that starts has no download.
THEOREM DownloadsKeepFiles == Spec => []DownloadKeepsFile
  <1>1. Inv => DownloadKeepsFile
    BY DEF Inv
  <1> QED BY <1>1, Invariance, PTL
=============================================================================
