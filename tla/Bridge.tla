------------------------------- MODULE Bridge -------------------------------
(* The bridge process (bridge.ts): its routes from the request to the        *)
(* answer, through the gate of the operations, the slots of the SDK's        *)
(* download queue and the temporary files of the work directory; the sweeps  *)
(* of that directory; the drain at the end, crashes and restarts.            *)
(*                                                                           *)
(* A tick is five minutes: the default deadline of every call to the SDK but *)
(* the timeline's, which is longer.  What has passed its deadline settles    *)
(* before the next tick.  All full-size requests are for the same photo.     *)
EXTENDS CallGate, Integers, FiniteSets

CONSTANTS
    Requests,       \* each of them is made once
    Kinds,          \* the routes that are used
    MaxSlots,       \* the slots of the SDK's download queue
    MaxAge,         \* WORK_SWEEP_MAX_AGE_MS, in ticks
    MaxStops,       \* bound: crashes and signals to stop
    MaxFaults       \* bound: files that unlink leaves behind

ASSUME BridgeAssumption ==
    /\ Callers = Requests
    /\ Kinds \subseteq {"timeline", "ids", "nodes", "collect", "full", "head", "clear"}
    /\ MaxParked \in Nat /\ MaxSlots \in Nat \ {0}
    /\ MaxAge \in Nat /\ MaxAge > 1          \* twice the deadline at least
    /\ MaxStops \in Nat /\ MaxFaults \in Nat
    /\ "nobody" \notin Requests

VARIABLES
    proc,           \* "up", "clearing", "draining" or "down"
    cleared,        \* this process has been asked to clear its cache
    stage,          \* per request: where its handler is
    kind,           \* per request: its route; for a full one what the lookup made of it
    gone,           \* per request: its client has left, or its X-Timeout-Ms is over
    late,           \* per request: the deadline of its call has passed
    held,           \* the requests whose slot the queue counts as taken
    file,           \* per name in the work directory: what the file holds
    age,            \* per name: ticks since it was written, up to MaxAge
    served,         \* per request: what its body was read from
    answer,         \* per request: how it ended
    stops, faults

reqVars == <<stage, kind, gone, late, served, answer>>
diskVars == <<file, age>>
procVars == <<proc, cleared, stops>>
vars == <<gateVars, procVars, reqVars, held, diskVars, faults>>

NoFile == [from |-> "nobody", whole |-> FALSE]
Content(r, whole) == [from |-> r, whole |-> whole]

Init ==
    /\ GateInit
    /\ proc = "up" /\ cleared = FALSE /\ stops = 0 /\ faults = 0
    /\ stage = [r \in Requests |-> "new"] /\ kind = [r \in Requests |-> "none"]
    /\ gone = [r \in Requests |-> FALSE] /\ late = [r \in Requests |-> FALSE]
    /\ held = {}
    /\ file = [p \in Requests |-> NoFile] /\ age = [p \in Requests |-> 0]
    /\ served = [r \in Requests |-> NoFile] /\ answer = [r \in Requests |-> "none"]

Live(r) == stage[r] \notin {"new", "over"}

\* Mutant: the lookup of the node has no deadline.
DeadlinedButLookup == {"listing", "nodes", "collect", "queue", "open", "stream", "download"}

\* The stages in which the handler waits for the SDK, under a deadline.
Deadlined == {"listing", "nodes", "collect", "lookup", "queue", "open", "stream", "download"}

\* The lookup does not listen to its client.
Aborted(r) == late[r] \/ (gone[r] /\ stage[r] # "lookup")

Goto(r, s) ==
    /\ stage' = [stage EXCEPT ![r] = s]
    /\ late' = [late EXCEPT ![r] = FALSE]

Over(r, how) ==
    /\ Goto(r, "over")
    /\ answer' = [answer EXCEPT ![r] = how]

-----------------------------------------------------------------------------
(* The gate.                                                               *)

Arrive(r) ==
    /\ proc \in {"up", "clearing"}
    /\ stage[r] = "new"
    /\ \E k \in Kinds :
        /\ kind' = [kind EXCEPT ![r] = k]
        /\ Goto(r, IF k = "clear" THEN "clear" ELSE "gate")
    /\ UNCHANGED <<gateVars, procVars, gone, served, answer, held, diskVars, faults>>

FirstStage(r) ==
    CASE kind[r] \in {"timeline", "ids"} -> "listing"
      [] kind[r] = "nodes" -> "nodes"
      [] kind[r] = "collect" -> "collect"
      [] kind[r] \in {"full", "head"} -> "lookup"

\* A timeline acquires again once its response is under way.
NextStage(r) == IF stage[r] \in {"gate", "parked"} THEN FirstStage(r) ELSE "nodes"
Unanswered(r) == stage[r] \in {"gate", "parked"}

Acquire(r) ==
    /\ stage[r] \in {"gate", "again"}
    /\ \/ Enter /\ Goto(r, NextStage(r)) /\ UNCHANGED answer
       \/ Park(r) /\ Goto(r, IF Unanswered(r) THEN "parked" ELSE "reparked") /\ UNCHANGED answer
       \/ Refuse /\ Over(r, IF Unanswered(r) THEN "busy" ELSE "truncated")
       \/ TurnAway /\ Over(r, IF Unanswered(r) THEN "error" ELSE "truncated")
    /\ UNCHANGED <<procVars, kind, gone, served, held, diskVars, faults>>

Granted ==
    /\ Grant
    /\ Goto(Head(waiters), NextStage(Head(waiters)))
    /\ UNCHANGED <<procVars, kind, gone, served, answer, held, diskVars, faults>>

-----------------------------------------------------------------------------
(* Timeline, nodes, albums, thumbnails.                                    *)

ListingDone(r) ==
    /\ stage[r] = "listing"
    /\ IF kind[r] = "ids" THEN Over(r, "ok") ELSE Goto(r, "again") /\ UNCHANGED answer
    /\ UNCHANGED <<gateVars, procVars, kind, gone, served, held, diskVars, faults>>

IterationDone(r) ==
    /\ stage[r] \in {"nodes", "collect"}
    /\ Over(r, "ok")
    /\ UNCHANGED <<gateVars, procVars, kind, gone, served, held, diskVars, faults>>

\* What streams has sent its 200 already.
IterationFails(r) ==
    /\ stage[r] \in {"listing", "nodes", "collect"}
    /\ Over(r, IF stage[r] = "collect" THEN "error" ELSE "truncated")
    /\ UNCHANGED <<gateVars, procVars, kind, gone, served, held, diskVars, faults>>

-----------------------------------------------------------------------------
(* A full-size photo.                                                      *)

\* HEAD is answered of the metadata; a failed lookup makes the file an unknown
\* one, and that is served like a video.
LookupEnds(r, m) ==
    /\ stage[r] = "lookup"
    /\ IF kind[r] = "head"
         THEN Over(r, "ok") /\ UNCHANGED kind
         ELSE Goto(r, "queue") /\ kind' = [kind EXCEPT ![r] = m] /\ UNCHANGED answer
    /\ UNCHANGED <<gateVars, procVars, gone, served, held, diskVars, faults>>

LookupDone(r) == \E m \in {"image", "temp"} : LookupEnds(r, m)
LookupFails(r) == LookupEnds(r, "temp")

\* Mutant: one more than there are.
SlotTakenLate(r) ==
    /\ stage[r] = "queue"
    /\ Cardinality(held) <= MaxSlots
    /\ held' = held \cup {r}
    /\ stage' = [stage EXCEPT ![r] = "open"]
    /\ UNCHANGED <<gateVars, procVars, kind, gone, late, served, answer, diskVars, faults>>

\* getFileDownloader waits for a slot.
SlotTaken(r) ==
    /\ stage[r] = "queue"
    /\ Cardinality(held) < MaxSlots
    /\ held' = held \cup {r}
    /\ stage' = [stage EXCEPT ![r] = "open"]
    /\ UNCHANGED <<gateVars, procVars, kind, gone, late, served, answer, diskVars, faults>>

\* No slot in time; or no downloader, and the SDK gives the slot back.
OpenFails(r) ==
    /\ stage[r] \in {"queue", "open"}
    /\ held' = held \ {r}
    /\ Over(r, "error")
    /\ UNCHANGED <<gateVars, procVars, kind, gone, served, diskVars, faults>>

\* 507: the downloader is dropped before it has begun.
TooBig(r) ==
    /\ stage[r] = "open"
    /\ kind[r] = "temp"
    /\ Over(r, "error")
    /\ UNCHANGED <<gateVars, procVars, kind, gone, served, held, diskVars, faults>>

BeginStream(r) ==
    /\ stage[r] = "open"
    /\ kind[r] = "image"
    /\ stage' = [stage EXCEPT ![r] = "stream"]
    /\ UNCHANGED <<gateVars, procVars, kind, gone, late, served, answer, held, diskVars, faults>>

\* Mutant: one file per photo.
PathShared(r) == CHOOSE p \in Requests : TRUE

\* The name of the temporary file, unique to the request.
Path(r) == r

BeginDownload(r) ==
    /\ stage[r] = "open"
    /\ kind[r] = "temp"
    /\ stage' = [stage EXCEPT ![r] = "download"]
    /\ file' = [file EXCEPT ![Path(r)] = Content(r, FALSE)]
    /\ age' = [age EXCEPT ![Path(r)] = 0]
    /\ UNCHANGED <<gateVars, procVars, kind, gone, late, served, answer, held, faults>>

\* The download settles, its slot is free again.
StreamDone(r) ==
    /\ stage[r] = "stream"
    /\ held' = held \ {r}
    /\ Over(r, "ok")
    /\ UNCHANGED <<gateVars, procVars, kind, gone, served, diskVars, faults>>

DownloadDone(r) ==
    /\ stage[r] = "download"
    /\ held' = held \ {r}
    /\ Goto(r, "check")
    /\ IF file[Path(r)].from = r
         THEN /\ file' = [file EXCEPT ![Path(r)] = Content(r, TRUE)]
              /\ age' = [age EXCEPT ![Path(r)] = 0]
         ELSE UNCHANGED diskVars
    /\ UNCHANGED <<gateVars, procVars, kind, gone, served, answer, faults>>

\* unlink, best effort.
Unlink(r) ==
    /\ \/ file' = [file EXCEPT ![Path(r)] = NoFile] /\ UNCHANGED faults
       \/ /\ file[Path(r)] # NoFile /\ faults < MaxFaults
          /\ faults' = faults + 1
          /\ UNCHANGED file
    /\ UNCHANGED age

\* A download that fails before its keys are there never calls onFinish.
Settled(r) == held' \in {held, held \ {r}}

StreamFails(r) ==
    /\ stage[r] = "stream"
    /\ Settled(r)
    /\ Over(r, "truncated")
    /\ UNCHANGED <<gateVars, procVars, kind, gone, served, diskVars, faults>>

DownloadFails(r) ==
    /\ stage[r] = "download"
    /\ Settled(r)
    /\ Over(r, "error")
    /\ Unlink(r)
    /\ UNCHANGED <<gateVars, procVars, kind, gone, served>>

\* The finished file is opened and measured; it may be gone, the range outside it.
Check(r) ==
    /\ stage[r] = "check"
    /\ \/ /\ file[Path(r)] # NoFile
          /\ Goto(r, "body")
          /\ UNCHANGED <<answer, file, age, faults>>
       \/ Over(r, "error") /\ Unlink(r)
    /\ UNCHANGED <<gateVars, procVars, kind, gone, served, held>>

\* The body is read of the file, which goes afterwards.
Body(r) ==
    /\ stage[r] = "body"
    /\ IF file[Path(r)] = NoFile
         THEN Over(r, "truncated") /\ UNCHANGED served
         ELSE Over(r, "ok") /\ served' = [served EXCEPT ![r] = file[Path(r)]]
    /\ Unlink(r)
    /\ UNCHANGED <<gateVars, procVars, kind, gone, held>>

-----------------------------------------------------------------------------
(* The process.                                                            *)

SweepAll == file' = [p \in Requests |-> NoFile] /\ UNCHANGED age

\* POST /cache/clear: the caches and the work directory, whatever is under way.
Clear(r) ==
    /\ stage[r] = "clear"
    /\ SweepAll
    /\ Over(r, "ok")
    /\ cleared' = TRUE
    /\ proc' = IF proc = "up" THEN "clearing" ELSE proc
    /\ UNCHANGED <<gateVars, stops, kind, gone, served, held, faults>>

\* shutdown: the gate is closed, those who wait at it are rejected.
Shutdown ==
    /\ proc' = "draining"
    /\ Shut
    /\ LET Waiting == {r \in Requests : stage[r] \in {"parked", "reparked"}}
       IN  /\ stage' = [r \in Requests |-> IF r \in Waiting THEN "over" ELSE stage[r]]
           /\ answer' = [r \in Requests |-> CASE r \notin Waiting -> answer[r]
                                               [] stage[r] = "parked" -> "error"
                                               [] OTHER -> "truncated"]
    /\ UNCHANGED <<cleared, kind, gone, late, served, held, diskVars, faults>>

Signal ==
    /\ proc \in {"up", "clearing"}
    /\ stops < MaxStops /\ stops' = stops + 1
    /\ Shutdown

AfterClear == proc = "clearing" /\ Shutdown /\ UNCHANGED stops

\* The process ends; what it had in hand ends with it, but for its files.  The
\* next one has a new gate and a new queue.
Exit ==
    /\ proc' = "down"
    /\ waiters' = <<>> /\ closed' = FALSE
    /\ held' = {}
    /\ stage' = [r \in Requests |-> IF Live(r) THEN "over" ELSE stage[r]]
    /\ answer' = [r \in Requests |-> IF Live(r) THEN "dead" ELSE answer[r]]
    /\ UNCHANGED <<cleared, kind, gone, late, served, faults>>

Drained ==
    /\ proc = "draining"
    /\ \A r \in Requests : ~Live(r)
    /\ SweepAll
    /\ Exit
    /\ UNCHANGED stops

\* SHUTDOWN_GRACE_MS
DrainDeadline == proc = "draining" /\ Exit /\ UNCHANGED <<diskVars, stops>>

Crash ==
    /\ proc # "down"
    /\ stops < MaxStops /\ stops' = stops + 1
    /\ Exit
    /\ UNCHANGED diskVars

Sweep(limit) ==
    /\ file' = [p \in Requests |-> IF age[p] >= limit THEN NoFile ELSE file[p]]
    /\ UNCHANGED age

\* main: the sweep of what a crash has left, older than five minutes.
Start ==
    /\ proc = "down"
    /\ proc' = "up"
    /\ cleared' = FALSE
    /\ Sweep(1)
    /\ UNCHANGED <<gateVars, stops, reqVars, held, faults>>

\* Mutant: the periodic sweep takes what the first one takes.
PeriodicSweepEarly ==
    /\ proc = "up"
    /\ Sweep(1)
    /\ UNCHANGED <<gateVars, procVars, reqVars, held, faults>>

\* Mutant: there is no periodic sweep.
PeriodicSweepNever == FALSE

PeriodicSweep ==
    /\ proc = "up"
    /\ Sweep(MaxAge)
    /\ UNCHANGED <<gateVars, procVars, reqVars, held, faults>>

Disconnect(r) ==
    /\ Live(r) /\ ~gone[r]
    /\ gone' = [gone EXCEPT ![r] = TRUE]
    /\ UNCHANGED <<gateVars, procVars, stage, kind, late, served, answer, held, diskVars, faults>>

Tick ==
    /\ proc \in {"up", "down"}
    /\ \A r \in Requests : ~(stage[r] \in Deadlined /\ Aborted(r))
    /\ late' = [r \in Requests |-> stage[r] \in Deadlined]
    /\ age' = [p \in Requests |-> IF file[p] # NoFile /\ age[p] < MaxAge THEN age[p] + 1 ELSE age[p]]
    /\ UNCHANGED <<gateVars, procVars, stage, kind, gone, served, answer, held, file, faults>>

-----------------------------------------------------------------------------
\* What the handler does by itself.
Handle(r) == Acquire(r) \/ Check(r) \/ Body(r) \/ Clear(r)

\* A call to the SDK fails, of itself or because it is aborted.
Fail(r) ==
    \/ IterationFails(r) \/ LookupFails(r) \/ OpenFails(r) \/ StreamFails(r) \/ DownloadFails(r)

\* A call to the SDK succeeds.
Succeed(r) ==
    \/ ListingDone(r) \/ IterationDone(r) \/ LookupDone(r) \/ SlotTaken(r)
    \/ TooBig(r) \/ BeginStream(r) \/ BeginDownload(r) \/ StreamDone(r) \/ DownloadDone(r)

Next ==
    \/ \E r \in Requests : Arrive(r) \/ Handle(r) \/ Fail(r) \/ Succeed(r) \/ Disconnect(r)
    \/ Granted \/ Signal \/ AfterClear \/ Drained \/ DrainDeadline \/ Crash \/ Start
    \/ PeriodicSweep \/ Tick

Spec == Init /\ [][Next]_vars

\* Handlers run, an aborted call settles, the gate serves its queue, timers fire,
\* compose restarts the process, time goes by.  The SDK owes nothing else.
Fairness ==
    /\ \A r \in Requests : /\ WF_vars(Handle(r))
                           /\ WF_vars(Aborted(r) /\ Fail(r))
    /\ WF_vars(Granted)
    /\ WF_vars(AfterClear) /\ WF_vars(DrainDeadline) /\ WF_vars(Start)
    /\ WF_vars(PeriodicSweep) /\ WF_vars(Tick)

FairSpec == Spec /\ Fairness

-----------------------------------------------------------------------------
(* Properties.                                                             *)

\* The state of the bridge; the slots taken are no more than there are, and who
\* waits at the gate is in its queue.
TypeOK ==
    /\ proc \in {"up", "clearing", "draining", "down"} /\ cleared \in BOOLEAN
    /\ \A r \in Requests :
        /\ stage[r] \in Deadlined \cup {"new", "lookup", "gate", "parked", "again", "reparked", "clear",
                                      "check", "body", "over"}
        /\ stage[r] \in {"parked", "reparked"} <=> \E i \in DOMAIN waiters : waiters[i] = r
        /\ kind[r] \in Kinds \cup {"none", "image", "temp"}
        /\ answer[r] \in {"none", "ok", "busy", "error", "truncated", "dead"}
        /\ age[r] \in 0..MaxAge
    /\ held \subseteq Requests /\ Cardinality(held) <= MaxSlots
    /\ stops \in 0..MaxStops /\ faults \in 0..MaxFaults

\* "the path is unique per request ... so concurrent opens of the same uid never
\* clobber each other", "a partially-written file is never handed out": a body is read
\* of the file its own request has written, all of it, whatever other requests and
\* sweeps do meanwhile.
WholeServed == \A r \in Requests : served[r] # NoFile => served[r] = Content(r, TRUE)

\* "so an in-flight download is never touched": a download keeps its file until it
\* ends, unless this process was asked to clear its cache.
DownloadKeepsFile ==
    \A r \in Requests : stage[r] = "download" => file[Path(r)] # NoFile \/ cleared

\* A slot is free again when the request that took it is over.
SlotsReturned == \A r \in held : Live(r)

\* Every request ends, whatever of Proton hangs, and however many slots are lost.
Answered == \A r \in Requests : Live(r) ~> stage[r] = "over"

\* A file that nobody will serve is removed: by its handler, by the sweep of the next
\* start, or by the periodic sweep where an unlink has failed.
OrphansGo == \A p \in Requests : (file[p] # NoFile /\ stage[p] = "over") ~> file[p] = NoFile

=============================================================================
