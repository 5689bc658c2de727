------------------------------ MODULE Backups ------------------------------
(* Backups and their schedule (admin.py): the daemon thread that fires once *)
(* per slot, an administrator's request in another process, the snapshots in *)
(* the backup directory and admin_config.json, which both of them rewrite    *)
(* through one temporary file.                                               *)
EXTENDS Naturals, FiniteSets, FiniteSetsExt

CONSTANTS
    Day,            \* ticks of a day
    Hours,          \* the ticks of a day at which a backup may be scheduled
    Keep,           \* snapshots that a pruning leaves
    LastTime,        \* bound: the clock
    MaxSnapshots,   \* bound: snapshots begun
    MaxMishaps       \* bound: crashes, failures, and requests other than prunings
ASSUME BackupsAssumption ==
    /\ Day \in Nat \ {0} /\ Hours \subseteq 0 .. Day - 1 /\ Keep \in Nat \ {0}
    /\ LastTime \in Nat \ {0} /\ {MaxSnapshots, MaxMishaps} \subseteq Nat

Savers == {"worker", "request"}
Off == Day                      \* stands for enabled = false
Never == 0                      \* no time: the clock starts at 1
Contents == [hour : Hours \cup {Off}, last : 0 .. LastTime]
Torn == [hour |-> Off, last |-> LastTime + 1]    \* JSON that does not parse
NoFile == [hour |-> Off, last |-> LastTime + 2]    \* there is no file

VARIABLES
    now,
    config,         \* admin_config.json
    tmp,            \* admin_config.json.tmp
    files,          \* the snapshots: name, time of modification, whole or not
    taken,          \* snapshots begun
    pc,             \* per thread: where it is
    sched,          \* per thread: the schedule it has read or is about to write
    dest,           \* per thread: the snapshot it makes
    open,           \* per thread: the file its handle leads to
    slot,           \* the slot that the worker serves
    served,         \* slots with a scheduled snapshot
    twice,          \* some slot got two of them
    lost,           \* a finished snapshot of the worker was never marked
    overlapped,     \* two threads were between read and write of the schedule
    mishaps

diskVars == <<config, tmp, files>>
threadVars == <<pc, sched, dest, open>>
seenVars == <<slot, served, twice, lost, overlapped>>
backupsVars == <<now, taken, diskVars, threadVars, seenVars, mishaps>>

BackupsTypeOK ==
    /\ now \in 1 .. LastTime /\ taken \in 0 .. MaxSnapshots /\ mishaps \in 0 .. MaxMishaps
    /\ config \in Contents \cup {Torn, NoFile} /\ tmp \in Contents \cup {Torn, NoFile}
    /\ files \subseteq [name : 1 .. MaxSnapshots, at : 1 .. LastTime, whole : BOOLEAN]
    /\ \A f, g \in files : f.name = g.name => f = g
    /\ pc \in [Savers -> {"idle", "due", "vacuum", "mark", "save", "write", "replace", "prune"}]
    /\ sched \in [Savers -> Contents] /\ dest \in [Savers -> 0 .. MaxSnapshots]
    /\ open \in [Savers -> {"none", "tmp", "config"}]
    /\ slot \in 0 .. LastTime /\ served \subseteq 0 .. LastTime
    /\ {twice, lost, overlapped} \subseteq BOOLEAN
    /\ config = Torn => overlapped      \* whatever fails or stops on the way

Defaults == [hour |-> Off, last |-> Never]

BackupsInit ==
    /\ now = 1 /\ taken = 0 /\ mishaps = 0
    /\ config \in {NoFile} \cup [hour : Hours, last : {Never}] /\ tmp = NoFile /\ files = {}
    /\ pc = [t \in Savers |-> "idle"] /\ sched = [t \in Savers |-> Defaults]
    /\ dest = [t \in Savers |-> 0] /\ open = [t \in Savers |-> "none"]
    /\ slot = 0 /\ served = {} /\ twice = FALSE /\ lost = FALSE /\ overlapped = FALSE

GoTo(t, where) == pc' = [pc EXCEPT ![t] = where]
Locals(t, s, d) == sched' = [sched EXCEPT ![t] = s] /\ dest' = [dest EXCEPT ![t] = d]
Mishap == mishaps < MaxMishaps /\ mishaps' = mishaps + 1

----------------------------------------------------------------------------
(* What the schedule says.                                                 *)

Raw == IF config \in Contents THEN config ELSE Defaults
Newest == IF files = {} THEN Never ELSE Max({f.at : f \in files})

\* get_schedule: without a last backup, the newest file stands for it.
GetSchedule == [Raw EXCEPT !.last = IF @ = Never THEN Newest ELSE @]

\* _backup_due, and today's slot.
Slot(s) == now - (now % Day) + s.hour
Due(s) == s.hour # Off /\ now >= Slot(s) /\ (s.last = Never \/ s.last < Slot(s))

----------------------------------------------------------------------------
(* A snapshot.                                                             *)

\* _worker_loop, once a minute.
WakeWorker ==
    /\ pc["worker"] = "idle" /\ Due(GetSchedule)
    /\ GoTo("worker", "due") /\ slot' = Slot(GetSchedule)
    /\ UNCHANGED <<now, taken, diskVars, sched, dest, open>>
    /\ UNCHANGED <<served, twice, lost, overlapped, mishaps>>

\* VACUUM INTO a new file.
BeginSnapshot(t) ==
    /\ \/ t = "worker" /\ pc[t] = "due" /\ UNCHANGED mishaps
       \/ t = "request" /\ pc[t] = "idle" /\ Mishap
    /\ taken < MaxSnapshots /\ taken' = taken + 1
    /\ files' = files \cup {[name |-> taken', at |-> now, whole |-> FALSE]}
    /\ dest' = [dest EXCEPT ![t] = taken'] /\ GoTo(t, "vacuum")
    /\ UNCHANGED <<now, config, tmp, sched, open, seenVars>>

FinishSnapshot(t) ==
    /\ pc[t] = "vacuum" /\ GoTo(t, "mark")
    /\ \E f \in files :
          /\ f.name = dest[t]
          /\ files' = (files \ {f}) \cup {[f EXCEPT !.at = now, !.whole = TRUE]}
    /\ IF t = "worker"
       THEN served' = served \cup {slot} /\ twice' = (twice \/ slot \in served)
       ELSE UNCHANGED <<served, twice>>
    /\ UNCHANGED <<now, config, tmp, taken, sched, dest, open, slot, lost, overlapped, mishaps>>

\* It raises, or its file is gone; what it has written stays.
SnapshotFails(t) ==
    /\ pc[t] = "vacuum" /\ GoTo(t, "idle")
    /\ \/ Mishap
       \/ (\A f \in files : f.name # dest[t]) /\ UNCHANGED mishaps
    /\ Locals(t, Defaults, 0)
    /\ UNCHANGED <<now, diskVars, taken, open, seenVars>>

----------------------------------------------------------------------------
(* The schedule is rewritten: read, temporary file, rename.                *)

Saving == {"save", "write", "replace"}
OthersSave(t) == \E o \in Savers \ {t} : pc[o] \in Saving

\* The end of snapshot_backup reads the file once more, without defaults.
MarkBackup(t) ==
    /\ pc[t] = "mark" /\ GoTo(t, "save")
    /\ Locals(t, [Raw EXCEPT !.last = now], 0)
    /\ overlapped' = (overlapped \/ OthersSave(t))
    /\ UNCHANGED <<now, diskVars, taken, open, slot, served, twice, lost, mishaps>>

\* Mutant: the time of the last backup is not written back.
SetScheduleForgets(h) ==
    /\ pc["request"] = "idle" /\ Mishap /\ GoTo("request", "save")
    /\ Locals("request", [hour |-> h, last |-> Never], 0)
    /\ overlapped' = (overlapped \/ OthersSave("request"))
    /\ UNCHANGED <<now, diskVars, taken, open, slot, served, twice, lost>>

\* set_schedule.
SetSchedule(h) ==
    /\ pc["request"] = "idle" /\ Mishap /\ GoTo("request", "save")
    /\ Locals("request", [GetSchedule EXCEPT !.hour = h], 0)
    /\ overlapped' = (overlapped \/ OthersSave("request"))
    /\ UNCHANGED <<now, diskVars, taken, open, slot, served, twice, lost>>

\* Mutant: the file itself is opened and truncated.
OpenInPlace(t) ==
    /\ pc[t] = "save" /\ GoTo(t, "write")
    /\ config' = Torn /\ open' = [open EXCEPT ![t] = "config"]
    /\ UNCHANGED <<now, tmp, files, taken, sched, dest, seenVars, mishaps>>

\* _write_json_atomic opens and truncates the temporary file ...
OpenTmp(t) ==
    /\ pc[t] = "save" /\ GoTo(t, "write")
    /\ tmp' = Torn /\ open' = [open EXCEPT ![t] = "tmp"]
    /\ UNCHANGED <<now, config, files, taken, sched, dest, seenVars, mishaps>>

\* ... writes it, over whatever another handle has left there ...
Mixed(old, t) == {sched[t]} \cup (IF old \in {Torn, sched[t]} THEN {} ELSE {Torn})
WriteTmp(t) ==
    /\ pc[t] = "write" /\ GoTo(t, "replace")
    /\ IF open[t] = "tmp"
       THEN tmp' \in Mixed(tmp, t) /\ UNCHANGED config
       ELSE IF open[t] = "config" THEN config' \in Mixed(config, t) /\ UNCHANGED tmp
                                  ELSE UNCHANGED <<config, tmp>>
    /\ open' = [open EXCEPT ![t] = "none"]
    /\ UNCHANGED <<now, files, taken, sched, dest, seenVars, mishaps>>

\* ... and renames it; a handle that is still open goes with the file.
RenameTmp(t) ==
    /\ pc[t] = "replace" /\ tmp # NoFile
    /\ config' = tmp /\ tmp' = NoFile
    /\ open' = [o \in Savers |-> CASE open[o] = "tmp" -> "config"
                                    [] open[o] = "config" -> "none"
                                    [] OTHER -> "none"]
    /\ GoTo(t, IF t = "worker" THEN "prune" ELSE "idle") /\ Locals(t, Defaults, 0)
    /\ UNCHANGED <<now, files, taken, seenVars, mishaps>>

\* The disk is full, or somebody else has renamed the file.
SaveFails(t) ==
    /\ \/ pc[t] \in {"save", "write"} /\ Mishap
       \/ pc[t] = "replace" /\ tmp = NoFile /\ UNCHANGED mishaps
    /\ GoTo(t, "idle") /\ open' = [open EXCEPT ![t] = "none"]
    /\ lost' = (lost \/ t = "worker") /\ Locals(t, Defaults, 0)
    /\ UNCHANGED <<now, diskVars, taken, slot, served, twice, overlapped>>

----------------------------------------------------------------------------
(* Snapshots go.                                                           *)

\* prune_backups: the newest stay, whole or not.
Kept == {K \in SUBSET files :
            /\ Cardinality(K) = Min({Keep, Cardinality(files)})
            /\ \A f \in K, g \in files \ K : f.at >= g.at}
PruneBackups(t) ==
    /\ pc[t] = IF t = "worker" THEN "prune" ELSE "idle"
    /\ GoTo(t, "idle") /\ files' \in Kept
    /\ UNCHANGED <<now, config, tmp, taken, sched, dest, open, seenVars, mishaps>>

DeleteBackup(f) ==
    /\ pc["request"] = "idle" /\ Mishap
    /\ files' = files \ {f}
    /\ UNCHANGED <<now, config, tmp, taken, threadVars, seenVars>>

\* The container goes: nothing is lost but what the threads were about to do.
ServerStops ==
    /\ Mishap /\ \E t \in Savers : pc[t] # "idle"
    /\ pc' = [t \in Savers |-> "idle"] /\ open' = [t \in Savers |-> "none"]
    /\ sched' = [t \in Savers |-> Defaults] /\ dest' = [t \in Savers |-> 0]
    /\ lost' = (lost \/ pc["worker"] \in {"mark"} \cup Saving)
    /\ UNCHANGED <<now, diskVars, taken, slot, served, twice, overlapped>>

TimePasses ==
    /\ now < LastTime /\ now' = now + 1
    /\ UNCHANGED <<taken, diskVars, threadVars, seenVars, mishaps>>

BackupsNext ==
    \/ WakeWorker \/ ServerStops \/ TimePasses
    \/ \E t \in Savers :
          \/ BeginSnapshot(t) \/ FinishSnapshot(t) \/ SnapshotFails(t) \/ MarkBackup(t)
          \/ OpenTmp(t) \/ WriteTmp(t) \/ RenameTmp(t) \/ SaveFails(t) \/ PruneBackups(t)
    \/ \E h \in Hours \cup {Off} : SetSchedule(h)
    \/ \E f \in files : DeleteBackup(f)

----------------------------------------------------------------------------
\* The schedule gives a slot two backups only if the mark of the first was lost: between
\* the snapshot and the rename (a crash, a full disk), or under the save of somebody who
\* had read the file before (admin.py:205, "Fires at most once per scheduled slot").
OncePerSlot == twice => lost \/ overlapped

=============================================================================
