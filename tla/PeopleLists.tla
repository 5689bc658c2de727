---------------------------- MODULE PeopleLists ----------------------------
(* The lists that a worker of the API keeps for a while (api_common.py,       *)
(* api_state.py, api_routes_people.py, api_routes_photos.py): people by query *)
(* and, made of the people, likely duplicates and suggested merges; and the   *)
(* groups of duplicate photos.  A list is abstracted to the time its rows     *)
(* were read: it shows every commit before that.  Calls that change people or *)
(* photos clear lists of their own worker, one after another under no lock.   *)
EXTENDS Integers, FiniteSets

CONSTANTS
    Requests,       \* threads of the worker
    Nobody,         \* no thread
    Queries, All,   \* what people are asked for; the query without a text
    Size,           \* _PEOPLE_CACHE_MAX
    PeopleTTL, DupsTTL, SuggestedTTL, GroupsTTL,
    Mixes,          \* bound: which lists are asked for in one behaviour
    MaxClock         \* bound: the clock

Derived == {"dups", "suggested"}
Lists == Derived \cup {"groups"}
Kinds == Lists \cup {"people"}
ASSUME ListsAssumption ==
    /\ All \in Queries /\ Nobody \notin Requests
    /\ Size \in Nat \ {0} /\ MaxClock \in Nat
    /\ Mixes \subseteq SUBSET Kinds
    /\ {PeopleTTL, DupsTTL, SuggestedTTL, GroupsTTL} \subseteq Nat \ {0}

Times == 0 .. MaxClock
\* When a list was stamped, when its rows were read, when its build began.
Entries == [stamp : Times, of : Times, begun : Times]
NoEntry == [stamp |-> -1, of |-> -1, begun |-> -1]

VARIABLES
    clock,
    people,         \* _people_cache: query -> entry
    lists,          \* _dups_cache, _suggested_cache, _photo_dups_cache
    asks,           \* the lists that are asked for
    lock,           \* who holds the lock of each
    req             \* per thread: the step of its request, what it asks for, by which
                    \* time it judges its list and the people, when its rows were read,
                    \* and whether the groups it fills are still the worker's
listsVars == <<clock, people, lists, asks, lock, req>>

NoRequest == [step |-> "idle", kind |-> "people", query |-> All,
         asked |-> 0, arrived |-> 0, rows |-> 0, linked |-> FALSE]

ListsTypeOK ==
    /\ clock \in Times
    /\ people \in [Queries -> Entries \cup {NoEntry}]
    /\ lists \in [Lists -> Entries \cup {NoEntry}] /\ asks \subseteq Kinds
    /\ lock \in [Kinds -> Requests \cup {Nobody}]
    /\ req \in [Requests -> [step : {"idle", "lock", "holds", "people", "peek", "read",
                                     "build", "hit"},
                             kind : Kinds, query : Queries, asked : Times,
                             arrived : Times, rows : Times, linked : BOOLEAN]]
    /\ \A k \in Kinds : lock[k] # Nobody =>
          req[lock[k]].step \in (IF k = "people" THEN {"peek", "read"}
                                 ELSE {"holds", "people", "peek", "read", "build"})

ListsInit ==
    /\ clock = 0
    /\ people = [q \in Queries |-> NoEntry] /\ lists = [k \in Lists |-> NoEntry]
    /\ asks \in Mixes
    /\ lock = [k \in Kinds |-> Nobody]
    /\ req = [r \in Requests |-> NoRequest]

StepTo(r, where) == req' = [req EXCEPT ![r].step = where]
Hit(r, e) == req' = [req EXCEPT ![r].step = "hit", ![r].asked = clock, ![r].rows = e.of]
Free(k) == lock' = [lock EXCEPT ![k] = Nobody]
\* all_people and duplicate_groups read what is committed by now.
RowsNow == clock
GroupsNow == clock
Fresh(e, time, ttl) == e # NoEntry /\ time - e.stamp < ttl
TTL(k) == CASE k = "dups" -> DupsTTL [] k = "suggested" -> SuggestedTTL [] k = "groups" -> GroupsTTL

----------------------------------------------------------------------------
(* A request.                                                              *)

AskPeople(r, q) ==
    /\ "people" \in asks /\ req[r].step = "idle"
    /\ req' = [req EXCEPT ![r] = [NoRequest EXCEPT !.step = "people", !.query = q,
                                              !.asked = clock, !.arrived = clock]]
    /\ UNCHANGED <<asks, clock, people, lists, lock>>

\* Two of the lists are looked up before the lock is taken, too.
AskList(r, k) ==
    /\ k \in asks /\ req[r].step = "idle"
    /\ req' = [req EXCEPT ![r] =
          IF k # "suggested" /\ Fresh(lists[k], clock, TTL(k))
          THEN [NoRequest EXCEPT !.step = "hit", !.kind = k, !.asked = clock, !.rows = lists[k].of]
          ELSE [NoRequest EXCEPT !.step = "lock", !.kind = k]]
    /\ UNCHANGED <<asks, clock, people, lists, lock>>

TakeLock(r) ==
    LET k == req[r].kind IN
    /\ req[r].step = "lock" /\ lock[k] = Nobody
    /\ IF Fresh(lists[k], clock, TTL(k))
       THEN Hit(r, lists[k]) /\ UNCHANGED lock
       ELSE /\ req' = [req EXCEPT ![r].step = "holds", ![r].asked = clock]
            /\ lock' = [lock EXCEPT ![k] = r]
    /\ UNCHANGED <<asks, clock, people, lists>>

\* _dups_payload and _suggested_rows begin with the people.
BuildList(r) ==
    /\ req[r].step = "holds" /\ req[r].kind \in Derived
    /\ req' = [req EXCEPT ![r].step = "people", ![r].arrived = clock]
    /\ UNCHANGED <<asks, clock, people, lists, lock>>

\* A new dictionary takes the place of the old one before it is filled.
BuildGroups(r) ==
    /\ req[r].step = "holds" /\ req[r].kind = "groups"
    /\ req' = [req EXCEPT ![r].step = "build", ![r].rows = GroupsNow, ![r].linked = TRUE]
    /\ lists' = [lists EXCEPT !["groups"] = NoEntry]
    /\ UNCHANGED <<asks, clock, people, lock>>

\* _people_all_cached: people are judged by the time of the arrival, not by the time at
\* which the lock is free.
TakePeople(r) ==
    /\ req[r].step = "people" /\ lock["people"] = Nobody
    /\ StepTo(r, "peek") /\ lock' = [lock EXCEPT !["people"] = r]
    /\ UNCHANGED <<asks, clock, people, lists>>

FindPeople(r) ==
    LET e == people[req[r].query] IN
    /\ req[r].step = "peek"
    /\ IF Fresh(e, req[r].arrived, PeopleTTL)
       THEN /\ Free("people")
            /\ req' = [req EXCEPT ![r].rows = e.of, ![r].arrived = 0,
                         ![r].step = IF req[r].kind = "people" THEN "hit" ELSE "build"]
       ELSE req' = [req EXCEPT ![r].step = "read", ![r].rows = RowsNow] /\ UNCHANGED lock
    /\ UNCHANGED <<asks, clock, people, lists>>

\* Mutant: the rows are kept with the time at which they are there.
KeepPeopleNow(r) ==
    /\ req[r].step = "read" /\ Free("people")
    /\ people' = [people EXCEPT ![req[r].query] =
                    [stamp |-> clock, of |-> req[r].rows, begun |-> clock]]
    /\ req' = [req EXCEPT ![r] = IF @.kind = "people" THEN NoRequest
                                 ELSE [@ EXCEPT !.step = "build", !.arrived = 0]]
    /\ UNCHANGED <<asks, clock, lists>>

\* The rows are kept with the time of the arrival; beyond Size another entry goes.
Full == {q \in Queries : people[q] # NoEntry}
KeepPeople(r) ==
    /\ req[r].step = "read" /\ Free("people")
    /\ \E stay \in SUBSET (Full \ {req[r].query}) :
          /\ Cardinality(stay) = IF Cardinality(Full \ {req[r].query}) < Size
                                 THEN Cardinality(Full \ {req[r].query}) ELSE Size - 1
          /\ people' = [q \in Queries |->
                IF q = req[r].query
                THEN [stamp |-> req[r].arrived, of |-> req[r].rows, begun |-> req[r].arrived]
                ELSE IF q \in stay THEN people[q] ELSE NoEntry]
    /\ req' = [req EXCEPT ![r] = IF @.kind = "people" THEN NoRequest
                                 ELSE [@ EXCEPT !.step = "build", !.arrived = 0]]
    /\ UNCHANGED <<asks, clock, lists>>

\* Suggestions are stamped when they are done, the others when they were begun; groups
\* that have been cleared meanwhile go nowhere.
Stamp(r) == IF req[r].kind = "suggested" THEN clock ELSE req[r].asked
KeepList(r) ==
    /\ req[r].step = "build" /\ Free(req[r].kind)
    /\ lists' = IF req[r].kind = "groups" /\ ~req[r].linked THEN lists
                ELSE [lists EXCEPT ![req[r].kind] =
                        [stamp |-> Stamp(r), of |-> req[r].rows, begun |-> req[r].asked]]
    /\ req' = [req EXCEPT ![r] = NoRequest]
    /\ UNCHANGED <<asks, clock, people>>

Answer(r) ==
    /\ req[r].step = "hit" /\ req' = [req EXCEPT ![r] = NoRequest]
    /\ UNCHANGED <<asks, clock, people, lists, lock>>

----------------------------------------------------------------------------
(* What the calls that change something clear.                             *)

ClearDups ==
    /\ lists' = [k \in Lists |-> IF k \in Derived THEN NoEntry ELSE lists[k]]
    /\ UNCHANGED <<asks, clock, people, lock, req>>

ClearPeople ==
    /\ people' = [q \in Queries |-> NoEntry]
    /\ UNCHANGED <<asks, clock, lists, lock, req>>

ClearGroups ==
    /\ lists' = [lists EXCEPT !["groups"] = NoEntry]
    /\ req' = [r \in Requests |-> [req[r] EXCEPT !.linked = FALSE]]
    /\ UNCHANGED <<asks, clock, people, lock>>

Passes == clock < MaxClock /\ clock' = clock + 1 /\ UNCHANGED <<asks, people, lists, lock, req>>

ListsNext ==
    \/ \E r \in Requests :
          \/ \E q \in Queries : AskPeople(r, q)
          \/ \E k \in Lists : AskList(r, k)
          \/ TakeLock(r) \/ BuildList(r) \/ BuildGroups(r) \/ TakePeople(r) \/ FindPeople(r)
          \/ KeepPeople(r) \/ KeepList(r) \/ Answer(r)
    \/ ClearDups \/ ClearPeople \/ ClearGroups \/ Passes

----------------------------------------------------------------------------
Age(r) == req[r].asked - req[r].rows

\* How old an answer out of a list may be, whatever a clearing has missed (another worker
\* made the change, or a build was under way) and however long builds and the waits for
\* locks took: a list made of the people adds their age to its own, suggestions also the
\* time from the beginning of their build to their stamp (api_routes_people.py:458, 479).
ListsBounded ==
    /\ \A r \in Requests : req[r].step = "hit" =>
          CASE req[r].kind = "people" -> Age(r) < PeopleTTL
            [] req[r].kind = "dups" -> Age(r) < DupsTTL + PeopleTTL
            [] req[r].kind = "groups" -> Age(r) < GroupsTTL
            [] OTHER -> TRUE
    /\ LET s == lists["suggested"] IN s # NoEntry => s.begun - s.of < PeopleTTL

=============================================================================
