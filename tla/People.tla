------------------------------- MODULE People -------------------------------
(***************************************************************************)
(* Tables "people" and "faces" (app/src/store.py), the calls that move     *)
(* faces between people (app/src/api_routes_people.py, api_routes_admin.py *)
(* and cluster.py), and the face sidecar that the indexer writes and the   *)
(* API searches.                                                           *)
(*                                                                         *)
(* A call is a sequence of commits.  A SELECT before the first UPDATE of a *)
(* commit is not part of its transaction (sqlite3 opens one with the first *)
(* change), so what a call has read travels with the commits it has left.  *)
(***************************************************************************)
EXTENDS Integers, Sequences, FiniteSets, SequencesExt

CONSTANTS
    Faces, Ids, Names,
    NoFile,      \* there is no sidecar yet
    Requests,    \* threads that serve the API
    MinCluster,  \* min_cluster_size
    MaxSimilar,  \* bound: look-alikes one propagation finds
    MaxCalls,    \* bound: calls that change something
    MaxStops     \* bound: calls that end half way

NoName  == "no name"
NoOwner == "unassigned"
NoFace  == "no face"     \* not detected yet
Purged  == "purged"      \* gone with its photo: AUTOINCREMENT gives no id twice

ASSUME PeopleAssumption ==
    /\ IsFiniteSet(Faces) /\ IsFiniteSet(Ids)
    /\ {MinCluster, MaxSimilar, MaxCalls, MaxStops} \subseteq Nat
    /\ {NoOwner, NoFace, Purged} \cap Ids = {}

Clusterer == "clusterer"
Cleaner   == "cleaner"
Actors    == Requests \cup {Clusterer, Cleaner}

VARIABLES
    people,   \* the rows of table people
    used,     \* ids ever given: AUTOINCREMENT gives none twice
    name,     \* people.name
    counted,  \* the faces people.face_count stands for: those of the last recount
    owner,    \* faces.person_id
    todo,     \* todo[a]: the commits the call of a has left
    sidecar,  \* faces without a person, as the face sidecar shows them
    dirty,    \* _sidcar_dirty
    unpaid,   \* people whose recount a stopped call has left out
    calls, stops

tables == <<people, used, name, counted, owner>>
files  == <<sidecar, dirty>>
vars == <<people, used, name, counted, owner, todo, sidecar, dirty, unpaid, calls, stops>>

Owner == Ids \cup {NoOwner, NoFace, Purged}

Commit ==
         [do: {"look", "assign"}, face: Faces, who: Ids]
    \cup [do: {"unassign"}, face: Faces]
    \cup [do: {"spread", "spread bulk"}, who: Ids]
    \cup [do: {"take"}, faces: SUBSET Faces, who: Ids]
    \cup [do: {"recount", "gc"}, who: Ids]
    \cup [do: {"create"}, name: Names \cup {NoName}, faces: SUBSET Faces]
    \cup [do: {"merge"}, from: SUBSET Ids, who: Ids, name: Names \cup {NoName}]
    \cup [do: {"name"}, who: Ids, name: Names]
    \cup [do: {"delete"}, from: SUBSET Ids]
    \cup [do: {"purge"}, face: Faces, old: Owner]
    \cup [do: {"sweep"}]

TypeOK ==
    /\ people \subseteq used /\ used \subseteq Ids
    /\ name \in [Ids -> Names \cup {NoName}]
    /\ counted \in [Ids -> SUBSET Faces]
    /\ owner \in [Faces -> people \cup {NoOwner, NoFace, Purged}]
    /\ \A a \in Actors : Range(todo[a]) \subseteq Commit
    /\ sidecar \in {NoFile} \cup SUBSET Faces
    /\ dirty \in BOOLEAN /\ unpaid \subseteq Ids
    /\ calls \in 0 .. MaxCalls /\ stops \in 0 .. MaxStops

FacesOf(p) == {f \in Faces : owner[f] = p}
Unassigned == FacesOf(NoOwner)
Stored     == {f \in Faces : owner[f] \notin {NoFace, Purged}}
Unnamed    == {p \in people : name[p] = NoName}

\* An index at rest: every count is right, the sidecar missing or up to date.
Init ==
    /\ people \in SUBSET Ids /\ used = people
    /\ name \in [Ids -> Names \cup {NoName}]
    /\ \A p \in Ids \ people : name[p] = NoName
    /\ \A p, q \in people : name[p] = name[q] => p = q \/ name[p] = NoName
    /\ owner \in [Faces -> people \cup {NoOwner, NoFace}]
    /\ counted = [p \in Ids |-> FacesOf(p)]
    /\ todo = [a \in Actors |-> <<>>]
    /\ sidecar = (IF Stored = {} THEN NoFile ELSE Unassigned)
    /\ dirty = FALSE
    /\ unpaid = {} /\ calls = 0 /\ stops = 0

----------------------------------------------------------------------------
(* The commits of a call.                                                  *)

RecountOf(p) == [do |-> "recount", who |-> p]
Recounted(p) == <<RecountOf(p)>>

Owes(a, p) == \E i \in DOMAIN todo[a] : todo[a][i] = RecountOf(p)

\* What assign_face_person and unassign_face do for the former owner.
Settled(old) == IF old \in Ids THEN Recounted(old) \o <<[do |-> "gc", who |-> old]>> ELSE <<>>

\* Mutant: the new owner is counted too early.
AssignCommitsEarly(f, p) ==
    (IF owner[f] = p THEN <<>> ELSE Settled(owner[f])) \o Recounted(p)
    \o <<[do |-> "assign", face |-> f, who |-> p]>>

\* assign_face_person reads the owner before its transaction begins.
AssignCommits(f, p) ==
    <<[do |-> "assign", face |-> f, who |-> p]>>
    \o (IF owner[f] = p THEN <<>> ELSE Settled(owner[f])) \o Recounted(p)

Begin(a, commits) ==
    /\ todo[a] = <<>>
    /\ calls < MaxCalls /\ calls' = calls + 1
    /\ todo' = [todo EXCEPT ![a] = commits]
    /\ UNCHANGED <<tables, files, unpaid, stops>>

\* The head of what a has left is c; rest replaces it.
Doing(a, kinds) == todo[a] # <<>> /\ Head(todo[a]).do \in kinds

Then(a, rest) ==
    /\ todo' = [todo EXCEPT ![a] = rest \o Tail(@)]
    /\ UNCHANGED <<calls, stops>>

\* A foreign key that no longer holds ends the call.
Abort(a) ==
    /\ todo' = [todo EXCEPT ![a] = <<>>]
    /\ UNCHANGED <<tables, files, unpaid, calls, stops>>

Look(a) ==
    /\ Doing(a, {"look"})
    /\ Then(a, AssignCommits(Head(todo[a]).face, Head(todo[a]).who))
    /\ UNCHANGED <<tables, files, unpaid>>

\* owner[f] becomes p for the faces of S that still exist.
Move(S, p) ==
    owner' = [f \in Faces |-> IF f \in S \cap Stored THEN p ELSE owner[f]]

\* Mutant: foreign keys are not enforced.
CommitAssignUnchecked(a) ==
    /\ Doing(a, {"assign", "take"})
    /\ LET c == Head(todo[a])
       IN  Move(IF c.do = "take" THEN c.faces ELSE {c.face}, c.who)
    /\ Then(a, <<>>)
    /\ UNCHANGED <<people, used, name, counted, files, unpaid>>

\* One face, or those of a cluster or a propagation whoever has them by now.
CommitAssign(a) ==
    /\ Doing(a, {"assign", "take"})
    /\ LET c == Head(todo[a])
           S == IF c.do = "take" THEN c.faces ELSE {c.face}
       IN  IF c.who \notin people /\ S \cap Stored # {}
           THEN Abort(a)
           ELSE /\ Move(S, c.who)
                /\ Then(a, <<>>)
                /\ UNCHANGED <<people, used, name, counted, files, unpaid>>

CommitUnassign(a) ==
    /\ Doing(a, {"unassign"})
    /\ Move({Head(todo[a]).face}, NoOwner)
    /\ Then(a, <<>>)
    /\ UNCHANGED <<people, used, name, counted, files, unpaid>>

\* _recount_person
Recount(a) ==
    /\ Doing(a, {"recount"})
    /\ LET p == Head(todo[a]).who
       IN  /\ counted' = [counted EXCEPT ![p] = IF p \in people THEN FacesOf(p) ELSE @]
           /\ unpaid' = unpaid \ {p}
    /\ Then(a, <<>>)
    /\ UNCHANGED <<people, used, name, owner, files>>

\* Rows of D go: their faces become unassigned (ON DELETE SET NULL).
Drop(D) ==
    /\ people' = people \ D
    /\ name' = [p \in Ids |-> IF p \in D THEN NoName ELSE name[p]]
    /\ counted' = [p \in Ids |-> IF p \in D THEN {} ELSE counted[p]]
    /\ unpaid' = unpaid \ D

Abandoned == {p \in Unnamed : counted[p] = {} /\ FacesOf(p) = {}}

\* _gc_unnamed_person
Gc(a) ==
    /\ Doing(a, {"gc"})
    /\ Drop({Head(todo[a]).who} \cap Abandoned)
    /\ Then(a, <<>>)
    /\ UNCHANGED <<used, owner, files>>

\* delete_empty_people spares rows younger than an hour, the ones a call in
\* flight has just created among them.
InFlight == UNION {{todo[a][i].who : i \in {j \in DOMAIN todo[a] : todo[a][j].do = "take"}}
                     : a \in Actors}

\* Of the abandoned rows, those that are old enough.
SweepRows == \E D \in SUBSET (Abandoned \ InFlight) : Drop(D)

\* The run of the cluster loop ends with it, and asks for a new sidecar.
Sweep(a) ==
    /\ Doing(a, {"sweep"})
    /\ SweepRows
    /\ dirty' = (dirty \/ a = Clusterer)
    /\ Then(a, <<>>)
    /\ UNCHANGED <<used, owner, sidecar>>

\* delete_people_bulk
Delete(a) ==
    /\ Doing(a, {"delete"})
    /\ LET D == Head(todo[a]).from \cap people
       IN  /\ Drop(D)
           /\ Move({f \in Faces : owner[f] \in D}, NoOwner)
    /\ Then(a, <<>>)
    /\ UNCHANGED <<used, files>>

\* Bound: a call that creates a person begins only while an id is left for it.
IdLeft == Cardinality(Ids \ used) >
            Cardinality({a \in Actors : \E i \in DOMAIN todo[a] : todo[a][i].do = "create"})

\* create_person, for a name nobody had or for a cluster.
Create(a) ==
    /\ Doing(a, {"create"})
    /\ \E p \in Ids \ used :
          LET c == Head(todo[a])
          IN  /\ people' = people \cup {p} /\ used' = used \cup {p}
              /\ name' = [name EXCEPT ![p] = c.name]
              /\ IF c.name = NoName
                 THEN Then(a, <<[do |-> "take", faces |-> c.faces, who |-> p]>>
                              \o Recounted(p))
                 ELSE Then(a, <<[do |-> "look", face |-> CHOOSE f \in c.faces : TRUE, who |-> p],
                                [do |-> "spread", who |-> p]>>)
    /\ UNCHANGED <<counted, owner, files, unpaid>>

Merge(a) ==
    /\ Doing(a, {"merge"})
    /\ LET c     == Head(todo[a])
           moved == {f \in Faces : owner[f] \in c.from}
           D     == c.from \cap people
       IN  IF c.who \notin people /\ moved # {}
           THEN Abort(a)
           ELSE /\ Move(moved, c.who)
                /\ people' = people \ D
                /\ name' = [p \in Ids |-> IF p \in D THEN NoName
                                          ELSE IF p = c.who /\ p \in people /\ c.name # NoName
                                          THEN c.name ELSE name[p]]
                /\ counted' = [p \in Ids |-> IF p \in D THEN {} ELSE counted[p]]
                /\ unpaid' = unpaid \ D
                /\ Then(a, <<>>)
                /\ UNCHANGED <<used, files>>

\* rename_person
Rename(a) ==
    /\ Doing(a, {"name"})
    /\ LET c == Head(todo[a])
       IN  name' = [name EXCEPT ![c.who] = IF c.who \in people THEN c.name ELSE @]
    /\ Then(a, <<>>)
    /\ UNCHANGED <<people, used, counted, owner, files, unpaid>>

\* purge_deleted_photo_media for one photo: its face goes, and the owner it
\* had before the transaction is recounted within it.
Purge(a) ==
    /\ Doing(a, {"purge"})
    /\ LET c == Head(todo[a])
       IN  /\ owner' = [owner EXCEPT ![c.face] = Purged]
           /\ IF c.old \in people
              THEN /\ counted' = [counted EXCEPT ![c.old] = FacesOf(c.old) \ {c.face}]
                   /\ unpaid' = unpaid \ {c.old}
              ELSE UNCHANGED <<counted, unpaid>>
    /\ dirty' = TRUE
    /\ Then(a, <<>>)
    /\ UNCHANGED <<people, used, name, sidecar>>

\* similar_faces: look-alikes that the sidecar shows without a person.
Searched == IF sidecar # NoFile THEN sidecar ELSE Unassigned

\* The propagation of api_assign_face (one by one) and _merge_propagate (in bulk).
Spread(a) ==
    /\ Doing(a, {"spread", "spread bulk"})
    /\ LET c == Head(todo[a])
       IN  \E S \in SUBSET Searched :
              /\ Cardinality(S) <= MaxSimilar
              /\ c.do = "spread bulk" /\ FacesOf(c.who) = {} => S = {}
              /\ CASE c.do = "spread" ->
                          LET fs == SetToSeq(S)
                          IN  Then(a, [i \in DOMAIN fs |->
                                         [do |-> "look", face |-> fs[i], who |-> c.who]])
                   [] c.do = "spread bulk" /\ S # {} ->
                          Then(a, <<[do |-> "take", faces |-> S, who |-> c.who]>>
                                  \o Recounted(c.who))
                   [] OTHER -> Then(a, <<>>)
    /\ UNCHANGED <<tables, files, unpaid>>

CommitOf(a) ==
    \/ Look(a) \/ CommitAssign(a) \/ CommitUnassign(a) \/ Recount(a) \/ Gc(a) \/ Sweep(a)
    \/ Delete(a) \/ Create(a) \/ Merge(a) \/ Rename(a) \/ Purge(a)
    \/ Spread(a)

----------------------------------------------------------------------------
(* The calls of the API.                                                   *)

Bearers(n) == {p \in people : name[p] = n}

\* api_assign_face by person_id, or by a name that somebody bears.
AssignTo(a, f, p) ==
    /\ p \in people
    /\ Begin(a, AssignCommits(f, p) \o <<[do |-> "spread", who |-> p]>>)

AssignNew(a, f, n) ==
    /\ Bearers(n) = {} /\ IdLeft
    /\ Begin(a, <<[do |-> "create", name |-> n, faces |-> {f}]>>)

Unassign(a, f) ==
    Begin(a, <<[do |-> "unassign", face |-> f]>> \o Settled(owner[f]))

\* merge_person and merge_people_bulk read the names before their first change:
\* a target without one inherits that of a source.
Inherited(S, p) ==
    LET given == {name[q] : q \in S} \ {NoName}
    IN  IF name[p] = NoName /\ given # {} THEN given ELSE {NoName}

BeginMerge(a, S, p) ==
    \E n \in Inherited(S, p) :
        Begin(a, <<[do |-> "merge", from |-> S, who |-> p, name |-> n]>> \o Recounted(p)
                 \o <<[do |-> "spread bulk", who |-> p]>>)

\* api_rename_person: a name that somebody else bears merges the two.
Name(a, p, n) ==
    LET others == Bearers(n) \ {p}
    IN  IF others = {} THEN Begin(a, <<[do |-> "name", who |-> p, name |-> n]>>)
        ELSE \E q \in others : BeginMerge(a, {p}, q)

\* api_merge_people
MergeOne(a, q, p) == p \in people \ {q} /\ BeginMerge(a, {q}, p)

\* api_merge_all, api_merge_all_similar: one transaction for all of them.
MergePeople(a, S, p) ==
    /\ p \in people /\ S # {} /\ S \subseteq people \ {p}
    /\ BeginMerge(a, S, p)

\* api_admin_prune_small_people: the ids are read first, then deleted.
PruneSmall(a) ==
    LET small == {p \in Unnamed : Cardinality(counted[p]) < MinCluster}
    IN  small # {} /\ Begin(a, <<[do |-> "delete", from |-> small]>>)

\* api_admin_gc_empty_people
GcEmpty(a) == Begin(a, <<[do |-> "sweep"]>>)

Call(a) ==
    \/ \E f \in Stored : \/ \E p \in people : AssignTo(a, f, p)
                         \/ \E n \in Names : AssignNew(a, f, n)
                         \/ Unassign(a, f)
    \/ \E p \in people : \/ \E n \in Names : Name(a, p, n)
                         \/ \E q \in people : MergeOne(a, q, p)
                         \/ \E S \in SUBSET people : MergePeople(a, S, p)
    \/ PruneSmall(a) \/ GcEmpty(a)

----------------------------------------------------------------------------
(* The indexer.                                                            *)

\* match_person: whoever the cached means are nearest to and still exists, or nobody.
Matched == people \cup {NoOwner}

\* A worker stores the face of a photo, with the person match_person found;
\* one that is gone makes the transaction fail and changes nothing.
Ingest(f) ==
    /\ owner[f] = NoFace /\ calls < MaxCalls /\ calls' = calls + 1
    /\ \E p \in Matched :
          /\ owner' = [owner EXCEPT ![f] = p]
          /\ IF p = NoOwner THEN UNCHANGED <<counted, unpaid>>
             ELSE /\ counted' = [counted EXCEPT ![p] = FacesOf(p) \cup {f}]
                  /\ unpaid' = unpaid \ {p}
    /\ dirty' = TRUE
    /\ UNCHANGED <<people, used, name, todo, sidecar, stops>>

\* cluster_once reads the faces without a person; what HDBSCAN makes of them
\* is committed later, long after for a large library.
ClusterOne ==
    \E G \in SUBSET Unassigned :
        /\ IdLeft
        /\ Cardinality(G) >= MinCluster /\ G # {}
        /\ Begin(Clusterer, <<[do |-> "create", name |-> NoName, faces |-> G],
                              [do |-> "sweep"]>>)

\* A run that finds no cluster.
ClusterNothing ==
    /\ todo[Clusterer] = <<>>
    /\ SweepRows
    /\ dirty' = TRUE
    /\ UNCHANGED <<used, owner, todo, sidecar, calls, stops>>

\* cleanup_deleted
Cleanup(f) ==
    /\ f \in Stored
    /\ Begin(Cleaner, <<[do |-> "purge", face |-> f, old |-> owner[f]]>>)

\* _sidcar_flush; no sidecar is written for an index without faces.
Flush ==
    /\ dirty /\ dirty' = FALSE
    /\ sidecar' = IF Stored = {} THEN sidecar ELSE Unassigned
    /\ UNCHANGED <<tables, todo, unpaid, calls, stops>>

\* A call fails between two commits, or the API goes down with all of them.
Stop ==
    /\ stops < MaxStops /\ stops' = stops + 1
    /\ \E S \in {{a} : a \in Actors} \cup {Requests} :
          /\ \E a \in S : todo[a] # <<>>
          /\ todo' = [a \in Actors |-> IF a \in S THEN <<>> ELSE todo[a]]
          /\ unpaid' = unpaid \cup {p \in people : \E a \in S : Owes(a, p)}
    /\ UNCHANGED <<tables, files, calls>>

----------------------------------------------------------------------------
Next ==
    \/ \E a \in Actors : CommitOf(a)
    \/ \E a \in Requests : Call(a)
    \/ \E f \in Faces : Ingest(f) \/ Cleanup(f)
    \/ ClusterOne \/ ClusterNothing \/ Flush \/ Stop

Spec == Init /\ [][Next]_vars

----------------------------------------------------------------------------
(* Properties.                                                             *)

\* face_count never falls short of the faces a person has, but for a recount
\* that a call in flight still owes, or that a stopped call has left out: what
\* the grid hides and prune-small deletes is not larger than it looks.
CountsCover ==
    \A p \in people :
        \/ FacesOf(p) \subseteq counted[p]
        \/ p \in unpaid
        \/ \E a \in Actors : Owes(a, p)

----------------------------------------------------------------------------
(* The inductive invariant behind CountsCover.                             *)

\* Commits that move no face to anybody and never end their call.
Settling == {"recount", "gc"}

\* Commits that give faces to somebody.
Moving == {"assign", "take", "merge"}

\* The call that has s left recounts p before it can fail.
Pays(s, p) ==
    \E i \in 1 .. Len(s) : s[i] = RecountOf(p) /\ \A j \in 1 .. i - 1 : s[j].do \in Settling

\* Whoever gets faces in s is recounted before the call can fail.
Promised(s) ==
    \A i \in 1 .. Len(s) :
        s[i].do \in Moving =>
            \E k \in i + 1 .. Len(s) : /\ s[k] = RecountOf(s[i].who)
                                       /\ \A j \in i + 1 .. k - 1 : s[j].do \in Settling

\* Nobody is merged into himself, and nobody is created for no face.
Sound == {c \in Commit : /\ c.do = "merge" => c.who \notin c.from
                         /\ c.do = "create" => c.faces # {}}

TablesOK ==
    /\ people \subseteq used /\ used \subseteq Ids
    /\ name \in [Ids -> Names \cup {NoName}]
    /\ counted \in [Ids -> SUBSET Faces]
    /\ owner \in [Faces -> people \cup {NoOwner, NoFace, Purged}]
    /\ unpaid \subseteq Ids

FilesOK == sidecar \in {NoFile} \cup SUBSET Faces /\ dirty \in BOOLEAN

BoundsOK == calls \in 0 .. MaxCalls /\ stops \in 0 .. MaxStops

CallsSound ==
    /\ todo \in [Actors -> Seq(Sound)]
    /\ \A a \in Actors : Promised(todo[a])

\* A count falls short only until a recount that nothing can prevent but a stop.
Covered ==
    \A p \in people :
        FacesOf(p) \subseteq counted[p] \/ p \in unpaid \/ \E a \in Actors : Pays(todo[a], p)

Inv == TablesOK /\ FilesOK /\ BoundsOK /\ CallsSound /\ Covered

=============================================================================
