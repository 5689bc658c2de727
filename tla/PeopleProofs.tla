---------------------------- MODULE PeopleProofs ----------------------------
(***************************************************************************)
(* Rows keep their types and their foreign keys, and no count falls short  *)
(* of its faces unnoticed, for any number of people, faces and calls in    *)
(* flight, whichever of their commits interleave.                          *)
(***************************************************************************)
EXTENDS People, FiniteSetTheorems, SequenceTheorems, TLAPS

(***************************************************************************)
(* Commits and the sequences of them that a call has left.                 *)
(***************************************************************************)

\* The fields of a commit, by its kind.
LEMMA CommitFields ==
    ASSUME NEW c \in Sound
    PROVE  /\ c.do \in {"look", "assign"} => c.face \in Faces /\ c.who \in Ids
           /\ c.do \in {"spread", "spread bulk", "recount", "gc", "name", "take", "merge"}
                => c.who \in Ids
           /\ c.do = "unassign" => c.face \in Faces
           /\ c.do = "take" => c.faces \in SUBSET Faces
           /\ c.do = "create" => /\ c.name \in Names \cup {NoName}
                                 /\ c.faces \in SUBSET Faces /\ c.faces # {}
           /\ c.do = "merge" => /\ c.name \in Names \cup {NoName} /\ c.from \in SUBSET Ids
                                /\ c.who \notin c.from
           /\ c.do = "name" => c.name \in Names
           /\ c.do = "delete" => c.from \in SUBSET Ids
           /\ c.do = "purge" => c.face \in Faces /\ c.old \in Owner
  BY DEF Sound, Commit

\* The commits the calls are made of.
LEMMA CommitTypes ==
    /\ \A p \in Ids : RecountOf(p) \in Sound /\ [do |-> "gc", who |-> p] \in Sound
    /\ \A f \in Faces, p \in Ids : /\ [do |-> "assign", face |-> f, who |-> p] \in Sound
                                   /\ [do |-> "look", face |-> f, who |-> p] \in Sound
    /\ \A f \in Faces : [do |-> "unassign", face |-> f] \in Sound
    /\ \A p \in Ids : /\ [do |-> "spread", who |-> p] \in Sound
                      /\ [do |-> "spread bulk", who |-> p] \in Sound
    /\ \A S \in SUBSET Faces, p \in Ids : [do |-> "take", faces |-> S, who |-> p] \in Sound
  BY DEF RecountOf, Sound, Commit

\* The commits that the calls consist of are sound.
LEMMA CallTypes ==
    /\ \A n \in Names \cup {NoName}, S \in SUBSET Faces :
          S # {} => [do |-> "create", name |-> n, faces |-> S] \in Sound
    /\ \A S \in SUBSET Ids, p \in Ids, n \in Names \cup {NoName} :
          p \notin S => [do |-> "merge", from |-> S, who |-> p, name |-> n] \in Sound
    /\ \A p \in Ids, n \in Names : [do |-> "name", who |-> p, name |-> n] \in Sound
    /\ \A S \in SUBSET Ids : [do |-> "delete", from |-> S] \in Sound
    /\ \A f \in Faces, o \in Owner : [do |-> "purge", face |-> f, old |-> o] \in Sound
    /\ [do |-> "sweep"] \in Sound
  BY DEF Sound, Commit

\* A sequence in which nobody gets faces keeps every promise.
LEMMA StillPromised ==
    ASSUME NEW s \in Seq(Sound), \A i \in 1 .. Len(s) : s[i].do \notin Moving
    PROVE  Promised(s)
  BY DEF Promised

\* A commit that moves no face may stand alone.
LEMMA OnePromised ==
    ASSUME NEW c \in Sound, c.do \notin Moving
    PROVE  <<c>> \in Seq(Sound) /\ Promised(<<c>>)
  BY DEF Promised

\* A call without further commits has kept what it promised.
LEMMA EmptyPromised == <<>> \in Seq(Sound) /\ Promised(<<>>)
  BY DEF Promised

\* Promises are kept one after the other.
LEMMA ConcatPromised ==
    ASSUME NEW s \in Seq(Sound), NEW t \in Seq(Sound), Promised(s), Promised(t)
    PROVE  s \o t \in Seq(Sound) /\ Promised(s \o t)
  <1> DEFINE r == s \o t
  <1>1. /\ r \in Seq(Sound) /\ Len(r) = Len(s) + Len(t)
        /\ Len(s) \in Nat /\ Len(t) \in Nat
        /\ \A i \in 1 .. Len(s) + Len(t) : r[i] = IF i <= Len(s) THEN s[i] ELSE t[i - Len(s)]
    BY ConcatProperties, LenProperties
  <1> HIDE DEF r
  <1>2. PICK n \in Nat, m \in Nat : n = Len(s) /\ m = Len(t)
    BY <1>1
  <1>3. \A i \in 1 .. n + m : r[i] = IF i <= n THEN s[i] ELSE t[i - n]
    BY <1>1, <1>2
  <1>4. ASSUME NEW i \in 1 .. n + m, r[i].do \in Moving
        PROVE  \E k \in i + 1 .. n + m : /\ r[k] = RecountOf(r[i].who)
                                         /\ \A j \in i + 1 .. k - 1 : r[j].do \in Settling
    <2>1. CASE i <= n
      <3>1. i \in 1 .. n /\ r[i] = s[i]
        BY <1>3, <2>1
      <3>2. PICK k \in i + 1 .. n : /\ s[k] = RecountOf(s[i].who)
                                    /\ \A j \in i + 1 .. k - 1 : s[j].do \in Settling
        BY <1>2, <1>4, <3>1 DEF Promised
      <3>3. k \in i + 1 .. n + m /\ r[k] = s[k]
        BY <1>3, <3>2
      <3>4. \A j \in i + 1 .. k - 1 : r[j] = s[j]
        BY <1>3, <3>2
      <3> QED BY <3>1, <3>2, <3>3, <3>4
    <2>2. CASE ~(i <= n)
      <3>1. i - n \in 1 .. m /\ r[i] = t[i - n]
        BY <1>3, <2>2
      <3>2. PICK l \in i - n + 1 .. m : /\ t[l] = RecountOf(t[i - n].who)
                                        /\ \A j \in i - n + 1 .. l - 1 : t[j].do \in Settling
        BY <1>2, <1>4, <3>1 DEF Promised
      <3>3. l + n \in i + 1 .. n + m /\ r[l + n] = t[l + n - n] /\ l + n - n = l
        BY <1>3, <2>2, <3>2
      <3>4. ASSUME NEW j \in i + 1 .. l + n - 1
            PROVE  r[j].do \in Settling
        <4>1. j - n \in i - n + 1 .. l - 1 /\ r[j] = t[j - n]
          BY <1>3, <2>2, <3>2, <3>4
        <4> QED BY <3>2, <4>1
      <3> QED BY <3>1, <3>2, <3>3, <3>4
    <2> QED BY <2>1, <2>2
  <1>5. Promised(r)
    BY <1>1, <1>2, <1>4 DEF Promised
  <1> QED BY <1>1, <1>5 DEF r

\* Somebody gets faces, and is recounted before the call can fail.
LEMMA MovePromised ==
    ASSUME NEW c \in Sound, c.do \in Moving, c.who \in Ids,
           NEW s \in Seq(Sound), \A i \in 1 .. Len(s) : s[i].do \in Settling
    PROVE  /\ <<c>> \o s \o Recounted(c.who) \in Seq(Sound)
           /\ Promised(<<c>> \o s \o Recounted(c.who))
  <1> DEFINE a == <<c>> \o s
             b == Recounted(c.who)
             r == a \o b
  <1>1. /\ <<c>> \in Seq(Sound) /\ Len(<<c>>) = 1 /\ <<c>>[1] = c
        /\ b \in Seq(Sound) /\ Len(b) = 1 /\ b[1] = RecountOf(c.who)
    <2>1. RecountOf(c.who) \in Sound
      BY CommitTypes
    <2>2. b = <<RecountOf(c.who)>>
      BY DEF Recounted
    <2> HIDE DEF b
    <2> QED BY <2>1, <2>2
  <1> HIDE DEF b
  <1>2. PICK n \in Nat : n = Len(s)
    BY LenProperties
  <1>3. /\ a \in Seq(Sound) /\ Len(a) = n + 1 /\ a[1] = c
        /\ \A i \in 2 .. n + 1 : a[i] = s[i - 1]
    <2>1. /\ a \in Seq(Sound) /\ Len(a) = 1 + n
          /\ \A i \in 1 .. 1 + n : a[i] = IF i <= 1 THEN <<c>>[i] ELSE s[i - 1]
      BY <1>1, <1>2, ConcatProperties
    <2> QED BY <1>1, <2>1
  <1> HIDE DEF a
  <1>4. /\ r \in Seq(Sound) /\ Len(r) = n + 2
        /\ \A i \in 1 .. n + 1 : r[i] = a[i]
        /\ r[n + 2] = b[1]
    <2>1. /\ r \in Seq(Sound) /\ Len(r) = Len(a) + Len(b)
          /\ \A i \in 1 .. Len(a) + Len(b) : r[i] = IF i <= Len(a) THEN a[i] ELSE b[i - Len(a)]
      BY <1>1, <1>3, ConcatProperties
    <2> HIDE DEF r
    <2>2. Len(a) = n + 1 /\ Len(b) = 1 /\ Len(a) + Len(b) = n + 2
      BY <1>1, <1>3
    <2>3. Len(r) = n + 2
      BY <2>1, <2>2
    <2>4. ASSUME NEW i \in 1 .. n + 2
          PROVE  r[i] = IF i <= n + 1 THEN a[i] ELSE b[i - (n + 1)]
      BY <2>1, <2>2
    <2>5. ASSUME NEW i \in 1 .. n + 1
          PROVE  r[i] = a[i]
      BY <2>4
    <2>6. r[n + 2] = b[1]
      <3>1. n + 2 \in 1 .. n + 2 /\ ~(n + 2 <= n + 1) /\ (n + 2) - (n + 1) = 1
        OBVIOUS
      <3> QED BY <2>4, <3>1
    <2> QED BY <2>1, <2>3, <2>5, <2>6
  <1> HIDE DEF r
  <1>5. /\ r[1] = c /\ r[n + 2] = RecountOf(c.who)
        /\ \A i \in 2 .. n + 1 : r[i].do \in Settling
    <2>1. ASSUME NEW i \in 2 .. n + 1
          PROVE  r[i].do \in Settling
      <3>1. i - 1 \in 1 .. Len(s) /\ r[i] = s[i - 1]
        BY <1>2, <1>3, <1>4
      <3> QED BY <3>1
    <2>2. r[1] = c
      <3>1. 1 \in 1 .. n + 1
        OBVIOUS
      <3> QED BY <1>3, <1>4, <3>1
    <2> QED BY <1>1, <1>4, <2>1, <2>2
  <1>6. RecountOf(c.who).do = "recount"
    BY DEF RecountOf
  <1>7. Promised(r)
    <2>1. ASSUME NEW i \in 1 .. n + 2, r[i].do \in Moving
          PROVE  i = 1
      BY <1>5, <1>6, <2>1 DEF Moving, Settling
    <2>2. n + 2 \in 2 .. n + 2 /\ \A j \in 2 .. (n + 2) - 1 : r[j].do \in Settling
      BY <1>5
    <2> QED BY <1>4, <1>5, <2>1, <2>2 DEF Promised
  <1> QED BY <1>4, <1>7 DEF a, b, r

\* What is left of a call after its first commit.
LEMMA TailPromised ==
    ASSUME NEW s \in Seq(Sound), s # <<>>, Promised(s)
    PROVE  /\ Head(s) \in Sound /\ Tail(s) \in Seq(Sound) /\ Promised(Tail(s))
           /\ Head(s).do \in Moving => Pays(Tail(s), Head(s).who)
  <1>1. /\ Head(s) \in Sound /\ Tail(s) \in Seq(Sound) /\ Head(s) = s[1]
        /\ Len(Tail(s)) = Len(s) - 1 /\ Len(s) \in Nat \ {0}
        /\ \A i \in 1 .. Len(Tail(s)) : Tail(s)[i] = s[i + 1]
    BY HeadTailProperties, EmptySeq
  <1> DEFINE t == Tail(s)
  <1> HIDE DEF t
  <1>2. PICK n \in Nat : n = Len(t) /\ Len(s) = n + 1 /\ \A i \in 1 .. n : t[i] = s[i + 1]
    <2>1. Len(t) \in Nat /\ Len(s) = Len(t) + 1
      BY <1>1 DEF t
    <2>2. \A i \in 1 .. Len(t) : t[i] = s[i + 1]
      BY <1>1 DEF t
    <2> QED BY <2>1, <2>2
  <1>3. ASSUME NEW i \in 1 .. n, t[i].do \in Moving
        PROVE  \E k \in i + 1 .. n : /\ t[k] = RecountOf(t[i].who)
                                     /\ \A j \in i + 1 .. k - 1 : t[j].do \in Settling
    <2>1. i + 1 \in 1 .. Len(s) /\ t[i] = s[i + 1]
      BY <1>2
    <2>2. PICK k \in i + 2 .. n + 1 : /\ s[k] = RecountOf(s[i + 1].who)
                                      /\ \A j \in i + 2 .. k - 1 : s[j].do \in Settling
      BY <1>2, <1>3, <2>1 DEF Promised
    <2>3. k - 1 \in i + 1 .. n /\ t[k - 1] = s[k - 1 + 1] /\ k - 1 + 1 = k
      BY <1>2, <2>2
    <2>4. ASSUME NEW j \in i + 1 .. k - 1 - 1
          PROVE  t[j].do \in Settling
      <3>1. j + 1 \in i + 2 .. k - 1 /\ t[j] = s[j + 1]
        BY <1>2, <2>2
      <3> QED BY <2>2, <3>1
    <2> QED BY <2>1, <2>2, <2>3, <2>4
  <1>4. Promised(t)
    BY <1>2, <1>3 DEF Promised
  <1>5. ASSUME s[1].do \in Moving
        PROVE  Pays(t, s[1].who)
    <2>0. 1 \in 1 .. Len(s) /\ 1 + 1 = 2
      BY <1>2
    <2>1. PICK k \in 2 .. n + 1 : /\ s[k] = RecountOf(s[1].who)
                                  /\ \A j \in 2 .. k - 1 : s[j].do \in Settling
      BY <1>2, <1>5, <2>0 DEF Promised
    <2>2. k - 1 \in 1 .. n /\ t[k - 1] = s[k - 1 + 1] /\ k - 1 + 1 = k
      BY <1>2, <2>1
    <2>3. ASSUME NEW j \in 1 .. k - 1 - 1
          PROVE  t[j].do \in Settling
      <3>1. j + 1 \in 2 .. k - 1 /\ t[j] = s[j + 1]
        BY <1>2, <2>1
      <3> QED BY <2>1, <3>1
    <2> QED BY <1>2, <2>1, <2>2, <2>3 DEF Pays
  <1> QED BY <1>1, <1>4, <1>5 DEF t

\* A commit that may fail comes before every recount it would cost; another one
\* brings the recounts behind it closer.
LEMMA PaysShift ==
    ASSUME NEW s \in Seq(Sound), s # <<>>, NEW p
    PROVE  /\ Pays(s, p) => Head(s).do \in Settling
           /\ Pays(s, p) /\ Head(s) # RecountOf(p) => Pays(Tail(s), p)
  <1>1. /\ Head(s) = s[1] /\ Len(Tail(s)) = Len(s) - 1 /\ Len(s) \in Nat \ {0}
        /\ \A i \in 1 .. Len(Tail(s)) : Tail(s)[i] = s[i + 1]
    BY HeadTailProperties, EmptySeq
  <1> DEFINE t == Tail(s)
  <1> HIDE DEF t
  <1>2. PICK n \in Nat : n = Len(t) /\ Len(s) = n + 1 /\ \A i \in 1 .. n : t[i] = s[i + 1]
    <2>1. Len(t) \in Nat /\ Len(s) = Len(t) + 1
      BY <1>1 DEF t
    <2>2. \A i \in 1 .. Len(t) : t[i] = s[i + 1]
      BY <1>1 DEF t
    <2> QED BY <2>1, <2>2
  <1> SUFFICES ASSUME Pays(s, p)
               PROVE  s[1].do \in Settling /\ (s[1] # RecountOf(p) => Pays(t, p))
    BY <1>1 DEF t
  <1>3. PICK i \in 1 .. n + 1 : s[i] = RecountOf(p) /\ \A j \in 1 .. i - 1 : s[j].do \in Settling
    BY <1>2 DEF Pays
  <1>4. CASE i = 1
    BY <1>3, <1>4 DEF RecountOf, Settling
  <1>5. CASE i # 1
    <2>1. i - 1 \in 1 .. n /\ t[i - 1] = s[i - 1 + 1] /\ i - 1 + 1 = i /\ 1 \in 1 .. i - 1
      BY <1>2, <1>3, <1>5
    <2>2. ASSUME NEW j \in 1 .. i - 1 - 1
          PROVE  t[j].do \in Settling
      <3>1. j + 1 \in 1 .. i - 1 /\ t[j] = s[j + 1]
        BY <1>2, <1>3
      <3> QED BY <1>3, <3>1
    <2> QED BY <1>2, <1>3, <2>1, <2>2 DEF Pays
  <1> QED BY <1>4, <1>5

\* A recount that comes before the call can fail is one that the call owes.
LEMMA PaysOwes ==
    ASSUME NEW a, NEW p, todo[a] \in Seq(Sound), Pays(todo[a], p)
    PROVE  Owes(a, p)
  BY LenProperties DEF Pays, Owes

(***************************************************************************)
(* What the commits have in common.                                        *)
(***************************************************************************)

\* The values that stand for nobody and nothing are no ids.
LEMMA Distinct ==
    /\ NoOwner \notin Ids /\ NoFace \notin Ids /\ Purged \notin Ids
    /\ NoOwner # NoFace /\ NoOwner # Purged /\ NoFace # Purged
  BY PeopleAssumption DEF NoOwner, NoFace, Purged

\* A step leaves the count of p as good as it was.
Kept(p) ==
    /\ p \in people /\ FacesOf(p)' \subseteq FacesOf(p) /\ counted[p] \subseteq counted'[p]
    /\ p \in unpaid => p \in unpaid'

\* A person is kept as long as no table changes.
LEMMA SameTables ==
    ASSUME UNCHANGED <<people, counted, owner, unpaid>>, NEW p \in people'
    PROVE  Kept(p)
  BY DEF Kept, FacesOf

\* The commits a has left after one of them.
LEMMA ThenSound ==
    ASSUME Inv, NEW a \in Actors, todo[a] # <<>>,
           NEW rest \in Seq(Sound), Promised(rest), Then(a, rest)
    PROVE  /\ CallsSound' /\ UNCHANGED <<calls, stops>>
           /\ todo'[a] = rest \o Tail(todo[a])
           /\ \A b \in Actors \ {a} : todo'[b] = todo[b]
  <1>1. todo \in [Actors -> Seq(Sound)] /\ \A b \in Actors : Promised(todo[b])
    BY DEF Inv, CallsSound
  <1>2. todo[a] \in Seq(Sound) /\ Promised(todo[a])
    BY <1>1
  <1>3. Tail(todo[a]) \in Seq(Sound) /\ Promised(Tail(todo[a]))
    BY <1>2, TailPromised
  <1>4. PICK s \in Seq(Sound) : s = rest \o Tail(todo[a]) /\ Promised(s)
    BY <1>3, ConcatPromised
  <1>5. todo' = [todo EXCEPT ![a] = s] /\ UNCHANGED <<calls, stops>>
    BY <1>4 DEF Then
  <1>6. \A b \in Actors : todo'[b] = IF b = a THEN s ELSE todo[b]
    BY <1>1, <1>5
  <1>7. todo' \in [Actors -> Seq(Sound)]
    BY <1>1, <1>5
  <1>8. \A b \in Actors : Promised(todo'[b])
    BY <1>1, <1>4, <1>6
  <1>9. CallsSound'
    BY <1>7, <1>8 DEF CallsSound, Promised
  <1> QED BY <1>4, <1>5, <1>6, <1>9

\* Nothing replaces the commit.
LEMMA NothingLeft ==
    ASSUME Inv, NEW a \in Actors, todo[a] # <<>>, Then(a, <<>>)
    PROVE  /\ CallsSound' /\ UNCHANGED <<calls, stops>>
           /\ todo'[a] = Tail(todo[a])
           /\ \A b \in Actors \ {a} : todo'[b] = todo[b]
  <1>1. Tail(todo[a]) \in Seq(Sound)
    BY TailPromised DEF Inv, CallsSound
  <1>2. <<>> \o Tail(todo[a]) = Tail(todo[a])
    BY <1>1, ConcatEmptySeq
  <1> QED BY <1>2, EmptyPromised, ThenSound

\* The first commit of a, and what its recounts say of the others.
LEMMA FirstCommit ==
    ASSUME Inv, NEW a \in Actors, NEW kinds, Doing(a, kinds)
    PROVE  /\ todo[a] \in Seq(Sound) /\ todo[a] # <<>>
           /\ Head(todo[a]) \in Sound /\ Head(todo[a]).do \in kinds
           /\ \A p : Pays(todo[a], p) => Head(todo[a]).do \in Settling
           /\ \A p : Pays(todo[a], p) /\ Head(todo[a]) # RecountOf(p) => Pays(Tail(todo[a]), p)
           /\ Head(todo[a]).do \in Moving => Pays(Tail(todo[a]), Head(todo[a]).who)
  <1>1. todo[a] \in Seq(Sound) /\ todo[a] # <<>> /\ Promised(todo[a])
    BY DEF Inv, CallsSound, Doing
  <1> QED BY <1>1, TailPromised, PaysShift DEF Doing

\* Whose next commit is neither a recount nor a collection pays nobody.
LEMMA PaysNothing ==
    ASSUME Inv, NEW a \in Actors, NEW kinds, Doing(a, kinds),
           "recount" \notin kinds, "gc" \notin kinds
    PROVE  \A p : ~Pays(todo[a], p)
  <1>1. Head(todo[a]).do \in kinds
    BY FirstCommit
  <1>2. Head(todo[a]).do \notin Settling
    BY <1>1 DEF Settling
  <1> QED BY <1>2, FirstCommit

\* A count is still covered when it was kept, is right, or is about to be made.
LEMMA StillCovered ==
    ASSUME Inv, NEW a \in Actors, \A b \in Actors \ {a} : todo'[b] = todo[b],
           \A p \in people' : \/ FacesOf(p)' \subseteq counted'[p]
                              \/ Pays(todo'[a], p)
                              \/ p \in unpaid'
                              \/ Kept(p) /\ (Pays(todo[a], p) => Pays(todo'[a], p))
    PROVE  Covered'
  <1> SUFFICES ASSUME NEW p \in people'
               PROVE  \/ FacesOf(p)' \subseteq counted'[p] \/ p \in unpaid'
                      \/ \E b \in Actors : Pays(todo'[b], p)
    BY DEF Covered, Pays
  <1>1. CASE Kept(p) /\ (Pays(todo[a], p) => Pays(todo'[a], p))
    <2>1. \/ FacesOf(p) \subseteq counted[p] \/ p \in unpaid
          \/ \E b \in Actors : Pays(todo[b], p)
      BY <1>1 DEF Inv, Covered, Kept
    <2>2. CASE FacesOf(p) \subseteq counted[p]
      BY <1>1, <2>2 DEF Kept
    <2>3. CASE p \in unpaid
      BY <1>1, <2>3 DEF Kept
    <2>4. ASSUME NEW b \in Actors, Pays(todo[b], p)
          PROVE  \E c \in Actors : Pays(todo'[c], p)
      <3>1. CASE b = a
        BY <1>1, <2>4, <3>1
      <3>2. CASE b # a
        <4>1. todo'[b] = todo[b]
          BY <3>2
        <4> QED BY <2>4, <4>1
      <3> QED BY <3>1, <3>2
    <2> QED BY <2>1, <2>2, <2>3, <2>4
  <1> QED BY <1>1

\* A call that stops at a commit that may fail owes nothing.
LEMMA AbortInv ==
    ASSUME Inv, NEW a \in Actors, NEW kinds, Doing(a, kinds), kinds \cap Settling = {}, Abort(a)
    PROVE  Inv'
  <1>1. /\ todo \in [Actors -> Seq(Sound)] /\ \A b \in Actors : Promised(todo[b])
        /\ todo' = [todo EXCEPT ![a] = <<>>]
        /\ UNCHANGED <<tables, files, unpaid, calls, stops>>
    BY DEF Inv, CallsSound, Abort
  <1>2. /\ todo' \in [Actors -> Seq(Sound)]
        /\ \A b \in Actors : todo'[b] = IF b = a THEN <<>> ELSE todo[b]
    BY <1>1, EmptyPromised
  <1>3. \A b \in Actors : Promised(todo'[b])
    BY <1>1, <1>2, EmptyPromised
  <1>4. CallsSound'
    BY <1>2, <1>3 DEF CallsSound, Promised
  <1>5. \A p : ~Pays(todo[a], p)
    BY FirstCommit
  <1>6. \A p \in people' : Kept(p)
    BY <1>1, SameTables DEF tables
  <1>7. Covered'
    BY <1>2, <1>5, <1>6, StillCovered
  <1> QED BY <1>1, <1>4, <1>7 DEF Inv, TablesOK, FilesOK, BoundsOK, tables, files

\* A call that begins.
LEMMA BeginInv ==
    ASSUME Inv, NEW a \in Actors, NEW commits \in Seq(Sound), Promised(commits),
           Begin(a, commits)
    PROVE  Inv'
  <1>1. /\ todo \in [Actors -> Seq(Sound)] /\ \A b \in Actors : Promised(todo[b])
        /\ todo[a] = <<>> /\ todo' = [todo EXCEPT ![a] = commits]
        /\ UNCHANGED <<tables, files, unpaid, stops>>
    BY DEF Inv, CallsSound, Begin
  <1>2. /\ todo' \in [Actors -> Seq(Sound)]
        /\ \A b \in Actors : todo'[b] = IF b = a THEN commits ELSE todo[b]
    BY <1>1
  <1>3. \A b \in Actors : Promised(todo'[b])
    BY <1>1, <1>2
  <1>4. CallsSound'
    BY <1>2, <1>3 DEF CallsSound, Promised
  <1>5. \A p : ~Pays(todo[a], p)
    BY <1>1 DEF Pays
  <1>6. \A p \in people' : Kept(p)
    BY <1>1, SameTables DEF tables
  <1>7. Covered'
    BY <1>2, <1>5, <1>6, StillCovered
  <1>8. BoundsOK'
    BY <1>1, PeopleAssumption DEF Inv, BoundsOK, Begin
  <1> QED BY <1>1, <1>4, <1>7, <1>8 DEF Inv, TablesOK, FilesOK, tables, files

\* Faces that move to q leave everybody else.
LEMMA MoveFaces ==
    ASSUME TablesOK, NEW S, NEW q \in people \cup {NoOwner}, Move(S, q)
    PROVE  /\ owner' \in [Faces -> people \cup {NoOwner, NoFace, Purged}]
           /\ \A p \in Ids : p # q => FacesOf(p)' \subseteq FacesOf(p)
  <1>1. owner' \in [Faces -> people \cup {NoOwner, NoFace, Purged}]
    BY DEF TablesOK, Move
  <1>2. \A p \in Ids : p # q => FacesOf(p)' \subseteq FacesOf(p)
    BY DEF Move, FacesOf, TablesOK
  <1> QED BY <1>1, <1>2

\* Rows that no face refers to any more go.
LEMMA DropRows ==
    ASSUME TablesOK, NEW D \in SUBSET people, Drop(D), used' = used,
           owner' \in [Faces -> people \cup {NoOwner, NoFace, Purged}],
           \A f \in Faces : owner'[f] \notin D
    PROVE  /\ TablesOK'
           /\ \A p \in people' : /\ p \in people /\ counted'[p] = counted[p]
                                 /\ p \in unpaid => p \in unpaid'
  <1>1. /\ people' = people \ D
        /\ name' = [p \in Ids |-> IF p \in D THEN NoName ELSE name[p]]
        /\ counted' = [p \in Ids |-> IF p \in D THEN {} ELSE counted[p]]
        /\ unpaid' = unpaid \ D
    BY DEF Drop
  <1>2. owner' \in [Faces -> people' \cup {NoOwner, NoFace, Purged}]
    BY <1>1
  <1>3. name' \in [Ids -> Names \cup {NoName}] /\ counted' \in [Ids -> SUBSET Faces]
    BY <1>1 DEF TablesOK
  <1>4. TablesOK'
    BY <1>1, <1>2, <1>3 DEF TablesOK
  <1>5. \A p \in people' : /\ p \in people /\ counted'[p] = counted[p]
                           /\ p \in unpaid => p \in unpaid'
    BY <1>1 DEF TablesOK
  <1> QED BY <1>4, <1>5

\* Dropping abandoned people leaves the tables of the others.
LEMMA AbandonedRows ==
    ASSUME TablesOK, NEW D \in SUBSET Abandoned, Drop(D), UNCHANGED <<used, owner>>
    PROVE  TablesOK' /\ \A p \in people' : Kept(p)
  <1>1. D \in SUBSET people /\ \A f \in Faces : owner'[f] \notin D
    BY DEF Abandoned, Unnamed, FacesOf
  <1>2. owner' \in [Faces -> people \cup {NoOwner, NoFace, Purged}]
    BY DEF TablesOK
  <1> QED BY <1>1, <1>2, DropRows DEF Kept, FacesOf

(***************************************************************************)
(* Every commit keeps the invariant.                                       *)
(***************************************************************************)

\* What Look puts in its place, and what a call that assigns a face begins with.
LEMMA AssignPromised ==
    ASSUME TablesOK, NEW f \in Faces, NEW p \in Ids
    PROVE  AssignCommits(f, p) \in Seq(Sound) /\ Promised(AssignCommits(f, p))
  <1> DEFINE c == [do |-> "assign", face |-> f, who |-> p]
             s == IF owner[f] = p THEN <<>> ELSE Settled(owner[f])
  <1>1. c \in Sound /\ c.do \in Moving /\ c.who = p
    BY CommitTypes DEF Moving
  <1>2. s \in Seq(Sound) /\ \A i \in 1 .. Len(s) : s[i].do \in Settling
    <2>1. CASE s = <<>>
      <3> HIDE DEF s
      <3> QED BY <2>1
    <2>2. CASE s # <<>>
      <3>1. /\ owner[f] \in Ids
            /\ s = <<RecountOf(owner[f])>> \o <<[do |-> "gc", who |-> owner[f]]>>
        BY <2>2 DEF Settled, Recounted
      <3>2. RecountOf(owner[f]) \in Sound /\ [do |-> "gc", who |-> owner[f]] \in Sound
        BY <3>1, CommitTypes
      <3>3. RecountOf(owner[f]).do = "recount" /\ [do |-> "gc", who |-> owner[f]].do = "gc"
        BY DEF RecountOf
      <3> HIDE DEF s
      <3>4. PICK x \in Sound, y \in Sound : s = <<x>> \o <<y>> /\ x.do = "recount" /\ y.do = "gc"
        BY <3>1, <3>2, <3>3
      <3>5. /\ <<x>> \in Seq(Sound) /\ Len(<<x>>) = 1 /\ <<x>>[1] = x
            /\ <<y>> \in Seq(Sound) /\ Len(<<y>>) = 1 /\ <<y>>[1] = y
        OBVIOUS
      <3>6. /\ s \in Seq(Sound) /\ Len(s) = 2
            /\ \A i \in 1 .. 2 : s[i] = IF i <= 1 THEN <<x>>[i] ELSE <<y>>[i - 1]
        BY <3>4, <3>5, ConcatProperties
      <3>7. s[1] = x /\ s[2] = y
        BY <3>5, <3>6
      <3> QED BY <3>4, <3>6, <3>7 DEF Settling
    <2> QED BY <2>1, <2>2
  <1>3. AssignCommits(f, p) = <<c>> \o s \o Recounted(c.who)
    BY DEF AssignCommits
  <1> HIDE DEF c, s
  <1> QED BY <1>1, <1>2, <1>3, MovePromised

LEMMA LookInv ==
    ASSUME Inv, NEW a \in Actors, Look(a)
    PROVE  Inv'
  <1>1. Doing(a, {"look"})
    BY DEF Look
  <1>2. PICK c \in Sound : c = Head(todo[a]) /\ c.do = "look"
    BY <1>1, FirstCommit
  <1>3. c.face \in Faces /\ c.who \in Ids
    BY <1>2, CommitFields
  <1>4. PICK rest \in Seq(Sound) : Promised(rest) /\ rest = AssignCommits(c.face, c.who)
    BY <1>3, AssignPromised DEF Inv
  <1>5. Then(a, rest) /\ UNCHANGED <<tables, files, unpaid>>
    BY <1>2, <1>4 DEF Look
  <1>6. /\ CallsSound' /\ UNCHANGED <<calls, stops>>
        /\ \A b \in Actors \ {a} : todo'[b] = todo[b]
    BY <1>1, <1>4, <1>5, ThenSound DEF Doing
  <1>7. \A p : ~Pays(todo[a], p)
    BY <1>1, PaysNothing
  <1>8. \A p \in people' : Kept(p)
    BY <1>5, SameTables DEF tables
  <1>9. Covered'
    BY <1>6, <1>7, <1>8, StillCovered
  <1> QED BY <1>5, <1>6, <1>9 DEF Inv, TablesOK, FilesOK, BoundsOK, tables, files

LEMMA AssignInv ==
    ASSUME Inv, NEW a \in Actors, CommitAssign(a)
    PROVE  Inv'
  <1>1. Doing(a, {"assign", "take"})
    BY DEF CommitAssign
  <1>2. PICK c \in Sound : c = Head(todo[a]) /\ c.do \in {"assign", "take"}
    BY <1>1, FirstCommit
  <1>3. c.who \in Ids
    BY <1>2, CommitFields
  <1> DEFINE S == IF c.do = "take" THEN c.faces ELSE {c.face}
  <1>4. CASE c.who \notin people /\ S \cap Stored # {}
    <2>1. Abort(a)
      BY <1>2, <1>4 DEF CommitAssign
    <2> QED BY <1>1, <2>1, AbortInv DEF Settling
  <1>5. CASE ~(c.who \notin people /\ S \cap Stored # {})
    <2>1. /\ Move(S, c.who) /\ Then(a, <<>>)
          /\ UNCHANGED <<people, used, name, counted, files, unpaid>>
      BY <1>2, <1>5 DEF CommitAssign
    <2>2. /\ CallsSound' /\ UNCHANGED <<calls, stops>> /\ todo'[a] = Tail(todo[a])
          /\ \A b \in Actors \ {a} : todo'[b] = todo[b]
      BY <1>1, <2>1, NothingLeft DEF Doing
    <2>3. Pays(todo'[a], c.who)
      BY <1>1, <1>2, <2>2, FirstCommit DEF Moving
    <2>4. \A p : ~Pays(todo[a], p)
      BY <1>1, PaysNothing
    <2>5. /\ owner' \in [Faces -> people \cup {NoOwner, NoFace, Purged}]
          /\ \A p \in Ids : p # c.who => FacesOf(p)' \subseteq FacesOf(p)
      <3>1. CASE c.who \in people
        BY <2>1, <3>1, MoveFaces DEF Inv
      <3>2. CASE S \cap Stored = {}
        <4>1. owner' = owner
          BY <2>1, <3>2 DEF Move, Inv, TablesOK
        <4> QED BY <4>1 DEF Inv, TablesOK, FacesOf
      <3> QED BY <1>5, <3>1, <3>2
    <2>6. \A p \in people' : p # c.who => Kept(p)
      BY <2>1, <2>5 DEF Kept, Inv, TablesOK
    <2>7. Covered'
      BY <2>2, <2>3, <2>4, <2>6, StillCovered
    <2>8. TablesOK'
      BY <2>1, <2>5 DEF Inv, TablesOK
    <2> QED BY <2>1, <2>2, <2>7, <2>8 DEF Inv, FilesOK, BoundsOK, files
  <1> QED BY <1>4, <1>5

LEMMA UnassignInv ==
    ASSUME Inv, NEW a \in Actors, CommitUnassign(a)
    PROVE  Inv'
  <1>1. /\ Doing(a, {"unassign"}) /\ Move({Head(todo[a]).face}, NoOwner) /\ Then(a, <<>>)
        /\ UNCHANGED <<people, used, name, counted, files, unpaid>>
    BY DEF CommitUnassign
  <1>2. /\ CallsSound' /\ UNCHANGED <<calls, stops>>
        /\ \A b \in Actors \ {a} : todo'[b] = todo[b]
    BY <1>1, NothingLeft DEF Doing
  <1>3. \A p : ~Pays(todo[a], p)
    BY <1>1, PaysNothing
  <1>4. /\ owner' \in [Faces -> people \cup {NoOwner, NoFace, Purged}]
        /\ \A p \in Ids : p # NoOwner => FacesOf(p)' \subseteq FacesOf(p)
    BY <1>1, MoveFaces DEF Inv
  <1>5. \A p \in people' : Kept(p)
    BY <1>1, <1>4, Distinct DEF Kept, Inv, TablesOK
  <1>6. Covered'
    BY <1>2, <1>3, <1>5, StillCovered
  <1>7. TablesOK'
    BY <1>1, <1>4 DEF Inv, TablesOK
  <1> QED BY <1>1, <1>2, <1>6, <1>7 DEF Inv, FilesOK, BoundsOK, files

LEMMA RecountInv ==
    ASSUME Inv, NEW a \in Actors, Recount(a)
    PROVE  Inv'
  <1>1. Doing(a, {"recount"})
    BY DEF Recount
  <1>2. PICK q \in Ids : q = Head(todo[a]).who
    BY <1>1, FirstCommit, CommitFields
  <1>3. /\ counted' = [counted EXCEPT ![q] = IF q \in people THEN FacesOf(q) ELSE @]
        /\ unpaid' = unpaid \ {q} /\ Then(a, <<>>)
        /\ UNCHANGED <<people, used, name, owner, files>>
    BY <1>2 DEF Recount
  <1>4. /\ CallsSound' /\ UNCHANGED <<calls, stops>> /\ todo'[a] = Tail(todo[a])
        /\ \A b \in Actors \ {a} : todo'[b] = todo[b]
    BY <1>1, <1>3, NothingLeft DEF Doing
  <1>5. counted' \in [Ids -> SUBSET Faces]
    BY <1>3 DEF Inv, TablesOK, FacesOf
  <1>6. TablesOK'
    BY <1>3, <1>5 DEF Inv, TablesOK
  <1>7. ASSUME NEW p \in people'
        PROVE  \/ FacesOf(p)' \subseteq counted'[p]
               \/ Kept(p) /\ (Pays(todo[a], p) => Pays(todo'[a], p))
    <2>1. p \in people /\ p \in Ids /\ FacesOf(p)' = FacesOf(p)
      BY <1>3 DEF Inv, TablesOK, FacesOf
    <2>2. CASE p = q
      BY <1>3, <2>1, <2>2 DEF Inv, TablesOK
    <2>3. CASE p # q
      <3>1. Kept(p)
        BY <1>3, <2>1, <2>3 DEF Kept, Inv, TablesOK
      <3>2. Head(todo[a]) # RecountOf(p)
        BY <1>2, <2>3 DEF RecountOf
      <3> QED BY <1>1, <1>4, <3>1, <3>2, FirstCommit
    <2> QED BY <2>2, <2>3
  <1>8. Covered'
    BY <1>4, <1>7, StillCovered
  <1> QED BY <1>3, <1>4, <1>6, <1>8 DEF Inv, FilesOK, BoundsOK, files

LEMMA GcInv ==
    ASSUME Inv, NEW a \in Actors, Gc(a)
    PROVE  Inv'
  <1>1. PICK D \in SUBSET Abandoned : Drop(D)
    BY DEF Gc
  <1>2. Doing(a, {"gc"}) /\ Then(a, <<>>) /\ UNCHANGED <<used, owner, files>>
    BY DEF Gc
  <1>3. /\ CallsSound' /\ UNCHANGED <<calls, stops>> /\ todo'[a] = Tail(todo[a])
        /\ \A b \in Actors \ {a} : todo'[b] = todo[b]
    BY <1>2, NothingLeft DEF Doing
  <1>4. \A p : Pays(todo[a], p) => Pays(todo'[a], p)
    <2>1. \A p : Head(todo[a]) # RecountOf(p)
      BY <1>2 DEF Doing, RecountOf
    <2> QED BY <1>2, <1>3, <2>1, FirstCommit
  <1>5. TablesOK' /\ \A p \in people' : Kept(p)
    BY <1>1, <1>2, AbandonedRows DEF Inv
  <1>6. Covered'
    BY <1>3, <1>4, <1>5, StillCovered
  <1> QED BY <1>2, <1>3, <1>5, <1>6 DEF Inv, FilesOK, BoundsOK, files

LEMMA SweepInv ==
    ASSUME Inv, NEW a \in Actors, Sweep(a)
    PROVE  Inv'
  <1>1. PICK D \in SUBSET Abandoned : Drop(D)
    BY DEF Sweep, SweepRows
  <1>2. /\ Doing(a, {"sweep"}) /\ Then(a, <<>>) /\ UNCHANGED <<used, owner, sidecar>>
        /\ dirty' = (dirty \/ a = Clusterer)
    BY DEF Sweep
  <1>3. /\ CallsSound' /\ UNCHANGED <<calls, stops>>
        /\ \A b \in Actors \ {a} : todo'[b] = todo[b]
    BY <1>2, NothingLeft DEF Doing
  <1>4. \A p : ~Pays(todo[a], p)
    BY <1>2, PaysNothing
  <1>5. TablesOK' /\ \A p \in people' : Kept(p)
    BY <1>1, <1>2, AbandonedRows DEF Inv
  <1>6. Covered'
    BY <1>3, <1>4, <1>5, StillCovered
  <1>7. dirty' \in BOOLEAN
    BY <1>2
  <1> QED BY <1>2, <1>3, <1>5, <1>6, <1>7 DEF Inv, FilesOK, BoundsOK

LEMMA DeleteInv ==
    ASSUME Inv, NEW a \in Actors, Delete(a)
    PROVE  Inv'
  <1>1. PICK D \in SUBSET people : Drop(D) /\ Move({f \in Faces : owner[f] \in D}, NoOwner)
    BY DEF Delete
  <1>2. Doing(a, {"delete"}) /\ Then(a, <<>>) /\ UNCHANGED <<used, files>>
    BY DEF Delete
  <1>3. /\ CallsSound' /\ UNCHANGED <<calls, stops>>
        /\ \A b \in Actors \ {a} : todo'[b] = todo[b]
    BY <1>2, NothingLeft DEF Doing
  <1>4. \A p : ~Pays(todo[a], p)
    <2>1. Head(todo[a]).do \notin Settling
      BY <1>2 DEF Doing, Settling
    <2> QED BY <1>2, <2>1, FirstCommit
  <1>5. /\ owner' \in [Faces -> people \cup {NoOwner, NoFace, Purged}]
        /\ \A p \in Ids : p # NoOwner => FacesOf(p)' \subseteq FacesOf(p)
    BY <1>1, MoveFaces DEF Inv
  <1>6. ASSUME NEW f \in Faces
        PROVE  owner'[f] \notin D
    BY <1>1, Distinct DEF Move, Stored, Inv, TablesOK
  <1>7. /\ TablesOK'
        /\ \A p \in people' : /\ p \in people /\ counted'[p] = counted[p]
                              /\ p \in unpaid => p \in unpaid'
    BY <1>1, <1>2, <1>5, <1>6, DropRows DEF Inv
  <1>8. \A p \in people' : Kept(p)
    BY <1>5, <1>7, Distinct DEF Kept, Inv, TablesOK
  <1>9. Covered'
    BY <1>3, <1>4, <1>8, StillCovered
  <1> QED BY <1>2, <1>3, <1>7, <1>9 DEF Inv, FilesOK, BoundsOK, files

\* A row without faces.
LEMMA NewRow ==
    ASSUME TablesOK, NEW p \in Ids \ used, NEW n \in Names \cup {NoName},
           people' = people \cup {p}, used' = used \cup {p}, name' = [name EXCEPT ![p] = n],
           UNCHANGED <<counted, owner, unpaid>>
    PROVE  TablesOK' /\ FacesOf(p)' = {} /\ \A q \in people' : q # p => Kept(q)
  <1>1. FacesOf(p)' = {}
    BY Distinct DEF TablesOK, FacesOf
  <1>2. owner' \in [Faces -> people' \cup {NoOwner, NoFace, Purged}]
    BY DEF TablesOK
  <1>3. TablesOK'
    BY <1>2 DEF TablesOK
  <1>4. \A q \in people' : q # p => Kept(q)
    BY DEF Kept, FacesOf
  <1> QED BY <1>1, <1>3, <1>4

LEMMA CreateInv ==
    ASSUME Inv, NEW a \in Actors, Create(a)
    PROVE  Inv'
  <1>1. Doing(a, {"create"}) /\ UNCHANGED <<counted, owner, files, unpaid>>
    BY DEF Create
  <1>2. PICK c \in Sound : c = Head(todo[a]) /\ c.do = "create"
    BY <1>1, FirstCommit
  <1>3. c.name \in Names \cup {NoName} /\ c.faces \in SUBSET Faces /\ c.faces # {}
    BY <1>2, CommitFields
  <1>4. PICK p \in Ids \ used :
          /\ people' = people \cup {p} /\ used' = used \cup {p}
          /\ name' = [name EXCEPT ![p] = c.name]
          /\ IF c.name = NoName
             THEN Then(a, <<[do |-> "take", faces |-> c.faces, who |-> p]>> \o Recounted(p))
             ELSE Then(a, <<[do |-> "look", face |-> CHOOSE f \in c.faces : TRUE, who |-> p],
                            [do |-> "spread", who |-> p]>>)
    BY <1>2 DEF Create
  <1>5. \E rest \in Seq(Sound) : Promised(rest) /\ Then(a, rest)
    <2>1. CASE c.name = NoName
      <3>1. PICK d \in Sound : d = [do |-> "take", faces |-> c.faces, who |-> p]
        BY <1>3, CommitTypes
      <3>2. d.do \in Moving /\ d.who = p /\ d.who \in Ids
        BY <3>1 DEF Moving
      <3>3. /\ <<>> \in Seq(Sound) /\ \A i \in 1 .. Len(<<>>) : <<>>[i].do \in Settling
        OBVIOUS
      <3>4. /\ <<d>> \o <<>> \o Recounted(d.who) \in Seq(Sound)
            /\ Promised(<<d>> \o <<>> \o Recounted(d.who))
        BY <3>2, <3>3, MovePromised
      <3>5. <<d>> \o <<>> = <<d>>
        OBVIOUS
      <3> QED BY <1>4, <2>1, <3>1, <3>2, <3>4, <3>5
    <2>2. CASE c.name # NoName
      <3>1. PICK f \in Faces : f = CHOOSE g \in c.faces : TRUE
        BY <1>3
      <3>2. PICK d \in Sound, e \in Sound : /\ d = [do |-> "look", face |-> f, who |-> p]
                                            /\ e = [do |-> "spread", who |-> p]
        BY <3>1, CommitTypes
      <3>3. d.do \notin Moving /\ e.do \notin Moving
        BY <3>2 DEF Moving
      <3>4. <<d, e>> \in Seq(Sound) /\ Promised(<<d, e>>)
        BY <3>3 DEF Promised
      <3> QED BY <1>4, <2>2, <3>1, <3>2, <3>4
    <2> QED BY <2>1, <2>2
  <1>6. /\ CallsSound' /\ UNCHANGED <<calls, stops>>
        /\ \A b \in Actors \ {a} : todo'[b] = todo[b]
    BY <1>1, <1>5, ThenSound DEF Doing
  <1>7. \A q : ~Pays(todo[a], q)
    BY <1>1, PaysNothing
  <1>8. TablesOK' /\ FacesOf(p)' = {} /\ \A q \in people' : q # p => Kept(q)
    BY <1>1, <1>3, <1>4, NewRow DEF Inv
  <1>9. Covered'
    BY <1>6, <1>7, <1>8, StillCovered
  <1> QED BY <1>1, <1>6, <1>8, <1>9 DEF Inv, FilesOK, BoundsOK, files

LEMMA MergeInv ==
    ASSUME Inv, NEW a \in Actors, Merge(a)
    PROVE  Inv'
  <1>1. Doing(a, {"merge"})
    BY DEF Merge
  <1>2. PICK c \in Sound : c = Head(todo[a]) /\ c.do = "merge"
    BY <1>1, FirstCommit
  <1>3. /\ c.who \in Ids /\ c.from \in SUBSET Ids /\ c.who \notin c.from
        /\ c.name \in Names \cup {NoName}
    BY <1>2, CommitFields
  <1> DEFINE moved == {f \in Faces : owner[f] \in c.from}
             D     == c.from \cap people
  <1>4. CASE c.who \notin people /\ moved # {}
    <2>1. Abort(a)
      BY <1>2, <1>4 DEF Merge
    <2> QED BY <1>1, <2>1, AbortInv DEF Settling
  <1>5. CASE ~(c.who \notin people /\ moved # {})
    <2>1. /\ Move(moved, c.who) /\ Then(a, <<>>) /\ UNCHANGED <<used, files>>
          /\ people' = people \ D /\ unpaid' = unpaid \ D
          /\ counted' = [p \in Ids |-> IF p \in D THEN {} ELSE counted[p]]
          /\ name' = [p \in Ids |-> IF p \in D THEN NoName
                                    ELSE IF p = c.who /\ p \in people /\ c.name # NoName
                                    THEN c.name ELSE name[p]]
      BY <1>2, <1>5 DEF Merge
    <2>2. /\ CallsSound' /\ UNCHANGED <<calls, stops>> /\ todo'[a] = Tail(todo[a])
          /\ \A b \in Actors \ {a} : todo'[b] = todo[b]
      BY <1>1, <2>1, NothingLeft DEF Doing
    <2>3. Pays(todo'[a], c.who)
      BY <1>1, <1>2, <2>2, FirstCommit DEF Moving
    <2>4. \A p : ~Pays(todo[a], p)
      BY <1>1, PaysNothing
    <2>5. /\ owner' \in [Faces -> people \cup {NoOwner, NoFace, Purged}]
          /\ \A p \in Ids : p # c.who => FacesOf(p)' \subseteq FacesOf(p)
      <3>1. CASE c.who \in people
        BY <2>1, <3>1, MoveFaces DEF Inv
      <3>2. CASE moved = {}
        <4>1. owner' = owner
          BY <2>1, <3>2 DEF Move, Inv, TablesOK
        <4> QED BY <4>1 DEF Inv, TablesOK, FacesOf
      <3> QED BY <1>5, <3>1, <3>2
    <2>6. ASSUME NEW f \in Faces
          PROVE  owner'[f] \notin D
      <3>1. CASE owner[f] \in c.from
        <4>1. f \in moved \cap Stored
          BY <1>3, <3>1, Distinct DEF Stored
        <4>2. owner'[f] = c.who
          BY <2>1, <4>1 DEF Move
        <4> QED BY <1>3, <4>2
      <3>2. CASE owner[f] \notin c.from
        BY <2>1, <3>2 DEF Move
      <3> QED BY <3>1, <3>2
    <2>7. owner' \in [Faces -> people' \cup {NoOwner, NoFace, Purged}]
      BY <2>1, <2>5, <2>6
    <2>8. name' \in [Ids -> Names \cup {NoName}] /\ counted' \in [Ids -> SUBSET Faces]
      BY <1>3, <2>1 DEF Inv, TablesOK
    <2>9. TablesOK'
      BY <2>1, <2>7, <2>8 DEF Inv, TablesOK
    <2>10. \A p \in people' : p # c.who => Kept(p)
      BY <2>1, <2>5 DEF Kept, Inv, TablesOK
    <2>11. Covered'
      BY <2>2, <2>3, <2>4, <2>10, StillCovered
    <2> QED BY <2>1, <2>2, <2>9, <2>11 DEF Inv, FilesOK, BoundsOK, files
  <1> QED BY <1>4, <1>5

LEMMA RenameInv ==
    ASSUME Inv, NEW a \in Actors, Rename(a)
    PROVE  Inv'
  <1>1. /\ Doing(a, {"name"}) /\ Then(a, <<>>)
        /\ UNCHANGED <<people, used, counted, owner, files, unpaid>>
    BY DEF Rename
  <1>2. PICK c \in Sound : c = Head(todo[a]) /\ c.do = "name"
    BY <1>1, FirstCommit
  <1>3. c.name \in Names /\ c.who \in Ids
    BY <1>2, CommitFields
  <1>4. name' = [name EXCEPT ![c.who] = IF c.who \in people THEN c.name ELSE @]
    BY <1>2 DEF Rename
  <1>5. /\ CallsSound' /\ UNCHANGED <<calls, stops>>
        /\ \A b \in Actors \ {a} : todo'[b] = todo[b]
    BY <1>1, NothingLeft DEF Doing
  <1>6. \A p : ~Pays(todo[a], p)
    <2>1. Head(todo[a]).do \notin Settling
      BY <1>2 DEF Settling
    <2> QED BY <1>1, <2>1, FirstCommit
  <1>7. \A p \in people' : Kept(p)
    BY <1>1, SameTables
  <1>8. Covered'
    BY <1>5, <1>6, <1>7, StillCovered
  <1>9. TablesOK'
    BY <1>1, <1>3, <1>4 DEF Inv, TablesOK
  <1> QED BY <1>1, <1>5, <1>8, <1>9 DEF Inv, FilesOK, BoundsOK, files

LEMMA PurgeInv ==
    ASSUME Inv, NEW a \in Actors, Purge(a)
    PROVE  Inv'
  <1>1. /\ Doing(a, {"purge"}) /\ Then(a, <<>>) /\ dirty' = TRUE
        /\ UNCHANGED <<people, used, name, sidecar>>
    BY DEF Purge
  <1>2. PICK c \in Sound : c = Head(todo[a]) /\ c.do = "purge"
    BY <1>1, FirstCommit
  <1>3. c.face \in Faces
    BY <1>2, CommitFields
  <1>4. /\ owner' = [owner EXCEPT ![c.face] = Purged]
        /\ IF c.old \in people
           THEN /\ counted' = [counted EXCEPT ![c.old] = FacesOf(c.old) \ {c.face}]
                /\ unpaid' = unpaid \ {c.old}
           ELSE UNCHANGED <<counted, unpaid>>
    BY <1>2 DEF Purge
  <1>5. /\ CallsSound' /\ UNCHANGED <<calls, stops>>
        /\ \A b \in Actors \ {a} : todo'[b] = todo[b]
    BY <1>1, NothingLeft DEF Doing
  <1>6. \A p : ~Pays(todo[a], p)
    BY <1>1, PaysNothing
  <1>7. owner' \in [Faces -> people \cup {NoOwner, NoFace, Purged}]
    BY <1>3, <1>4 DEF Inv, TablesOK
  <1>8. ASSUME NEW p \in Ids
        PROVE  FacesOf(p)' = FacesOf(p) \ {c.face}
    BY <1>3, <1>4, Distinct DEF FacesOf, Inv, TablesOK
  <1>9. counted' \in [Ids -> SUBSET Faces] /\ unpaid' \subseteq Ids
    BY <1>4 DEF Inv, TablesOK, FacesOf
  <1>10. TablesOK'
    BY <1>1, <1>7, <1>9 DEF Inv, TablesOK
  <1>11. ASSUME NEW p \in people'
         PROVE  FacesOf(p)' \subseteq counted'[p] \/ Kept(p)
    <2>1. p \in people /\ p \in Ids /\ FacesOf(p)' = FacesOf(p) \ {c.face}
      BY <1>1, <1>8 DEF Inv, TablesOK
    <2>2. CASE p = c.old
      BY <1>4, <2>1, <2>2 DEF Inv, TablesOK
    <2>3. CASE p # c.old
      BY <1>4, <2>1, <2>3 DEF Kept, Inv, TablesOK
    <2> QED BY <2>2, <2>3
  <1>12. Covered'
    BY <1>5, <1>6, <1>11, StillCovered
  <1> QED BY <1>1, <1>5, <1>10, <1>12 DEF Inv, FilesOK, BoundsOK

\* The look-alikes, one after the other.
LEMMA SomeOrder ==
    ASSUME NEW S \in SUBSET Faces
    PROVE  SetToSeq(S) \in [1 .. Cardinality(S) -> S] /\ Cardinality(S) \in Nat
  <1>1. IsFiniteSet(S)
    BY PeopleAssumption, FS_Subset
  <1>2. Cardinality(S) \in Nat /\ ExistsBijection(1 .. Cardinality(S), S)
    BY <1>1, FS_CardinalityType
  <1>3. \E f \in [1 .. Cardinality(S) -> S] : IsInjective(f)
    BY <1>2 DEF ExistsBijection, Bijection, Injection
  <1> QED BY <1>2, <1>3 DEF SetToSeq

\* A loop over faces that only looks promises nothing.
LEMMA LooksPromised ==
    ASSUME NEW S \in SUBSET Faces, NEW p \in Ids
    PROVE  LET fs == SetToSeq(S)
               r  == [i \in DOMAIN fs |-> [do |-> "look", face |-> fs[i], who |-> p]]
           IN  r \in Seq(Sound) /\ Promised(r)
  <1>1. PICK n \in Nat : SetToSeq(S) \in [1 .. n -> S]
    BY SomeOrder
  <1> DEFINE fs == SetToSeq(S)
             r  == [i \in DOMAIN fs |-> [do |-> "look", face |-> fs[i], who |-> p]]
  <1>2. DOMAIN fs = 1 .. n /\ \A i \in 1 .. n : fs[i] \in Faces
    BY <1>1
  <1>3. r = [i \in 1 .. n |-> [do |-> "look", face |-> fs[i], who |-> p]]
    BY <1>2
  <1> HIDE DEF fs, r
  <1>4. \A i \in 1 .. n : [do |-> "look", face |-> fs[i], who |-> p] \in Sound
    BY <1>2, CommitTypes
  <1>5. r \in [1 .. n -> Sound] /\ \A i \in 1 .. n : r[i].do = "look"
    BY <1>3, <1>4
  <1>6. r \in Seq(Sound) /\ Len(r) = n
    BY <1>5
  <1>7. Promised(r)
    BY <1>5, <1>6, StillPromised DEF Moving
  <1> QED BY <1>6, <1>7 DEF fs, r

LEMMA SpreadInv ==
    ASSUME Inv, NEW a \in Actors, Spread(a)
    PROVE  Inv'
  <1>1. Doing(a, {"spread", "spread bulk"}) /\ UNCHANGED <<tables, files, unpaid>>
    BY DEF Spread
  <1>2. PICK c \in Sound : c = Head(todo[a]) /\ c.do \in {"spread", "spread bulk"}
    BY <1>1, FirstCommit
  <1>3. c.who \in Ids
    BY <1>2, CommitFields
  <1>4. Searched \in SUBSET Faces
    BY DEF Searched, Unassigned, FacesOf, Inv, FilesOK
  <1>5. PICK S \in SUBSET Faces :
          CASE c.do = "spread" ->
                 LET fs == SetToSeq(S)
                 IN  Then(a, [i \in DOMAIN fs |->
                                [do |-> "look", face |-> fs[i], who |-> c.who]])
            [] c.do = "spread bulk" /\ S # {} ->
                 Then(a, <<[do |-> "take", faces |-> S, who |-> c.who]>> \o Recounted(c.who))
            [] OTHER -> Then(a, <<>>)
    BY <1>2, <1>4 DEF Spread
  <1>6. \E rest \in Seq(Sound) : Promised(rest) /\ Then(a, rest)
    <2>1. CASE c.do = "spread"
      BY <1>3, <1>5, <2>1, LooksPromised
    <2>2. CASE c.do = "spread bulk" /\ S # {}
      <3>1. PICK d \in Sound : d = [do |-> "take", faces |-> S, who |-> c.who]
        BY <1>3, CommitTypes
      <3>2. d.do \in Moving /\ d.who = c.who /\ d.who \in Ids
        BY <1>3, <3>1 DEF Moving
      <3>3. /\ <<>> \in Seq(Sound) /\ \A i \in 1 .. Len(<<>>) : <<>>[i].do \in Settling
        OBVIOUS
      <3>4. /\ <<d>> \o <<>> \o Recounted(d.who) \in Seq(Sound)
            /\ Promised(<<d>> \o <<>> \o Recounted(d.who))
        BY <3>2, <3>3, MovePromised
      <3>5. <<d>> \o <<>> = <<d>>
        OBVIOUS
      <3> QED BY <1>5, <2>2, <3>1, <3>2, <3>4, <3>5
    <2>3. CASE c.do = "spread bulk" /\ S = {}
      BY <1>5, <2>3, EmptyPromised
    <2> QED BY <1>2, <2>1, <2>2, <2>3
  <1>7. /\ CallsSound' /\ UNCHANGED <<calls, stops>>
        /\ \A b \in Actors \ {a} : todo'[b] = todo[b]
    BY <1>1, <1>6, ThenSound DEF Doing
  <1>8. \A p : ~Pays(todo[a], p)
    <2>1. Head(todo[a]).do \notin Settling
      BY <1>2 DEF Settling
    <2> QED BY <1>1, <2>1, FirstCommit
  <1>9. \A p \in people' : Kept(p)
    BY <1>1, SameTables DEF tables
  <1>10. Covered'
    BY <1>7, <1>8, <1>9, StillCovered
  <1> QED BY <1>1, <1>7, <1>10 DEF Inv, TablesOK, FilesOK, BoundsOK, tables, files

LEMMA CommitInv ==
    ASSUME Inv, NEW a \in Actors, CommitOf(a)
    PROVE  Inv'
  BY LookInv, AssignInv, UnassignInv, RecountInv, GcInv, SweepInv, DeleteInv, CreateInv,
     MergeInv, RenameInv, PurgeInv, SpreadInv DEF CommitOf

(***************************************************************************)
(* Calls begin with commits that keep their promises.                      *)
(***************************************************************************)

LEMMA AssignToInv ==
    ASSUME Inv, NEW a \in Actors, NEW f \in Faces, NEW p, AssignTo(a, f, p)
    PROVE  Inv'
  <1>1. p \in Ids /\ Begin(a, AssignCommits(f, p) \o <<[do |-> "spread", who |-> p]>>)
    BY DEF AssignTo, Inv, TablesOK
  <1>2. PICK s \in Seq(Sound) : Promised(s) /\ s = AssignCommits(f, p)
    BY <1>1, AssignPromised DEF Inv
  <1>3. PICK c \in Sound : c = [do |-> "spread", who |-> p] /\ c.do \notin Moving
    BY <1>1, CommitTypes DEF Moving
  <1>4. <<c>> \in Seq(Sound) /\ Promised(<<c>>)
    BY <1>3, OnePromised
  <1>5. PICK r \in Seq(Sound) : Promised(r) /\ r = s \o <<c>>
    BY <1>2, <1>4, ConcatPromised
  <1> QED BY <1>1, <1>2, <1>3, <1>5, BeginInv

\* A call of one commit that gives nobody a face.
LEMMA BeginOneInv ==
    ASSUME Inv, NEW a \in Actors, NEW c \in Sound, c.do \notin Moving, Begin(a, <<c>>)
    PROVE  Inv'
  BY OnePromised, BeginInv

LEMMA AssignNewInv ==
    ASSUME Inv, NEW a \in Actors, NEW f \in Faces, NEW n \in Names, AssignNew(a, f, n)
    PROVE  Inv'
  <1>1. PICK S \in SUBSET Faces : S = {f} /\ S # {}
    OBVIOUS
  <1>2. n \in Names \cup {NoName}
    OBVIOUS
  <1>3. PICK c \in Sound : c = [do |-> "create", name |-> n, faces |-> S]
    BY <1>1, <1>2, CallTypes
  <1>4. c.do \notin Moving
    BY <1>3 DEF Moving
  <1> QED BY <1>1, <1>3, <1>4, BeginOneInv DEF AssignNew

\* The recount and the garbage collection of a former owner.
LEMMA SettledPromised ==
    ASSUME NEW o
    PROVE  Settled(o) \in Seq(Sound) /\ Promised(Settled(o))
  <1>1. CASE o \in Ids
    <2>1. PICK x \in Sound, y \in Sound :
            /\ x = RecountOf(o) /\ x.do \notin Moving
            /\ y = [do |-> "gc", who |-> o] /\ y.do \notin Moving
      BY <1>1, CommitTypes DEF RecountOf, Moving
    <2>2. /\ <<x>> \in Seq(Sound) /\ Promised(<<x>>)
          /\ <<y>> \in Seq(Sound) /\ Promised(<<y>>)
      BY <2>1, OnePromised
    <2>3. <<x>> \o <<y>> \in Seq(Sound) /\ Promised(<<x>> \o <<y>>)
      BY <2>2, ConcatPromised
    <2>4. Settled(o) = <<x>> \o <<y>>
      BY <1>1, <2>1 DEF Settled, Recounted
    <2> QED BY <2>3, <2>4
  <1>2. CASE o \notin Ids
    BY <1>2, EmptyPromised DEF Settled
  <1> QED BY <1>1, <1>2

LEMMA BeginUnassignInv ==
    ASSUME Inv, NEW a \in Actors, NEW f \in Faces, Unassign(a, f)
    PROVE  Inv'
  <1>1. PICK c \in Sound : c = [do |-> "unassign", face |-> f] /\ c.do \notin Moving
    BY CommitTypes DEF Moving
  <1>2. <<c>> \in Seq(Sound) /\ Promised(<<c>>)
    BY <1>1, OnePromised
  <1>3. PICK s \in Seq(Sound) : Promised(s) /\ s = Settled(owner[f])
    BY SettledPromised
  <1>4. PICK r \in Seq(Sound) : Promised(r) /\ r = <<c>> \o s
    BY <1>2, <1>3, ConcatPromised
  <1> QED BY <1>1, <1>3, <1>4, BeginInv DEF Unassign

LEMMA BeginMergeInv ==
    ASSUME Inv, NEW a \in Actors, NEW S \in SUBSET people, NEW p \in people \ S,
           BeginMerge(a, S, p)
    PROVE  Inv'
  <1>1. S \in SUBSET Ids /\ p \in Ids /\ p \notin S
    BY DEF Inv, TablesOK
  <1>2. PICK n \in Inherited(S, p) :
          Begin(a, <<[do |-> "merge", from |-> S, who |-> p, name |-> n]>> \o Recounted(p)
                   \o <<[do |-> "spread bulk", who |-> p]>>)
    BY DEF BeginMerge
  <1>3. n \in Names \cup {NoName}
    BY <1>1 DEF Inherited, Inv, TablesOK
  <1>4. PICK c \in Sound : /\ c = [do |-> "merge", from |-> S, who |-> p, name |-> n]
                           /\ c.do \in Moving /\ c.who = p
    BY <1>1, <1>3, CallTypes DEF Moving
  <1>5. /\ <<>> \in Seq(Sound) /\ \A i \in 1 .. Len(<<>>) : <<>>[i].do \in Settling
        /\ <<c>> \o <<>> = <<c>>
    OBVIOUS
  <1>6. PICK s \in Seq(Sound) : Promised(s) /\ s = <<c>> \o Recounted(p)
    BY <1>1, <1>4, <1>5, MovePromised
  <1>7. PICK d \in Sound : d = [do |-> "spread bulk", who |-> p] /\ d.do \notin Moving
    BY <1>1, CommitTypes DEF Moving
  <1>8. <<d>> \in Seq(Sound) /\ Promised(<<d>>)
    BY <1>7, OnePromised
  <1>9. PICK r \in Seq(Sound) : Promised(r) /\ r = s \o <<d>>
    BY <1>6, <1>8, ConcatPromised
  <1> QED BY <1>2, <1>4, <1>6, <1>7, <1>9, BeginInv

LEMMA NameInv ==
    ASSUME Inv, NEW a \in Actors, NEW p \in people, NEW n \in Names, Name(a, p, n)
    PROVE  Inv'
  <1>1. CASE Bearers(n) \ {p} = {}
    <2>1. PICK c \in Sound : c = [do |-> "name", who |-> p, name |-> n] /\ c.do \notin Moving
      BY CallTypes DEF Moving, Inv, TablesOK
    <2> QED BY <1>1, <2>1, BeginOneInv DEF Name
  <1>2. CASE Bearers(n) \ {p} # {}
    <2>1. PICK q \in people \ {p} : BeginMerge(a, {p}, q)
      BY <1>2 DEF Name, Bearers
    <2> QED BY <2>1, BeginMergeInv
  <1> QED BY <1>1, <1>2

LEMMA PruneSmallInv ==
    ASSUME Inv, NEW a \in Actors, PruneSmall(a)
    PROVE  Inv'
  <1> DEFINE small == {p \in Unnamed : Cardinality(counted[p]) < MinCluster}
  <1>1. small \in SUBSET Ids
    BY DEF Unnamed, Inv, TablesOK
  <1>2. PICK c \in Sound : c = [do |-> "delete", from |-> small] /\ c.do \notin Moving
    BY <1>1, CallTypes DEF Moving
  <1> QED BY <1>2, BeginOneInv DEF PruneSmall

LEMMA GcEmptyInv ==
    ASSUME Inv, NEW a \in Actors, GcEmpty(a)
    PROVE  Inv'
  <1>1. PICK c \in Sound : c = [do |-> "sweep"] /\ c.do \notin Moving
    BY CallTypes DEF Moving
  <1> QED BY <1>1, BeginOneInv DEF GcEmpty

LEMMA CallInv ==
    ASSUME Inv, NEW a \in Requests, Call(a)
    PROVE  Inv'
  <1>1. a \in Actors
    BY DEF Actors
  <1>2. ASSUME NEW f \in Stored, NEW p \in people, AssignTo(a, f, p)
        PROVE  Inv'
    BY <1>1, <1>2, AssignToInv DEF Stored
  <1>3. ASSUME NEW f \in Stored, NEW n \in Names, AssignNew(a, f, n)
        PROVE  Inv'
    BY <1>1, <1>3, AssignNewInv DEF Stored
  <1>4. ASSUME NEW f \in Stored, Unassign(a, f)
        PROVE  Inv'
    BY <1>1, <1>4, BeginUnassignInv DEF Stored
  <1>5. ASSUME NEW p \in people, NEW n \in Names, Name(a, p, n)
        PROVE  Inv'
    BY <1>1, <1>5, NameInv
  <1>6. ASSUME NEW p \in people, NEW q \in people, MergeOne(a, q, p)
        PROVE  Inv'
    BY <1>1, <1>6, BeginMergeInv DEF MergeOne
  <1>7. ASSUME NEW p \in people, NEW S \in SUBSET people, MergePeople(a, S, p)
        PROVE  Inv'
    BY <1>1, <1>7, BeginMergeInv DEF MergePeople
  <1>8. PruneSmall(a) \/ GcEmpty(a) => Inv'
    BY <1>1, PruneSmallInv, GcEmptyInv
  <1> QED BY <1>2, <1>3, <1>4, <1>5, <1>6, <1>7, <1>8 DEF Call

(***************************************************************************)
(* The indexer, and calls that stop half way.                              *)
(***************************************************************************)

\* A step without a commit of any call.
LEMMA NoCommit ==
    ASSUME Inv, UNCHANGED <<todo, stops>>, TablesOK', FilesOK', BoundsOK',
           \A p \in people' : FacesOf(p)' \subseteq counted'[p] \/ Kept(p)
    PROVE  Inv'
  <1>1. Clusterer \in Actors
    BY DEF Actors
  <1>2. Covered'
    BY <1>1, StillCovered
  <1>3. CallsSound'
    BY DEF Inv, CallsSound, Promised
  <1> QED BY <1>2, <1>3 DEF Inv

LEMMA IngestInv ==
    ASSUME Inv, NEW f \in Faces, Ingest(f)
    PROVE  Inv'
  <1>1. /\ owner[f] = NoFace /\ calls < MaxCalls /\ calls' = calls + 1 /\ dirty' = TRUE
        /\ UNCHANGED <<people, used, name, todo, sidecar, stops>>
    BY DEF Ingest
  <1>2. PICK p \in Matched :
          /\ owner' = [owner EXCEPT ![f] = p]
          /\ IF p = NoOwner THEN UNCHANGED <<counted, unpaid>>
             ELSE /\ counted' = [counted EXCEPT ![p] = FacesOf(p) \cup {f}]
                  /\ unpaid' = unpaid \ {p}
    BY DEF Ingest
  <1>3. p = NoOwner \/ (p \in people /\ p \in Ids /\ p # NoOwner)
    BY Distinct DEF Matched, Inv, TablesOK
  <1>4. owner' \in [Faces -> people \cup {NoOwner, NoFace, Purged}]
    BY <1>2, <1>3 DEF Inv, TablesOK
  <1>5. counted' \in [Ids -> SUBSET Faces] /\ unpaid' \subseteq Ids
    BY <1>2, <1>3 DEF Inv, TablesOK, FacesOf
  <1>6. TablesOK'
    BY <1>1, <1>4, <1>5 DEF Inv, TablesOK
  <1>7. ASSUME NEW q \in people'
        PROVE  FacesOf(q)' \subseteq counted'[q] \/ Kept(q)
    <2>1. q \in people /\ q \in Ids /\ q # NoOwner
      BY <1>1, Distinct DEF Inv, TablesOK
    <2>2. CASE q = p
      <3>1. FacesOf(q)' \subseteq FacesOf(q) \cup {f}
        BY <1>2 DEF FacesOf, Inv, TablesOK
      <3>2. counted'[q] = FacesOf(q) \cup {f}
        BY <1>2, <2>1, <2>2 DEF Inv, TablesOK
      <3> QED BY <3>1, <3>2
    <2>3. CASE q # p
      <3>1. FacesOf(q)' \subseteq FacesOf(q)
        BY <1>2, <2>3 DEF FacesOf, Inv, TablesOK
      <3>2. counted[q] = counted'[q] /\ (q \in unpaid => q \in unpaid')
        BY <1>2, <1>3, <2>1, <2>3 DEF Inv, TablesOK
      <3> QED BY <2>1, <3>1, <3>2 DEF Kept
    <2> QED BY <2>2, <2>3
  <1>8. FilesOK' /\ BoundsOK'
    BY <1>1, PeopleAssumption DEF Inv, FilesOK, BoundsOK
  <1> QED BY <1>1, <1>6, <1>7, <1>8, NoCommit

LEMMA ClusterInv ==
    ASSUME Inv, ClusterOne \/ ClusterNothing
    PROVE  Inv'
  <1>1. Clusterer \in Actors
    BY DEF Actors
  <1>2. CASE ClusterOne
    <2>1. PICK G \in SUBSET Unassigned :
            /\ G # {}
            /\ Begin(Clusterer, <<[do |-> "create", name |-> NoName, faces |-> G],
                                  [do |-> "sweep"]>>)
      BY <1>2 DEF ClusterOne
    <2>2. G \in SUBSET Faces
      BY DEF Unassigned, FacesOf
    <2>3. PICK c \in Sound, d \in Sound :
            /\ c = [do |-> "create", name |-> NoName, faces |-> G] /\ c.do \notin Moving
            /\ d = [do |-> "sweep"] /\ d.do \notin Moving
      BY <2>1, <2>2, CallTypes DEF Moving
    <2>4. <<c, d>> \in Seq(Sound) /\ Promised(<<c, d>>)
      BY <2>3 DEF Promised
    <2> QED BY <1>1, <2>1, <2>3, <2>4, BeginInv
  <1>3. CASE ClusterNothing
    <2>1. /\ dirty' = TRUE /\ UNCHANGED <<used, owner, todo, sidecar, calls, stops>>
          /\ SweepRows
      BY <1>3 DEF ClusterNothing
    <2>2. PICK D \in SUBSET Abandoned : Drop(D)
      BY <2>1 DEF SweepRows
    <2>3. TablesOK' /\ \A p \in people' : Kept(p)
      BY <2>1, <2>2, AbandonedRows DEF Inv
    <2>4. FilesOK' /\ BoundsOK'
      BY <2>1 DEF Inv, FilesOK, BoundsOK
    <2> QED BY <2>1, <2>3, <2>4, NoCommit
  <1> QED BY <1>2, <1>3

LEMMA CleanupInv ==
    ASSUME Inv, NEW f \in Faces, Cleanup(f)
    PROVE  Inv'
  <1>1. Cleaner \in Actors
    BY DEF Actors
  <1>2. owner[f] \in Owner
    BY DEF Inv, TablesOK, Owner
  <1>3. PICK c \in Sound : /\ c = [do |-> "purge", face |-> f, old |-> owner[f]]
                           /\ c.do \notin Moving
    BY <1>2, CallTypes DEF Moving
  <1> QED BY <1>1, <1>3, BeginOneInv DEF Cleanup

LEMMA FlushInv ==
    ASSUME Inv, Flush
    PROVE  Inv'
  <1>1. /\ dirty' = FALSE /\ UNCHANGED <<tables, todo, unpaid, calls, stops>>
        /\ sidecar' = IF Stored = {} THEN sidecar ELSE Unassigned
    BY DEF Flush
  <1>2. FilesOK' /\ BoundsOK' /\ TablesOK'
    BY <1>1 DEF Inv, FilesOK, BoundsOK, TablesOK, tables, Unassigned, FacesOf
  <1>3. \A p \in people' : Kept(p)
    BY <1>1, SameTables DEF tables
  <1> QED BY <1>1, <1>2, <1>3, NoCommit

\* What the stopped calls owed is left unpaid.
LEMMA StopInv ==
    ASSUME Inv, Stop
    PROVE  Inv'
  <1>1. /\ stops < MaxStops /\ stops' = stops + 1 /\ UNCHANGED <<tables, files, calls>>
    BY DEF Stop
  <1>2. PICK S \in {{a} : a \in Actors} \cup {Requests} :
          /\ todo' = [a \in Actors |-> IF a \in S THEN <<>> ELSE todo[a]]
          /\ unpaid' = unpaid \cup {p \in people : \E a \in S : Owes(a, p)}
    BY DEF Stop
  <1>3. todo \in [Actors -> Seq(Sound)] /\ \A b \in Actors : Promised(todo[b])
    BY DEF Inv, CallsSound
  <1>4. \A b \in Actors : todo'[b] = IF b \in S THEN <<>> ELSE todo[b]
    BY <1>2
  <1>5. \A b \in Actors : todo'[b] \in Seq(Sound) /\ Promised(todo'[b])
    BY <1>3, <1>4, EmptyPromised
  <1>6. todo' \in [Actors -> Seq(Sound)]
    BY <1>2, <1>3, EmptyPromised
  <1>7. CallsSound'
    BY <1>5, <1>6 DEF CallsSound, Promised
  <1>8. unpaid' \subseteq Ids
    BY <1>2 DEF Inv, TablesOK
  <1>9. TablesOK' /\ FilesOK' /\ BoundsOK'
    BY <1>1, <1>8, PeopleAssumption DEF Inv, TablesOK, FilesOK, BoundsOK, tables, files
  <1>10. ASSUME NEW p \in people'
         PROVE  \/ FacesOf(p)' \subseteq counted'[p] \/ p \in unpaid'
                \/ \E b \in Actors : Pays(todo'[b], p)
    <2>1. p \in people /\ FacesOf(p)' = FacesOf(p) /\ counted'[p] = counted[p]
      BY <1>1 DEF tables, FacesOf
    <2>2. ASSUME NEW b \in Actors, Pays(todo[b], p)
          PROVE  p \in unpaid' \/ Pays(todo'[b], p)
      <3>1. CASE b \in S
        <4>1. Owes(b, p)
          BY <1>3, <2>2, PaysOwes
        <4> QED BY <1>2, <2>1, <3>1, <4>1
      <3>2. CASE b \notin S
        <4>1. todo'[b] = todo[b]
          BY <1>4, <3>2
        <4> QED BY <2>2, <4>1
      <3> QED BY <3>1, <3>2
    <2> QED BY <1>2, <2>1, <2>2 DEF Inv, Covered
  <1>11. Covered'
    BY <1>10 DEF Covered, Pays
  <1> QED BY <1>7, <1>9, <1>11 DEF Inv

(***************************************************************************)
(* The theorems.                                                           *)
(***************************************************************************)

LEMMA InitInv == Init => Inv
  <1> SUFFICES ASSUME Init PROVE Inv
    OBVIOUS
  <1>1. TablesOK
    BY DEF Init, TablesOK, FacesOf
  <1>2. FilesOK
    BY DEF Init, FilesOK, Unassigned, FacesOf
  <1>3. BoundsOK
    <2>1. 0 \in 0 .. MaxCalls /\ 0 \in 0 .. MaxStops
      BY PeopleAssumption
    <2> QED BY <2>1 DEF Init, BoundsOK
  <1>4. todo \in [Actors -> Seq(Sound)] /\ \A a \in Actors : Promised(todo[a])
    BY EmptyPromised DEF Init
  <1>5. Covered
    BY DEF Init, Covered
  <1> QED BY <1>1, <1>2, <1>3, <1>4, <1>5 DEF Inv, CallsSound

LEMMA NextInv == Inv /\ [Next]_vars => Inv'
  <1> SUFFICES ASSUME Inv, [Next]_vars PROVE Inv'
    OBVIOUS
  <1>1. ASSUME NEW a \in Actors, CommitOf(a)
        PROVE  Inv'
    BY <1>1, CommitInv
  <1>2. ASSUME NEW a \in Requests, Call(a)
        PROVE  Inv'
    BY <1>2, CallInv
  <1>3. ASSUME NEW f \in Faces, Ingest(f) \/ Cleanup(f)
        PROVE  Inv'
    BY <1>3, IngestInv, CleanupInv
  <1>4. CASE ClusterOne \/ ClusterNothing
    BY <1>4, ClusterInv
  <1>5. CASE Flush
    BY <1>5, FlushInv
  <1>6. CASE Stop
    BY <1>6, StopInv
  <1>7. CASE UNCHANGED vars
    <2>1. UNCHANGED <<tables, files, todo, unpaid, calls, stops>>
      BY <1>7 DEF vars, tables, files
    <2>2. TablesOK' /\ FilesOK' /\ BoundsOK'
      BY <2>1 DEF Inv, TablesOK, FilesOK, BoundsOK, tables, files
    <2>3. \A p \in people' : Kept(p)
      BY <2>1, SameTables DEF tables
    <2> QED BY <2>1, <2>2, <2>3, NoCommit
  <1> QED BY <1>1, <1>2, <1>3, <1>4, <1>5, <1>6, <1>7 DEF Next

\* In every reachable state faces, people, counts and sidecar agree as far as Inv says,
\* whatever calls, ingests, clusterings and flushes are under way.
THEOREM Invariance == Spec => []Inv
  BY InitInv, NextInv, PTL DEF Spec

\* Every row keeps the type of its columns, no face refers to a person that is
\* gone, and every commit a call has left is one of those the calls are made of.
THEOREM TypeCorrect == Spec => []TypeOK
  <1>1. Inv => TypeOK
    <2> SUFFICES ASSUME Inv PROVE TypeOK
      OBVIOUS
    <2>1. ASSUME NEW a \in Actors
          PROVE  Range(todo[a]) \subseteq Commit
      <3>1. todo[a] \in Seq(Sound)
        BY DEF Inv, CallsSound
      <3>2. \A i \in DOMAIN todo[a] : todo[a][i] \in Sound
        BY <3>1
      <3> QED BY <3>2 DEF Range, Sound
    <2> QED BY <2>1 DEF Inv, TablesOK, FilesOK, BoundsOK, TypeOK
  <1> QED BY <1>1, Invariance, PTL

\* face_count covers the faces of its person, or a call in flight owes the
\* recount, or one that stopped half way has left it out.
THEOREM CountsAreCovered == Spec => []CountsCover
  <1>1. Inv => CountsCover
    <2> SUFFICES ASSUME Inv, NEW p \in people, NEW a \in Actors, Pays(todo[a], p)
                 PROVE  Owes(a, p)
      BY DEF Inv, Covered, CountsCover
    <2>1. todo[a] \in Seq(Sound)
      BY DEF Inv, CallsSound
    <2> QED BY <2>1, PaysOwes
  <1> QED BY <1>1, Invariance, PTL

=============================================================================
