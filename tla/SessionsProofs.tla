--------------------------- MODULE SessionsProofs ---------------------------
(***************************************************************************)
(* Proofs that no token outlives its user, that a user has one pending     *)
(* token, that the gate before bcrypt loses no permit, and that a lock is  *)
(* passed only by calls that came before it, for any number of users,      *)
(* threads and calls.                                                      *)
(***************************************************************************)
EXTENDS Sessions, FiniteSetTheorems, TLAPS

Password == {"find", "gate", "check"}

Pcs == Password \cup
    {"idle", "fail", "success", "second", "access", "refresh", "consume", "owner", "code",
     "rotate", "logout", "cookie", "others", "setup", "unset", "confirm", "disable", "confirmed",
     "clear", "cleared", "unpend", "insert", "lastAdmin", "lastAdminDeleted", "update", "delete",
     "revokeAll"}
Changes == {"none", "demote", "promote", "disable", "enable", "password"}
Statuses == {"never", "on", "off", "deleted"}

ServedCalls == [pc : Pcs, user : Users \cup {NoUser}, actor : Users \cup {NoUser},
                id : Nat, change : Changes, seen : Statuses, twofa : BOOLEAN]

\* A thread that serves a call knows its user.
CallsTyped ==
    /\ call \in [Threads -> ServedCalls]
    /\ \A t \in Threads : call[t].pc # "idle" => call[t].user \in Users

RowsTyped ==
    /\ status \in [Users -> Statuses]
    /\ role \in [Users -> {"admin", "other"}]
    /\ secret \in [Users -> BOOLEAN] /\ enabled \in [Users -> BOOLEAN]
    /\ minted \in Nat
    /\ tokens \subseteq [user : Users, kind : {"access", "refresh"}, id : 0..minted]
    /\ pending \subseteq [user : Users, id : 0..minted]

BudgetTyped ==
    /\ failures \in [Users -> 0..MaxLoginFailures - 1] /\ locked \in [Users -> BOOLEAN]
    /\ ipFailures \in 0..MaxIpFailures /\ late \in [Users -> Nat]
    /\ permits \in Nat /\ calls \in 0..MaxCalls

\* The threads inside the gate.
Inside == {t \in Threads : At(t, "check")}

\* The threads whose password check for u is still to come.
Checking(u) == {t \in Threads : call[t].pc \in Password /\ call[t].user = u}

\* Those that may yet be late are counted with those that were; the thread that set the
\* lock is never one of them.
LateAccounted ==
    \A u \in Users : IF locked[u] THEN late[u] + Cardinality(Checking(u)) < Cardinality(Threads)
                                  ELSE late[u] = 0

Rows == RowsTyped /\ RowsOwned /\ OnePending
Budget == BudgetTyped /\ GateBalanced /\ LateAccounted
Inv == CallsTyped /\ Rows /\ Budget

(***************************************************************************)
(* Calls: how a step moves the call of a thread.                           *)
(***************************************************************************)

\* A thread without a call is idle.
LEMMA IdleIsCall == Idle \in ServedCalls /\ Idle.pc = "idle"
  BY DEF Idle, ServedCalls, Pcs, Password, Changes, Statuses

\* One field of a call is set.
LEMMA FieldSet ==
    ASSUME NEW c \in ServedCalls
    PROVE  /\ \A x \in Pcs : /\ [c EXCEPT !.pc = x] \in ServedCalls
                             /\ [c EXCEPT !.pc = x].pc = x /\ [c EXCEPT !.pc = x].user = c.user
           /\ \A x \in Users : /\ [c EXCEPT !.user = x] \in ServedCalls
                               /\ [c EXCEPT !.user = x].pc = c.pc /\ [c EXCEPT !.user = x].user = x
           /\ \A x \in Users : /\ [c EXCEPT !.actor = x] \in ServedCalls
                               /\ [c EXCEPT !.actor = x].pc = c.pc /\ [c EXCEPT !.actor = x].user = c.user
           /\ \A x \in Nat : /\ [c EXCEPT !.id = x] \in ServedCalls
                             /\ [c EXCEPT !.id = x].pc = c.pc /\ [c EXCEPT !.id = x].user = c.user
           /\ \A x \in Changes : /\ [c EXCEPT !.change = x] \in ServedCalls
                                 /\ [c EXCEPT !.change = x].pc = c.pc /\ [c EXCEPT !.change = x].user = c.user
           /\ \A x \in Statuses : /\ [c EXCEPT !.seen = x] \in ServedCalls
                                  /\ [c EXCEPT !.seen = x].pc = c.pc /\ [c EXCEPT !.seen = x].user = c.user
           /\ \A x \in BOOLEAN : /\ [c EXCEPT !.twofa = x] \in ServedCalls
                                 /\ [c EXCEPT !.twofa = x].pc = c.pc /\ [c EXCEPT !.twofa = x].user = c.user
  BY DEF ServedCalls

\* A thread goes on with the call c: of the same user, or with none.
Moves(t, c) ==
    /\ c \in ServedCalls
    /\ call[t].pc # "idle" /\ (c.pc = "idle" \/ c.user = call[t].user)
    /\ call' = [call EXCEPT ![t] = c]

\* A step of one call leaves calls.
LEMMA MovesTyped ==
    ASSUME CallsTyped, NEW t \in Threads, NEW c, Moves(t, c)
    PROVE  CallsTyped'
  BY DEF CallsTyped, Moves

\* A call that goes on moves its thread.
LEMMA GotoMoves ==
    ASSUME CallsTyped, NEW t \in Threads, NEW pc \in Pcs, call[t].pc # "idle", Goto(t, pc)
    PROVE  \E c \in ServedCalls : Moves(t, c) /\ c.pc = pc
  <1> DEFINE c == [call[t] EXCEPT !.pc = pc]
  <1>1. c \in ServedCalls /\ c.pc = pc /\ c.user = call[t].user
    BY FieldSet, call[t] \in ServedCalls DEF CallsTyped
  <1>2. call' = [call EXCEPT ![t] = c]
    BY DEF Goto
  <1> HIDE DEF c
  <1> QED BY <1>1, <1>2 DEF Moves

\* One that ends makes its thread idle.
LEMMA EndMoves ==
    ASSUME NEW t \in Threads, call[t].pc # "idle", End(t)
    PROVE  \E c \in ServedCalls : Moves(t, c) /\ c.pc = "idle"
  BY IdleIsCall DEF End, Moves

\* One that may end does either.
LEMMA EndWhenMoves ==
    ASSUME CallsTyped, NEW t \in Threads, NEW pc \in Pcs, NEW over \in BOOLEAN,
           call[t].pc # "idle", EndWhen(t, over, pc)
    PROVE  \E c \in ServedCalls : Moves(t, c) /\ c.pc \in {"idle", pc}
  <1>1. CASE over
    BY <1>1, EndMoves DEF End, EndWhen
  <1>2. CASE ~over
    <2>1. Goto(t, pc)
      BY <1>2 DEF EndWhen, Goto
    <2> QED BY <2>1, GotoMoves
  <1> QED BY <1>1, <1>2

\* What a request begins with; a login begins only while the name is not locked.
Begins(t, c) ==
    /\ Begin(t, c)
    /\ c.user \in Users /\ c.pc \notin {"idle", "gate", "check"}
    /\ c.pc = "find" => ~locked[c.user]

\* The calls that the handlers begin are calls.
LEMMA CallIsCall ==
    ASSUME NEW pc \in Pcs, NEW u \in Users
    PROVE  Call(pc, u) \in ServedCalls /\ Call(pc, u).pc = pc /\ Call(pc, u).user = u
  <1> DEFINE c == [Idle EXCEPT !.pc = pc]
  <1>1. c \in ServedCalls /\ c.pc = pc
    BY IdleIsCall, FieldSet
  <1>2. Call(pc, u) = [c EXCEPT !.user = u]
    BY IdleIsCall DEF Call, ServedCalls
  <1> HIDE DEF c
  <1> QED BY <1>1, <1>2, FieldSet

CallId(pc, u, id) == [Call(pc, u) EXCEPT !.id = id]
CallChange(pc, u, change) == [Call(pc, u) EXCEPT !.change = change]
OwnCallId(pc, u, id) == [Call(pc, u) EXCEPT !.actor = u, !.id = id]
ActorChange(pc, a, u, change) == [Call(pc, u) EXCEPT !.actor = a, !.change = change]

IsCall(c, pc, u) == c \in ServedCalls /\ c.pc = pc /\ c.user = u

\* With an id.
LEMMA CallIdIsCall ==
    ASSUME NEW pc \in Pcs, NEW u \in Users, NEW id \in Nat
    PROVE  IsCall(CallId(pc, u, id), pc, u)
  BY CallIsCall, FieldSet DEF IsCall, CallId

\* With a change.
LEMMA CallChangeIsCall ==
    ASSUME NEW pc \in Pcs, NEW u \in Users, NEW change \in Changes
    PROVE  IsCall(CallChange(pc, u, change), pc, u)
  BY CallIsCall, FieldSet DEF IsCall, CallChange

\* With an id of the caller.
LEMMA OwnCallIdIsCall ==
    ASSUME NEW pc \in Pcs, NEW u \in Users, NEW id \in Nat
    PROVE  IsCall(OwnCallId(pc, u, id), pc, u)
  <1> DEFINE c == Call(pc, u)
             d == [c EXCEPT !.actor = u]
  <1>1. c \in ServedCalls /\ c.pc = pc /\ c.user = u
    BY CallIsCall
  <1> HIDE DEF c
  <1>2. d \in ServedCalls /\ d.pc = pc /\ d.user = u
    BY <1>1, FieldSet
  <1>3. [c EXCEPT !.actor = u, !.id = id] = [d EXCEPT !.id = id]
    BY <1>1 DEF ServedCalls
  <1>4. OwnCallId(pc, u, id) = [c EXCEPT !.actor = u, !.id = id]
    BY Zenon DEF OwnCallId, c
  <1> HIDE DEF d
  <1>5. IsCall([d EXCEPT !.id = id], pc, u)
    BY <1>2, FieldSet DEF IsCall
  <1>6. OwnCallId(pc, u, id) = [d EXCEPT !.id = id]
    BY Zenon, <1>3, <1>4
  <1> QED BY Zenon, <1>5, <1>6

\* By one user, about another.
LEMMA ActorChangeIsCall ==
    ASSUME NEW pc \in Pcs, NEW a \in Users, NEW u \in Users, NEW change \in Changes
    PROVE  IsCall(ActorChange(pc, a, u, change), pc, u)
  <1> DEFINE c == Call(pc, u)
             d == [c EXCEPT !.actor = a]
  <1>1. c \in ServedCalls /\ c.pc = pc /\ c.user = u
    BY CallIsCall
  <1> HIDE DEF c
  <1>2. d \in ServedCalls /\ d.pc = pc /\ d.user = u
    BY <1>1, FieldSet
  <1>3. [c EXCEPT !.actor = a, !.change = change] = [d EXCEPT !.change = change]
    BY <1>1 DEF ServedCalls
  <1>4. ActorChange(pc, a, u, change) = [c EXCEPT !.actor = a, !.change = change]
    BY Zenon DEF ActorChange, c
  <1> HIDE DEF d
  <1>5. IsCall([d EXCEPT !.change = change], pc, u)
    BY <1>2, FieldSet DEF IsCall
  <1>6. ActorChange(pc, a, u, change) = [d EXCEPT !.change = change]
    BY Zenon, <1>3, <1>4
  <1> QED BY Zenon, <1>5, <1>6

\* Every request begins a call.
LEMMA RequestBegins ==
    ASSUME Inv, NEW t \in Threads, Request(t)
    PROVE  \E c \in ServedCalls : Begins(t, c)
  <1>1. /\ \A k \in tokens : k.user \in Users /\ k.id \in Nat
        /\ \A p \in pending : p.user \in Users /\ p.id \in Nat
        /\ Admitted \subseteq tokens /\ AdminsIn \subseteq Users
    BY DEF Inv, Rows, RowsTyped, Admitted, AdminsIn
  <1>2. {"find", "insert", "update", "clear", "consume", "rotate", "logout", "others", "setup",
         "confirm", "disable", "revokeAll", "lastAdmin", "lastAdminDeleted", "delete"} \subseteq Pcs
    BY DEF Pcs, Password
  <1>3. {"none", "promote", "password", "demote", "disable", "enable"} \subseteq Changes
    BY DEF Changes
  <1>4. ASSUME NEW u \in Users, Login(t, u) \/ CreateAdmin(t, u) \/ ResetPassword(t, u) \/ Disable2fa(t, u)
        PROVE  \E c \in ServedCalls : Begins(t, c)
    <2>1. CASE Login(t, u)
      BY <2>1, <1>2, CallIsCall DEF Login, LetThrough, Begins
    <2>2. CASE CreateAdmin(t, u)
      <3> DEFINE c == [Call("insert", u) EXCEPT !.change = "promote"]
      <3>1. Begin(t, c)
        BY <2>2 DEF CreateAdmin
      <3>2. IsCall(c, "insert", u)
        <4>1. "insert" \in Pcs /\ "promote" \in Changes
          BY <1>2, <1>3
        <4> QED BY <4>1, CallChangeIsCall DEF CallChange
      <3> HIDE DEF c
      <3> QED BY <3>1, <3>2 DEF Begins, IsCall
    <2>3. CASE ResetPassword(t, u)
      <3> DEFINE c == [Call("update", u) EXCEPT !.change = "password"]
      <3>1. Begin(t, c)
        BY <2>3 DEF ResetPassword
      <3>2. IsCall(c, "update", u)
        <4>1. "update" \in Pcs /\ "password" \in Changes
          BY <1>2, <1>3
        <4> QED BY <4>1, CallChangeIsCall DEF CallChange
      <3> HIDE DEF c
      <3> QED BY <3>1, <3>2 DEF Begins, IsCall
    <2>4. CASE Disable2fa(t, u)
      BY <2>4, <1>2, CallIsCall DEF Disable2fa, Begins
    <2> QED BY <1>4, <2>1, <2>2, <2>3, <2>4
  <1>5. ASSUME NEW p \in pending, Verify(t, p)
        PROVE  \E c \in ServedCalls : Begins(t, c)
    <2> DEFINE c == [Call("consume", p.user) EXCEPT !.id = p.id]
    <2>1. Begin(t, c)
      BY <1>5 DEF Verify
    <2>2. IsCall(c, "consume", p.user)
      <3>1. "consume" \in Pcs /\ p.user \in Users /\ p.id \in Nat
        BY <1>1, <1>2, <1>3
      <3> QED BY <3>1, CallIdIsCall DEF CallId
    <2> HIDE DEF c
    <2> QED BY <1>1, <2>1, <2>2 DEF Begins, IsCall
  <1>6. ASSUME NEW k \in tokens, Refresh(t, k)
        PROVE  \E c \in ServedCalls : Begins(t, c)
    <2> DEFINE c == [Call("rotate", k.user) EXCEPT !.id = k.id]
    <2>1. Begin(t, c)
      BY <1>6 DEF Refresh
    <2>2. IsCall(c, "rotate", k.user)
      <3>1. "rotate" \in Pcs /\ k.user \in Users /\ k.id \in Nat
        BY <1>1, <1>2, <1>3
      <3> QED BY <3>1, CallIdIsCall DEF CallId
    <2> HIDE DEF c
    <2> QED BY <1>1, <2>1, <2>2 DEF Begins, IsCall
  <1>7. ASSUME NEW k \in tokens, NEW pc \in {"logout", "others", "setup", "confirm", "disable"}, OwnCall(t, k, pc)
        PROVE  \E c \in ServedCalls : Begins(t, c)
    <2> DEFINE c == [Call(pc, k.user) EXCEPT !.actor = k.user, !.id = k.id]
    <2>1. Begin(t, c)
      BY <1>7 DEF OwnCall
    <2>2. IsCall(c, pc, k.user)
      <3>1. pc \in Pcs /\ k.user \in Users /\ k.id \in Nat
        BY <1>1, <1>2, <1>3
      <3> QED BY <3>1, OwnCallIdIsCall DEF OwnCallId
    <2> HIDE DEF c
    <2> QED BY <1>1, <2>1, <2>2 DEF Begins, IsCall
  <1>8. ASSUME NEW a \in AdminsIn, NEW u \in Users, NEW change \in Changes,
               NEW pc \in {"insert", "revokeAll", "clear", "lastAdmin", "lastAdminDeleted", "delete", "update"},
               AdminCall(t, a, pc, u, change)
        PROVE  \E c \in ServedCalls : Begins(t, c)
    <2> DEFINE c == [Call(pc, u) EXCEPT !.actor = a, !.change = change]
    <2>1. Begin(t, c)
      BY <1>8 DEF AdminCall
    <2>2. IsCall(c, pc, u)
      <3>1. pc \in Pcs /\ a \in Users
        BY <1>1, <1>2
      <3> QED BY <3>1, ActorChangeIsCall DEF ActorChange
    <2> HIDE DEF c
    <2> QED BY <1>1, <2>1, <2>2 DEF Begins, IsCall
  <1>9. ASSUME NEW a \in AdminsIn, NEW u \in Users,
               \/ Create(t, a, u) \/ ForceLogout(t, a, u) \/ DisableTwoFactor(t, a, u) \/ Delete(t, a, u)
               \/ \E c \in {"demote", "promote", "disable", "enable", "password"} : Patch(t, a, u, c)
        PROVE  \E c \in ServedCalls : Begins(t, c)
    BY <1>3, <1>8, <1>9 DEF Create, ForceLogout, DisableTwoFactor, Delete, Patch
  <1> QED BY <1>4, <1>5, <1>6, <1>7, <1>9 DEF Request

(***************************************************************************)
(* How the steps of a call move it.                                        *)
(***************************************************************************)

\* A step before the password check is over.
LEMMA CheckingMoves ==
    ASSUME Inv, NEW t \in Threads
    PROVE  /\ FindUser(t) => \E c \in ServedCalls : Moves(t, c) /\ c.pc = "gate"
           /\ EnterGate(t) => \E c \in ServedCalls : Moves(t, c) /\ c.pc = "check"
           /\ GateTimeout(t) => \E c \in ServedCalls : Moves(t, c) /\ c.pc = "idle"
           /\ CheckPassword(t) => \E c \in ServedCalls : Moves(t, c) /\ c.pc \notin Password
  <1>0. CallsTyped /\ {"gate", "check", "fail", "second", "success"} \subseteq Pcs
    BY DEF Inv, Pcs, Password
  <1>1. ASSUME FindUser(t) PROVE \E c \in ServedCalls : Moves(t, c) /\ c.pc = "gate"
    <2> DEFINE c1 == [call[t] EXCEPT !.pc = "gate"]
               c2 == [c1 EXCEPT !.seen = status[call[t].user]]
               c3 == [c2 EXCEPT !.twofa = enabled[call[t].user]]
    <2>1. call[t] \in ServedCalls /\ call[t].pc # "idle" /\ call[t].user \in Users
      BY <1>0, <1>1 DEF CallsTyped, FindUser, At
    <2>2. status[call[t].user] \in Statuses /\ enabled[call[t].user] \in BOOLEAN
      BY <2>1 DEF Inv, Rows, RowsTyped
    <2>3. c3 = [call[t] EXCEPT !.pc = "gate", !.seen = status[call[t].user], !.twofa = enabled[call[t].user]]
      BY <2>1 DEF ServedCalls
    <2>4. c1 \in ServedCalls /\ c1.pc = "gate" /\ c1.user = call[t].user
      BY <1>0, <2>1, FieldSet
    <2> HIDE DEF c1
    <2>5. c2 \in ServedCalls /\ c2.pc = "gate" /\ c2.user = call[t].user
      BY <2>2, <2>4, FieldSet
    <2> HIDE DEF c2
    <2>6. c3 \in ServedCalls /\ c3.pc = "gate" /\ c3.user = call[t].user
      BY <2>2, <2>5, FieldSet
    <2> HIDE DEF c3
    <2>7. call' = [call EXCEPT ![t] = c3]
      BY <1>1, <2>3 DEF FindUser
    <2> QED BY <2>1, <2>6, <2>7 DEF Moves
  <1>2. ASSUME EnterGate(t) PROVE \E c \in ServedCalls : Moves(t, c) /\ c.pc = "check"
    BY <1>0, <1>2, GotoMoves DEF EnterGate, At
  <1>3. ASSUME GateTimeout(t) PROVE \E c \in ServedCalls : Moves(t, c) /\ c.pc = "idle"
    BY <1>3, EndMoves DEF GateTimeout, At
  <1>4. ASSUME CheckPassword(t) PROVE \E c \in ServedCalls : Moves(t, c) /\ c.pc \notin Password
    <2>1. PICK pc \in {"fail", "second", "success"} : Goto(t, pc)
      BY <1>4 DEF CheckPassword
    <2> QED BY <1>0, <1>4, <2>1, GotoMoves DEF CheckPassword, At, Password
  <1> QED BY <1>1, <1>2, <1>3, <1>4

\* The other steps.
LoginSteps(t) ==
    \/ RecordFailure(t) \/ RecordSuccess(t) \/ CreatePending(t)
    \/ IssueAccess(t) \/ IssueRefresh(t) \/ Consume(t) \/ ReadOwner(t) \/ CheckCode(t) \/ Rotate(t)
    \/ RevokeAccess(t) \/ RevokeCookie(t) \/ RevokeOthers(t)
AccountSteps(t) ==
    \/ Setup(t) \/ SetupUnset(t) \/ ReadSecret(t) \/ Confirmed(t)
    \/ ClearSecret(t) \/ SwitchOff(t) \/ RevokePending(t)
    \/ Insert(t) \/ CheckOthers(t) \/ Update(t) \/ RevokeAll(t) \/ DeleteUser(t)

Elsewhere(t, c) == Moves(t, c) /\ call[t].pc \notin Password /\ c.pc \notin Password

\* Every step of a login or refresh moves one call.
LEMMA LoginStepsMove ==
    ASSUME Inv, NEW t \in Threads, LoginSteps(t)
    PROVE  \E c \in ServedCalls : Elsewhere(t, c)
  <1>0. CallsTyped /\ {"access", "refresh", "idle", "owner", "code", "fail", "success", "cookie"} \subseteq Pcs
    BY DEF Inv, Pcs, Password
  <1>1. ASSUME End(t), call[t].pc \notin Password \cup {"idle"}
        PROVE  \E c \in ServedCalls : Elsewhere(t, c)
    BY <1>1, EndMoves DEF Elsewhere, Password
  <1>2. ASSUME NEW pc \in Pcs \ Password, Goto(t, pc), call[t].pc \notin Password \cup {"idle"}
        PROVE  \E c \in ServedCalls : Elsewhere(t, c)
    BY <1>0, <1>2, GotoMoves DEF Elsewhere
  <1>3. ASSUME NEW pc \in Pcs \ Password, NEW over \in BOOLEAN, EndWhen(t, over, pc),
               call[t].pc \notin Password \cup {"idle"}
        PROVE  \E c \in ServedCalls : Elsewhere(t, c)
    BY <1>0, <1>3, EndWhenMoves DEF Elsewhere, Password
  <1>4. CASE RecordFailure(t) \/ CreatePending(t) \/ RevokeCookie(t) \/ RevokeOthers(t)
    BY <1>1, <1>4 DEF RecordFailure, CreatePending, RevokeCookie, RevokeOthers, At, Password
  <1>5. CASE RecordSuccess(t) \/ Consume(t) \/ Rotate(t) \/ RevokeAccess(t)
    BY <1>0, <1>2, <1>5 DEF RecordSuccess, Consume, Rotate, RevokeAccess, At, Password
  <1>6. CASE IssueAccess(t) \/ IssueRefresh(t)
    BY <1>0, <1>3, <1>6 DEF IssueAccess, IssueRefresh, Issue, At, Password
  <1>7. CASE CheckCode(t)
    BY <1>0, <1>1, <1>2, <1>7 DEF CheckCode, At, Password
  <1>8. CASE ReadOwner(t)
    <2>1. call[t].pc \notin Password \cup {"idle"}
      BY <1>8 DEF ReadOwner, At, Password
    <2>2. CASE End(t)
      BY <1>1, <2>1, <2>2
    <2>3. CASE ~End(t)
      <3> DEFINE c1 == [call[t] EXCEPT !.pc = "code"]
                 c2 == [c1 EXCEPT !.twofa = enabled[call[t].user]]
      <3>1. call[t] \in ServedCalls /\ call[t].user \in Users
        BY <1>0, <2>1 DEF CallsTyped
      <3>2. enabled[call[t].user] \in BOOLEAN
        BY <3>1 DEF Inv, Rows, RowsTyped
      <3>3. c2 = [call[t] EXCEPT !.pc = "code", !.twofa = enabled[call[t].user]]
        BY <3>1 DEF ServedCalls
      <3>4. c1 \in ServedCalls /\ c1.pc = "code" /\ c1.user = call[t].user
        BY <1>0, <3>1, FieldSet
      <3> HIDE DEF c1
      <3>5. c2 \in ServedCalls /\ c2.pc = "code" /\ c2.user = call[t].user
        BY <3>2, <3>4, FieldSet
      <3> HIDE DEF c2
      <3>6. call' = [call EXCEPT ![t] = c2]
        BY <1>8, <2>3, <3>3 DEF ReadOwner
      <3> QED BY <2>1, <3>5, <3>6 DEF Elsewhere, Moves, Password
    <2> QED BY <2>2, <2>3
  <1> QED BY <1>4, <1>5, <1>6, <1>7, <1>8 DEF LoginSteps

\* So does every step of a change to an account.
LEMMA AccountStepsMove ==
    ASSUME Inv, NEW t \in Threads, AccountSteps(t)
    PROVE  \E c \in ServedCalls : Elsewhere(t, c)
  <1>0. CallsTyped /\ {"unset", "idle", "confirmed", "clear", "cleared", "unpend", "update", "delete",
                       "revokeAll"} \subseteq Pcs
    BY DEF Inv, Pcs, Password
  <1>1. ASSUME End(t), call[t].pc \notin Password \cup {"idle"}
        PROVE  \E c \in ServedCalls : Elsewhere(t, c)
    BY <1>1, EndMoves DEF Elsewhere, Password
  <1>2. ASSUME NEW pc \in Pcs \ Password, Goto(t, pc), call[t].pc \notin Password \cup {"idle"}
        PROVE  \E c \in ServedCalls : Elsewhere(t, c)
    BY <1>0, <1>2, GotoMoves DEF Elsewhere
  <1>3. ASSUME NEW pc \in Pcs \ Password, NEW over \in BOOLEAN, EndWhen(t, over, pc),
               call[t].pc \notin Password \cup {"idle"}
        PROVE  \E c \in ServedCalls : Elsewhere(t, c)
    BY <1>0, <1>3, EndWhenMoves DEF Elsewhere, Password
  <1>4. CASE RevokePending(t) \/ Insert(t) \/ RevokeAll(t) \/ DeleteUser(t)
    BY <1>1, <1>4 DEF RevokePending, Insert, RevokeAll, DeleteUser, At, Password
  <1>5. CASE Setup(t) \/ ClearSecret(t)
    BY <1>0, <1>2, <1>5 DEF Setup, ClearSecret, SetSecret, At, Password
  <1>6. CASE SetupUnset(t) \/ Confirmed(t) \/ SwitchOff(t)
    BY <1>0, <1>3, <1>6 DEF SetupUnset, Confirmed, SwitchOff, SetEnabled, At, Password
  <1>7. CASE ReadSecret(t)
    BY <1>0, <1>1, <1>2, <1>7 DEF ReadSecret, At, Password
  <1>8. CASE CheckOthers(t) \/ Update(t)
    BY <1>0, <1>3, <1>8 DEF CheckOthers, Update, At, Password
  <1> QED BY <1>4, <1>5, <1>6, <1>7, <1>8 DEF AccountSteps

(***************************************************************************)
(* Rows.                                                                   *)
(***************************************************************************)

\* Tokens may go, of either kind.
LEMMA TokensGo ==
    ASSUME Rows, UNCHANGED <<accountVars, minted>>, tokens' \subseteq tokens, pending' \subseteq pending
    PROVE  Rows'
  <1>1. RowsTyped'
    BY DEF Rows, RowsTyped, accountVars
  <1>2. RowsOwned' /\ OnePending'
    BY DEF Rows, RowsOwned, OnePending, Exists, accountVars
  <1> QED BY <1>1, <1>2 DEF Rows

\* A secret is set, or the second factor switched.
LEMMA SecretsRows ==
    ASSUME Rows, UNCHANGED <<status, role, tokenVars>>,
           secret' \in [Users -> BOOLEAN], enabled' \in [Users -> BOOLEAN]
    PROVE  Rows'
  BY DEF Rows, RowsTyped, RowsOwned, OnePending, Exists, tokenVars

\* Storing or clearing a second factor keeps the tables in order.
LEMMA SetSecretRows ==
    ASSUME Rows, NEW t \in Threads, NEW pc, NEW next, NEW value \in BOOLEAN, SetSecret(t, pc, value, next)
    PROVE  Rows'
  <1>1. secret' \in [Users -> BOOLEAN]
    <2>1. CASE Exists(call[t].user)
      BY <2>1 DEF SetSecret, Rows, RowsTyped
    <2>2. CASE ~Exists(call[t].user)
      BY <2>2 DEF SetSecret, Rows, RowsTyped
    <2> QED BY <2>1, <2>2
  <1>2. enabled' \in [Users -> BOOLEAN] /\ UNCHANGED <<status, role, tokenVars>>
    BY DEF SetSecret, Rows, RowsTyped
  <1> QED BY <1>1, <1>2, SecretsRows

\* So does switching it on or off.
LEMMA SetEnabledRows ==
    ASSUME Rows, NEW t \in Threads, NEW pc, NEW next, NEW value \in BOOLEAN, SetEnabled(t, pc, value, next)
    PROVE  Rows'
  <1>1. enabled' \in [Users -> BOOLEAN]
    <2>1. CASE Exists(call[t].user)
      BY <2>1 DEF SetEnabled, Rows, RowsTyped
    <2>2. CASE ~Exists(call[t].user)
      BY <2>2 DEF SetEnabled, Rows, RowsTyped
    <2> QED BY <2>1, <2>2
  <1>2. secret' \in [Users -> BOOLEAN] /\ UNCHANGED <<status, role, tokenVars>>
    BY DEF SetEnabled, Rows, RowsTyped
  <1> QED BY <1>1, <1>2, SecretsRows

\* A user comes, or changes.
LEMMA UserRows ==
    ASSUME Rows, UNCHANGED <<secret, enabled, tokenVars>>,
           status' \in [Users -> Statuses], role' \in [Users -> {"admin", "other"}],
           \A u \in Users : Exists(u) => Exists(u)'
    PROVE  Rows'
  BY DEF Rows, RowsTyped, RowsOwned, OnePending, tokenVars

\* And inserting an account.
LEMMA InsertRows ==
    ASSUME Inv, NEW t \in Threads, Insert(t)
    PROVE  Rows'
  <1> DEFINE u == call[t].user
  <1>1. Rows /\ u \in Users
    BY DEF Inv, CallsTyped, Insert, At
  <1>2. CASE status[u] = "never"
    <2>1. PICK r \in {"admin", "other"} :
              status' = [status EXCEPT ![u] = "on"] /\ role' = [role EXCEPT ![u] = r]
      BY <1>2 DEF Insert
    <2>2. /\ status' \in [Users -> Statuses] /\ role' \in [Users -> {"admin", "other"}]
          /\ \A v \in Users : Exists(v) => Exists(v)'
      BY <1>1, <2>1 DEF Rows, RowsTyped, Exists, Statuses
    <2> QED BY <1>1, <2>2, UserRows DEF Insert
  <1>3. CASE status[u] # "never"
    BY <1>1, <1>3, TokensGo DEF Insert, accountVars, tokenVars
  <1> QED BY <1>2, <1>3

\* And updating one.
LEMMA UpdateRows ==
    ASSUME Inv, NEW t \in Threads, Update(t)
    PROVE  Rows'
  <1> DEFINE u == call[t].user
             c == call[t].change
  <1>1. Rows /\ u \in Users
    BY DEF Inv, CallsTyped, Update, At
  <1>2. CASE Exists(u)
    <2>1. /\ status' = [status EXCEPT ![u] = IF c = "disable" THEN "off" ELSE IF c = "enable" THEN "on" ELSE @]
          /\ role' = [role EXCEPT ![u] = IF c = "demote" THEN "other" ELSE IF c = "promote" THEN "admin" ELSE @]
      BY <1>2 DEF Update
    <2>2. /\ status' \in [Users -> Statuses] /\ role' \in [Users -> {"admin", "other"}]
          /\ \A v \in Users : Exists(v) => Exists(v)'
      BY <1>1, <1>2, <2>1 DEF Rows, RowsTyped, Exists, Statuses
    <2> QED BY <1>1, <2>2, UserRows DEF Update
  <1>3. CASE ~Exists(u)
    BY <1>1, <1>3, TokensGo DEF Update, accountVars, tokenVars
  <1> QED BY <1>2, <1>3

\* The row goes, and what refers to it.
LEMMA DeleteRows ==
    ASSUME Inv, NEW t \in Threads, DeleteUser(t)
    PROVE  Rows'
  <1> DEFINE u == call[t].user
  <1>1. Rows /\ u \in Users
    BY DEF Inv, CallsTyped, DeleteUser, At
  <1>2. CASE Exists(u)
    <2>1. /\ status' = [status EXCEPT ![u] = "deleted"]
          /\ secret' = [secret EXCEPT ![u] = FALSE] /\ enabled' = [enabled EXCEPT ![u] = FALSE]
          /\ tokens' = {k \in tokens : k.user # u} /\ pending' = {p \in pending : p.user # u}
          /\ UNCHANGED <<role, minted>>
      BY <1>2 DEF DeleteUser, Cascade
    <2>2. RowsTyped'
      BY <1>1, <2>1 DEF Rows, RowsTyped, Statuses
    <2>3. \A v \in Users : v # u /\ Exists(v) => Exists(v)'
      BY <1>1, <2>1 DEF Rows, RowsTyped, Exists
    <2>4. \A k \in tokens \cup pending : k.user \in Users
      BY <1>1 DEF Rows, RowsTyped
    <2>5. RowsOwned'
      BY <1>1, <2>1, <2>3, <2>4 DEF Rows, RowsOwned
    <2>6. OnePending'
      BY <1>1, <2>1 DEF Rows, OnePending
    <2> QED BY <2>2, <2>5, <2>6 DEF Rows
  <1>3. CASE ~Exists(u)
    BY <1>1, <1>3, TokensGo DEF DeleteUser, accountVars
  <1> QED BY <1>2, <1>3

\* A token is minted for a user who exists.
LEMMA IssueRows ==
    ASSUME Inv, NEW t \in Threads, NEW kind \in {"access", "refresh"}, NEW pc, call[t].pc # "idle",
           Issue(t, kind, pc)
    PROVE  Rows'
  <1> DEFINE u == call[t].user
  <1>1. Rows /\ u \in Users
    BY DEF Inv, CallsTyped
  <1>2. CASE Exists(u)
    <2>1. /\ minted' = minted + 1 /\ UNCHANGED <<accountVars, pending>>
          /\ tokens' = tokens \cup {[user |-> u, kind |-> kind, id |-> minted']}
      BY <1>2 DEF Issue
    <2>2. RowsTyped'
      BY <1>1, <2>1 DEF Rows, RowsTyped, accountVars
    <2>3. RowsOwned' /\ OnePending'
      BY <1>1, <1>2, <2>1 DEF Rows, RowsOwned, OnePending, Exists, accountVars
    <2> QED BY <2>2, <2>3 DEF Rows
  <1>3. CASE ~Exists(u)
    BY <1>1, <1>3, TokensGo DEF Issue
  <1> QED BY <1>2, <1>3

\* And remembering that a login waits for its second factor.
LEMMA CreatePendingRows ==
    ASSUME Inv, NEW t \in Threads, CreatePending(t)
    PROVE  Rows'
  <1> DEFINE u == call[t].user
  <1>1. Rows /\ u \in Users
    BY DEF Inv, CallsTyped, CreatePending, At
  <1>2. CASE Exists(u)
    <2>1. /\ minted' = minted + 1 /\ UNCHANGED <<accountVars, tokens>>
          /\ pending' = {p \in pending : p.user # u} \cup {[user |-> u, id |-> minted']}
      BY <1>2 DEF CreatePending
    <2>2. RowsTyped'
      BY <1>1, <2>1 DEF Rows, RowsTyped, accountVars
    <2>3. RowsOwned' /\ OnePending'
      BY <1>1, <1>2, <2>1 DEF Rows, RowsOwned, OnePending, Exists, accountVars
    <2> QED BY <2>2, <2>3 DEF Rows
  <1>3. CASE ~Exists(u)
    BY <1>1, <1>3, TokensGo DEF CreatePending
  <1> QED BY <1>2, <1>3

\* Every step of a call.
LEMMA ServeRows ==
    ASSUME Inv, NEW t \in Threads, Serve(t)
    PROVE  Rows'
  <1>0. Rows
    BY DEF Inv
  <1>1. CASE \/ FindUser(t) \/ EnterGate(t) \/ GateTimeout(t) \/ CheckPassword(t)
             \/ RecordFailure(t) \/ RecordSuccess(t) \/ ReadOwner(t) \/ CheckCode(t)
             \/ ReadSecret(t) \/ CheckOthers(t)
    <2>1. UNCHANGED <<accountVars, tokenVars>>
      BY <1>1 DEF FindUser, EnterGate, GateTimeout, CheckPassword, RecordFailure, RecordSuccess,
         ReadOwner, CheckCode, ReadSecret, CheckOthers, tokenVars
    <2> QED BY <1>0, <2>1, TokensGo DEF tokenVars
  <1>2. CASE \/ Consume(t) \/ Rotate(t) \/ RevokeAccess(t) \/ RevokeCookie(t) \/ RevokeOthers(t)
             \/ RevokePending(t) \/ RevokeAll(t)
    BY <1>0, <1>2, TokensGo DEF Consume, Rotate, RevokeAccess, RevokeCookie, RevokeOthers,
       RevokePending, RevokeAll, Revoke
  <1>3. CASE Setup(t) \/ ClearSecret(t)
    BY <1>0, <1>3, SetSecretRows DEF Setup, ClearSecret
  <1>4. CASE SetupUnset(t) \/ Confirmed(t) \/ SwitchOff(t)
    BY <1>0, <1>4, SetEnabledRows DEF SetupUnset, Confirmed, SwitchOff
  <1>5. CASE IssueAccess(t) \/ IssueRefresh(t)
    BY <1>5, IssueRows DEF IssueAccess, IssueRefresh, At
  <1>6. CASE CreatePending(t) \/ Insert(t) \/ Update(t) \/ DeleteUser(t)
    BY <1>6, CreatePendingRows, InsertRows, UpdateRows, DeleteRows
  <1> QED BY <1>1, <1>2, <1>3, <1>4, <1>5, <1>6 DEF Serve

(***************************************************************************)
(* The gate and the budget.                                                *)
(***************************************************************************)

\* The threads inside the gate, or at a check, can be counted.
LEMMA ThreadSets ==
    /\ IsFiniteSet(Inside) /\ Cardinality(Inside) \in Nat
    /\ \A u : IsFiniteSet(Checking(u)) /\ Cardinality(Checking(u)) \in Nat
    /\ Cardinality(Threads) \in Nat \ {0}
  <1>1. IsFiniteSet(Threads) /\ Threads # {}
    BY SessionsAssumption DEF SessionsAssumption
  <1>2. Inside \in SUBSET Threads /\ \A u : Checking(u) \in SUBSET Threads
    BY DEF Inside, Checking
  <1>3. IsFiniteSet(Inside) /\ \A u : IsFiniteSet(Checking(u))
    BY <1>1, <1>2, FS_Subset
  <1>4. Cardinality(Threads) \in Nat /\ Cardinality(Threads) # 0
    BY <1>1, FS_CardinalityType, FS_EmptySet
  <1> QED BY <1>3, <1>4, FS_CardinalityType

\* Nobody's place changes when a call moves outside the password check.
LEMMA ElsewhereSets ==
    ASSUME CallsTyped, NEW t \in Threads, NEW c, Elsewhere(t, c)
    PROVE  Inside' = Inside /\ \A u : Checking(u)' = Checking(u)
  BY DEF CallsTyped, Elsewhere, Moves, Inside, Checking, At, Password

\* A step that changes neither the counts nor who is counted keeps the budget.
LEMMA SetsKept ==
    ASSUME Budget, UNCHANGED <<budgetVars, permits>>, calls' \in 0..MaxCalls,
           Inside' = Inside, \A u \in Users : locked[u] => Checking(u)' = Checking(u)
    PROVE  Budget'
  <1>1. BudgetTyped'
    BY DEF Budget, BudgetTyped, budgetVars
  <1>2. GateBalanced'
    BY DEF Budget, GateBalanced, Inside
  <1>3. LateAccounted'
    BY DEF Budget, BudgetTyped, LateAccounted, budgetVars
  <1> QED BY <1>1, <1>2, <1>3 DEF Budget

\* A call that begins has spent nothing.
LEMMA BeginBudget ==
    ASSUME Inv, NEW t \in Threads, NEW c \in ServedCalls, Begins(t, c)
    PROVE  Budget'
  <1>1. /\ call \in [Threads -> ServedCalls] /\ call[t].pc = "idle"
        /\ call' = [call EXCEPT ![t] = c]
    BY DEF Inv, CallsTyped, Begins, Begin, At
  <1>2. Inside' = Inside
    BY <1>1 DEF Begins, Inside, At
  <1>3. ASSUME NEW u \in Users, locked[u]
        PROVE  Checking(u)' = Checking(u)
    BY <1>1, <1>3 DEF Begins, Checking, Password
  <1>4. calls' \in 0..MaxCalls
    BY SessionsAssumption DEF Begins, Begin, Inv, Budget, BudgetTyped, SessionsAssumption
  <1> QED BY <1>2, <1>3, <1>4, SetsKept DEF Inv, Begins, Begin

\* Nor one that looks up its user.
LEMMA FindUserBudget ==
    ASSUME Inv, NEW t \in Threads, FindUser(t)
    PROVE  Budget'
  <1>1. PICK c \in ServedCalls : Moves(t, c) /\ c.pc = "gate"
    BY CheckingMoves
  <1>2. Inside' = Inside /\ \A u \in Users : Checking(u)' = Checking(u)
    BY <1>1 DEF Inv, CallsTyped, Moves, FindUser, Inside, Checking, At, Password
  <1> QED BY <1>2, SetsKept DEF Inv, Budget, BudgetTyped, FindUser

\* One that enters the gate takes a permit.
LEMMA EnterGateBudget ==
    ASSUME Inv, NEW t \in Threads, EnterGate(t)
    PROVE  Budget'
  <1>1. PICK c \in ServedCalls : Moves(t, c) /\ c.pc = "check"
    BY CheckingMoves
  <1>2. /\ t \notin Inside /\ Inside' = Inside \cup {t}
        /\ \A u \in Users : Checking(u)' = Checking(u)
    BY <1>1 DEF Inv, CallsTyped, Moves, EnterGate, Inside, Checking, At, Password
  <1>3. permits' = permits - 1 /\ permits \in Nat \ {0} /\ UNCHANGED <<budgetVars, calls>>
    BY DEF EnterGate, Inv, Budget, BudgetTyped
  <1>4. BudgetTyped'
    BY <1>3 DEF Inv, Budget, BudgetTyped, budgetVars
  <1>5. GateBalanced'
    <2>1. Cardinality(Inside') = Cardinality(Inside) + 1
      BY <1>2, ThreadSets, FS_AddElement
    <2> QED BY <1>3, <2>1, ThreadSets, SessionsAssumption DEF Inv, Budget, GateBalanced, Inside
  <1>6. LateAccounted'
    BY <1>2, <1>3 DEF Inv, Budget, BudgetTyped, LateAccounted, budgetVars
  <1> QED BY <1>4, <1>5, <1>6 DEF Budget

\* One that gives up waiting takes none.
LEMMA GateTimeoutBudget ==
    ASSUME Inv, NEW t \in Threads, GateTimeout(t)
    PROVE  Budget'
  <1>1. PICK c \in ServedCalls : Moves(t, c) /\ c.pc = "idle"
    BY CheckingMoves
  <1>2. /\ Inside' = Inside
        /\ \A u \in Users : Checking(u)' \subseteq Checking(u)
    BY <1>1 DEF Inv, CallsTyped, Moves, GateTimeout, Inside, Checking, At, Password
  <1>3. UNCHANGED <<budgetVars, permits, calls>>
    BY DEF GateTimeout
  <1>4. BudgetTyped' /\ GateBalanced'
    BY <1>2, <1>3 DEF Inv, Budget, BudgetTyped, GateBalanced, Inside, budgetVars
  <1>5. LateAccounted'
    <2> SUFFICES ASSUME NEW u \in Users
                 PROVE  IF locked[u] THEN late[u] + Cardinality(Checking(u)') < Cardinality(Threads)
                                     ELSE late[u] = 0
      BY <1>3 DEF LateAccounted, budgetVars
    <2>1. Cardinality(Checking(u)') <= Cardinality(Checking(u)) /\ Cardinality(Checking(u)') \in Nat
      BY <1>2, ThreadSets, FS_Subset, FS_CardinalityType
    <2> QED BY <2>1, ThreadSets DEF Inv, Budget, BudgetTyped, LateAccounted
  <1> QED BY <1>4, <1>5 DEF Budget

\* The permit comes back, whatever the outcome; a check that is late was counted.
LEMMA CheckPasswordBudget ==
    ASSUME Inv, NEW t \in Threads, CheckPassword(t)
    PROVE  Budget'
  <1>0. PICK u \in Users : u = call[t].user
    BY DEF Inv, CallsTyped, CheckPassword, At
  <1>1. PICK c \in ServedCalls : Moves(t, c) /\ c.pc \notin Password
    BY CheckingMoves
  <1>2. /\ u \in Users /\ t \in Inside /\ Inside' = Inside \ {t}
        /\ t \in Checking(u) /\ Checking(u)' = Checking(u) \ {t}
        /\ \A v \in Users \ {u} : Checking(v)' = Checking(v)
    BY <1>0, <1>1 DEF Inv, CallsTyped, Moves, CheckPassword, Inside, Checking, At, Password
  <1>3. /\ permits' = permits + 1 /\ UNCHANGED <<failures, locked, ipFailures, calls>>
        /\ late' = [late EXCEPT ![u] = IF locked[u] THEN @ + 1 ELSE @]
    BY <1>0 DEF CheckPassword, LeaveGate
  <1>4. BudgetTyped'
    BY <1>2, <1>3 DEF Inv, Budget, BudgetTyped
  <1>5. GateBalanced'
    <2>1. Cardinality(Inside') = Cardinality(Inside) - 1
      BY <1>2, ThreadSets, FS_RemoveElement
    <2> QED BY <1>3, <2>1, ThreadSets, SessionsAssumption DEF Inv, Budget, BudgetTyped, GateBalanced, Inside
  <1>6. LateAccounted'
    <2>1. Cardinality(Checking(u)') = Cardinality(Checking(u)) - 1
      <3>1. IsFiniteSet(Checking(u)) /\ t \in Checking(u)
        BY <1>2, ThreadSets
      <3>2. Cardinality(Checking(u) \ {t}) = Cardinality(Checking(u)) - 1
        BY <3>1, FS_RemoveElement
      <3> QED BY <1>2, <3>2
    <2> SUFFICES ASSUME NEW v \in Users
                 PROVE  IF locked[v] THEN late'[v] + Cardinality(Checking(v)') < Cardinality(Threads)
                                     ELSE late'[v] = 0
      BY <1>3 DEF LateAccounted
    <2>2. CASE v = u
      <3>1. Cardinality(Checking(u)) \in Nat /\ Cardinality(Threads) \in Nat
        BY ThreadSets
      <3>2. IF locked[u] THEN late[u] + Cardinality(Checking(u)) < Cardinality(Threads) ELSE late[u] = 0
        BY DEF Inv, Budget, LateAccounted
      <3>3. late \in [Users -> Nat]
        BY DEF Inv, Budget, BudgetTyped
      <3> QED BY <1>3, <2>1, <2>2, <3>1, <3>2, <3>3
    <2>3. CASE v # u
      BY <1>2, <1>3, <2>3 DEF Inv, Budget, BudgetTyped, LateAccounted
    <2> QED BY <2>2, <2>3
  <1> QED BY <1>4, <1>5, <1>6 DEF Budget

\* The thread that sets the lock has checked already.
LEMMA RecordFailureBudget ==
    ASSUME Inv, NEW t \in Threads, RecordFailure(t)
    PROVE  Budget'
  <1> DEFINE u == call[t].user
             full == failures[u] + 1 >= MaxLoginFailures
  <1>1. PICK c \in ServedCalls : Elsewhere(t, c)
    BY LoginStepsMove DEF LoginSteps
  <1>2. u \in Users /\ t \notin Checking(u) /\ Inside' = Inside /\ \A v : Checking(v)' = Checking(v)
    BY <1>1, ElsewhereSets DEF Inv, CallsTyped, Elsewhere, Moves, Checking
  <1>3. /\ failures' = [failures EXCEPT ![u] = IF full THEN 0 ELSE @ + 1]
        /\ locked' = [locked EXCEPT ![u] = @ \/ full]
        /\ ipFailures' = IF ipFailures < MaxIpFailures THEN ipFailures + 1 ELSE ipFailures
        /\ UNCHANGED <<late, permits, calls>>
    BY DEF RecordFailure
  <1>4. BudgetTyped'
    <2>1. failures' \in [Users -> 0..MaxLoginFailures - 1] /\ ipFailures' \in 0..MaxIpFailures
      BY <1>2, <1>3, SessionsAssumption DEF Inv, Budget, BudgetTyped, SessionsAssumption
    <2>2. locked' \in [Users -> BOOLEAN]
      BY <1>2, <1>3 DEF Inv, Budget, BudgetTyped
    <2> QED BY <1>3, <2>1, <2>2 DEF Inv, Budget, BudgetTyped
  <1>5. GateBalanced'
    BY <1>2, <1>3 DEF Inv, Budget, GateBalanced, Inside
  <1>6. LateAccounted'
    <2>1. Cardinality(Checking(u)) < Cardinality(Threads)
      <3>1. IsFiniteSet(Threads) /\ Checking(u) \in SUBSET Threads /\ Checking(u) # Threads
        BY <1>2, SessionsAssumption DEF SessionsAssumption, Checking
      <3> QED BY <3>1, ThreadSets, FS_Subset
    <2> SUFFICES ASSUME NEW v \in Users
                 PROVE  IF locked'[v] THEN late[v] + Cardinality(Checking(v)) < Cardinality(Threads)
                                      ELSE late[v] = 0
      BY <1>2, <1>3 DEF LateAccounted
    <2>2. CASE locked[v]
      <3>1. locked'[v]
        BY <1>2, <1>3, <2>2 DEF Inv, Budget, BudgetTyped
      <3> QED BY <2>2, <3>1 DEF Inv, Budget, LateAccounted
    <2>3. CASE ~locked[v]
      <3>1. late[v] = 0
        BY <2>3 DEF Inv, Budget, LateAccounted
      <3>2. locked'[v] => v = u
        BY <1>2, <1>3, <2>3 DEF Inv, Budget, BudgetTyped
      <3> QED BY <2>1, <3>1, <3>2, ThreadSets
    <2> QED BY <2>2, <2>3
  <1> QED BY <1>4, <1>5, <1>6 DEF Budget

\* A lock that ends takes the count of late checks with it.
LEMMA Unlocked ==
    ASSUME Inv, NEW u \in Users, locked' = [locked EXCEPT ![u] = FALSE], late' = [late EXCEPT ![u] = 0],
           \A v \in Users : Checking(v)' = Checking(v)
    PROVE  locked' \in [Users -> BOOLEAN] /\ late' \in [Users -> Nat] /\ LateAccounted'
  <1>1. locked' \in [Users -> BOOLEAN] /\ late' \in [Users -> Nat]
    BY DEF Inv, Budget, BudgetTyped
  <1>2. LateAccounted'
    BY DEF Inv, Budget, BudgetTyped, LateAccounted
  <1> QED BY <1>1, <1>2

\* A success clears what was counted.
LEMMA RecordSuccessBudget ==
    ASSUME Inv, NEW t \in Threads, RecordSuccess(t)
    PROVE  Budget'
  <1> DEFINE u == call[t].user
  <1>1. PICK c \in ServedCalls : Elsewhere(t, c)
    BY LoginStepsMove DEF LoginSteps
  <1>2. u \in Users /\ Inside' = Inside /\ \A v : Checking(v)' = Checking(v)
    BY <1>1, ElsewhereSets DEF Inv, CallsTyped, Elsewhere, Moves
  <1>3. /\ failures' = [failures EXCEPT ![u] = 0]
        /\ locked' = [locked EXCEPT ![u] = FALSE] /\ late' = [late EXCEPT ![u] = 0]
        /\ UNCHANGED <<ipFailures, permits, calls>>
    BY DEF RecordSuccess
  <1>4. failures' \in [Users -> 0..MaxLoginFailures - 1]
    BY <1>2, <1>3, SessionsAssumption DEF Inv, Budget, BudgetTyped, SessionsAssumption
  <1>5. BudgetTyped' /\ LateAccounted'
    BY <1>2, <1>3, <1>4, Unlocked DEF Inv, Budget, BudgetTyped
  <1>6. GateBalanced'
    BY <1>2, <1>3 DEF Inv, Budget, GateBalanced, Inside
  <1> QED BY <1>5, <1>6 DEF Budget

\* Every step of a call.
LEMMA ServeBudget ==
    ASSUME Inv, NEW t \in Threads, Serve(t)
    PROVE  Budget'
  <1>1. CASE FindUser(t) \/ EnterGate(t) \/ GateTimeout(t) \/ CheckPassword(t) \/ RecordFailure(t) \/ RecordSuccess(t)
    BY <1>1, FindUserBudget, EnterGateBudget, GateTimeoutBudget, CheckPasswordBudget, RecordFailureBudget,
       RecordSuccessBudget
  <1>2. CASE (LoginSteps(t) /\ ~RecordFailure(t) /\ ~RecordSuccess(t)) \/ AccountSteps(t)
    <2>1. PICK c \in ServedCalls : Elsewhere(t, c)
      BY <1>2, LoginStepsMove, AccountStepsMove
    <2>2. Inside' = Inside /\ \A u : Checking(u)' = Checking(u)
      BY <2>1, ElsewhereSets DEF Inv
    <2>3. CASE LoginSteps(t) /\ ~RecordFailure(t) /\ ~RecordSuccess(t)
      <3>1. UNCHANGED <<budgetVars, permits, calls>>
        BY <2>3 DEF LoginSteps, CreatePending, IssueAccess, IssueRefresh, Issue, Consume, ReadOwner, CheckCode,
           Rotate, RevokeAccess, RevokeCookie, RevokeOthers
      <3> QED BY <2>2, <3>1, SetsKept DEF Inv, Budget, BudgetTyped
    <2>4. CASE AccountSteps(t)
      <3>1. UNCHANGED <<budgetVars, permits, calls>>
        BY <2>4 DEF AccountSteps, Setup, SetupUnset, SetSecret, SetEnabled, ReadSecret, Confirmed, ClearSecret,
           SwitchOff, RevokePending, Insert, CheckOthers, Update, RevokeAll, DeleteUser
      <3> QED BY <2>2, <3>1, SetsKept DEF Inv, Budget, BudgetTyped
    <2> QED BY <1>2, <2>3, <2>4
  <1> QED BY <1>1, <1>2 DEF Serve, LoginSteps, AccountSteps

(***************************************************************************)
(* The inductive invariant.                                                *)
(***************************************************************************)

LEMMA InitInv ==
    ASSUME Init
    PROVE  Inv
  <1>1. CallsTyped
    BY IdleIsCall DEF Init, CallsTyped
  <1>2. Rows
    BY SessionsAssumption
       DEF Init, SessionsAssumption, Rows, RowsTyped, Statuses, RowsOwned, OnePending, Exists
  <1>3. BudgetTyped
    BY SessionsAssumption DEF Init, SessionsAssumption, BudgetTyped
  <1>4. GateBalanced
    <2>1. {t \in Threads : At(t, "check")} = {}
      BY DEF Init, At, Idle
    <2>2. Cardinality({t \in Threads : At(t, "check")}) = 0
      BY <2>1, FS_EmptySet
    <2>3. permits = MaxChecks /\ MaxChecks \in Nat
      BY SessionsAssumption DEF Init, SessionsAssumption
    <2> QED BY <2>2, <2>3 DEF GateBalanced
  <1>5. LateAccounted
    BY DEF Init, LateAccounted
  <1> QED BY <1>1, <1>2, <1>3, <1>4, <1>5 DEF Inv, Budget

LEMMA RequestInv ==
    ASSUME Inv, NEW t \in Threads, Request(t)
    PROVE  Inv'
  <1>1. PICK c \in ServedCalls : Begins(t, c)
    BY RequestBegins
  <1>2. CallsTyped'
    BY <1>1 DEF Inv, CallsTyped, Begins, Begin
  <1>3. Rows'
    BY <1>1, TokensGo DEF Inv, Begins, Begin, tokenVars
  <1> QED BY <1>1, <1>2, <1>3, BeginBudget DEF Inv

LEMMA ServeInv ==
    ASSUME Inv, NEW t \in Threads, Serve(t)
    PROVE  Inv'
  <1>1. \E c \in ServedCalls : Moves(t, c)
    <2>1. CASE FindUser(t) \/ EnterGate(t) \/ GateTimeout(t) \/ CheckPassword(t)
      BY <2>1, CheckingMoves
    <2>2. CASE LoginSteps(t) \/ AccountSteps(t)
      BY <2>2, LoginStepsMove, AccountStepsMove DEF Elsewhere
    <2> QED BY <2>1, <2>2 DEF Serve, LoginSteps, AccountSteps
  <1>2. CallsTyped'
    BY <1>1, MovesTyped DEF Inv
  <1> QED BY <1>2, ServeRows, ServeBudget DEF Inv

\* Time passes.
LEMMA TimeInv ==
    ASSUME Inv, (\E k \in tokens : TokenExpires(k)) \/ (\E u \in Users : LockEnds(u)) \/ WindowEnds
    PROVE  Inv'
  <1>1. CASE \E k \in tokens : TokenExpires(k)
    <2>1. Rows'
      BY <1>1, TokensGo DEF Inv, TokenExpires
    <2>2. Budget'
      BY <1>1, SetsKept DEF Inv, Budget, BudgetTyped, TokenExpires, Inside, Checking, At
    <2> QED BY <1>1, <2>1, <2>2 DEF Inv, CallsTyped, TokenExpires
  <1>2. CASE \E u \in Users : LockEnds(u)
    <2>1. PICK u \in Users : LockEnds(u)
      BY <1>2
    <2>2. Rows'
      BY <2>1, TokensGo DEF Inv, LockEnds, tokenVars
    <2>3. BudgetTyped' /\ LateAccounted'
      BY <2>1, Unlocked DEF LockEnds, Checking, Inv, Budget, BudgetTyped
    <2>4. GateBalanced'
      BY <2>1 DEF LockEnds, Inv, Budget, GateBalanced, At
    <2> QED BY <2>1, <2>2, <2>3, <2>4 DEF Inv, Budget, CallsTyped, LockEnds
  <1>3. CASE WindowEnds
    <2>1. Rows'
      BY <1>3, TokensGo DEF Inv, WindowEnds, tokenVars
    <2>2. BudgetTyped'
      BY <1>3, SessionsAssumption DEF WindowEnds, Inv, Budget, BudgetTyped, SessionsAssumption
    <2>3. GateBalanced' /\ LateAccounted'
      BY <1>3 DEF WindowEnds, Inv, Budget, GateBalanced, LateAccounted, Checking, At
    <2> QED BY <1>3, <2>1, <2>2, <2>3 DEF Inv, Budget, CallsTyped, WindowEnds
  <1> QED BY <1>1, <1>2, <1>3

LEMMA StutterInv ==
    ASSUME Inv, UNCHANGED vars
    PROVE  Inv'
  <1>1. Rows'
    BY TokensGo DEF Inv, vars, tokenVars
  <1>2. Budget'
    BY SetsKept DEF vars, Inv, Budget, BudgetTyped, Inside, Checking, At
  <1> QED BY <1>1, <1>2 DEF Inv, CallsTyped, vars

LEMMA NextInv ==
    ASSUME Inv, [Next]_vars
    PROVE  Inv'
  BY RequestInv, ServeInv, TimeInv, StutterInv DEF Next

\* The inductive invariant holds, for any users, threads, limits and calls.
THEOREM Invariance == Spec => []Inv
  <1>1. Init => Inv
    BY InitInv
  <1>2. Inv /\ [Next]_vars => Inv'
    BY NextInv
  <1> QED BY <1>1, <1>2, PTL DEF Spec

\* The variables keep their types, and the counters of the budget stay below their limits.
THEOREM TypeCorrect == Spec => []TypeOK
  <1>1. Inv => TypeOK
    <2> SUFFICES ASSUME Inv PROVE TypeOK
      OBVIOUS
    <2>1. permits \in 0..MaxChecks
      BY ThreadSets, SessionsAssumption
         DEF Inv, Budget, BudgetTyped, GateBalanced, Inside, SessionsAssumption
    <2>2. /\ \A u \in Users : /\ status[u] \in {"never", "on", "off", "deleted"}
                              /\ role[u] \in {"admin", "other"} /\ failures[u] \in 0..MaxLoginFailures - 1
          /\ \A k \in tokens : k.kind \in {"access", "refresh"} /\ k.id \in 0..minted
          /\ ipFailures \in 0..MaxIpFailures /\ calls \in 0..MaxCalls
      BY DEF Inv, Rows, RowsTyped, Statuses, Budget, BudgetTyped
    <2>3. \A u \in Users : secret[u] \in BOOLEAN /\ enabled[u] \in BOOLEAN /\ locked[u] \in BOOLEAN
      BY DEF Inv, Rows, RowsTyped, Budget, BudgetTyped
    <2> QED BY <2>1, <2>2, <2>3 DEF TypeOK
  <1> QED BY <1>1, Invariance, PTL

\* No token of a user who is not there, whichever transactions the deletion falls between.
THEOREM TokensHaveOwners == Spec => []RowsOwned
  <1>1. Inv => RowsOwned
    BY DEF Inv, Rows
  <1> QED BY <1>1, Invariance, PTL

\* One pending token of a user, however many logins overlap.
THEOREM PendingIsUnique == Spec => []OnePending
  <1>1. Inv => OnePending
    BY DEF Inv, Rows
  <1> QED BY <1>1, Invariance, PTL

\* The permits of the gate and the checks inside it add up to its size.
THEOREM GateLosesNothing == Spec => []GateBalanced
  <1>1. Inv => GateBalanced
    BY DEF Inv, Budget
  <1> QED BY <1>1, Invariance, PTL

\* A lock is passed by fewer checks than there are threads.
THEOREM LateChecksAreFew == Spec => []LateChecksBounded
  <1>1. Inv => LateChecksBounded
    <2> SUFFICES ASSUME Inv, NEW u \in Users PROVE late[u] < Cardinality(Threads)
      BY DEF LateChecksBounded
    <2>1. late[u] \in Nat /\ Cardinality(Checking(u)) \in Nat /\ Cardinality(Threads) \in Nat \ {0}
      BY ThreadSets DEF Inv, Budget, BudgetTyped
    <2> QED BY <2>1 DEF Inv, Budget, LateAccounted
  <1> QED BY <1>1, Invariance, PTL

=============================================================================
