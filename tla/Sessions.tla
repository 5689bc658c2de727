------------------------------ MODULE Sessions ------------------------------
(* Family accounts: the rows of users, auth_tokens and pending_2fa and the   *)
(* request threads that change them, one action per transaction, with the    *)
(* login budget and the gate before bcrypt that the threads of a worker      *)
(* share.                                                                    *)
(*                                                                           *)
(* Passwords and codes are right or wrong; a call that is refused before it  *)
(* changes or keeps anything is not begun.  A token that expires is gone:    *)
(* require_user, refresh and the hourly janitor delete it, nothing takes it. *)
EXTENDS Integers, FiniteSets

CONSTANTS
    Users,
    Admins,             \* those that exist at first, as administrators, with a session each
    Threads,            \* the threads that serve requests
    MaxLoginFailures,   \* _LOGIN_MAX_FAILURES
    MaxIpFailures,      \* _IP_MAX_FAILURES; everybody comes from one address
    MaxChecks,          \* _BCRYPT_MAX_CONCURRENT
    MaxCalls            \* bound: calls

ASSUME SessionsAssumption ==
    /\ Admins \subseteq Users /\ IsFiniteSet(Threads) /\ Threads # {}
    /\ MaxLoginFailures \in Nat \ {0} /\ MaxIpFailures \in Nat \ {0}
    /\ MaxChecks \in Nat \ {0} /\ MaxCalls \in Nat

VARIABLES
    status,             \* per user: "never", "on", "off" (disabled) or "deleted"
    role,               \* per user: "admin" or "other"
    secret, enabled,    \* per user: totp_secret_enc is set, totp_enabled
    tokens,             \* auth_tokens: [user, kind, id]
    pending,            \* pending_2fa: [user, id]
    minted,             \* tokens minted so far; the last id
    failures, locked,   \* per user: the entry of _login_attempts
    ipFailures,         \* the entry of _ip_attempts
    permits,            \* _bcrypt_gate
    late,               \* observer, per user: password checks while locked
    call,               \* per thread: the call it serves
    calls

accountVars == <<status, role, secret, enabled>>
tokenVars == <<tokens, pending, minted>>
budgetVars == <<failures, locked, ipFailures, late>>
vars == <<accountVars, tokenVars, budgetVars, permits, call, calls>>

NoUser == "nobody"
Idle == [pc |-> "idle", user |-> NoUser, actor |-> NoUser, id |-> 0, change |-> "none", seen |-> "never", twofa |-> FALSE]

Exists(u) == status[u] \in {"on", "off"}
ActiveAdmin(u) == status[u] = "on" /\ role[u] = "admin"

Init ==
    /\ status = [u \in Users |-> IF u \in Admins THEN "on" ELSE "never"]
    /\ role = [u \in Users |-> IF u \in Admins THEN "admin" ELSE "other"]
    /\ secret \in [Users -> BOOLEAN] /\ enabled = secret
    /\ \A u \in Users \ Admins : ~secret[u]
    /\ tokens = [user : Admins, kind : {"access", "refresh"}, id : {0}]
    /\ pending = {} /\ minted = 0
    /\ failures = [u \in Users |-> 0] /\ locked = [u \in Users |-> FALSE]
    /\ ipFailures = 0 /\ late = [u \in Users |-> 0]
    /\ permits = MaxChecks
    /\ call = [t \in Threads |-> Idle] /\ calls = 0

-----------------------------------------------------------------------------
At(t, pc) == call[t].pc = pc
Goto(t, pc) == call' = [call EXCEPT ![t].pc = pc]
End(t) == call' = [call EXCEPT ![t] = Idle]
EndWhen(t, over, pc) == call' = [call EXCEPT ![t] = IF over THEN Idle ELSE [@ EXCEPT !.pc = pc]]

Begin(t, c) ==
    /\ At(t, "idle")
    /\ calls < MaxCalls /\ calls' = calls + 1
    /\ call' = [call EXCEPT ![t] = c]
    /\ UNCHANGED <<accountVars, tokenVars, budgetVars, permits>>

Call(pc, u) == [Idle EXCEPT !.pc = pc, !.user = u]

\* require_user: an access token of a user who is not disabled.
Admitted == {k \in tokens : k.kind = "access" /\ status[k.user] = "on"}
\* require_role("admin")
AdminsIn == {k.user : k \in {k \in Admitted : role[k.user] = "admin"}}

-----------------------------------------------------------------------------
(* Login, second step, refresh.                                            *)

\* Mutant: the lock is not looked at.
LetThroughLocked(u) == ipFailures < MaxIpFailures

\* check_login_rate_limit
LetThrough(u) == ~locked[u] /\ ipFailures < MaxIpFailures

Login(t, u) == LetThrough(u) /\ Begin(t, Call("find", u))

FindUser(t) ==
    /\ At(t, "find")
    /\ LET u == call[t].user
       IN  call' = [call EXCEPT ![t] = [@ EXCEPT !.pc = "gate", !.seen = status[u], !.twofa = enabled[u]]]
    /\ UNCHANGED <<accountVars, tokenVars, budgetVars, permits, calls>>

EnterGate(t) ==
    /\ At(t, "gate")
    /\ permits > 0 /\ permits' = permits - 1
    /\ Goto(t, "check")
    /\ UNCHANGED <<accountVars, tokenVars, budgetVars, calls>>

\* 503 after _BCRYPT_WAIT_SEC
GateTimeout(t) ==
    /\ At(t, "gate")
    /\ permits = 0
    /\ End(t)
    /\ UNCHANGED <<accountVars, tokenVars, budgetVars, permits, calls>>

\* The permit goes back, whatever the check has found.
LeaveGate == permits' = permits + 1

CheckPassword(t) ==
    /\ At(t, "check")
    /\ \E ok \in {FALSE, call[t].seen = "on"} :
        /\ Goto(t, IF ~ok THEN "fail" ELSE IF call[t].twofa THEN "second" ELSE "success")
        /\ LeaveGate
    /\ late' = [late EXCEPT ![call[t].user] = IF locked[call[t].user] THEN @ + 1 ELSE @]
    /\ UNCHANGED <<accountVars, tokenVars, failures, locked, ipFailures, calls>>

\* Mutant: the count goes on after the lock.
RecordFailureCounts(t) ==
    /\ At(t, "fail")
    /\ failures' = [failures EXCEPT ![call[t].user] = @ + 1]
    /\ locked' = [locked EXCEPT ![call[t].user] = @ \/ failures'[call[t].user] >= MaxLoginFailures]
    /\ ipFailures' = IF ipFailures < MaxIpFailures THEN ipFailures + 1 ELSE ipFailures
    /\ End(t)
    /\ UNCHANGED <<accountVars, tokenVars, late, permits, calls>>

\* record_login_failure
RecordFailure(t) ==
    /\ At(t, "fail")
    /\ LET u == call[t].user
           full == failures[u] + 1 >= MaxLoginFailures
       IN  /\ failures' = [failures EXCEPT ![u] = IF full THEN 0 ELSE @ + 1]
           /\ locked' = [locked EXCEPT ![u] = @ \/ full]
    /\ ipFailures' = IF ipFailures < MaxIpFailures THEN ipFailures + 1 ELSE ipFailures
    /\ End(t)
    /\ UNCHANGED <<accountVars, tokenVars, late, permits, calls>>

\* record_login_success: the entry goes, its lock with it.
RecordSuccess(t) ==
    /\ At(t, "success")
    /\ failures' = [failures EXCEPT ![call[t].user] = 0]
    /\ locked' = [locked EXCEPT ![call[t].user] = FALSE]
    /\ late' = [late EXCEPT ![call[t].user] = 0]
    /\ Goto(t, "access")
    /\ UNCHANGED <<accountVars, tokenVars, ipFailures, permits, calls>>

\* Mutant: the earlier ones stay.
CreatePendingAdds(t) ==
    /\ At(t, "second")
    /\ IF Exists(call[t].user)
         THEN /\ minted' = minted + 1
              /\ pending' = pending \cup {[user |-> call[t].user, id |-> minted']}
         ELSE UNCHANGED <<minted, pending>>
    /\ End(t)
    /\ UNCHANGED <<accountVars, tokens, budgetVars, permits, calls>>

\* create_pending_2fa, unless the foreign key fails.
CreatePending(t) ==
    /\ At(t, "second")
    /\ IF Exists(call[t].user)
         THEN /\ minted' = minted + 1
              /\ pending' = {p \in pending : p.user # call[t].user}
                              \cup {[user |-> call[t].user, id |-> minted']}
         ELSE UNCHANGED <<minted, pending>>
    /\ End(t)
    /\ UNCHANGED <<accountVars, tokens, budgetVars, permits, calls>>

\* issue_token, unless the foreign key fails.
Issue(t, kind, pc) ==
    /\ IF Exists(call[t].user)
         THEN /\ minted' = minted + 1
              /\ tokens' = tokens \cup {[user |-> call[t].user, kind |-> kind, id |-> minted']}
         ELSE UNCHANGED <<minted, tokens>>
    /\ EndWhen(t, ~Exists(call[t].user) \/ pc = "idle", pc)
    /\ UNCHANGED <<accountVars, pending, budgetVars, permits, calls>>

IssueAccess(t) == At(t, "access") /\ Issue(t, "access", "refresh")
IssueRefresh(t) == At(t, "refresh") /\ Issue(t, "refresh", "idle")

\* consume_pending_2fa: the row is read, and deleted in a transaction of its own.
Verify(t, p) == p \in pending /\ Begin(t, [Call("consume", p.user) EXCEPT !.id = p.id])

Consume(t) ==
    /\ At(t, "consume")
    /\ pending' = {p \in pending : p.id # call[t].id}
    /\ Goto(t, "owner")
    /\ UNCHANGED <<accountVars, tokens, minted, budgetVars, permits, calls>>

\* Over when the token has expired, the user is gone or the budget is spent.
ReadOwner(t) ==
    /\ At(t, "owner")
    /\ \/ End(t)
       \/ LET u == call[t].user
          IN  /\ status[u] = "on" /\ LetThrough(u)
              /\ call' = [call EXCEPT ![t] = [@ EXCEPT !.pc = "code", !.twofa = enabled[u]]]
    /\ UNCHANGED <<accountVars, tokenVars, budgetVars, permits, calls>>

CheckCode(t) ==
    /\ At(t, "code")
    /\ IF call[t].twofa /\ secret[call[t].user]
         THEN \E pc \in {"fail", "success"} : Goto(t, pc)
         ELSE End(t)
    /\ UNCHANGED <<accountVars, tokenVars, budgetVars, permits, calls>>

\* refresh: looked up, revoked, minted anew.
Refresh(t, k) ==
    /\ k \in tokens /\ k.kind = "refresh" /\ status[k.user] = "on"
    /\ Begin(t, [Call("rotate", k.user) EXCEPT !.id = k.id])

Revoke(user, id, kind) ==
    tokens' = {k \in tokens : ~(k.user = user /\ k.id = id /\ k.kind = kind)}

Rotate(t) ==
    /\ At(t, "rotate")
    /\ Revoke(call[t].user, call[t].id, "refresh")
    /\ Goto(t, "access")
    /\ UNCHANGED <<accountVars, pending, minted, budgetVars, permits, calls>>

-----------------------------------------------------------------------------
(* What a user does to the own account.                                    *)

OwnCall(t, k, pc) == k \in Admitted /\ Begin(t, [Call(pc, k.user) EXCEPT !.actor = k.user, !.id = k.id])

\* The bearer token, then the cookie's.
RevokeAccess(t) ==
    /\ At(t, "logout")
    /\ Revoke(call[t].user, call[t].id, "access")
    /\ Goto(t, "cookie")
    /\ UNCHANGED <<accountVars, pending, minted, budgetVars, permits, calls>>

RevokeCookie(t) ==
    /\ At(t, "cookie")
    /\ \E id \in 0..minted : Revoke(call[t].user, id, "refresh")
    /\ End(t)
    /\ UNCHANGED <<accountVars, pending, minted, budgetVars, permits, calls>>

\* revoke_all_tokens_except, after the new password has been stored.
RevokeOthers(t) ==
    /\ At(t, "others")
    /\ tokens' = {k \in tokens : k.user = call[t].user => k.kind = "access" /\ k.id = call[t].id}
    /\ End(t)
    /\ UNCHANGED <<accountVars, pending, minted, budgetVars, permits, calls>>

\* set_totp_secret, set_totp_enabled
SetSecret(t, pc, value, next) ==
    /\ At(t, pc)
    /\ secret' = [secret EXCEPT ![call[t].user] = IF Exists(call[t].user) THEN value ELSE @]
    /\ Goto(t, next)
    /\ UNCHANGED <<status, role, enabled, tokenVars, budgetVars, permits, calls>>

SetEnabled(t, pc, value, next) ==
    /\ At(t, pc)
    /\ enabled' = [enabled EXCEPT ![call[t].user] = IF Exists(call[t].user) THEN value ELSE @]
    /\ EndWhen(t, next = "idle", next)
    /\ UNCHANGED <<status, role, secret, tokenVars, budgetVars, permits, calls>>

Setup(t) == SetSecret(t, "setup", TRUE, "unset")
SetupUnset(t) == SetEnabled(t, "unset", FALSE, "idle")

\* The code the user gives is checked against the secret that is read.
ReadSecret(t) ==
    /\ At(t, "confirm") \/ At(t, "disable")
    /\ IF secret[call[t].user]
         THEN Goto(t, IF At(t, "confirm") THEN "confirmed" ELSE "clear")
         ELSE End(t)
    /\ UNCHANGED <<accountVars, tokenVars, budgetVars, permits, calls>>

Confirmed(t) == SetEnabled(t, "confirmed", TRUE, "idle")

ClearSecret(t) == SetSecret(t, "clear", FALSE, "cleared")
SwitchOff(t) == SetEnabled(t, "cleared", FALSE, "unpend")

RevokePending(t) ==
    /\ At(t, "unpend")
    /\ pending' = {p \in pending : p.user # call[t].user}
    /\ End(t)
    /\ UNCHANGED <<accountVars, tokens, minted, budgetVars, permits, calls>>

-----------------------------------------------------------------------------
(* What an administrator does.                                             *)

AdminCall(t, a, pc, u, change) ==
    /\ a \in AdminsIn
    /\ Begin(t, [Call(pc, u) EXCEPT !.actor = a, !.change = change])

Create(t, a, u) == status[u] = "never" /\ AdminCall(t, a, "insert", u, "none")

\* The name is unique: the second of two inserts fails.
Insert(t) ==
    /\ At(t, "insert")
    /\ LET u == call[t].user
       IN  IF status[u] = "never"
             THEN \E r \in IF call[t].change = "promote" THEN {"admin"} ELSE {"admin", "other"} :
                    status' = [status EXCEPT ![u] = "on"] /\ role' = [role EXCEPT ![u] = r]
             ELSE UNCHANGED <<status, role>>
    /\ End(t)
    /\ UNCHANGED <<secret, enabled, tokenVars, budgetVars, permits, calls>>

Removing == {"demote", "disable"}

Patch(t, a, u, change) ==
    /\ Exists(u)
    /\ AdminCall(t, a, IF change \in Removing THEN "lastAdmin" ELSE "update", u, change)

Others(u) == {v \in Users \ {u} : ActiveAdmin(v)}

\* "cannot demote or disable the last admin", "cannot delete the last admin"
CheckOthers(t) ==
    /\ At(t, "lastAdmin") \/ At(t, "lastAdminDeleted")
    /\ LET u == call[t].user
       IN  EndWhen(t, (At(t, "lastAdmin") => ActiveAdmin(u)) /\ Others(u) = {},
                   IF At(t, "lastAdmin") THEN "update" ELSE "delete")
    /\ UNCHANGED <<accountVars, tokenVars, budgetVars, permits, calls>>

Update(t) ==
    /\ At(t, "update")
    /\ LET u == call[t].user
           c == call[t].change
       IN  /\ IF Exists(u)
                THEN /\ status' = [status EXCEPT ![u] = IF c = "disable" THEN "off" ELSE IF c = "enable" THEN "on" ELSE @]
                     /\ role' = [role EXCEPT ![u] = IF c = "demote" THEN "other" ELSE IF c = "promote" THEN "admin" ELSE @]
                ELSE UNCHANGED <<status, role>>
           /\ EndWhen(t, c # "password" \/ u = call[t].actor, "revokeAll")
    /\ UNCHANGED <<secret, enabled, tokenVars, budgetVars, permits, calls>>

ForceLogout(t, a, u) == AdminCall(t, a, "revokeAll", u, "none")

RevokeAll(t) ==
    /\ At(t, "revokeAll")
    /\ tokens' = {k \in tokens : k.user # call[t].user}
    /\ End(t)
    /\ UNCHANGED <<accountVars, pending, minted, budgetVars, permits, calls>>

DisableTwoFactor(t, a, u) == Exists(u) /\ AdminCall(t, a, "clear", u, "none")

\* Only who deletes the own account is looked at.
Delete(t, a, u) == Exists(u) /\ AdminCall(t, a, IF u = a THEN "lastAdminDeleted" ELSE "delete", u, "none")

\* Mutant: no ON DELETE CASCADE for the pending tokens.
CascadeTokens(u) ==
    /\ tokens' = {k \in tokens : k.user # u}
    /\ UNCHANGED pending

Cascade(u) ==
    /\ tokens' = {k \in tokens : k.user # u}
    /\ pending' = {p \in pending : p.user # u}

DeleteUser(t) ==
    /\ At(t, "delete")
    /\ LET u == call[t].user
       IN  IF Exists(u)
             THEN /\ status' = [status EXCEPT ![u] = "deleted"]
                  /\ secret' = [secret EXCEPT ![u] = FALSE] /\ enabled' = [enabled EXCEPT ![u] = FALSE]
                  /\ Cascade(u)
             ELSE UNCHANGED <<status, secret, enabled, tokens, pending>>
    /\ End(t)
    /\ UNCHANGED <<role, minted, budgetVars, permits, calls>>

-----------------------------------------------------------------------------
(* The command line: a process of its own, beside the request threads.     *)

CreateAdmin(t, u) == status[u] = "never" /\ Begin(t, [Call("insert", u) EXCEPT !.change = "promote"])

ResetPassword(t, u) == Exists(u) /\ Begin(t, [Call("update", u) EXCEPT !.change = "password"])

Disable2fa(t, u) == Exists(u) /\ Begin(t, Call("clear", u))

-----------------------------------------------------------------------------
TokenExpires(k) ==
    /\ tokens' = tokens \ {k}
    /\ UNCHANGED <<accountVars, pending, minted, budgetVars, permits, call, calls>>

\* locked_until is over.
LockEnds(u) ==
    /\ locked[u]
    /\ locked' = [locked EXCEPT ![u] = FALSE]
    /\ late' = [late EXCEPT ![u] = 0]
    /\ UNCHANGED <<accountVars, tokenVars, failures, ipFailures, permits, call, calls>>

\* _IP_WINDOW_SEC is over.
WindowEnds ==
    /\ ipFailures > 0 /\ ipFailures' = 0
    /\ UNCHANGED <<accountVars, tokenVars, failures, locked, late, permits, call, calls>>

Request(t) ==
    \/ \E u \in Users : Login(t, u) \/ CreateAdmin(t, u) \/ ResetPassword(t, u) \/ Disable2fa(t, u)
    \/ \E p \in pending : Verify(t, p)
    \/ \E k \in tokens : Refresh(t, k)
    \/ \E k \in tokens, pc \in {"logout", "others", "setup", "confirm", "disable"} : OwnCall(t, k, pc)
    \/ \E a \in AdminsIn, u \in Users :
        \/ Create(t, a, u) \/ ForceLogout(t, a, u) \/ DisableTwoFactor(t, a, u) \/ Delete(t, a, u)
        \/ \E c \in {"demote", "promote", "disable", "enable", "password"} : Patch(t, a, u, c)

Serve(t) ==
    \/ FindUser(t) \/ EnterGate(t) \/ GateTimeout(t) \/ CheckPassword(t)
    \/ RecordFailure(t) \/ RecordSuccess(t) \/ CreatePending(t)
    \/ IssueAccess(t) \/ IssueRefresh(t) \/ Consume(t) \/ ReadOwner(t) \/ CheckCode(t) \/ Rotate(t)
    \/ RevokeAccess(t) \/ RevokeCookie(t) \/ RevokeOthers(t)
    \/ Setup(t) \/ SetupUnset(t) \/ ReadSecret(t) \/ Confirmed(t)
    \/ ClearSecret(t) \/ SwitchOff(t) \/ RevokePending(t)
    \/ Insert(t) \/ CheckOthers(t) \/ Update(t) \/ RevokeAll(t) \/ DeleteUser(t)

Next ==
    \/ \E t \in Threads : Request(t) \/ Serve(t)
    \/ \E k \in tokens : TokenExpires(k)
    \/ \E u \in Users : LockEnds(u)
    \/ WindowEnds

Spec == Init /\ [][Next]_vars

-----------------------------------------------------------------------------
(* Properties.                                                             *)

\* The state; ids of tokens are never used twice.
TypeOK ==
    /\ \A u \in Users :
        /\ status[u] \in {"never", "on", "off", "deleted"} /\ role[u] \in {"admin", "other"}
        /\ secret[u] \in BOOLEAN /\ enabled[u] \in BOOLEAN /\ locked[u] \in BOOLEAN
        /\ failures[u] \in 0..MaxLoginFailures - 1
    /\ \A k \in tokens : k.kind \in {"access", "refresh"} /\ k.id \in 0..minted
    /\ ipFailures \in 0..MaxIpFailures /\ permits \in 0..MaxChecks /\ calls \in 0..MaxCalls

\* "ON DELETE CASCADE drops tokens ... so a family member leaving the household leaves
\* no trace": no token, first or second step, of a user who is not there, though calls
\* of that user were between two transactions when the row went.
RowsOwned == \A k \in tokens \cup pending : Exists(k.user)

\* "A user may hold at most one pending token": however many logins of a user overlap.
OnePending == \A p, q \in pending : p.user = q.user => p = q

\* The permits of the gate before bcrypt are all accounted for: a check that fails, or
\* a call that gives up waiting, never costs one.
GateBalanced == permits + Cardinality({t \in Threads : At(t, "check")}) = MaxChecks

\* "5 failures lock that pair": once it is locked, only calls that were let through
\* before may still check a password, one each.
LateChecksBounded == \A u \in Users : late[u] < Cardinality(Threads)

=============================================================================
