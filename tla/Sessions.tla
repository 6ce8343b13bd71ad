------------------------------ MODULE Sessions ------------------------------
(***************************************************************************)
(* Sessions and the accounts they stand on: the end of verifyOtp,          *)
(* authenticate, logout and revokeAllSessions (apps/dashboard/src/server/  *)
(* auth/session.ts), the administrator's operations of dal/mutate.ts, the  *)
(* rows of packages/database/src/dashboard-auth.ts and the triggers of     *)
(* migration 0010.                                                         *)
(*                                                                         *)
(* Every request works with the instant it took when it arrived and with   *)
(* rows it read statement by statement, none of them in a transaction; the *)
(* role a principal carries is the one its account had when it was read.   *)
(* An administrator's change is two statements, the account and then its   *)
(* sessions, and the request may die between them.                         *)
(***************************************************************************)
EXTENDS Integers, FiniteSets

CONSTANTS
    Accounts,
    SessionIds,
    Requests,       \* requests running at once
    NoOne,          \* SQL NULL: no account, no session
    Roles,          \* bound: the roles an account may be given
    FirstRole,      \* the role of each account at the start
    Expiries,       \* bound: the expiry instants an account may be given
    Never,          \* SQL NULL for an expiry
    Absolute,       \* SESSION_ABSOLUTE_SECONDS, in ticks
    IdleLife,       \* SESSION_IDLE_SECONDS
    TouchInterval,  \* SESSION_TOUCH_INTERVAL_SECONDS
    MaxTime,        \* bound: the clock stops here
    MaxChanges      \* bound: changes of accounts

ASSUME SessionsAssumption == IdleLife \in Nat /\ FirstRole \in [Accounts -> Roles]

VARIABLES
    now,
    account,    \* accounts: role, disabled, expires
    session,    \* sessions
    req,        \* the requests, of every kind
    changes,
    lastUse,    \* history: the arrival of the last request a session let in
    over,       \* history: sessions that were over when a request arrived
    cut         \* history: accounts whose change lost its request half-way

vars == <<now, account, session, req, changes, lastUse, over, cut>>
history == <<lastUse, over, cut>>

-----------------------------------------------------------------------------
AccountRow == [role : Roles, disabled : BOOLEAN, expires : Expiries \cup {Never}]

Absent == [account |-> NoOne, created |-> 0, seen |-> 0, st |-> "none", role |-> NoOne]

\* `role` is history: what the account was when the session was created.
SessionRow == [account : Accounts \cup {NoOne}, created : Nat, seen : Nat,
               st : {"none", "live", "revoked"}, role : Roles \cup {NoOne}]

Idle == [pc |-> "idle", at |-> 0, session |-> NoOne, account |-> NoOne, seen |-> 0,
         role |-> NoOne]

RequestRow == [pc : {"idle", "find", "account", "touch", "reject", "granted", "failed",
                     "presented", "insert", "confirm", "revoke"},
               at : Nat, session : SessionIds \cup {NoOne}, account : Accounts \cup {NoOne},
               seen : Nat, role : Roles \cup {NoOne}]

TypeOK ==
    /\ now \in Nat
    /\ account \in [Accounts -> AccountRow]
    /\ session \in [SessionIds -> SessionRow]
    /\ req \in [Requests -> RequestRow]
    /\ changes \in Nat
    /\ lastUse \in [SessionIds -> Nat]
    /\ over \in [Requests -> BOOLEAN]
    /\ cut \subseteq Accounts

Init ==
    /\ now = 0
    /\ account = [a \in Accounts |-> [role |-> FirstRole[a], disabled |-> FALSE, expires |-> Never]]
    /\ session = [s \in SessionIds |-> Absent]
    /\ req = [r \in Requests |-> Idle]
    /\ changes = 0
    /\ lastUse = [s \in SessionIds |-> 0]
    /\ over = [r \in Requests |-> FALSE]
    /\ cut = {}

-----------------------------------------------------------------------------
Live(s) == session[s].st = "live"
OwnedBy(a) == {s \in SessionIds : session[s].account = a}

Expired(a, at) == account[a].expires # Never /\ account[a].expires <= at

\* accountIsUsable.
Usable(a, at) == ~account[a].disabled /\ ~Expired(a, at)

\* Mutant: a disabled account is left to the revocation of its sessions.
PassesUnlessExpired(a, at) == ~Expired(a, at)

\* The account checks of authenticate.
Passes(a, at) == ~account[a].disabled /\ ~Expired(a, at)

PastAbsolute(s, at) == session[s].created + Absolute <= at

PastIdle(seen, at) == seen + IdleLife <= at

\* Mutant: a session that ends is deleted.
RevokedDeletes(S) == [s \in SessionIds |-> IF s \in S /\ Live(s) THEN NoOne ELSE session[s]]

\* revokeSession and revokeAllSessionsForAccount: only what is live.
Revoked(S) == [s \in SessionIds |-> IF s \in S /\ Live(s) THEN [session[s] EXCEPT !.st = "revoked"]
                                    ELSE session[s]]

Done(r) == req' = [req EXCEPT ![r] = Idle]

\* The session may let nobody in any more, for good.
Over(s) == ~Live(s) \/ account[session[s].account].disabled \/ PastAbsolute(s, now)

\* A request the session lets in.
Used(r) == lastUse' = [lastUse EXCEPT ![req[r].session] = IF req[r].at > @ THEN req[r].at ELSE @]

-----------------------------------------------------------------------------
(* authenticate. *)

\* A request arrives with a session's token and takes its instant.
Arrive(r, s) ==
    /\ req[r].pc = "idle"
    /\ session[s].st # "none"
    /\ req' = [req EXCEPT ![r] = [Idle EXCEPT !.pc = "find", !.at = now, !.session = s,
                                              !.account = session[s].account]]
    /\ over' = [over EXCEPT ![r] = Over(s)]
    /\ UNCHANGED <<now, account, session, changes, lastUse, cut>>

\* The session's row is read: revoked, past one of its two expiries, or not.
Find(r) ==
    LET s == req[r].session IN
    /\ req[r].pc = "find"
    /\ IF ~Live(s) THEN Done(r)
       ELSE req' = [req EXCEPT ![r].seen = session[s].seen,
                               ![r].pc = IF \/ PastAbsolute(s, req[r].at)
                                            \/ PastIdle(session[s].seen, req[r].at)
                                         THEN "reject" ELSE "account"]
    /\ UNCHANGED <<now, account, session, changes, history>>

\* The account's row is read: it may be unusable, and its role is taken.
ReadAccount(r) ==
    LET stale == req[r].at - req[r].seen >= TouchInterval
        next == IF ~Passes(req[r].account, req[r].at) THEN "reject"
                ELSE IF stale THEN "touch" ELSE "granted"
    IN
    /\ req[r].pc = "account"
    /\ req' = [req EXCEPT ![r].pc = next, ![r].role = account[req[r].account].role]
    /\ IF next = "granted" THEN Used(r) ELSE UNCHANGED lastUse
    /\ UNCHANGED <<now, account, session, changes, over, cut>>

\* A session that fails a check after existing is revoked.
Reject(r) ==
    /\ req[r].pc = "reject"
    /\ session' = Revoked({req[r].session})
    /\ Done(r)
    /\ UNCHANGED <<now, account, changes, history>>

\* sessions_guard: last_seen_at does not move backward.
MayTouch(s, at) == at >= session[s].seen

\* touchSession; an UPDATE the trigger refuses fails the request.
Touch(r) ==
    LET s == req[r].session IN
    /\ req[r].pc = "touch"
    /\ \/ /\ MayTouch(s, req[r].at)
          /\ session' = [session EXCEPT ![s].seen = req[r].at]
          /\ req' = [req EXCEPT ![r].pc = "granted"]
          /\ Used(r)
       \/ /\ ~MayTouch(s, req[r].at)
          /\ req' = [req EXCEPT ![r].pc = "failed"]
          /\ UNCHANGED <<session, lastUse>>
    /\ UNCHANGED <<now, account, changes, over, cut>>

\* The request does its reading with the principal, or has failed, and ends.
Serve(r) ==
    /\ req[r].pc \in {"granted", "failed"}
    /\ Done(r)
    /\ UNCHANGED <<now, account, session, changes, history>>

\* logout revokes the principal's own session.
Logout(r) ==
    /\ req[r].pc = "granted"
    /\ session' = Revoked({req[r].session})
    /\ Done(r)
    /\ UNCHANGED <<now, account, changes, history>>

-----------------------------------------------------------------------------
(* The administrator's operations, on the principal just handed out. *)

IsAdministrator(r) == req[r].pc = "granted" /\ req[r].role = "admin"

\* The account's row is written; its sessions are revoked by the next step.
Change(r, b, row) ==
    /\ changes < MaxChanges
    /\ account' = [account EXCEPT ![b] = row]
    /\ session' = session
    /\ changes' = changes + 1
    /\ req' = [req EXCEPT ![r].pc = "revoke", ![r].account = b, ![r].session = NoOne]

\* disableAccount, not of one's own; accounts_guard refuses it a second time.
Disable(r, b) ==
    /\ IsAdministrator(r)
    /\ b # req[r].account
    /\ ~account[b].disabled
    /\ Change(r, b, [account[b] EXCEPT !.disabled = TRUE])
    /\ UNCHANGED <<now, history>>

\* assertRoleExpiry.
RoleExpiry(role, e) == (role = "reader" => e # Never) /\ (e # Never => e > now)

\* assignRole, not of one's own.
AssignRole(r, b, role, e) ==
    /\ IsAdministrator(r)
    /\ b # req[r].account
    /\ RoleExpiry(role, e)
    /\ Change(r, b, [account[b] EXCEPT !.role = role, !.expires = e])
    /\ UNCHANGED <<now, history>>

\* setAccountExpiry, of any account; no session is revoked.
SetExpiry(r, b, e) ==
    /\ IsAdministrator(r)
    /\ RoleExpiry(account[b].role, e)
    /\ changes < MaxChanges
    /\ account' = [account EXCEPT ![b].expires = e]
    /\ changes' = changes + 1
    /\ Done(r)
    /\ UNCHANGED <<now, session, history>>

\* revokeAccountSessions: all of an account, of one's own all but this one.
RevokeSessions(r, b) ==
    /\ IsAdministrator(r)
    /\ session' = Revoked(OwnedBy(b) \ {req[r].session})
    /\ Done(r)
    /\ UNCHANGED <<now, account, changes, history>>

\* revokeAllSessions, the second statement of a change.
RevokeAll(r) ==
    /\ req[r].pc = "revoke"
    /\ session' = Revoked(OwnedBy(req[r].account))
    /\ Done(r)
    /\ UNCHANGED <<now, account, changes, history>>

-----------------------------------------------------------------------------
(* verifyOtp, once the code has been compared (OneTimeCode). *)

\* A sign-in of an account, from a browser that may present a session.
SignIn(r, a, s) ==
    /\ req[r].pc = "idle"
    /\ s \in {NoOne} \cup {t \in SessionIds : Live(t)}
    /\ req' = [req EXCEPT ![r] = [Idle EXCEPT !.pc = "presented", !.at = now, !.session = s,
                                              !.account = a]]
    /\ UNCHANGED <<now, account, session, changes, history>>

\* revokePresented.
Supersede(r) ==
    /\ req[r].pc = "presented"
    /\ session' = Revoked({req[r].session})
    /\ req' = [req EXCEPT ![r].pc = "insert", ![r].session = NoOne]
    /\ UNCHANGED <<now, account, changes, history>>

\* The challenge is consumed and the session inserted under a fresh id, or the
\* challenge is gone (code_already_used).
Insert(r) ==
    /\ req[r].pc = "insert"
    /\ \/ \E s \in SessionIds :
             /\ session[s].st = "none"
             /\ session' = [session EXCEPT ![s] =
                   [account |-> req[r].account, created |-> req[r].at, seen |-> req[r].at,
                    st |-> "live", role |-> account[req[r].account].role]]
             /\ lastUse' = [lastUse EXCEPT ![s] = req[r].at]
             /\ req' = [req EXCEPT ![r].pc = "confirm", ![r].session = s]
       \/ /\ Done(r)
          /\ UNCHANGED <<session, lastUse>>
    /\ UNCHANGED <<now, account, changes, over, cut>>

\* Mutant: the account was looked at before the code was sent.
ConfirmUnread(r) ==
    /\ req[r].pc = "confirm"
    /\ Done(r)
    /\ UNCHANGED <<now, account, session, changes, history>>

\* The account is read after the session exists; an unusable one takes its
\* session back.
Confirm(r) ==
    /\ req[r].pc = "confirm"
    /\ IF Usable(req[r].account, req[r].at) THEN Done(r)
       ELSE req' = [req EXCEPT ![r].pc = "reject"]
    /\ UNCHANGED <<now, account, session, changes, history>>

-----------------------------------------------------------------------------
\* The request dies between two statements.
Die(r) ==
    /\ req[r].pc # "idle"
    /\ cut' = IF req[r].pc \in {"revoke", "confirm", "reject"} THEN cut \cup {req[r].account} ELSE cut
    /\ Done(r)
    /\ UNCHANGED <<now, account, session, changes, lastUse, over>>

Tick ==
    /\ now < MaxTime
    /\ now' = now + 1
    /\ UNCHANGED <<account, session, req, changes, history>>

Authenticate(r) ==
    \/ \E s \in SessionIds : Arrive(r, s)
    \/ Find(r) \/ ReadAccount(r) \/ Reject(r) \/ Touch(r) \/ Serve(r) \/ Logout(r)

Administer(r) ==
    \/ \E b \in Accounts :
          \/ Disable(r, b)
          \/ \E role \in Roles, e \in Expiries \cup {Never} : AssignRole(r, b, role, e)
          \/ \E e \in Expiries \cup {Never} : SetExpiry(r, b, e)
          \/ RevokeSessions(r, b)
    \/ RevokeAll(r)

Enter(r) ==
    \/ \E a \in Accounts, s \in SessionIds \cup {NoOne} : SignIn(r, a, s)
    \/ Supersede(r) \/ Insert(r) \/ Confirm(r)

Next == (\E r \in Requests : Authenticate(r) \/ Administer(r) \/ Enter(r) \/ Die(r)) \/ Tick

Spec == Init /\ [][Next]_vars

-----------------------------------------------------------------------------
(* Properties. *)

\* What has ended lets nobody in: a session that was revoked, at the end of its
\* lifetime or of a disabled account when a request arrived, or that nobody has
\* used for its idle lifetime, gives that request no principal.
EndedLetsNobodyIn ==
    [][\A r \in Requests : req[r].pc # "granted" /\ req'[r].pc = "granted" =>
          ~over[r] /\ req[r].at < lastUse[req[r].session] + IdleLife]_vars

\* A live session stands on its account as it is: the account is not disabled
\* and has the role it had when the session began, unless a request is about
\* to revoke the session or died before it could.
StandsOnItsAccount ==
    \A s \in SessionIds :
        LET a == session[s].account IN
        Live(s) /\ (account[a].disabled \/ account[a].role # session[s].role)
        => \/ a \in cut
           \/ \E r \in Requests :
                 \/ req[r].pc = "revoke" /\ req[r].account = a
                 \/ req[r].pc \in {"confirm", "reject"} /\ req[r].session = s

\* The comment of assignRole, `which keeps the last administrator from locking
\* everyone out by accident`: an administrator remains.
AdministratorRemains == \E a \in Accounts : account[a].role = "admin" /\ ~account[a].disabled
=============================================================================
